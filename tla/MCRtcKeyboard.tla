--------------------------- MODULE MCRtcKeyboard ---------------------------
(***************************************************************************)
(* Instances of RtcKeyboard for TLC: the bytes a guest writes.             *)
(***************************************************************************)
EXTENDS RtcKeyboard

\* Keyboard commands that also serve as operands: 00h clears every mode bit, F0h
\* stops both clocks, and FFh sets every bit.
SomeData == {0, KBD_CMD_SCANCODE, KBD_CMD_RESET}
SomeCommands ==
    {CMD_WRITE_BYTE, CMD_WRITE_MS_OBUF, CMD_DISABLE_1ST_PS2PORT,
     CMD_ENABLE_1ST_PS2PORT, CMD_TEST_CONTROLLER, CMD_ENABLE_2ND_PS2PORT}
MouseCommands == {CMD_DISABLE_2ND_PS2PORT, CMD_ENABLE_2ND_PS2PORT}

\* The hours register and the status registers; with the bytes, register B is
\* written with and without SET, the periodic, the alarm and the update
\* interrupt, and register A with and without a rate and a divider.
SomeRegisters == {4, REG_STAT_A, REG_STAT_B, REG_STAT_C}
SomeCmosBytes == {2, 34, 64, 114, 128, 210}
=============================================================================
