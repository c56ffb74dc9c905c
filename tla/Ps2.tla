-------------------------------- MODULE Ps2 --------------------------------
(***************************************************************************)
(* The keyboard controller of SVMM (ps2.c) as operators on machine records *)
(* with the fields                                                         *)
(*     ps2     the controller and the keyboard behind it                   *)
(*     timer0  slot 0 of the timer table                                   *)
(*     lines   the interrupt lines that are up                             *)
(*     exited  whether the monitor gave up with exit(-1)                   *)
(* Bytes on their way to the guest are counted, not distinguished.  The    *)
(* mouse sends nothing: Ps2WriteMouseMemory has no caller, so its memory   *)
(* is always empty.                                                        *)
(***************************************************************************)
EXTENDS Integers

CONSTANTS
    KBD_CONTROLLER_QSIZE,   \* bytes the controller queues
    KEYBOARD_MEMORY_SIZE    \* bytes the keyboard holds back

ASSUME Ps2Assumption ==
    /\ KBD_CONTROLLER_QSIZE \in Nat
    /\ KEYBOARD_MEMORY_SIZE \in Nat \ {0}

-----------------------------------------------------------------------------
(***************************************************************************)
(* A slot of the timer table of SVMM (timer.c).  How long a slot still     *)
(* waits is left out: an active slot may be due at any tick, and is due    *)
(* again and again as the clock never stops.                               *)
(***************************************************************************)

TIMER == [Active : BOOLEAN, OneShot : BOOLEAN]

\* The slot a device gets from the table.
TimerRegister == [Active |-> TRUE, OneShot |-> FALSE]

TimerActivate(t, oneShot) == [t EXCEPT !.Active = TRUE, !.OneShot = oneShot]

\* The two other assignments of TimerDeactivate go to the slot behind the last.
TimerDeactivate(t) == [t EXCEPT !.Active = FALSE]

\* TimerTick, once the handler of a slot that was due has returned.
TimerFired(t) == [t EXCEPT !.Active = @ /\ ~t.OneShot]

-----------------------------------------------------------------------------
(***************************************************************************)
(* The state of the controller.                                            *)
(***************************************************************************)

Byte == 0..255
Bits(v) == {k \in 0..7 : (v \div 2^k) % 2 = 1}

\* Status bits: output buffer full, and full with a mouse byte; self test
\* passed; the last write was a command.  The input buffer is never full.
STATUS == {"KB_BUFFER_FULL", "MS_BUFFER_FULL", "SYSTEM_TEST", "COMMAND_LAST"}

\* Bits of the data (mode) register.
DATA_KB_INTERRUPT == 0
DATA_MS_INTERRUPT == 1
DATA_DISABLE_KEYBOARD == 4
DATA_DISABLE_MOUSE == 5

KEYBOARD_IRQ == 1
MOUSE_IRQ == 12

\* struct _PS2 and struct _KEYBOARD.  KeyboardBuffer tells whether the byte in
\* it is still to be read.
PS2 == [StatusRegister : SUBSET STATUS,
        DataRegister : SUBSET (0..7),
        CommandBuffer : Byte,
        ControllerQueueIndex : 0..KBD_CONTROLLER_QSIZE,
        KeyboardBuffer : BOOLEAN,
        TimerPending : 0..1,
        KeyboardMemoryIndex : 0..KEYBOARD_MEMORY_SIZE,
        KeyboardClockEnabled : BOOLEAN,
        MouseClockEnabled : BOOLEAN,
        ScanCodeEnabled : BOOLEAN]

Ps2Initialize ==
    [StatusRegister |-> {}, DataRegister |-> {}, CommandBuffer |-> 0,
     ControllerQueueIndex |-> 0, KeyboardBuffer |-> FALSE, TimerPending |-> 0,
     KeyboardMemoryIndex |-> 0, KeyboardClockEnabled |-> FALSE,
     MouseClockEnabled |-> FALSE, ScanCodeEnabled |-> FALSE]

Full(p) == "KB_BUFFER_FULL" \in p.StatusRegister
HoldsMouse(p) == "MS_BUFFER_FULL" \in p.StatusRegister

PutPs2(m, p) == [m EXCEPT !.ps2 = p]
Exit(m) == [m EXCEPT !.exited = TRUE]
PicRaise(m, irqs) == [m EXCEPT !.lines = @ \cup irqs]
PicLower(m, irq) == [m EXCEPT !.lines = @ \ {irq}]

-----------------------------------------------------------------------------
(***************************************************************************)
(* Towards the guest.                                                      *)
(***************************************************************************)

\* A byte enters the empty output buffer.
KeyboardByte(p) ==
    [p EXCEPT !.StatusRegister =
                  (@ \cup {"KB_BUFFER_FULL"}) \ {"MS_BUFFER_FULL"},
              !.KeyboardBuffer = TRUE,
              !.DataRegister = @ \cup {DATA_KB_INTERRUPT}]
MouseByte(p) ==
    [p EXCEPT !.StatusRegister = @ \cup {"KB_BUFFER_FULL", "MS_BUFFER_FULL"},
              !.DataRegister = @ \cup {DATA_MS_INTERRUPT}]

Ps2QueueByte(m, Device) ==
    LET p == m.ps2
    IN  IF ~Full(p)
        THEN PutPs2(m, IF Device = "keyboard" THEN KeyboardByte(p)
                       ELSE MouseByte(p))
        ELSE IF p.ControllerQueueIndex < KBD_CONTROLLER_QSIZE
        THEN PutPs2(m, [p EXCEPT !.ControllerQueueIndex = @ + 1])
        ELSE Exit(m)

\* Mutant: the buffer stays a mouse buffer.
TakeMouseKeepsFlag(p) ==
    LET q == [p EXCEPT !.StatusRegister = @ \ {"KB_BUFFER_FULL"},
                       !.DataRegister = @ \ {DATA_MS_INTERRUPT},
                       !.TimerPending = 1]
    IN  IF p.ControllerQueueIndex = 0 THEN q
        ELSE [MouseByte(q) EXCEPT !.ControllerQueueIndex = @ - 1]

\* The buffer was read: it is empty, or takes the next byte of the queue as one
\* of the same device.
TakeMouse(p) ==
    LET q == [p EXCEPT !.StatusRegister = @ \ {"KB_BUFFER_FULL", "MS_BUFFER_FULL"},
                       !.DataRegister = @ \ {DATA_MS_INTERRUPT},
                       !.TimerPending = 1]
    IN  IF p.ControllerQueueIndex = 0 THEN q
        ELSE [MouseByte(q) EXCEPT !.ControllerQueueIndex = @ - 1]
TakeKeyboard(p) ==
    LET q == [p EXCEPT !.StatusRegister = @ \ {"KB_BUFFER_FULL", "MS_BUFFER_FULL"},
                       !.DataRegister = @ \ {DATA_KB_INTERRUPT},
                       !.KeyboardBuffer = FALSE,
                       !.TimerPending = 1]
    IN  IF p.ControllerQueueIndex = 0 THEN q
        ELSE [KeyboardByte(q) EXCEPT !.ControllerQueueIndex = @ - 1]

\* Mutant: the timer is not asked to look at the keyboard again.
ReadDataIdle(m) ==
    LET p == m.ps2
        pending(q) == [q EXCEPT !.TimerPending = p.TimerPending]
    IN  CASE HoldsMouse(p) ->
                 PicLower(PutPs2(m, pending(TakeMouse(p))), MOUSE_IRQ)
          [] Full(p) /\ ~HoldsMouse(p) ->
                 PicLower(PutPs2(m, pending(TakeKeyboard(p))), KEYBOARD_IRQ)
          [] OTHER -> m

\* A read of port 60h.  A read of port 64h changes nothing.
ReadData(m) ==
    LET p == m.ps2
    IN  CASE HoldsMouse(p) -> PicLower(PutPs2(m, TakeMouse(p)), MOUSE_IRQ)
          [] Full(p) /\ ~HoldsMouse(p) ->
                 PicLower(PutPs2(m, TakeKeyboard(p)), KEYBOARD_IRQ)
          [] OTHER -> m

-----------------------------------------------------------------------------
(***************************************************************************)
(* The keyboard.                                                           *)
(***************************************************************************)

\* n calls of Ps2WriteKeyboardMemory: what does not fit is dropped.
Ps2WriteKeyboardMemory(p, n) ==
    LET room == KEYBOARD_MEMORY_SIZE - p.KeyboardMemoryIndex
        stored == IF n < room THEN n ELSE room
    IN  IF stored = 0 THEN p
        ELSE [p EXCEPT !.KeyboardMemoryIndex = @ + stored,
                       !.TimerPending = IF ~Full(p) /\ p.KeyboardClockEnabled
                                        THEN 1 ELSE @]

\* The bytes of the make code of a key.  The release bit puts a key above 119,
\* so a release sends nothing.
Ps2GenerateScancode(m, n) == PutPs2(m, Ps2WriteKeyboardMemory(m.ps2, n))

Ps2KeyboardReset(p) ==
    [p EXCEPT !.KeyboardMemoryIndex = 0,
              !.ScanCodeEnabled = FALSE,
              !.StatusRegister = @ \ {"KB_BUFFER_FULL"}]

KBD_CMD_NONE == 5           \* 05h has a case of its own
KBD_CMD_SET_LEDS == 237     \* EDh
KBD_CMD_SCANCODE == 240     \* F0h
KBD_CMD_GET_ID == 242       \* F2h
KBD_CMD_RESET_DISABLE == 245
KBD_CMD_RESET_ENABLE == 246
KBD_CMD_RESET == 255

Resets(v) == v \in {KBD_CMD_RESET_DISABLE, KBD_CMD_RESET_ENABLE, KBD_CMD_RESET}

\* The replies that go to the keyboard's memory: an acknowledge, an echo or a
\* request to resend is one byte.
Replies(v) ==
    CASE v = KBD_CMD_RESET -> 2
      [] v = KBD_CMD_GET_ID -> 3
      [] v = KBD_CMD_NONE -> 0
      [] OTHER -> 1

Ps2SendKeyboard(m, v) ==
    LET p == m.ps2
    IN  CASE p.ScanCodeEnabled ->
                 PutPs2(m, Ps2WriteKeyboardMemory(
                               [p EXCEPT !.ScanCodeEnabled = FALSE],
                               IF v = 0 THEN 2 ELSE 1))
          [] ~p.ScanCodeEnabled /\ v = KBD_CMD_SET_LEDS ->
                 Ps2QueueByte(m, "keyboard")
          [] ~p.ScanCodeEnabled /\ v = KBD_CMD_SCANCODE ->
                 PutPs2(m, Ps2WriteKeyboardMemory(
                               [p EXCEPT !.ScanCodeEnabled = TRUE], 1))
          [] ~p.ScanCodeEnabled /\ Resets(v) ->
                 PutPs2(m, Ps2WriteKeyboardMemory(Ps2KeyboardReset(p), Replies(v)))
          [] OTHER -> PutPs2(m, Ps2WriteKeyboardMemory(p, Replies(v)))
-----------------------------------------------------------------------------
(***************************************************************************)
(* From the guest.                                                         *)
(***************************************************************************)

Awake(p, wakes) == [p EXCEPT !.TimerPending = IF wakes THEN 1 ELSE @]

\* Mutant: a clock that comes back does not ask for the timer.
KeyboardClockSilent(p, on) == [p EXCEPT !.KeyboardClockEnabled = on]

Ps2EnableKeyboardClock(p, on) ==
    [Awake(p, on /\ ~Full(p) /\ ~p.KeyboardClockEnabled)
        EXCEPT !.KeyboardClockEnabled = on]

\* Ps2.TimerId is never set, so the slot armed is slot 0.
Ps2EnableMouseClock(m, on) ==
    LET p == m.ps2
        wakes == on /\ ~Full(p) /\ ~p.MouseClockEnabled
    IN  [m EXCEPT !.ps2 = [Awake(p, wakes) EXCEPT !.MouseClockEnabled = on],
                  !.timer0 = IF wakes THEN TimerActivate(@, TRUE) ELSE @]

CMD_READ_BYTE == 32               \* 20h
CMD_WRITE_BYTE == 96              \* 60h
CMD_DISABLE_2ND_PS2PORT == 167    \* A7h
CMD_ENABLE_2ND_PS2PORT == 168
CMD_TEST_2ND_PS2PORT == 169
CMD_TEST_CONTROLLER == 170
CMD_TEST_1ST_PS2PORT == 171
CMD_DISABLE_1ST_PS2PORT == 173
CMD_ENABLE_1ST_PS2PORT == 174
CMD_READ_INPUT_PORT == 192        \* C0h
CMD_READ_TYPE == 202              \* CAh
CMD_READ_OUTPUT_PORT == 208       \* D0h
CMD_WRITE_OUTPUT_PORT == 209
CMD_WRITE_KB_OBUF == 210
CMD_WRITE_MS_OBUF == 211
CMD_WRITE_MOUSE == 212

\* Commands whose operand is the next write to port 60h, and commands that put
\* a byte into the output buffer or the queue.
TakesOperand(v) ==
    v \in {CMD_WRITE_BYTE, CMD_WRITE_OUTPUT_PORT, CMD_WRITE_MOUSE,
           CMD_WRITE_KB_OBUF, CMD_WRITE_MS_OBUF}
Answers(v) ==
    v \in {CMD_READ_BYTE, CMD_READ_OUTPUT_PORT, CMD_READ_INPUT_PORT,
           CMD_READ_TYPE}

SetMode(m, v) ==
    LET p == Ps2EnableKeyboardClock([m.ps2 EXCEPT !.DataRegister = Bits(v)],
                                    DATA_DISABLE_KEYBOARD \notin Bits(v))
    IN  Ps2EnableMouseClock(PutPs2(m, p), DATA_DISABLE_MOUSE \notin Bits(v))

\* The operand of a command.  What is sent to the mouse, and the output port,
\* are not acted upon.
Operand(m, v) ==
    CASE m.ps2.CommandBuffer = CMD_WRITE_BYTE -> SetMode(m, v)
      [] m.ps2.CommandBuffer = CMD_WRITE_KB_OBUF -> Ps2QueueByte(m, "keyboard")
      [] m.ps2.CommandBuffer = CMD_WRITE_MS_OBUF -> Ps2QueueByte(m, "mouse")
      [] OTHER -> m

EndCommand(p) ==
    [p EXCEPT !.CommandBuffer = 0, !.StatusRegister = @ \ {"COMMAND_LAST"}]

\* A write to port 60h.
WriteData(m, v) ==
    LET n == IF "COMMAND_LAST" \in m.ps2.StatusRegister THEN Operand(m, v)
             ELSE Ps2SendKeyboard(m, v)
    IN  PutPs2(n, EndCommand(n.ps2))

\* The self test empties the output side, the first time.
Emptied(p) ==
    IF "SYSTEM_TEST" \in p.StatusRegister THEN p
    ELSE [p EXCEPT !.StatusRegister = @ \ {"KB_BUFFER_FULL"},
                   !.ControllerQueueIndex = 0]
Tested(p) == [p EXCEPT !.StatusRegister = @ \cup {"SYSTEM_TEST"}]
TestController(m) ==
    LET p == Emptied(m.ps2)
    IN  IF Full(p) THEN PutPs2(m, p)
        ELSE Ps2QueueByte(PutPs2(m, Tested(p)), "keyboard")

\* The port tests give up if the output buffer is full.
TestPort(m, Device) ==
    IF Full(m.ps2) THEN Exit(m) ELSE Ps2QueueByte(m, Device)

\* A write to port 64h.  The A20 commands touch the output port only.
WriteCommand(m, v) ==
    LET p == m.ps2
    IN  CASE TakesOperand(v) ->
                 PutPs2(m, [p EXCEPT !.CommandBuffer = v,
                                     !.StatusRegister = @ \cup {"COMMAND_LAST"}])
          [] Answers(v) -> Ps2QueueByte(m, "keyboard")
          [] v = CMD_DISABLE_2ND_PS2PORT -> Ps2EnableMouseClock(m, FALSE)
          [] v = CMD_ENABLE_2ND_PS2PORT -> Ps2EnableMouseClock(m, TRUE)
          [] v = CMD_DISABLE_1ST_PS2PORT ->
                 PutPs2(m, Ps2EnableKeyboardClock(p, FALSE))
          [] v = CMD_ENABLE_1ST_PS2PORT ->
                 PutPs2(m, Ps2EnableKeyboardClock(p, TRUE))
          [] v = CMD_TEST_2ND_PS2PORT -> TestPort(m, "mouse")
          [] v = CMD_TEST_1ST_PS2PORT -> TestPort(m, "keyboard")
          [] v = CMD_TEST_CONTROLLER -> TestController(m)
          [] OTHER -> m

-----------------------------------------------------------------------------
(***************************************************************************)
(* The timer.                                                              *)
(***************************************************************************)

\* The next byte of the keyboard enters the output buffer.
Loads(p) ==
    /\ p.TimerPending = 1
    /\ ~Full(p)
    /\ p.KeyboardMemoryIndex > 0
    /\ p.KeyboardClockEnabled
Loaded(p) ==
    [p EXCEPT !.StatusRegister = @ \cup {"KB_BUFFER_FULL"},
              !.KeyboardBuffer = TRUE,
              !.DataRegister = @ \cup {DATA_KB_INTERRUPT},
              !.KeyboardMemoryIndex = @ - 1]

\* Ps2TimerPeriodic(1): whatever was pending has passed.
Ps2TimerPeriodic(p) ==
    LET q == [p EXCEPT
                 !.DataRegister = @ \ {DATA_KB_INTERRUPT, DATA_MS_INTERRUPT},
                 !.TimerPending = 0]
    IN  IF Loads(p) THEN Loaded(q) ELSE q

\* The lines raised are those of the bytes announced before this tick.
Ps2TimerHandler(m) ==
    LET p == m.ps2
        irqs == {irq \in {KEYBOARD_IRQ, MOUSE_IRQ} :
                    \/ irq = KEYBOARD_IRQ /\ DATA_KB_INTERRUPT \in p.DataRegister
                    \/ irq = MOUSE_IRQ /\ DATA_MS_INTERRUPT \in p.DataRegister}
    IN  PicRaise(PutPs2(m, Ps2TimerPeriodic(p)), irqs)
=============================================================================
