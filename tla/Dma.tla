-------------------------------- MODULE Dma --------------------------------
(***************************************************************************)
(* The two DMA controllers of SVMM (dma.c).  The first is chained to       *)
(* channel 0 of the second, which asks the processor for the bus.  No      *)
(* device has a transfer handler and nothing acknowledges a request.  The  *)
(* machine m has the fields dma and event.                                 *)
(***************************************************************************)
EXTENDS Integers

CONSTANTS
    DMA_BYTE,   \* 2^8
    Channels    \* the channels in use

ASSUME DmaAssumption ==
    /\ DMA_BYTE \in Nat \ {0, 1}
    /\ Channels \subseteq 0..3
    /\ 0 \in Channels

DMA_WORD == DMA_BYTE * DMA_BYTE
Controller == {0, 1}

\* DMA_CHANNEL and DMA_CONTROLLER.  Of StatusRegister the requests are kept;
\* its lower half counts transfers, of which there are none.
DMA_CHANNEL ==
    [BaseAddressRegister : 0..(DMA_WORD - 1),
     CurrentAddressRegister : 0..(DMA_WORD - 1),
     BaseCountRegister : 0..(DMA_WORD - 1),
     CurrentCountRegister : 0..(DMA_WORD - 1),
     MaskRegister : BOOLEAN,
     ModeRegister : 0..1,
     PageRegisters : 0..(DMA_BYTE - 1),
     HiPageRegisters : 0..(DMA_BYTE - 1)]
DMA_CONTROLLER ==
    [Request : SUBSET {0}, FlipFlop : BOOLEAN, Channels : [Channels -> DMA_CHANNEL]]
DmaInitialize ==
    [d \in Controller |->
        [Request |-> {}, FlipFlop |-> FALSE,
         Channels |-> [c \in Channels |->
             [BaseAddressRegister |-> 0, CurrentAddressRegister |-> 0,
              BaseCountRegister |-> 0, CurrentCountRegister |-> 0,
              MaskRegister |-> FALSE, ModeRegister |-> 0,
              PageRegisters |-> 0, HiPageRegisters |-> 0]]]]

Turn(m, d) == [m EXCEPT !.dma[d].FlipFlop = ~@]

\* The first byte pushes the lower half of the register up, the second replaces
\* it.
Low(old, v) == v + ((old * DMA_BYTE) % DMA_WORD)
High(old, v) == (v * DMA_BYTE) + (old % DMA_BYTE)
DmaWriteAddress(m, d, c, v) ==
    LET ch == m.dma[d].Channels[c]
        high == m.dma[d].FlipFlop
        base == IF high THEN High(ch.BaseAddressRegister, v)
                ELSE Low(ch.BaseAddressRegister, v)
    IN  Turn([m EXCEPT !.dma[d].Channels[c] =
                 [ch EXCEPT !.BaseAddressRegister = base,
                            !.CurrentAddressRegister = base,
                            !.CurrentCountRegister = IF high THEN 0 ELSE @]], d)
DmaWriteCount(m, d, c, v) ==
    LET ch == m.dma[d].Channels[c]
        high == m.dma[d].FlipFlop
        base == IF high THEN High(ch.BaseCountRegister, v)
                ELSE Low(ch.BaseCountRegister, v)
    IN  Turn([m EXCEPT !.dma[d].Channels[c] =
                 [ch EXCEPT !.BaseCountRegister = base,
                            !.CurrentCountRegister = base,
                            !.CurrentAddressRegister =
                                IF high THEN ch.BaseAddressRegister ELSE @]], d)
DmaReadWord(m, d) == Turn(m, d)

-----------------------------------------------------------------------------
(***************************************************************************)
(* The request for the bus.  It is withdrawn when there is no request at   *)
(* all; masking the channels leaves it as it is.                           *)
(***************************************************************************)

Unmasked(m, d) ==
    \E c \in m.dma[d].Request : ~m.dma[d].Channels[c].MaskRegister
ControlSecond(m) ==
    CASE m.dma[1].Request = {} -> [m EXCEPT !.event = FALSE]
      [] Unmasked(m, 1) -> [m EXCEPT !.event = TRUE]
      [] OTHER -> m
DmaSetHoldRequest4(m, on) ==
    ControlSecond([m EXCEPT !.dma[1].Request = IF on THEN {0} ELSE {}])
ControlFirst(m) ==
    CASE m.dma[0].Request = {} -> DmaSetHoldRequest4(m, FALSE)
      [] Unmasked(m, 0) -> DmaSetHoldRequest4(m, TRUE)
      [] OTHER -> m
DmaControlHoldRequestLine(m, d) ==
    IF d = 0 THEN ControlFirst(m) ELSE ControlSecond(m)

\* The request register takes the channel from its own address, which gives 0.
DmaWriteRequest(m, d, on) ==
    DmaControlHoldRequestLine([m EXCEPT !.dma[d].Request = IF on THEN {0} ELSE {}], d)
DmaWriteCommand(m, d) == DmaControlHoldRequestLine(m, d)

\* Mutant: a channel that is no longer masked asks for the bus only when the
\* next request arrives.
DmaWriteMaskQuiet(m, d, c, on) == [m EXCEPT !.dma[d].Channels[c].MaskRegister = on]
DmaWriteMask(m, d, c, on) ==
    DmaControlHoldRequestLine([m EXCEPT !.dma[d].Channels[c].MaskRegister = on], d)

\* All masks at once: the clearing port, and the one that gives every channel
\* the mask of the first.
DmaWriteMasks(m, d, on) ==
    DmaControlHoldRequestLine(
        [m EXCEPT !.dma[d].Channels =
            [c \in Channels |-> [@[c] EXCEPT !.MaskRegister = on]]], d)
DmaWriteMode(m, d, c, v) == [m EXCEPT !.dma[d].Channels[c].ModeRegister = v]
DmaClearFlipFlop(m, d) == [m EXCEPT !.dma[d].FlipFlop = FALSE]
DmaWritePage(m, d, c, v) ==
    [m EXCEPT !.dma[d].Channels[c].PageRegisters = v,
              !.dma[d].Channels[c].HiPageRegisters = 0]
DmaWriteHiPage(m, d, c, v) == [m EXCEPT !.dma[d].Channels[c].HiPageRegisters = v]
=============================================================================
