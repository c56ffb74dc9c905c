----------------------------- MODULE PicProofs -----------------------------
(***************************************************************************)
(* Proofs about Pic for every guest, set of lines and vector offset.       *)
(*                                                                         *)
(* The argument has three layers.  What a chip operation returns is stated *)
(* field by field.  What PicService does to a machine is the relation      *)
(* Grown: registers keep their values, line 2 may be raised, events are    *)
(* only added; and a service of the master leaves it Asked.  An action is  *)
(* then an update of one chip, with or without a service, and the two      *)
(* lemmas ServicedFrom and QuietFrom cover all of them.                    *)
(*                                                                         *)
(* The last part proves MasterSignalled for the pair beside the APICs, as  *)
(* IntrSystem composes them.                                               *)
(***************************************************************************)
EXTENDS IntrSystem, TLAPS

\* The machine records the handlers of pic.c work on.
MachineType ==
    [pic : [Chips -> PIC], events : SUBSET {"INTR", "LAPIC"},
     window : BOOLEAN, accepts : SUBSET Irq]

\* The reset priority 7 and every line number fit a BYTE register.
LEMMA Bytes == 7 \in Byte /\ Irq \subseteq Byte
BY DEF Byte, Irq

\* The lowest line of a non-empty set is one of its lines: what the upward
\* scan at pic.c:125 stops at.
LEMMA LowestIn ==
    ASSUME NEW S \in SUBSET Irq, S # {}
    PROVE  Lowest(S) \in S
<1>1. S \subseteq {0, 1, 2, 3, 4, 5, 6, 7}
  BY DEF Irq
<1>2. \/ 0 \in S \/ 1 \in S \/ 2 \in S \/ 3 \in S
      \/ 4 \in S \/ 5 \in S \/ 6 \in S \/ 7 \in S
  BY <1>1
<1>3. PICK i \in S : \A k \in 0..7 : k < i => k \notin S
  BY <1>1, <1>2
<1>4. \A j \in S : i <= j
  BY <1>1, <1>3
<1>5. QED
  BY <1>4 DEF Lowest

\* The highest line of a non-empty set is one of its lines: the last line the
\* scan at pic.c:91 reaches.
LEMMA HighestIn ==
    ASSUME NEW S \in SUBSET Irq, S # {}
    PROVE  Highest(S) \in S
<1>1. S \subseteq {0, 1, 2, 3, 4, 5, 6, 7}
  BY DEF Irq
<1>2. \/ 0 \in S \/ 1 \in S \/ 2 \in S \/ 3 \in S
      \/ 4 \in S \/ 5 \in S \/ 6 \in S \/ 7 \in S
  BY <1>1
<1>3. PICK i \in S : \A k \in 0..7 : i < k => k \notin S
  BY <1>1, <1>2
<1>4. \A j \in S : j <= i
  BY <1>1, <1>3
<1>5. QED
  BY <1>4 DEF Highest

\* Replacing one chip by another keeps the machine a machine and changes
\* nothing else.
LEMMA PutType ==
    ASSUME NEW m \in MachineType, NEW i \in Chips, NEW c \in PIC
    PROVE  /\ Put(m, i, c) \in MachineType
           /\ Put(m, i, c).pic = [m.pic EXCEPT ![i] = c]
           /\ Put(m, i, c).events = m.events
           /\ Put(m, i, c).window = m.window
           /\ Put(m, i, c).accepts = m.accepts
BY DEF MachineType, Put

\* Recording EVENT_PENDING_INTR and asking for the window keep the chips as
\* they are.
LEMMA SignalType ==
    ASSUME NEW m \in MachineType
    PROVE  /\ Signal(m) \in MachineType
           /\ Signal(m).pic = m.pic
           /\ Signal(m).events = m.events \cup {"INTR"}
           /\ Signal(m).window = m.window
           /\ Signal(m).accepts = m.accepts
           /\ RequestWindow(Signal(m)).accepts = m.accepts
           /\ RequestWindow(Signal(m)) \in MachineType
           /\ RequestWindow(Signal(m)).pic = m.pic
           /\ RequestWindow(Signal(m)).events = m.events \cup {"INTR"}
           /\ RequestWindow(Signal(m)).window
BY DEF MachineType, Signal, RequestWindow

\* d is chip c after some call of PicService: only Raised and InterruptNumber
\* change, and line 2 may have been raised, pin and request together.
Serviced(c, d) ==
    /\ d \in PIC
    /\ d.RequestIcw4 = c.RequestIcw4
    /\ d.Cascade = c.Cascade
    /\ d.State = c.State
    /\ d.Mode = c.Mode
    /\ d.EdgeLevel = c.EdgeLevel
    /\ d.InterruptMask = c.InterruptMask
    /\ d.InterruptInService = c.InterruptInService
    /\ d.CurrentPriority = c.CurrentPriority
    /\ d.CurrentOffset = c.CurrentOffset
    /\ \/ /\ d.InterruptPin = c.InterruptPin
          /\ d.InterruptRequest = c.InterruptRequest
       \/ /\ d.InterruptPin = c.InterruptPin \cup {CascadeLine}
          /\ d.InterruptRequest = c.InterruptRequest \cup {CascadeLine}
    /\ AckedIrq(c) \in Irq => AckedIrq(d) \in Irq

\* BYTE arithmetic stays in a byte, and the acknowledge undoes the addition.
LEMMA ByteAddType ==
    ASSUME NEW a \in Byte, NEW b \in Byte
    PROVE  /\ ByteAdd(a, b) \in Byte
           /\ ByteSub(a, b) \in Byte
           /\ ByteSub(ByteAdd(a, b), b) = a
BY DEF ByteAdd, ByteSub, Byte

\* Choosing a line is a service, and the acknowledge computes that line back
\* from the vector (pic.c:142, pic.c:167).
LEMMA ChosenServiced ==
    ASSUME NEW c \in PIC, NEW irq \in Irq
    PROVE  /\ Serviced(c, Chosen(c, irq))
           /\ AckedIrq(Chosen(c, irq)) = irq
           /\ Chosen(c, irq).InterruptPin = c.InterruptPin
           /\ Chosen(c, irq).InterruptRequest = c.InterruptRequest
<1>1. /\ irq \in Byte
      /\ c.CurrentOffset \in Byte
  BY Bytes DEF PIC
<1>2. /\ Number(c, irq) \in Byte
      /\ ByteSub(Number(c, irq), c.CurrentOffset) = irq
  BY <1>1, ByteAddType DEF Number
<1>3. Chosen(c, irq) \in PIC
  BY <1>2 DEF Chosen, PIC
<1>4. /\ Chosen(c, irq).InterruptNumber = Number(c, irq)
      /\ Chosen(c, irq).CurrentOffset = c.CurrentOffset
  BY DEF Chosen, PIC
<1>5. AckedIrq(Chosen(c, irq)) = irq
  BY <1>2, <1>4 DEF AckedIrq
<1>6. QED
  BY <1>3, <1>5 DEF Serviced, Chosen, PIC

\* Raising line 2 is a service.
LEMMA LatchedServiced ==
    ASSUME NEW c \in PIC
    PROVE  Serviced(c, Latched(c, CascadeLine))
<1>1. CascadeLine \in Irq
  BY DEF CascadeLine, Irq
<1>2. Latched(c, CascadeLine) \in PIC
  BY <1>1 DEF Latched, PIC
<1>3. AckedIrq(Latched(c, CascadeLine)) = AckedIrq(c)
  BY DEF Latched, PIC, AckedIrq
<1>4. QED
  BY <1>2, <1>3 DEF Serviced, Latched, PIC

\* A service of a service is a service.
LEMMA ServicedTransitive ==
    ASSUME NEW b, NEW c, NEW d, Serviced(b, c), Serviced(c, d)
    PROVE  Serviced(b, d)
BY DEF Serviced
\* Doing nothing is a service.
LEMMA ServicedRefl ==
    ASSUME NEW b \in PIC
    PROVE  Serviced(b, b)
BY DEF Serviced

\* A cascaded master that has a line to deliver has recorded the event and asked
\* for the window.
Asked(m) ==
    m.pic[0].Cascade /\ Nested(m.pic[0]) /\ Deliverable(m.pic[0]) # {}
        => "INTR" \in m.events /\ m.window

\* Neither chip is in the special mask mode.
NoSpecialMask(m) == \A i \in Chips : "SPECIAL_MASK" \notin m.pic[i].Mode

\* n is machine m after some calls of PicService: both chips are serviced, and
\* the event and the window request are only ever added.
Grown(m, n) ==
    /\ n \in MachineType
    /\ n.accepts = m.accepts
    /\ \A i \in Chips : Serviced(m.pic[i], n.pic[i])
    /\ m.events \subseteq n.events
    /\ n.events \subseteq m.events \cup {"INTR"}
    /\ m.window => n.window

\* A service that raises the event without the special mask mode is that of an
\* initialised master, which asks for a line of its own.
Fresh(m, n) ==
    NoSpecialMask(m) /\ "INTR" \in n.events \ m.events
        => /\ m.pic[0].Cascade
           /\ "FULLY_NESTED" \in m.pic[0].Mode
           /\ AckedIrq(n.pic[0]) \in Irq

\* Two services in a row are a service of the machine.
LEMMA GrownTransitive ==
    ASSUME NEW l, NEW m, NEW n, Grown(l, m), Grown(m, n)
    PROVE  Grown(l, n)
BY ServicedTransitive DEF Grown

\* Doing nothing is a service of the machine.
LEMMA GrownRefl ==
    ASSUME NEW m \in MachineType
    PROVE  Grown(m, m)
BY ServicedRefl DEF Grown, MachineType

\* Servicing one chip is a service of the machine.
LEMMA PutGrown ==
    ASSUME NEW m \in MachineType, NEW i \in Chips, NEW c, Serviced(m.pic[i], c)
    PROVE  /\ Grown(m, Put(m, i, c))
           /\ Put(m, i, c).pic[i] = c
           /\ Put(m, i, c).events = m.events
           /\ \A j \in Chips : j # i => Put(m, i, c).pic[j] = m.pic[j]
<1>1. c \in PIC
  BY DEF Serviced
<1>2. \A j \in Chips : m.pic[j] \in PIC /\ Serviced(m.pic[j], m.pic[j])
  BY ServicedRefl DEF MachineType
<1>3. m.pic \in [Chips -> PIC]
  BY DEF MachineType
<1> DEFINE n == Put(m, i, c)
<1>4. /\ n \in MachineType
      /\ n.pic = [m.pic EXCEPT ![i] = c]
      /\ n.events = m.events
      /\ n.window = m.window
      /\ n.accepts = m.accepts
  BY <1>1, PutType
<1>5. /\ n.pic[i] = c
      /\ \A j \in Chips : j # i => n.pic[j] = m.pic[j]
  BY <1>3, <1>4
<1>6. \A j \in Chips : Serviced(m.pic[j], n.pic[j])
  BY <1>2, <1>5
<1>7. Grown(m, n)
  BY <1>4, <1>6 DEF Grown
<1>8. QED
  BY <1>4, <1>5, <1>7

\* Recording the event and asking for the window are part of a service.
LEMMA SignalGrown ==
    ASSUME NEW m, NEW n \in MachineType, Grown(m, n)
    PROVE  /\ Grown(m, Signal(n))
           /\ Grown(m, RequestWindow(Signal(n)))
BY SignalType DEF Grown

\* What either scan of PicService finds is a set of lines.
LEMMA DeliverableType ==
    ASSUME NEW c \in PIC
    PROVE  /\ Deliverable(c) \in SUBSET Irq
           /\ MaskedRequests(c) \in SUBSET Irq
BY DEF Deliverable, MaskedRequests, PIC

\* The special-mask branch of PicService (pic.c:90) is a service of its own
\* chip only.
LEMMA InjectMaskedGrown ==
    ASSUME NEW m \in MachineType, NEW i \in Chips
    PROVE  /\ Grown(m, InjectMasked(m, i))
           /\ \A j \in Chips : j # i => InjectMasked(m, i).pic[j] = m.pic[j]
<1> DEFINE c == m.pic[i]
           tried == Tried(c, m.accepts)
           chosen == Put(m, i, Chosen(c, Highest(tried)))
<1>1. c \in PIC
  BY DEF MachineType
<1>2. tried \in SUBSET Irq
  BY <1>1, DeliverableType DEF Tried
<1>3. CASE tried = {}
  BY <1>3, GrownRefl DEF InjectMasked
<1>4. CASE tried # {}
  <2>1. Serviced(c, Chosen(c, Highest(tried)))
    BY <1>1, <1>2, <1>4, HighestIn, ChosenServiced
  <2>2. /\ Grown(m, chosen)
        /\ \A j \in Chips : j # i => chosen.pic[j] = m.pic[j]
    BY <2>1, PutGrown
  <2>3. /\ Grown(m, Signal(chosen))
        /\ Signal(chosen).pic = chosen.pic
    <3>1. chosen \in MachineType
      BY <2>2 DEF Grown
    <3>2. QED
      BY <2>2, <3>1, SignalGrown, SignalType
  <2>4. InjectMasked(m, i) \in {chosen, Signal(chosen)}
    BY <1>4 DEF InjectMasked
  <2>5. QED
    BY <2>2, <2>3, <2>4
<1>5. QED
  BY <1>3, <1>4

\* A service never takes away a line that could be delivered.
LEMMA ServicedDeliverable ==
    ASSUME NEW c \in PIC, NEW d, Serviced(c, d)
    PROVE  Deliverable(c) \subseteq Deliverable(d)
BY DEF Serviced, Deliverable, PIC

\* The fully nested branch for the master is a service, chooses a line of the
\* master, and with the cascade bit records the event and asks for the window
\* (pic.c:144-152).
LEMMA AskMasterGrown ==
    ASSUME NEW m \in MachineType, Deliverable(m.pic[0]) # {}
    PROVE  /\ Grown(m, AskMaster(m))
           /\ AskMaster(m).pic[1] = m.pic[1]
           /\ AckedIrq(AskMaster(m).pic[0]) \in Irq
           /\ m.pic[0].Cascade => /\ "INTR" \in AskMaster(m).events
                                  /\ AskMaster(m).window
           /\ ~m.pic[0].Cascade => AskMaster(m).events = m.events
<1> DEFINE c == m.pic[0]
           next == IF c.Cascade \/ CascadeLine \in c.InterruptPin
                   THEN c ELSE Latched(c, CascadeLine)
           d == Chosen(next, Lowest(Deliverable(next)))
           chosen == Put(m, 0, d)
<1>0. 0 \in Chips /\ 1 \in Chips
  BY DEF Chips
<1>1. c \in PIC
  BY <1>0 DEF MachineType
<1>2. Serviced(c, next) /\ next \in PIC
  <2>1. Serviced(c, c) /\ Serviced(c, Latched(c, CascadeLine))
    BY <1>1, ServicedRefl, LatchedServiced
  <2>2. QED
    BY <2>1 DEF Serviced
<1>3. Lowest(Deliverable(next)) \in Irq
  <2>1. Deliverable(next) # {}
    BY <1>1, <1>2, ServicedDeliverable
  <2>2. Deliverable(next) \in SUBSET Irq
    BY <1>2, DeliverableType
  <2>3. QED
    BY <2>1, <2>2, LowestIn
<1>4. Serviced(c, d) /\ AckedIrq(d) \in Irq
  <2>1. Serviced(next, d) /\ AckedIrq(d) \in Irq
    BY <1>2, <1>3, ChosenServiced, SMTT(30)
  <2>2. QED
    BY <1>2, <2>1, ServicedTransitive
<1>5. /\ Grown(m, chosen) /\ chosen.pic[0] = d /\ chosen.pic[1] = m.pic[1]
      /\ chosen.events = m.events
      /\ chosen \in MachineType
  BY <1>0, <1>4, PutGrown DEF Grown
<1>6. AskMaster(m) = IF c.Cascade THEN RequestWindow(Signal(chosen))
                     ELSE chosen
  BY DEF AskMaster
<1>7. CASE c.Cascade
  <2> DEFINE n == RequestWindow(Signal(chosen))
  <2>1. /\ n.pic = chosen.pic
        /\ n.events = chosen.events \cup {"INTR"}
        /\ n.window
        /\ Grown(m, n)
    BY <1>5, SignalGrown, SignalType
  <2>2. AskMaster(m) = n
    BY <1>6, <1>7
  <2> HIDE DEF n, chosen, d
  <2>3. /\ AckedIrq(n.pic[0]) \in Irq
        /\ n.pic[1] = m.pic[1]
    BY <1>4, <1>5, <2>1
  <2>4. "INTR" \in n.events /\ n.window
    BY <2>1, SMTT(30)
  <2>5. QED
    BY <1>7, <2>1, <2>2, <2>3, <2>4, SMTT(30)
<1>8. CASE ~c.Cascade
  <2>1. AskMaster(m) = chosen
    BY <1>6, <1>8
  <2>2. QED
    BY <1>4, <1>5, <1>8, <2>1
<1>9. QED
  BY <1>7, <1>8

\* PicService(&Pic[0]) leaves no deliverable line of the master unannounced,
\* whatever it started from.
LEMMA ServiceMasterGrown ==
    ASSUME NEW m \in MachineType
    PROVE  /\ Grown(m, ServiceMaster(m))
           /\ ServiceMaster(m).pic[1] = m.pic[1]
           /\ Asked(ServiceMaster(m))
           /\ Fresh(m, ServiceMaster(m))
<1>0. 0 \in Chips /\ 1 \in Chips
  BY DEF Chips
<1>1. CASE "SPECIAL_MASK" \in m.pic[0].Mode
  <2> DEFINE n == InjectMasked(m, 0)
  <2>1. /\ Grown(m, n)
        /\ n.pic[1] = m.pic[1]
        /\ ServiceMaster(m) = n
    BY <1>0, <1>1, InjectMaskedGrown DEF ServiceMaster
  <2> HIDE DEF n
  <2>2. "SPECIAL_MASK" \in n.pic[0].Mode
    BY <1>0, <1>1, <2>1 DEF Grown, Serviced
  <2>3. QED
    BY <1>0, <1>1, <2>1, <2>2 DEF Asked, Fresh, Nested, NoSpecialMask
<1>2. CASE "SPECIAL_MASK" \notin m.pic[0].Mode /\ Nested(m.pic[0]) /\ Deliverable(m.pic[0]) # {}
  <2>1. ServiceMaster(m) = AskMaster(m)
    BY <1>2 DEF ServiceMaster
  <2>2. Serviced(m.pic[0], AskMaster(m).pic[0])
    BY <1>0, <1>2, AskMasterGrown DEF Grown
  <2>3. QED
    BY <1>2, <2>1, <2>2, AskMasterGrown DEF Asked, Serviced, Fresh, Nested
<1>3. CASE "SPECIAL_MASK" \notin m.pic[0].Mode /\ ~(Nested(m.pic[0]) /\ Deliverable(m.pic[0]) # {})
  <2>1. ServiceMaster(m) = m
    BY <1>3 DEF ServiceMaster
  <2>2. QED
    BY <1>3, <2>1, GrownRefl DEF Asked, Fresh
<1>4. QED
  BY <1>1, <1>2, <1>3

\* PicRaiseIrq(2) is a service that leaves pin 2 high and the master as well
\* announced as before.
LEMMA RaiseCascadeGrown ==
    ASSUME NEW m \in MachineType
    PROVE  /\ Grown(m, RaiseCascade(m))
           /\ RaiseCascade(m).pic[1] = m.pic[1]
           /\ Asked(m) => Asked(RaiseCascade(m))
           /\ Fresh(m, RaiseCascade(m))
           /\ CascadeLine \in RaiseCascade(m).pic[0].InterruptPin
<1>0. 0 \in Chips /\ 1 \in Chips
  BY DEF Chips
<1>1. CASE CascadeLine \in m.pic[0].InterruptPin
  BY <1>1, GrownRefl DEF RaiseCascade, Fresh
<1>2. CASE CascadeLine \notin m.pic[0].InterruptPin
  <2> DEFINE c == Latched(m.pic[0], CascadeLine)
             l == Put(m, 0, c)
  <2>0. m.pic[0] \in PIC
    BY <1>0 DEF MachineType
  <2>1. /\ Serviced(m.pic[0], c)
        /\ CascadeLine \in c.InterruptPin
    BY <2>0, LatchedServiced DEF Latched, PIC
  <2>2. Grown(m, l) /\ l \in MachineType /\ l.pic[0] = c /\ l.pic[1] = m.pic[1]
    BY <1>0, <2>1, PutGrown DEF Grown
  <2>3. /\ Grown(l, ServiceMaster(l))
        /\ ServiceMaster(l).pic[1] = m.pic[1]
        /\ Asked(ServiceMaster(l))
        /\ Fresh(l, ServiceMaster(l))
    BY <2>2, ServiceMasterGrown
  <2> HIDE DEF l, c
  <2>4. CascadeLine \in ServiceMaster(l).pic[0].InterruptPin
    BY <1>0, <2>1, <2>2, <2>3 DEF Grown, Serviced
  <2>5. RaiseCascade(m) = ServiceMaster(l)
    BY <1>2 DEF RaiseCascade, l, c
  <2>6. Fresh(m, ServiceMaster(l))
    <3>1. l.events = m.events
      BY <1>0, <2>1, PutGrown DEF l
    <3>2. \A i \in Chips : l.pic[i].Mode = m.pic[i].Mode
      BY <2>2 DEF Grown, Serviced
    <3>3. l.pic[0].Cascade = m.pic[0].Cascade
      BY <1>0, <2>2 DEF Grown, Serviced
    <3>4. QED
      BY <1>0, <2>3, <3>1, <3>2, <3>3 DEF Fresh, NoSpecialMask
  <2>7. QED
    BY <2>2, <2>3, <2>4, <2>5, <2>6, GrownTransitive
<1>3. QED
  BY <1>1, <1>2

\* PicService(&Pic[1]) leaves pin 2 of the master high whenever the slave has
\* a line to deliver (pic.c:158).
LEMMA ServiceSlaveGrown ==
    ASSUME NEW m \in MachineType
    PROVE  /\ Grown(m, ServiceSlave(m))
           /\ Asked(m) => Asked(ServiceSlave(m))
           /\ Fresh(m, ServiceSlave(m))
           /\ Nested(ServiceSlave(m).pic[1])
                /\ Deliverable(ServiceSlave(m).pic[1]) # {}
              => CascadeLine \in ServiceSlave(m).pic[0].InterruptPin
<1>0. 0 \in Chips /\ 1 \in Chips
  BY DEF Chips
<1>1. CASE "SPECIAL_MASK" \in m.pic[1].Mode
  <2> DEFINE n == InjectMasked(m, 1)
  <2>1. /\ Grown(m, n)
        /\ n.pic[0] = m.pic[0]
        /\ ServiceSlave(m) = n
    BY <1>0, <1>1, InjectMaskedGrown DEF ServiceSlave
  <2> HIDE DEF n
  <2>2. Asked(m) => Asked(n)
    BY <2>1 DEF Asked, Grown
  <2>3. "SPECIAL_MASK" \in n.pic[1].Mode
    BY <1>0, <1>1, <2>1 DEF Grown, Serviced
  <2>4. QED
    BY <1>0, <1>1, <2>1, <2>2, <2>3 DEF Fresh, Nested, NoSpecialMask
<1>2. CASE Nested(m.pic[1]) /\ Deliverable(m.pic[1]) # {}
  <2> DEFINE c == m.pic[1]
             d == Chosen(c, Lowest(Deliverable(c)))
             l == Put(m, 1, d)
  <2>1. c \in PIC
    BY <1>0 DEF MachineType
  <2>2. Serviced(c, d)
    BY <1>2, <2>1, DeliverableType, LowestIn, ChosenServiced
  <2> HIDE DEF d
  <2>3. /\ Grown(m, l) /\ l.pic[0] = m.pic[0] /\ l.events = m.events
        /\ l \in MachineType
    BY <1>0, <2>2, PutGrown DEF Grown
  <2>4. ServiceSlave(m) = RaiseCascade(l)
    BY <1>2 DEF ServiceSlave, AskSlave, Nested, d
  <2> HIDE DEF l
  <2>5. /\ Grown(l, RaiseCascade(l))
        /\ Asked(l) => Asked(RaiseCascade(l))
        /\ Fresh(l, RaiseCascade(l))
        /\ CascadeLine \in RaiseCascade(l).pic[0].InterruptPin
    BY <2>3, RaiseCascadeGrown
  <2>6. Asked(m) => Asked(l)
    BY <2>3 DEF Asked, Grown
  <2>7. \A i \in Chips : l.pic[i].Mode = m.pic[i].Mode
    BY <2>3 DEF Grown, Serviced
  <2>8. Fresh(m, RaiseCascade(l))
    BY <2>3, <2>5, <2>7 DEF Fresh, NoSpecialMask
  <2>9. QED
    BY <2>3, <2>4, <2>5, <2>6, <2>8, GrownTransitive
<1>3. CASE /\ "SPECIAL_MASK" \notin m.pic[1].Mode
           /\ ~(Nested(m.pic[1]) /\ Deliverable(m.pic[1]) # {})
  <2>1. ServiceSlave(m) = m
    BY <1>3 DEF ServiceSlave
  <2>2. QED
    BY <1>3, <2>1, GrownRefl DEF Fresh
<1>4. QED
  BY <1>1, <1>2, <1>3 DEF Nested

\* PicService on either chip, in one statement.
LEMMA PicServiceGrown ==
    ASSUME NEW m \in MachineType, NEW i \in Chips
    PROVE  /\ Grown(m, PicService(m, i))
           /\ Fresh(m, PicService(m, i))
           /\ i = 0 \/ Asked(m) => Asked(PicService(m, i))
BY ServiceMasterGrown, ServiceSlaveGrown DEF PicService, Chips

-----------------------------------------------------------------------------
\* (BYTE)(1 << n) is a set of lines whatever n is.
LEMMA BitType ==
    ASSUME NEW n
    PROVE  Bit(n) \in SUBSET Irq
BY DEF Bit

\* The line PicIAC computes is a BYTE.
LEMMA AckedByte ==
    ASSUME NEW c \in PIC
    PROVE  AckedIrq(c) \in Byte
<1>1. c.InterruptNumber \in Byte /\ c.CurrentOffset \in Byte
  BY DEF PIC
<1>2. QED
  BY <1>1, ByteAddType DEF AckedIrq

\* The first half of an acknowledge (pic.c:168-171) only drops the
\* acknowledged request.
LEMMA ConsumedType ==
    ASSUME NEW c \in PIC
    PROVE  /\ Consumed(c) \in PIC
           /\ Consumed(c).InterruptPin = c.InterruptPin
           /\ Consumed(c).State = c.State
           /\ Consumed(c).Mode = c.Mode
           /\ Consumed(c).Cascade = c.Cascade
           /\ Consumed(c).EdgeLevel = c.EdgeLevel
           /\ Consumed(c).CurrentOffset = c.CurrentOffset
           /\ Consumed(c).InterruptNumber = c.InterruptNumber
           /\ Consumed(c).InterruptRequest
                = c.InterruptRequest \ (Bit(AckedIrq(c)) \ c.EdgeLevel)
BY BitType DEF Consumed, PIC

\* The second half of an acknowledge (pic.c:174-175) leaves pins and requests
\* alone.
LEMMA EnteredType ==
    ASSUME NEW c \in PIC
    PROVE  /\ Entered(c) \in PIC
           /\ Entered(c).InterruptPin = c.InterruptPin
           /\ Entered(c).State = c.State
           /\ Entered(c).Mode = c.Mode
           /\ Entered(c).Cascade = c.Cascade
           /\ Entered(c).EdgeLevel = c.EdgeLevel
           /\ Entered(c).InterruptRequest = c.InterruptRequest
<1>1. AckedIrq(c) \in Byte /\ Bit(AckedIrq(c)) \in SUBSET Irq
  BY AckedByte, BitType
<1>2. QED
  BY <1>1 DEF Entered, PIC

\* A rising edge raises exactly its own pin (pic.c:231).
LEMMA LatchedType ==
    ASSUME NEW c \in PIC, NEW irq \in Irq
    PROVE  /\ Latched(c, irq) \in PIC
           /\ Latched(c, irq).InterruptPin = c.InterruptPin \cup {irq}
           /\ Latched(c, irq).State = c.State
BY DEF Latched, PIC

\* A falling edge lowers exactly its own pin and makes nothing deliverable
\* (pic.c:214-215).
LEMMA LoweredType ==
    ASSUME NEW c \in PIC, NEW irq \in Irq
    PROVE  /\ Lowered(c, irq) \in PIC
           /\ Lowered(c, irq).InterruptPin = c.InterruptPin \ {irq}
           /\ Lowered(c, irq).State = c.State
           /\ Deliverable(Lowered(c, irq)) \subseteq Deliverable(c)
           /\ Nested(Lowered(c, irq)) = Nested(c)
           /\ Lowered(c, irq).Cascade = c.Cascade
BY DEF Lowered, PIC, Deliverable, Nested

\* ICW1 keeps the pins (pic.c:279-285).
LEMMA RestartedType ==
    ASSUME NEW c \in PIC, NEW icw4 \in BOOLEAN
    PROVE  /\ Restarted(c, icw4) \in PIC
           /\ Restarted(c, icw4).InterruptPin = c.InterruptPin
<1>1. Cleared(c) \in PIC /\ Cleared(c).InterruptPin = c.InterruptPin
  BY Bytes DEF Cleared, PIC
<1>2. \A s \in 0..4 :
        [Cleared(c) EXCEPT !.RequestIcw4 = icw4, !.State = s, !.Mode = {}] \in PIC
  BY <1>1 DEF PIC
<1>3. 1 \in 0..4
  OBVIOUS
<1>4. QED
  BY <1>1, <1>2, <1>3 DEF Restarted, PIC

\* A non-specific EOI keeps the pins and the initialisation state.
LEMMA NonspecificEoiType ==
    ASSUME NEW c \in PIC
    PROVE  /\ NonspecificEoi(c) \in PIC
           /\ NonspecificEoi(c).InterruptPin = c.InterruptPin
           /\ NonspecificEoi(c).State = c.State
BY Bytes DEF NonspecificEoi, PIC

\* A specific EOI keeps the pins and the initialisation state.
LEMMA SpecificEoiType ==
    ASSUME NEW c \in PIC, NEW irq \in Irq
    PROVE  /\ SpecificEoi(c, irq) \in PIC
           /\ SpecificEoi(c, irq).InterruptPin = c.InterruptPin
           /\ SpecificEoi(c, irq).State = c.State
BY DEF SpecificEoi, PIC

\* Setting the priority keeps the pins and the initialisation state.
LEMMA SetPriorityType ==
    ASSUME NEW c \in PIC, NEW irq \in Irq
    PROVE  /\ SetPriority(c, irq) \in PIC
           /\ SetPriority(c, irq).InterruptPin = c.InterruptPin
           /\ SetPriority(c, irq).State = c.State
BY Bytes DEF SetPriority, PIC

\* An OCW3 that sets a mode changes the mode and the read select only.
LEMMA ModedType ==
    ASSUME NEW c \in PIC, NEW mode \in SUBSET MODES
    PROVE  /\ Moded(c, mode) \in PIC
           /\ Moded(c, mode).InterruptPin = c.InterruptPin
           /\ Moded(c, mode).State = c.State
           /\ Moded(c, mode).Cascade = c.Cascade
           /\ Moded(c, mode).Mode = mode
<1>1. \A r \in 0..3 : [c EXCEPT !.ReadSelect = r, !.Mode = mode] \in PIC
  BY DEF PIC
<1>2. 0 \in 0..3
  OBVIOUS
<1>3. QED
  BY <1>1, <1>2 DEF Moded, PIC

\* ICW2 moves the chip to state 2 and keeps the pins.
LEMMA OffsetType ==
    ASSUME NEW c \in PIC, NEW offset \in Byte
    PROVE  /\ Offset(c, offset) \in PIC
           /\ Offset(c, offset).InterruptPin = c.InterruptPin
           /\ Offset(c, offset).State = 2
<1>1. \A s \in 0..4 : [c EXCEPT !.State = s, !.CurrentOffset = offset] \in PIC
  BY DEF PIC
<1>2. 2 \in 0..4
  OBVIOUS
<1>3. QED
  BY <1>1, <1>2 DEF Offset, PIC

\* ICW3 moves the chip to state 3 and lowers the pins in its value
\* (pic.c:383).
LEMMA CascadedType ==
    ASSUME NEW c \in PIC, NEW b \in BOOLEAN, NEW value
    PROVE  /\ Cascaded(c, b, value) \in PIC
           /\ Cascaded(c, b, value).InterruptPin = c.InterruptPin \ value
           /\ Cascaded(c, b, value).State = 3
<1>1. \A s \in 0..4, pin \in SUBSET Irq :
        [c EXCEPT !.State = s, !.Cascade = b, !.InterruptPin = pin] \in PIC
  BY DEF PIC
<1>2. 3 \in 0..4 /\ c.InterruptPin \ value \in SUBSET Irq
  BY DEF PIC
<1>3. Cascaded(c, b, value) \in PIC
  BY <1>1, <1>2 DEF Cascaded, PIC
<1>4. QED
  BY <1>3 DEF Cascaded, PIC

\* ICW4 moves the chip to state 4 and keeps the pins.
LEMMA ArchedType ==
    ASSUME NEW c \in PIC, NEW mode \in SUBSET MODES
    PROVE  /\ Arched(c, mode) \in PIC
           /\ Arched(c, mode).InterruptPin = c.InterruptPin
           /\ Arched(c, mode).State = 4
<1>1. \A s \in 0..4 : [c EXCEPT !.State = s, !.Mode = @ \cup mode] \in PIC
  BY DEF PIC
<1>2. 4 \in 0..4
  OBVIOUS
<1>3. QED
  BY <1>1, <1>2 DEF Arched, PIC

-----------------------------------------------------------------------------
\* A settled chip has been initialised, and the master is not between ICW1 and
\* ICW3.
SettledReady ==
    \A i \in Chips : settled[i] => pic[i].State = 4 /\ pic[0].State \notin {1, 2}

\* The inductive invariant.  MasterSignalled needs SettledReady: only an
\* initialised chip can be settled, so no ICW2..ICW4 meets a settled chip.
Inv == TypeOK /\ SettledReady /\ MasterSignalled /\ MasterPinsFollow

\* The machine record built from the variables is typed, and announces what a
\* settled master wants.
LEMMA MachineIsTyped ==
    ASSUME TypeOK, NEW a \in SUBSET Irq
    PROVE  /\ Machine(a) \in MachineType
           /\ Machine(a).pic = pic
           /\ Machine(a).events = events
           /\ Machine(a).window = window
           /\ Machine(a).accepts = a
           /\ MasterSignalled /\ settled[0] => Asked(Machine(a))
BY DEF TypeOK, Machine, MachineType, MasterSignalled, Asked, Wants

\* How a step re-establishes the invariant, from the machine it becomes.
LEMMA ReestablishInv ==
    ASSUME NEW n \in MachineType, Become(n),
           wire' \in [Lines -> BOOLEAN],
           settled' \in [Chips -> BOOLEAN],
           \A i \in Chips :
              settled'[i] => n.pic[i].State = 4 /\ n.pic[0].State \notin {1, 2},
           settled'[0] => Asked(n),
           \A l \in Lines : l < 8 /\ ~wire'[l] => l \notin n.pic[0].InterruptPin
    PROVE  Inv'
<1>1. /\ pic' = n.pic
      /\ events' = n.events
      /\ window' = n.window
  BY DEF Become
<1>2. TypeOK'
  BY <1>1 DEF TypeOK, MachineType
<1>3. SettledReady'
  BY <1>1 DEF SettledReady
<1>4. MasterSignalled'
  BY <1>1 DEF MasterSignalled, Asked, Wants
<1>5. MasterPinsFollow'
  <2>1. \A l \in 0..15 : l < 8 => l % 8 = l /\ l \div 8 = 0
    OBVIOUS
  <2>2. Lines \subseteq 0..15
    BY PicAssumption
  <2>3. QED
    BY <1>1, <2>1, <2>2 DEF MasterPinsFollow, PinFollowsWire
<1>6. QED
  BY <1>2, <1>3, <1>4, <1>5 DEF Inv

\* The pins of the lines their devices hold low, in terms of line numbers.
LEMMA InvPins ==
    ASSUME Inv
    PROVE  \A l \in Lines : l < 8 /\ ~wire[l] => l \notin pic[0].InterruptPin
<1>1. \A l \in 0..15 : l < 8 => l % 8 = l /\ l \div 8 = 0
  OBVIOUS
<1>2. Lines \subseteq 0..15
  BY PicAssumption
<1>3. QED
  BY <1>1, <1>2 DEF Inv, MasterPinsFollow, PinFollowsWire

\* Replacing a chip, as a step of the handlers.
LEMMA PutStep ==
    ASSUME NEW m \in MachineType, NEW i \in Chips, NEW c \in PIC
    PROVE  /\ Put(m, i, c) \in MachineType
           /\ Put(m, i, c).pic[i] = c
           /\ \A j \in Chips : j # i => Put(m, i, c).pic[j] = m.pic[j]
           /\ Put(m, i, c).events = m.events
           /\ Put(m, i, c).window = m.window
           /\ i = 1 /\ Asked(m) => Asked(Put(m, i, c))
<1>1. m.pic \in [Chips -> PIC]
  BY DEF MachineType
<1>0. Put(m, i, c).pic = [m.pic EXCEPT ![i] = c]
  BY PutType
<1>2. /\ Put(m, i, c).pic[i] = c
      /\ \A j \in Chips : j # i => Put(m, i, c).pic[j] = m.pic[j]
  BY <1>0, <1>1
<1>3. i = 1 => Put(m, i, c).pic[0] = m.pic[0]
  BY <1>2 DEF Chips
<1>4. /\ Put(m, i, c) \in MachineType
      /\ Put(m, i, c).events = m.events
      /\ Put(m, i, c).window = m.window
  BY PutType
<1>5. i = 1 /\ Asked(m) => Asked(Put(m, i, c))
  BY <1>3, <1>4 DEF Asked
<1>6. QED
  BY <1>2, <1>4, <1>5

\* Replacing a chip and servicing it: the common tail of a raise, an EOI and
\* an IMR write.
LEMMA ServiceStep ==
    ASSUME NEW m \in MachineType, NEW i \in Chips, NEW c \in PIC,
           c.State = m.pic[i].State
    PROVE  LET n == PicService(Put(m, i, c), i)
           IN  /\ n \in MachineType
               /\ \A j \in Chips : n.pic[j].State = m.pic[j].State
               /\ i = 0 => n.pic[0].InterruptPin
                               \subseteq c.InterruptPin \cup {CascadeLine}
               /\ i = 1 => n.pic[0].InterruptPin
                               \subseteq m.pic[0].InterruptPin \cup {CascadeLine}
               /\ i = 0 \/ Asked(m) => Asked(n)
<1> DEFINE l == Put(m, i, c)
           n == PicService(l, i)
<1>1. /\ l \in MachineType
      /\ l.pic[i] = c
      /\ \A j \in Chips : j # i => l.pic[j] = m.pic[j]
      /\ i = 1 /\ Asked(m) => Asked(l)
  BY PutStep
<1> HIDE DEF l
<1>2. Grown(l, n) /\ (i = 0 \/ Asked(l) => Asked(n))
  BY <1>1, PicServiceGrown
<1> HIDE DEF n
<1>3. \A j \in Chips : /\ n.pic[j].State = l.pic[j].State
                       /\ n.pic[j].InterruptPin
                            \subseteq l.pic[j].InterruptPin \cup {CascadeLine}
  BY <1>2 DEF Grown, Serviced
<1>4. i = 0 \/ i = 1
  BY DEF Chips
<1>5. n \in MachineType
  BY <1>2 DEF Grown
<1>6. \A j \in Chips : n.pic[j].State = m.pic[j].State
  BY <1>1, <1>3
<1>7. 0 \in Chips
  BY DEF Chips
<1>8. /\ i = 0 => n.pic[0].InterruptPin \subseteq c.InterruptPin \cup {CascadeLine}
      /\ i = 1 => n.pic[0].InterruptPin
                     \subseteq m.pic[0].InterruptPin \cup {CascadeLine}
  BY <1>1, <1>3, <1>7
<1>9. i = 0 \/ Asked(m) => Asked(n)
  BY <1>1, <1>2, <1>4
<1>10. QED
  BY <1>5, <1>6, <1>8, <1>9 DEF n, l

\* A device line is a line of one of the two chips (pic.c:226-227), never
\* line 2.
LEMMA LineIsIrq ==
    ASSUME NEW l \in Lines
    PROVE  /\ l \in 0..15
           /\ l # CascadeLine
           /\ l \div 8 \in Chips
           /\ l % 8 \in Irq
           /\ l < 8 => l \div 8 = 0 /\ l % 8 = l
           /\ l >= 8 => l \div 8 = 1
<1>1. l \in 0..15 /\ l # CascadeLine
  BY PicAssumption
<1>2. l \in {0,1,2,3,4,5,6,7,8,9,10,11,12,13,14,15}
  BY <1>1
<1>3. QED
  BY <1>1, <1>2 DEF Chips, Irq

\* A step that updates a chip and services it preserves the invariant, whatever
\* else happened to the machine before.
LEMMA ServicedFrom ==
    ASSUME Inv, NEW m \in MachineType, m.pic = pic, settled[0] => Asked(m),
           NEW i \in Chips, NEW c \in PIC,
           c.State = pic[i].State,
           i = 0 => \A l \in Lines :
                       l < 8 /\ ~wire'[l] => l \notin c.InterruptPin,
           i = 1 => \A l \in Lines :
                       l < 8 /\ ~wire'[l] => l \notin pic[0].InterruptPin,
           wire' \in [Lines -> BOOLEAN],
           Become(PicService(Put(m, i, c), i)),
           UNCHANGED settled \/ Settle(i)
    PROVE  Inv'
<1> DEFINE n == PicService(Put(m, i, c), i)
<1>2. /\ n \in MachineType
      /\ \A j \in Chips : n.pic[j].State = pic[j].State
      /\ i = 0 => n.pic[0].InterruptPin \subseteq c.InterruptPin \cup {CascadeLine}
      /\ i = 1 => n.pic[0].InterruptPin
                     \subseteq pic[0].InterruptPin \cup {CascadeLine}
      /\ i = 0 \/ Asked(m) => Asked(n)
  BY ServiceStep
<1> HIDE DEF n
<1>3. i = 0 \/ i = 1
  BY DEF Chips
<1>4. settled \in [Chips -> BOOLEAN]
  BY DEF Inv, TypeOK
<1>5. settled' \in [Chips -> BOOLEAN]
  BY <1>4 DEF Settle
<1>6. \A j \in Chips :
        settled'[j] => n.pic[j].State = 4 /\ n.pic[0].State \notin {1, 2}
  <2>1. \A j \in Chips :
          settled'[j] => pic[j].State = 4 /\ pic[0].State \notin {1, 2}
    <3>1. CASE UNCHANGED settled
      BY <3>1 DEF Inv, SettledReady
    <3>2. CASE Settle(i)
      <4>1. settled' = [settled EXCEPT
                          ![i] = pic[i].State = 4 /\ pic[0].State \notin {1, 2}]
        BY <3>2 DEF Settle
      <4>2. \A j \in Chips : settled[j] => pic[j].State = 4 /\ pic[0].State \notin {1, 2}
        BY DEF Inv, SettledReady
      <4>3. \A j \in Chips : j # i => settled'[j] = settled[j]
        BY <1>4, <4>1
      <4>4. settled'[i] = (pic[i].State = 4 /\ pic[0].State \notin {1, 2})
        BY <1>4, <4>1
      <4>5. QED
        BY <4>2, <4>3, <4>4
    <3>3. QED
      BY <3>1, <3>2
  <2>2. QED
    BY <1>2, <2>1 DEF Chips
<1>7. settled'[0] => Asked(n)
  <2>1. ASSUME i = 1 PROVE settled'[0] = settled[0]
    <3>1. CASE UNCHANGED settled
      BY <3>1
    <3>2. CASE Settle(i)
      BY <1>4, <2>1, <3>2 DEF Settle, Chips
    <3>3. QED
      BY <3>1, <3>2
  <2>2. QED
    BY <1>2, <1>3, <2>1
<1>8. \A l \in Lines : l < 8 /\ ~wire'[l] => l \notin n.pic[0].InterruptPin
  BY <1>2, <1>3, LineIsIrq
<1>9. Become(n)
  BY DEF n
<1>10. QED
  BY <1>2, <1>5, <1>6, <1>7, <1>8, <1>9, ReestablishInv

\* The same for a handler that starts from the machine as it is.
LEMMA ServicedInv ==
    ASSUME Inv, NEW a \in SUBSET Irq, NEW i \in Chips, NEW c \in PIC,
           c.State = pic[i].State,
           i = 0 => \A l \in Lines :
                       l < 8 /\ ~wire'[l] => l \notin c.InterruptPin,
           i = 1 => \A l \in Lines :
                       l < 8 /\ ~wire'[l] => l \notin pic[0].InterruptPin,
           wire' \in [Lines -> BOOLEAN],
           Become(PicService(Put(Machine(a), i, c), i)),
           UNCHANGED settled \/ Settle(i)
    PROVE  Inv'
<1>1. /\ Machine(a) \in MachineType
      /\ Machine(a).pic = pic
      /\ settled[0] => Asked(Machine(a))
  BY MachineIsTyped DEF Inv
<1>2. QED
  BY <1>1, ServicedFrom

\* A step that updates a chip without servicing it preserves the invariant if
\* it makes nothing new deliverable on a settled chip.
LEMMA QuietFrom ==
    ASSUME Inv, NEW m \in MachineType, m.pic = pic, settled[0] => Asked(m),
           NEW i \in Chips, NEW c \in PIC,
           Become(Put(m, i, c)),
           wire' \in [Lines -> BOOLEAN],
           settled' \in [Chips -> BOOLEAN],
           \A j \in Chips : settled'[j] => settled[j],
           settled'[i] => c.State = 4,
           i = 0 /\ settled'[1] => c.State \notin {1, 2},
           i = 0 /\ settled'[0] /\ c.Cascade /\ Nested(c) /\ Deliverable(c) # {}
                => "INTR" \in m.events /\ m.window,
           i = 0 => \A l \in Lines :
                       l < 8 /\ ~wire'[l] => l \notin c.InterruptPin,
           i = 1 => \A l \in Lines :
                       l < 8 /\ ~wire'[l] => l \notin pic[0].InterruptPin
    PROVE  Inv'
<1> DEFINE n == Put(m, i, c)
<1>2. /\ n \in MachineType
      /\ n.pic[i] = c
      /\ \A j \in Chips : j # i => n.pic[j] = pic[j]
      /\ n.events = m.events
      /\ n.window = m.window
      /\ i = 1 /\ Asked(m) => Asked(n)
  BY PutStep
<1> HIDE DEF n
<1>3. i \in {0, 1} /\ 0 \in Chips /\ 1 \in Chips
  BY DEF Chips
<1>4. \A j \in Chips :
        settled'[j] => n.pic[j].State = 4 /\ n.pic[0].State \notin {1, 2}
  <2>1. \A j \in Chips : settled[j] => pic[j].State = 4 /\ pic[0].State \notin {1, 2}
    BY DEF Inv, SettledReady
  <2>2. CASE i = 0
    <3>1. settled'[0] => n.pic[0].State = 4
      BY <1>2, <2>2
    <3>2. settled'[1] => n.pic[1].State = 4 /\ n.pic[0].State \notin {1, 2}
      BY <1>2, <1>3, <2>1, <2>2
    <3>3. QED
      BY <3>1, <3>2 DEF Chips
  <2>3. CASE i = 1
    <3>1. n.pic[0] = pic[0]
      BY <1>2, <1>3, <2>3
    <3>2. QED
      BY <1>2, <2>1, <2>3, <3>1 DEF Chips
  <2>4. QED
    BY <1>3, <2>2, <2>3
<1>5. settled'[0] => Asked(n)
  BY <1>2, <1>3 DEF Asked
<1>6. \A l \in Lines : l < 8 /\ ~wire'[l] => l \notin n.pic[0].InterruptPin
  BY <1>2, <1>3
<1>7. Become(n)
  BY DEF n
<1>8. QED
  BY <1>2, <1>4, <1>5, <1>6, <1>7, ReestablishInv

\* The same for a handler that starts from the machine as it is.
LEMMA QuietInv ==
    ASSUME Inv, NEW a \in SUBSET Irq, NEW i \in Chips, NEW c \in PIC,
           Become(Put(Machine(a), i, c)),
           wire' \in [Lines -> BOOLEAN],
           settled' \in [Chips -> BOOLEAN],
           \A j \in Chips : settled'[j] => settled[j],
           settled'[i] => c.State = 4,
           i = 0 /\ settled'[1] => c.State \notin {1, 2},
           i = 0 /\ settled'[0] /\ c.Cascade /\ Nested(c) /\ Deliverable(c) # {}
                => "INTR" \in events /\ window,
           i = 0 => \A l \in Lines :
                       l < 8 /\ ~wire'[l] => l \notin c.InterruptPin,
           i = 1 => \A l \in Lines :
                       l < 8 /\ ~wire'[l] => l \notin pic[0].InterruptPin
    PROVE  Inv'
<1>1. /\ Machine(a) \in MachineType
      /\ Machine(a).pic = pic
      /\ Machine(a).events = events
      /\ Machine(a).window = window
      /\ settled[0] => Asked(Machine(a))
  BY MachineIsTyped DEF Inv
<1>2. QED
  BY <1>1, QuietFrom

\* PicRaiseIrq preserves the invariant.
LEMMA RaiseFrom ==
    ASSUME Inv, NEW m \in MachineType, m.pic = pic, settled[0] => Asked(m),
           NEW l \in Lines, Become(PicRaiseIrq(m, l)),
           wire' = [wire EXCEPT ![l] = TRUE], UNCHANGED settled
    PROVE  Inv'
<1> DEFINE i == l \div 8
           irq == l % 8
<1>0. /\ i \in Chips /\ irq \in Irq
      /\ l < 8 => i = 0 /\ irq = l
      /\ l \in 0..15
      /\ l >= 8 => i = 1
  BY LineIsIrq
<1>1. /\ wire \in [Lines -> BOOLEAN]
      /\ settled \in [Chips -> BOOLEAN]
      /\ pic[i] \in PIC
  BY <1>0 DEF Inv, TypeOK
<1>3. wire' \in [Lines -> BOOLEAN]
  BY <1>1
<1>4. \A k \in Lines : k < 8 /\ ~wire'[k] => k # l /\ k \notin pic[0].InterruptPin
  <2>1. \A k \in Lines : ~wire'[k] => k # l /\ ~wire[k]
    BY <1>1
  <2>2. QED
    BY <2>1, InvPins
<1>6. CASE irq \in pic[i].InterruptPin
  <2>1. Become(m)
    BY <1>6 DEF PicRaiseIrq
  <2>3. \A j \in Chips :
          settled'[j] => pic[j].State = 4 /\ pic[0].State \notin {1, 2}
    BY DEF Inv, SettledReady
  <2>4. QED
    BY <1>1, <1>3, <1>4, <2>1, <2>3, ReestablishInv
<1>7. CASE irq \notin pic[i].InterruptPin
  <2> DEFINE c == Latched(pic[i], irq)
  <2>1. Become(PicService(Put(m, i, c), i))
    BY <1>7 DEF PicRaiseIrq
  <2>2. /\ c \in PIC
        /\ c.InterruptPin = pic[i].InterruptPin \cup {irq}
        /\ c.State = pic[i].State
    BY <1>0, <1>1, LatchedType
  <2> HIDE DEF c, i, irq
  <2>3. i = 0 => \A k \in Lines : k < 8 /\ ~wire'[k] => k \notin c.InterruptPin
    <3>1. i = 0 => irq = l
      BY <1>0
    <3>2. QED
      BY <1>4, <2>2, <3>1
  <2>4. QED
    BY <1>0, <1>1, <1>3, <1>4, <2>1, <2>2, <2>3, ServicedFrom
<1>8. QED
  BY <1>6, <1>7

LEMMA DeviceRaiseInv ==
    ASSUME Inv, NEW l \in Lines, NEW a \in GvmAccepts, DeviceRaise(l, a)
    PROVE  Inv'
<1>1. a \in SUBSET Irq
  BY PicAssumption
<1>2. /\ Machine(a) \in MachineType
      /\ Machine(a).pic = pic
      /\ settled[0] => Asked(Machine(a))
  BY <1>1, MachineIsTyped DEF Inv
<1>3. QED
  BY <1>2, RaiseFrom DEF DeviceRaise

\* PicLowerIrq preserves the invariant.
LEMMA LowerFrom ==
    ASSUME Inv, NEW m \in MachineType, m.pic = pic, settled[0] => Asked(m),
           NEW l \in Lines, Become(PicLowerIrq(m, l)),
           wire' = [wire EXCEPT ![l] = FALSE], UNCHANGED settled
    PROVE  Inv'
<1>0. l \in 0..15 /\ 0 \in Chips
  BY LineIsIrq DEF Chips
<1>1. /\ wire \in [Lines -> BOOLEAN]
      /\ settled \in [Chips -> BOOLEAN]
      /\ pic[0] \in PIC
  BY <1>0 DEF Inv, TypeOK
<1>3. wire' \in [Lines -> BOOLEAN]
  BY <1>1
<1>4. \A k \in Lines : k < 8 /\ ~wire'[k] => k = l \/ k \notin pic[0].InterruptPin
  <2>1. \A k \in Lines : ~wire'[k] => k = l \/ ~wire[k]
    BY <1>1
  <2>2. QED
    BY <2>1, InvPins
<1>7. \A j \in Chips :
        settled'[j] => pic[j].State = 4 /\ pic[0].State \notin {1, 2}
  BY DEF Inv, SettledReady
<1>8. CASE l > 7 \/ l \notin pic[0].InterruptPin
  <2>1. Become(m)
    BY <1>8 DEF PicLowerIrq
  <2>2. \A k \in Lines : k < 8 /\ ~wire'[k] => k \notin pic[0].InterruptPin
    BY <1>0, <1>4, <1>8
  <2>3. QED
    BY <1>1, <1>3, <1>7, <2>1, <2>2, ReestablishInv
<1>9. CASE l \in 0..7 /\ l \in pic[0].InterruptPin
  <2> DEFINE c == Lowered(pic[0], l)
  <2>1. Become(Put(m, 0, c))
    BY <1>9 DEF PicLowerIrq
  <2>2. /\ c \in PIC
        /\ c.InterruptPin = pic[0].InterruptPin \ {l}
        /\ c.State = pic[0].State
        /\ Deliverable(c) \subseteq Deliverable(pic[0])
        /\ Nested(c) = Nested(pic[0])
        /\ c.Cascade = pic[0].Cascade
    BY <1>1, <1>9, LoweredType DEF Irq
  <2> HIDE DEF c
  <2>3. \A k \in Lines : k < 8 /\ ~wire'[k] => k \notin c.InterruptPin
    BY <1>4, <2>2
  <2>4. settled'[0] /\ c.Cascade /\ Nested(c) /\ Deliverable(c) # {}
          => "INTR" \in m.events /\ m.window
    BY <2>2 DEF Asked
  <2>5. /\ settled'[0] => c.State = 4
        /\ settled'[1] => c.State \notin {1, 2}
        /\ \A j \in Chips : settled'[j] => settled[j]
        /\ settled' \in [Chips -> BOOLEAN]
    BY <1>1, <1>7, <2>2 DEF Chips
  <2>6. QED
    BY <1>0, <1>1, <1>3, <2>1, <2>2, <2>3, <2>4, <2>5, QuietFrom
<1>10. QED
  BY <1>0, <1>8, <1>9

LEMMA DeviceLowerInv ==
    ASSUME Inv, NEW l \in Lines, DeviceLower(l)
    PROVE  Inv'
<1>1. /\ Machine({}) \in MachineType
      /\ Machine({}).pic = pic
      /\ settled[0] => Asked(Machine({}))
  BY MachineIsTyped DEF Inv
<1>2. QED
  BY <1>1, LowerFrom DEF DeviceLower

\* A step that leaves the chips and the lines alone, and the master's wish as
\* it was, preserves the invariant.
LEMMA StillInv ==
    ASSUME Inv, NEW m \in MachineType, m.pic = pic, settled[0] => Asked(m),
           Become(m), UNCHANGED <<wire, settled>>
    PROVE  Inv'
<1>1. wire \in [Lines -> BOOLEAN] /\ settled \in [Chips -> BOOLEAN]
  BY DEF Inv, TypeOK
<1>2. \A i \in Chips : settled[i] => pic[i].State = 4 /\ pic[0].State \notin {1, 2}
  BY DEF Inv, SettledReady
<1>3. \A l \in Lines : l < 8 /\ ~wire[l] => l \notin pic[0].InterruptPin
  BY InvPins
<1>4. QED
  BY <1>1, <1>2, <1>3, ReestablishInv

\* What every guest write starts from.
LEMMA GuestFacts ==
    ASSUME Inv, NEW i \in Chips
    PROVE  /\ pic[i] \in PIC
           /\ {} \in SUBSET Irq
           /\ \A a \in GvmAccepts : a \in SUBSET Irq
           /\ \A a : Machine(a).pic = pic
           /\ wire \in [Lines -> BOOLEAN]
           /\ settled \in [Chips -> BOOLEAN]
           /\ settled[i] => pic[i].State = 4
           /\ settled[1] => pic[0].State \notin {1, 2}
           /\ settled[0] /\ pic[0].Cascade /\ Nested(pic[0])
                /\ Deliverable(pic[0]) # {} => "INTR" \in events /\ window
           /\ \A k \in Lines : k < 8 /\ ~wire[k] => k \notin pic[0].InterruptPin
<1>1. /\ wire \in [Lines -> BOOLEAN]
      /\ settled \in [Chips -> BOOLEAN]
      /\ pic[i] \in PIC
  BY DEF Inv, TypeOK
<1>2. \A a \in GvmAccepts : a \in SUBSET Irq
  BY PicAssumption
<1>3. \A a : Machine(a).pic = pic
  BY DEF Machine
<1>4. /\ settled[i] => pic[i].State = 4
      /\ settled[1] => pic[0].State \notin {1, 2}
  BY DEF Inv, SettledReady, Chips
<1>5. settled[0] /\ pic[0].Cascade /\ Nested(pic[0])
         /\ Deliverable(pic[0]) # {} => "INTR" \in events /\ window
  BY DEF Inv, MasterSignalled, Wants
<1>6. QED
  BY <1>1, <1>2, <1>3, <1>4, <1>5, InvPins

\* A write to a register the delivery does not look at preserves the
\* invariant.
LEMMA HarmlessInv ==
    ASSUME Inv, NEW i \in Chips, NEW a \in SUBSET Irq, NEW c \in PIC,
           Become(Put(Machine(a), i, c)),
           c.InterruptPin = pic[i].InterruptPin,
           c.State = pic[i].State,
           c.Cascade = pic[i].Cascade,
           Nested(c) => Nested(pic[i]) /\ Deliverable(c) = Deliverable(pic[i]),
           UNCHANGED <<wire, settled>>
    PROVE  Inv'
<1>1. wire' \in [Lines -> BOOLEAN] /\ settled' \in [Chips -> BOOLEAN]
  BY GuestFacts
<1>2. \A j \in Chips : settled'[j] => settled[j]
  OBVIOUS
<1>3. /\ settled'[i] => c.State = 4
      /\ i = 0 /\ settled'[1] => c.State \notin {1, 2}
  BY GuestFacts
<1>4. i = 0 /\ settled'[0] /\ c.Cascade /\ Nested(c) /\ Deliverable(c) # {}
         => "INTR" \in events /\ window
  BY GuestFacts
<1>5. /\ i = 0 => \A l \in Lines :
                     l < 8 /\ ~wire'[l] => l \notin c.InterruptPin
      /\ i = 1 => \A l \in Lines :
                     l < 8 /\ ~wire'[l] => l \notin pic[0].InterruptPin
  BY GuestFacts
<1>6. QED
  BY <1>1, <1>2, <1>3, <1>4, <1>5, QuietInv

\* PicSetMode preserves the invariant.
LEMMA GuestElcrInv ==
    ASSUME Inv, NEW i \in Chips, NEW level \in LevelLines, GuestElcr(i, level)
    PROVE  Inv'
<1> DEFINE c == [pic[i] EXCEPT !.EdgeLevel = level \cap ElcrMask(i)]
<1>1. Become(Put(Machine({}), i, c)) /\ UNCHANGED <<wire, settled>>
  BY GuestFacts DEF GuestElcr, PicSetMode
<1>2. level \cap ElcrMask(i) \in SUBSET Irq
  BY PicAssumption
<1>3. /\ c \in PIC
      /\ c.InterruptPin = pic[i].InterruptPin
      /\ c.State = pic[i].State
      /\ c.Cascade = pic[i].Cascade
      /\ Nested(c) => Nested(pic[i]) /\ Deliverable(c) = Deliverable(pic[i])
  BY <1>2, GuestFacts DEF PIC, Nested, Deliverable
<1> HIDE DEF c
<1>4. QED
  BY <1>1, <1>3, GuestFacts, HarmlessInv

\* ICW1 preserves the invariant: nothing is settled afterwards.
LEMMA GuestIcw1Inv ==
    ASSUME Inv, NEW i \in Chips, NEW icw4 \in Icw1Values, GuestIcw1(i, icw4)
    PROVE  Inv'
<1> DEFINE m == Machine({})
           c == Restarted(pic[i], icw4)
           l == Put(m, i, c)
           n == [l EXCEPT !.events = @ \ {"INTR"}]
<1>1. Become(n) /\ settled' = [j \in Chips |-> FALSE] /\ UNCHANGED wire
  BY GuestFacts DEF GuestIcw1, WriteIcw1
<1>2. c \in PIC /\ c.InterruptPin = pic[i].InterruptPin
  <2>1. icw4 \in BOOLEAN
    BY PicAssumption
  <2>2. QED
    BY <2>1, GuestFacts, RestartedType
<1>3. m \in MachineType /\ m.pic = pic
  BY MachineIsTyped DEF Inv
<1> HIDE DEF c, m
<1>4. /\ l \in MachineType
      /\ l.pic[i] = c
      /\ \A j \in Chips : j # i => l.pic[j] = pic[j]
  BY <1>2, <1>3, PutStep
<1> HIDE DEF l
<1>5. n \in MachineType /\ n.pic = l.pic
  BY <1>4 DEF MachineType
<1> HIDE DEF n
<1>6. n.pic[0].InterruptPin = pic[0].InterruptPin
  BY <1>2, <1>4, <1>5 DEF Chips
<1>7. /\ settled' \in [Chips -> BOOLEAN]
      /\ \A j \in Chips : ~settled'[j]
      /\ ~settled'[0]
  BY <1>1 DEF Chips
<1>8. QED
  BY <1>1, <1>5, <1>6, <1>7, GuestFacts, ReestablishInv

\* OCW3 preserves the invariant: a mode it sets is not the nested one.
LEMMA GuestOcw3Inv ==
    ASSUME Inv, NEW i \in Chips, NEW cmd \in Ocw3Commands, NEW a \in GvmAccepts,
           GuestOcw3(i, cmd, a)
    PROVE  Inv'
<1> DEFINE read(sel) == [pic[i] EXCEPT !.ReadSelect = sel]
           moded == Moded(pic[i], Ocw3Mode(cmd))
<1>1. Become(WriteOcw3(Machine(a), i, cmd)) /\ UNCHANGED <<wire, settled>>
  BY DEF GuestOcw3
<1>2. cmd \in OCW3
  BY PicAssumption
<1>3. a \in SUBSET Irq
  BY GuestFacts
<1>4. Machine(a).pic[i] = pic[i]
  BY GuestFacts
<1>5. CASE cmd \in {"read_irr", "read_isr", "none"}
  <2>1. PICK sel \in 0..3 : Become(Put(Machine(a), i, read(sel)))
    <3>1. 0 \in 0..3 /\ 2 \in 0..3 /\ 3 \in 0..3
      OBVIOUS
    <3>2. WriteOcw3(Machine(a), i, cmd) \in
            {Put(Machine(a), i, read(0)), Put(Machine(a), i, read(2)),
             Put(Machine(a), i, read(3))}
      BY <1>4, <1>5 DEF WriteOcw3
    <3>3. QED
      BY <1>1, <3>1, <3>2
  <2> DEFINE c == read(sel)
  <2>2. /\ c \in PIC
        /\ c.InterruptPin = pic[i].InterruptPin
        /\ c.State = pic[i].State
        /\ c.Cascade = pic[i].Cascade
        /\ Nested(c) => Nested(pic[i]) /\ Deliverable(c) = Deliverable(pic[i])
    BY GuestFacts DEF PIC, Nested, Deliverable
  <2> HIDE DEF c
  <2>3. Become(Put(Machine(a), i, c))
    BY <2>1 DEF c
  <2>4. QED
    BY <1>1, <1>3, <2>2, <2>3, HarmlessInv
<1>6. ASSUME cmd \in {"special_mask", "special_nested", "poll"}
      PROVE  /\ moded \in PIC
             /\ moded.InterruptPin = pic[i].InterruptPin
             /\ moded.State = pic[i].State
             /\ moded.Cascade = pic[i].Cascade
             /\ ~Nested(moded)
  <2>1. Ocw3Mode(cmd) \in {{"SPECIAL_MASK"}, {"SPECIAL_FULLY_NESTED"}, {"POLL"}}
    BY <1>6 DEF Ocw3Mode
  <2>2. Ocw3Mode(cmd) \in SUBSET MODES /\ "FULLY_NESTED" \notin Ocw3Mode(cmd)
    BY <2>1 DEF MODES
  <2>3. pic[i] \in PIC
    BY GuestFacts
  <2>4. QED
    BY <2>2, <2>3, ModedType DEF Nested
<1>7. CASE cmd = "special_mask"
  <2>1. Become(PicService(Put(Machine(a), i, moded), i))
    BY <1>1, <1>4, <1>7 DEF WriteOcw3
  <2> HIDE DEF moded
  <2>2. QED
    BY <1>1, <1>3, <1>6, <1>7, <2>1, GuestFacts, ServicedInv
<1>8. CASE cmd \in {"special_nested", "poll"}
  <2>1. Become(Put(Machine(a), i, moded))
    BY <1>1, <1>4, <1>8 DEF WriteOcw3
  <2> HIDE DEF moded
  <2>2. QED
    BY <1>1, <1>3, <1>6, <1>8, <2>1, HarmlessInv
<1>9. QED
  BY <1>2, <1>5, <1>7, <1>8 DEF OCW3

\* A write that ends in PicService preserves the invariant and settles its
\* chip.
LEMMA SettlingInv ==
    ASSUME Inv, NEW i \in Chips, NEW a \in SUBSET Irq, NEW c \in PIC,
           Become(PicService(Put(Machine(a), i, c), i)),
           c.InterruptPin = pic[i].InterruptPin,
           c.State = pic[i].State,
           Settle(i), UNCHANGED wire
    PROVE  Inv'
<1>1. /\ i = 0 => \A l \in Lines :
                     l < 8 /\ ~wire'[l] => l \notin c.InterruptPin
      /\ i = 1 => \A l \in Lines :
                     l < 8 /\ ~wire'[l] => l \notin pic[0].InterruptPin
      /\ wire' \in [Lines -> BOOLEAN]
  BY GuestFacts
<1>2. QED
  BY <1>1, ServicedInv

\* OCW2 preserves the invariant: every EOI ends in PicService, and the set-
\* priority command unsettles its chip.
LEMMA GuestOcw2Inv ==
    ASSUME Inv, NEW i \in Chips, NEW cmd \in Ocw2Commands, NEW irq \in Irq,
           NEW a \in GvmAccepts, GuestOcw2(i, cmd, irq, a)
    PROVE  Inv'
<1> DEFINE c == pic[i]
           m == Machine(a)
<1>1. /\ Become(WriteOcw2(m, i, cmd, irq))
      /\ UNCHANGED wire
  BY DEF GuestOcw2
<1>2. cmd \in OCW2
  BY PicAssumption
<1>3. a \in SUBSET Irq /\ c \in PIC /\ m.pic[i] = c
  BY GuestFacts
<1>4. cmd \in {"normal_mode", "auto_mode"} => UNCHANGED settled
  BY DEF GuestOcw2
<1>5. cmd = "set_priority" => settled' = [settled EXCEPT ![i] = FALSE]
  BY DEF GuestOcw2
<1>6. cmd \in {"nonspecific_eoi", "specific_eoi", "rotate_specific_eoi"} => Settle(i)
  BY DEF GuestOcw2
<1>7. CASE cmd \in {"normal_mode", "auto_mode"}
  <2>1. PICK mode \in {{"NORMAL_EOI"}, {"AUTO_EOI"}} :
           Become(Put(m, i, [c EXCEPT !.Mode = mode]))
    BY <1>1, <1>3, <1>7 DEF WriteOcw2
  <2> DEFINE d == [c EXCEPT !.Mode = mode]
  <2>2. /\ d \in PIC
        /\ d.InterruptPin = c.InterruptPin
        /\ d.State = c.State
        /\ d.Cascade = c.Cascade
        /\ d.Mode = mode
    BY <1>3 DEF PIC, MODES
  <2> HIDE DEF d
  <2>3. ~Nested(d)
    BY <2>2 DEF Nested
  <2>4. Become(Put(m, i, d))
    BY <2>1 DEF d
  <2>5. QED
    BY <1>1, <1>3, <1>4, <1>7, <2>2, <2>3, <2>4, HarmlessInv
<1>8. CASE cmd = "nonspecific_eoi"
  <2>1. Become(PicService(Put(m, i, NonspecificEoi(c)), i))
    BY <1>1, <1>3, <1>8 DEF WriteOcw2
  <2>2. QED
    BY <1>1, <1>3, <1>6, <1>8, <2>1, NonspecificEoiType, SettlingInv
<1>9. CASE cmd = "specific_eoi"
  <2>1. Become(PicService(Put(m, i, SpecificEoi(c, irq)), i))
    BY <1>1, <1>3, <1>9 DEF WriteOcw2
  <2>2. QED
    BY <1>1, <1>3, <1>6, <1>9, <2>1, SpecificEoiType, SettlingInv
<1>10. CASE cmd = "rotate_specific_eoi"
  <2> DEFINE d == SetPriority(SpecificEoi(c, irq), irq)
  <2>1. Become(PicService(Put(m, i, d), i))
    BY <1>1, <1>3, <1>10 DEF WriteOcw2
  <2>2. d \in PIC /\ d.InterruptPin = c.InterruptPin /\ d.State = c.State
    BY <1>3, SpecificEoiType, SetPriorityType
  <2> HIDE DEF d
  <2>3. QED
    BY <1>1, <1>3, <1>6, <1>10, <2>1, <2>2, SettlingInv
<1>11. CASE cmd = "set_priority"
  <2> DEFINE d == SetPriority(c, irq)
  <2>1. Become(Put(m, i, d))
    BY <1>1, <1>3, <1>11 DEF WriteOcw2
  <2>2. d \in PIC /\ d.InterruptPin = c.InterruptPin /\ d.State = c.State
    BY <1>3, SetPriorityType
  <2> HIDE DEF d
  <2>3. /\ settled' \in [Chips -> BOOLEAN]
        /\ \A j \in Chips : settled'[j] => settled[j]
        /\ ~settled'[i]
    BY <1>5, <1>11, GuestFacts
  <2>4. i = 0 /\ settled'[1] => d.State \notin {1, 2}
    BY <2>2, <2>3, GuestFacts DEF Chips
  <2>5. /\ i = 0 => \A l \in Lines :
                       l < 8 /\ ~wire'[l] => l \notin d.InterruptPin
        /\ i = 1 => \A l \in Lines :
                       l < 8 /\ ~wire'[l] => l \notin pic[0].InterruptPin
        /\ wire' \in [Lines -> BOOLEAN]
    BY <1>1, <2>2, GuestFacts
  <2>6. QED
    BY <1>3, <2>1, <2>2, <2>3, <2>4, <2>5, QuietInv
<1>12. QED
  BY <1>2, <1>7, <1>8, <1>9, <1>10, <1>11 DEF OCW2

\* The three writes that finish the initialisation meet an unsettled chip.
LEMMA InitialisingInv ==
    ASSUME Inv, NEW i \in Chips, NEW c \in PIC,
           Become(Put(Machine({}), i, c)),
           pic[i].State # 4,
           c.InterruptPin \subseteq pic[i].InterruptPin,
           c.State \in {1, 2} => pic[i].State \in {1, 2},
           UNCHANGED <<wire, settled>>
    PROVE  Inv'
<1>1. /\ wire' \in [Lines -> BOOLEAN] /\ settled' \in [Chips -> BOOLEAN]
      /\ \A j \in Chips : settled'[j] => settled[j]
      /\ ~settled'[i]
      /\ {} \in SUBSET Irq
  BY GuestFacts
<1>2. i = 0 /\ settled'[1] => c.State \notin {1, 2}
  BY GuestFacts
<1>3. /\ i = 0 => \A l \in Lines :
                     l < 8 /\ ~wire'[l] => l \notin c.InterruptPin
      /\ i = 1 => \A l \in Lines :
                     l < 8 /\ ~wire'[l] => l \notin pic[0].InterruptPin
  BY GuestFacts
<1>4. QED
  BY <1>1, <1>2, <1>3, QuietInv

\* ICW2 preserves the invariant.
LEMMA GuestIcw2Inv ==
    ASSUME Inv, NEW i \in Chips, NEW offset \in Byte, GuestIcw2(i, offset)
    PROVE  Inv'
<1>1. pic[i] \in PIC
  BY GuestFacts
<1> DEFINE c == Offset(pic[i], offset)
<1>2. c \in PIC /\ c.InterruptPin = pic[i].InterruptPin /\ c.State = 2
  BY <1>1, OffsetType
<1>3. /\ Become(Put(Machine({}), i, c))
      /\ pic[i].State = 1
      /\ UNCHANGED <<wire, settled>>
  BY GuestFacts DEF GuestIcw2, WriteIcw2
<1> HIDE DEF c
<1>4. QED
  BY <1>2, <1>3, InitialisingInv

\* ICW3 preserves the invariant.
LEMMA GuestIcw3Inv ==
    ASSUME Inv, NEW i \in Chips, NEW value, GuestIcw3(i, value)
    PROVE  Inv'
<1>1. pic[i] \in PIC
  BY GuestFacts
<1> DEFINE c == Cascaded(pic[i], i = 0 /\ CascadeLine \in value, value)
<1>2. c \in PIC /\ c.InterruptPin \subseteq pic[i].InterruptPin /\ c.State = 3
  <2>1. (i = 0 /\ CascadeLine \in value) \in BOOLEAN
    OBVIOUS
  <2>2. /\ c \in PIC
        /\ c.InterruptPin = pic[i].InterruptPin \ value
        /\ c.State = 3
    BY <1>1, <2>1, CascadedType, Zenon
  <2> HIDE DEF c
  <2>3. QED
    BY <2>2
<1>3. /\ Become(Put(Machine({}), i, c))
      /\ pic[i].State = 2
      /\ UNCHANGED <<wire, settled>>
  BY GuestFacts DEF GuestIcw3, WriteIcw3
<1> HIDE DEF c
<1>4. QED
  BY <1>2, <1>3, InitialisingInv

\* ICW4 preserves the invariant.
LEMMA GuestIcw4Inv ==
    ASSUME Inv, NEW i \in Chips, NEW bits, GuestIcw4(i, bits)
    PROVE  Inv'
<1>1. pic[i] \in PIC
  BY GuestFacts
<1> DEFINE c == Arched(pic[i], Icw4Mode(bits))
<1>2. c \in PIC /\ c.InterruptPin = pic[i].InterruptPin /\ c.State = 4
  <2>1. Icw4Mode(bits) \in SUBSET MODES
    BY DEF Icw4Mode, MODES
  <2>2. QED
    BY <1>1, <2>1, ArchedType
<1>3. /\ Become(Put(Machine({}), i, c))
      /\ pic[i].State = 3
      /\ UNCHANGED <<wire, settled>>
  BY GuestFacts DEF GuestIcw4, WriteIcw4
<1> HIDE DEF c
<1>4. QED
  BY <1>2, <1>3, InitialisingInv

\* A write of the IMR preserves the invariant.
LEMMA GuestImrInv ==
    ASSUME Inv, NEW i \in Chips, NEW mask \in Masks, NEW a \in GvmAccepts,
           GuestImr(i, mask, a)
    PROVE  Inv'
<1> DEFINE c == [pic[i] EXCEPT !.InterruptMask = mask]
<1>1. /\ Become(PicService(Put(Machine(a), i, c), i))
      /\ Settle(i)
      /\ UNCHANGED wire
  BY GuestFacts DEF GuestImr, WriteImr
<1>2. mask \in SUBSET Irq
  BY PicAssumption
<1>3. c \in PIC /\ c.InterruptPin = pic[i].InterruptPin /\ c.State = pic[i].State
  BY <1>2, GuestFacts DEF PIC
<1> HIDE DEF c
<1>4. QED
  BY <1>1, <1>3, GuestFacts, SettlingInv

\* PicIAC ends in PicService(&Pic[0]) (pic.c:194), so that the master is
\* announced whatever was acknowledged.
LEMMA PicIACType ==
    ASSUME NEW m \in MachineType
    PROVE  /\ PicIAC(m) \in MachineType
           /\ Asked(PicIAC(m))
           /\ \A j \in Chips : PicIAC(m).pic[j].State = m.pic[j].State
           /\ PicIAC(m).pic[0].InterruptPin
                 \subseteq m.pic[0].InterruptPin \cup {CascadeLine}
<1> DEFINE n == [m EXCEPT !.events = @ \ {"INTR"}]
           acked == IF AckedIrq(m.pic[0]) = CascadeLine
                    THEN AckSlave(n) ELSE AckMaster(n)
<1>0. 0 \in Chips /\ 1 \in Chips /\ \A j \in Chips : j = 0 \/ j = 1
  BY DEF Chips
<1>1. n \in MachineType /\ n.pic = m.pic
  BY DEF MachineType
<1>2. PicIAC(m) = ServiceMaster(acked)
  BY DEF PicIAC
<1> HIDE DEF n
<1>3. m.pic[0] \in PIC /\ m.pic[1] \in PIC
  BY <1>0 DEF MachineType
<1>4. /\ acked \in MachineType
      /\ \A j \in Chips : acked.pic[j].State = m.pic[j].State
      /\ acked.pic[0].InterruptPin \subseteq m.pic[0].InterruptPin \cup {CascadeLine}
  <2>1. CASE AckedIrq(m.pic[0]) # CascadeLine
    <3> DEFINE c == Entered(Consumed(m.pic[0]))
    <3>1. /\ c \in PIC
          /\ c.InterruptPin = m.pic[0].InterruptPin
          /\ c.State = m.pic[0].State
      BY <1>3, ConsumedType, EnteredType
    <3>2. acked = Put(n, 0, c)
      BY <1>1, <2>1 DEF AckMaster
    <3> HIDE DEF c, acked
    <3>3. QED
      BY <1>0, <1>1, <3>1, <3>2, PutStep, SMTT(30)
  <2>2. CASE AckedIrq(m.pic[0]) = CascadeLine
    <3> DEFINE c0 == Consumed(m.pic[0])
               d0 == [c0 EXCEPT !.InterruptPin = @ \ {CascadeLine}]
               d1 == Entered(Consumed(m.pic[1]))
               l == Put(n, 0, d0)
               k == Put(l, 1, d1)
    <3>1. /\ c0 \in PIC
          /\ c0.InterruptPin = m.pic[0].InterruptPin
          /\ c0.State = m.pic[0].State
      BY <1>3, ConsumedType
    <3> HIDE DEF c0
    <3>2. /\ d0 \in PIC
          /\ d0.InterruptPin = m.pic[0].InterruptPin \ {CascadeLine}
          /\ d0.State = m.pic[0].State
      BY <3>1 DEF PIC
    <3>3. d1 \in PIC /\ d1.State = m.pic[1].State
      BY <1>3, ConsumedType, EnteredType
    <3>4. acked = ServiceSlave(k)
      BY <1>1, <2>2 DEF AckSlave, c0
    <3> HIDE DEF d0, d1, acked
    <3>5. l \in MachineType /\ l.pic[0] = d0 /\ l.pic[1] = m.pic[1]
      BY <1>0, <1>1, <3>2, PutStep
    <3> HIDE DEF l
    <3>6. k \in MachineType /\ k.pic[0] = d0 /\ k.pic[1] = d1
      BY <1>0, <3>3, <3>5, PutStep
    <3> HIDE DEF k
    <3>7. Grown(k, acked)
      BY <3>4, <3>6, ServiceSlaveGrown
    <3>8. /\ acked.pic[0].State = d0.State
          /\ acked.pic[1].State = d1.State
          /\ acked.pic[0].InterruptPin \subseteq d0.InterruptPin \cup {CascadeLine}
          /\ acked \in MachineType
      BY <1>0, <3>6, <3>7 DEF Grown, Serviced
    <3>9. QED
      BY <1>0, <3>2, <3>3, <3>8
  <2>3. QED
    BY <2>1, <2>2
<1> HIDE DEF acked
<1>5. /\ Grown(acked, ServiceMaster(acked))
      /\ Asked(ServiceMaster(acked))
  BY <1>4, ServiceMasterGrown
<1>6. /\ \A j \in Chips :
            ServiceMaster(acked).pic[j].State = acked.pic[j].State
      /\ ServiceMaster(acked).pic[0].InterruptPin
            \subseteq acked.pic[0].InterruptPin \cup {CascadeLine}
      /\ ServiceMaster(acked) \in MachineType
  BY <1>0, <1>5 DEF Grown, Serviced
<1>7. QED
  BY <1>2, <1>4, <1>5, <1>6

\* Clearing the window request changes neither chips nor events.
LEMMA CloseWindowType ==
    ASSUME NEW m \in MachineType
    PROVE  /\ CloseWindow(m) \in MachineType
           /\ CloseWindow(m).pic = m.pic
           /\ CloseWindow(m).events = m.events
BY DEF CloseWindow, MachineType

\* The interrupt-window exit preserves the invariant: without a pending event
\* there was nothing to announce.
LEMMA WindowOpenInv ==
    ASSUME Inv, NEW a \in GvmAccepts, WindowOpen(a)
    PROVE  Inv'
<1> DEFINE m == CloseWindow(Machine(a))
           n == IF "INTR" \in events THEN PicIAC(m) ELSE m
<1>0. 0 \in Chips
  BY DEF Chips
<1>1. a \in SUBSET Irq
  BY <1>0, GuestFacts
<1>2. m \in MachineType /\ m.pic = pic /\ m.events = events
  BY <1>1, MachineIsTyped, CloseWindowType DEF Inv
<1>3. Become(n) /\ UNCHANGED <<wire, settled>>
  BY DEF WindowOpen
<1> HIDE DEF m
<1>4. /\ n \in MachineType
      /\ \A j \in Chips : n.pic[j].State = pic[j].State
      /\ n.pic[0].InterruptPin \subseteq pic[0].InterruptPin \cup {CascadeLine}
      /\ settled[0] => Asked(n)
  <2>1. CASE "INTR" \in events
    <3>1. n = PicIAC(m)
      BY <2>1
    <3> HIDE DEF n
    <3>2. QED
      BY <1>2, <3>1, PicIACType
  <2>2. CASE "INTR" \notin events
    <3>1. n = m
      BY <2>2
    <3> HIDE DEF n
    <3>2. settled[0] => Asked(n)
      BY <1>0, <1>2, <2>2, <3>1, GuestFacts DEF Asked
    <3>3. QED
      BY <1>2, <3>1, <3>2
  <2>3. QED
    BY <2>1, <2>2
<1> HIDE DEF n
<1>5. \A j \in Chips :
        settled'[j] => n.pic[j].State = 4 /\ n.pic[0].State \notin {1, 2}
  <2>1. \A j \in Chips : settled[j] => pic[j].State = 4 /\ pic[0].State \notin {1, 2}
    BY DEF Inv, SettledReady
  <2>2. QED
    BY <1>0, <1>3, <1>4, <2>1
<1>6. \A l \in Lines : l < 8 /\ ~wire'[l] => l \notin n.pic[0].InterruptPin
  BY <1>0, <1>3, <1>4, GuestFacts, LineIsIrq
<1>7. wire' \in [Lines -> BOOLEAN] /\ settled' \in [Chips -> BOOLEAN]
  BY <1>0, <1>3, GuestFacts
<1>8. QED
  BY <1>3, <1>4, <1>5, <1>6, <1>7, ReestablishInv

\* The power-on state of PicInitialize satisfies the invariant.
THEOREM InitInv == Init => Inv
<1> SUFFICES ASSUME Init PROVE Inv
  OBVIOUS
<1>1. \A offset \in Byte : PicReset(offset) \in PIC
  <2>1. /\ 0 \in 0..3 /\ 0 \in 0..4
        /\ 0 \in Byte /\ 7 \in Byte
        /\ "FULLY_NESTED" \in MODES
    BY DEF Byte, MODES
  <2>2. QED
    BY <2>1 DEF PicReset, PIC
<1>2. 8 \in Byte /\ 112 \in Byte
  BY DEF Byte
<1>3. pic \in [Chips -> PIC]
  BY <1>1, <1>2 DEF Init, PicInitialize
<1>4. TypeOK
  BY <1>3 DEF Init, TypeOK
<1>5. SettledReady /\ MasterSignalled
  BY DEF Init, SettledReady, MasterSignalled, Chips
<1>6. MasterPinsFollow
  <2>1. \A i \in Chips : pic[i].InterruptPin = {}
    BY DEF Init, PicInitialize, PicReset
  <2>2. QED
    BY <2>1, LineIsIrq DEF MasterPinsFollow, PinFollowsWire
<1>7. QED
  BY <1>4, <1>5, <1>6 DEF Inv

\* Every operation of the controllers preserves the invariant.
THEOREM NextInv == Inv /\ [Next]_vars => Inv'
<1> SUFFICES ASSUME Inv, [Next]_vars PROVE Inv'
  OBVIOUS
<1>1. CASE UNCHANGED vars
  BY <1>1 DEF vars, Inv, TypeOK, SettledReady, MasterSignalled, Wants,
              MasterPinsFollow, PinFollowsWire
<1>2. ASSUME NEW l \in Lines, NEW a \in GvmAccepts, DeviceRaise(l, a)
      PROVE  Inv'
  BY <1>2, DeviceRaiseInv
<1>3. ASSUME NEW l \in Lines, DeviceLower(l)
      PROVE  Inv'
  BY <1>3, DeviceLowerInv
<1>4. ASSUME NEW i \in Chips, NEW level \in LevelLines, GuestElcr(i, level)
      PROVE  Inv'
  BY <1>4, GuestElcrInv
<1>5. ASSUME NEW i \in Chips, NEW icw4 \in Icw1Values, GuestIcw1(i, icw4)
      PROVE  Inv'
  BY <1>5, GuestIcw1Inv
<1>6. ASSUME NEW i \in Chips, NEW cmd \in Ocw3Commands, NEW a \in GvmAccepts,
             GuestOcw3(i, cmd, a)
      PROVE  Inv'
  BY <1>6, GuestOcw3Inv
<1>7. ASSUME NEW i \in Chips, NEW cmd \in Ocw2Commands, NEW irq \in OcwIrqs(i),
             NEW a \in GvmAccepts, GuestOcw2(i, cmd, irq, a)
      PROVE  Inv'
  <2>1. irq \in Irq
    BY LineIsIrq DEF OcwIrqs, Irq
  <2>2. QED
    BY <1>7, <2>1, GuestOcw2Inv
<1>8. ASSUME NEW i \in Chips, NEW offset \in Offsets(i), GuestIcw2(i, offset)
      PROVE  Inv'
  <2>1. offset \in Byte
    BY PicAssumption DEF Offsets
  <2>2. QED
    BY <1>8, <2>1, GuestIcw2Inv
<1>9. ASSUME NEW i \in Chips, NEW value \in Icw3(i), GuestIcw3(i, value)
      PROVE  Inv'
  BY <1>9, GuestIcw3Inv
<1>10. ASSUME NEW i \in Chips, NEW bits \in Icw4Values, GuestIcw4(i, bits)
       PROVE  Inv'
  BY <1>10, GuestIcw4Inv
<1>11. ASSUME NEW i \in Chips, NEW mask \in Masks, NEW a \in GvmAccepts,
              GuestImr(i, mask, a)
       PROVE  Inv'
  BY <1>11, GuestImrInv
<1>12. ASSUME NEW a \in GvmAccepts, WindowOpen(a)
       PROVE  Inv'
  BY <1>12, WindowOpenInv
<1>13. QED
  BY <1>1, <1>2, <1>3, <1>4, <1>5, <1>6, <1>7, <1>8, <1>9, <1>10, <1>11, <1>12
     DEF Next

\* The invariant holds in every state.
THEOREM SpecInv == Spec => []Inv
BY InitInv, NextInv, PTL DEF Spec

\* Every register keeps its width and every mode its domain, for every guest,
\* offset and line: the vector arithmetic of PicIAC included.
THEOREM TypeCorrect == Spec => []TypeOK
<1>1. Inv => TypeOK
  BY DEF Inv
<1>2. QED
  BY <1>1, SpecInv, PTL

\* No lost wake-up at the master: after any sequence of raises, lowers, register
\* writes and acknowledges, a serviced master with a deliverable line has its
\* event pending and the interrupt window requested (pic.c:144-152, 193-194).
THEOREM MasterNoLostWakeup == Spec => []MasterSignalled
<1>1. Inv => MasterSignalled
  BY DEF Inv
<1>2. QED
  BY <1>1, SpecInv, PTL

\* A master line its device has lowered has its pin low, so that PicRaiseIrq
\* (pic.c:229) does not swallow the next edge.
THEOREM MasterEdgesSeen == Spec => []MasterPinsFollow
<1>1. Inv => MasterPinsFollow
  BY DEF Inv
<1>2. QED
  BY <1>1, SpecInv, PTL

-----------------------------------------------------------------------------
(***************************************************************************)
(* The cascade of the two chips never loses a request of the slave.        *)
(*                                                                         *)
(* Two assumptions on the guest are needed, and TLC has counterexamples    *)
(* without either: it sets bit 2 in the ICW3 of the master, and it does    *)
(* not use the special mask mode, in which a service of the slave raises   *)
(* the event without the master having chosen a line.                      *)
(***************************************************************************)

\* What the master needs for its line 2 to work: it is initialised when nested,
\* line 2 is an edge line, and outside ICW1..ICW3 a high pin 2 is latched.
SteadyChip(c) ==
    /\ "SPECIAL_MASK" \notin c.Mode
    /\ CascadeLine \notin c.EdgeLevel
    /\ "FULLY_NESTED" \in c.Mode => c.State \in {0, 4}
    /\ c.State = 0 => ~c.Cascade
    /\ c.State \notin {1, 2} /\ CascadeLine \in c.InterruptPin
          => CascadeLine \in c.InterruptRequest

\* A pending event was raised by an initialised master that chose one of its
\* own lines, so that PicIAC computes that line back.
Steady(m) ==
    /\ SteadyChip(m.pic[0])
    /\ "SPECIAL_MASK" \notin m.pic[1].Mode
    /\ "INTR" \in m.events
          => m.pic[0].State = 4 /\ AckedIrq(m.pic[0]) \in Irq

\* What the slave wants has reached the master.
Relayed(m) ==
    Nested(m.pic[1]) /\ Deliverable(m.pic[1]) # {}
        => CascadeLine \in m.pic[0].InterruptRequest

\* A service keeps the machine steady: line 2 is raised pin and request
\* together, and a new event comes with a fresh choice.
LEMMA GrownSteady ==
    ASSUME NEW m \in MachineType, NEW n, Grown(m, n), Fresh(m, n), Steady(m)
    PROVE  Steady(n)
<1>0. 0 \in Chips /\ 1 \in Chips /\ \A i \in Chips : i = 0 \/ i = 1
  BY DEF Chips
<1>1. Serviced(m.pic[0], n.pic[0]) /\ Serviced(m.pic[1], n.pic[1])
  BY <1>0 DEF Grown
<1>2. SteadyChip(n.pic[0])
  BY <1>1 DEF Steady, SteadyChip, Serviced
<1>3. "SPECIAL_MASK" \notin n.pic[1].Mode
  BY <1>1 DEF Steady, Serviced
<1>4. ASSUME "INTR" \in n.events
      PROVE  n.pic[0].State = 4 /\ AckedIrq(n.pic[0]) \in Irq
  <2>1. CASE "INTR" \in m.events
    BY <1>1, <2>1 DEF Steady, Serviced
  <2>2. CASE "INTR" \notin m.events
    <3>1. NoSpecialMask(m)
      BY <1>0 DEF NoSpecialMask, Steady, SteadyChip
    <3>2. /\ m.pic[0].Cascade
          /\ "FULLY_NESTED" \in m.pic[0].Mode
          /\ AckedIrq(n.pic[0]) \in Irq
      BY <1>4, <2>2, <3>1 DEF Fresh
    <3>3. m.pic[0].State = 4
      BY <3>2 DEF Steady, SteadyChip
    <3>4. QED
      BY <1>1, <3>2, <3>3 DEF Serviced
  <2>3. QED
    BY <2>1, <2>2
<1>5. QED
  BY <1>2, <1>3, <1>4 DEF Steady

\* PicService(&Pic[0]) keeps the machine steady and the request of the slave.
LEMMA ServiceMasterSteady ==
    ASSUME NEW m \in MachineType, Steady(m)
    PROVE  /\ Steady(ServiceMaster(m))
           /\ Relayed(m) => Relayed(ServiceMaster(m))
<1> DEFINE n == ServiceMaster(m)
<1>1. Grown(m, n) /\ Fresh(m, n) /\ n.pic[1] = m.pic[1]
  BY ServiceMasterGrown
<1> HIDE DEF n
<1>2. Steady(n)
  BY <1>1, GrownSteady
<1>3. m.pic[0].InterruptRequest \subseteq n.pic[0].InterruptRequest
  BY <1>1 DEF Grown, Serviced, Chips
<1>4. QED
  BY <1>1, <1>2, <1>3 DEF Relayed, n

\* PicService(&Pic[1]) keeps the machine steady and relays what the slave
\* wants, unless the master is being initialised.
LEMMA ServiceSlaveSteady ==
    ASSUME NEW m \in MachineType, Steady(m)
    PROVE  /\ Steady(ServiceSlave(m))
           /\ m.pic[0].State \notin {1, 2} => Relayed(ServiceSlave(m))
<1> DEFINE n == ServiceSlave(m)
<1>1. /\ Grown(m, n) /\ Fresh(m, n)
      /\ Nested(n.pic[1]) /\ Deliverable(n.pic[1]) # {}
            => CascadeLine \in n.pic[0].InterruptPin
  BY ServiceSlaveGrown
<1> HIDE DEF n
<1>2. Steady(n)
  BY <1>1, GrownSteady
<1>3. n.pic[0].State = m.pic[0].State
  BY <1>1 DEF Grown, Serviced, Chips
<1>4. m.pic[0].State \notin {1, 2} => Relayed(n)
  BY <1>1, <1>2, <1>3 DEF Relayed, Steady, SteadyChip
<1>5. QED
  BY <1>2, <1>4 DEF n

\* Replacing the master by a steady chip keeps the machine steady.
LEMMA PutMasterSteady ==
    ASSUME NEW m \in MachineType, Steady(m), NEW c \in PIC, SteadyChip(c),
           "INTR" \in m.events => c.State = 4 /\ AckedIrq(c) \in Irq
    PROVE  /\ Steady(Put(m, 0, c))
           /\ Relayed(m) /\ (CascadeLine \in m.pic[0].InterruptRequest
                               => CascadeLine \in c.InterruptRequest)
                => Relayed(Put(m, 0, c))
<1>1. 0 \in Chips /\ 1 \in Chips
  BY DEF Chips
<1> DEFINE n == Put(m, 0, c)
<1>2. n.pic[0] = c /\ n.pic[1] = m.pic[1] /\ n.events = m.events
  BY <1>1, PutStep
<1> HIDE DEF n
<1>3. QED
  BY <1>2 DEF Steady, Relayed, n

\* Replacing the slave by a chip outside the special mask mode keeps the
\* machine steady.
LEMMA PutSlaveSteady ==
    ASSUME NEW m \in MachineType, Steady(m), NEW c \in PIC,
           "SPECIAL_MASK" \notin c.Mode
    PROVE  Steady(Put(m, 1, c))
<1>1. 0 \in Chips /\ 1 \in Chips
  BY DEF Chips
<1> DEFINE n == Put(m, 1, c)
<1>2. n.pic[1] = c /\ n.pic[0] = m.pic[0] /\ n.events = m.events
  BY <1>1, PutStep
<1> HIDE DEF n
<1>3. QED
  BY <1>2 DEF Steady, n

-----------------------------------------------------------------------------
\* A rising edge keeps a chip steady.
LEMMA LatchedSteady ==
    ASSUME NEW c \in PIC, NEW irq \in Irq
    PROVE  /\ SteadyChip(c) => SteadyChip(Latched(c, irq))
           /\ Latched(c, irq).Mode = c.Mode
           /\ AckedIrq(Latched(c, irq)) = AckedIrq(c)
           /\ c.InterruptRequest \subseteq Latched(c, irq).InterruptRequest
BY DEF Latched, SteadyChip, PIC, AckedIrq

\* A falling edge of a line other than 2 keeps a chip steady.
LEMMA LoweredSteady ==
    ASSUME NEW c \in PIC, NEW irq \in Irq \ {CascadeLine}
    PROVE  /\ SteadyChip(c) => SteadyChip(Lowered(c, irq))
           /\ AckedIrq(Lowered(c, irq)) = AckedIrq(c)
           /\ CascadeLine \in c.InterruptRequest
                => CascadeLine \in Lowered(c, irq).InterruptRequest
BY DEF Lowered, SteadyChip, PIC, AckedIrq

\* ICW1 leaves no mode and state 1.
LEMMA RestartedSteady ==
    ASSUME NEW c \in PIC, NEW icw4 \in BOOLEAN
    PROVE  /\ Restarted(c, icw4).Mode = {}
           /\ Restarted(c, icw4).State = 1
           /\ Restarted(c, icw4).EdgeLevel = c.EdgeLevel
<1>1. Cleared(c) \in PIC /\ Cleared(c).EdgeLevel = c.EdgeLevel
  BY Bytes DEF Cleared, PIC
<1>2. QED
  BY <1>1 DEF Restarted, PIC

\* d is chip c with another mask, other in-service lines, priority or read
\* select.
Updated(c, d) ==
    /\ d \in PIC
    /\ d.Mode = c.Mode
    /\ d.Cascade = c.Cascade
    /\ d.State = c.State
    /\ d.EdgeLevel = c.EdgeLevel
    /\ d.InterruptPin = c.InterruptPin
    /\ d.InterruptRequest = c.InterruptRequest
    /\ d.InterruptNumber = c.InterruptNumber
    /\ d.CurrentOffset = c.CurrentOffset

\* Such an update keeps a chip steady.
LEMMA UpdatedSteady ==
    ASSUME NEW c, NEW d, Updated(c, d)
    PROVE  /\ SteadyChip(c) => SteadyChip(d)
           /\ AckedIrq(d) = AckedIrq(c)
BY DEF Updated, SteadyChip, AckedIrq

\* The EOI commands and set-priority are such updates.
LEMMA EoiUpdated ==
    ASSUME NEW c \in PIC, NEW irq \in Irq
    PROVE  /\ Updated(c, NonspecificEoi(c))
           /\ Updated(c, SpecificEoi(c, irq))
           /\ Updated(c, SetPriority(c, irq))
           /\ Updated(c, SetPriority(SpecificEoi(c, irq), irq))
<1>1. Updated(c, NonspecificEoi(c))
  <2>1. NonspecificEoi(c) \in PIC
    BY NonspecificEoiType
  <2>2. QED
    BY <2>1 DEF NonspecificEoi, Updated, PIC
<1>2. \A d \in PIC : Updated(d, SpecificEoi(d, irq)) /\ Updated(d, SetPriority(d, irq))
  <2>1. \A d \in PIC : SpecificEoi(d, irq) \in PIC /\ SetPriority(d, irq) \in PIC
    BY SpecificEoiType, SetPriorityType
  <2>2. QED
    BY <2>1 DEF SpecificEoi, SetPriority, Updated, PIC
<1>3. Updated(c, SetPriority(SpecificEoi(c, irq), irq))
  <2>1. SpecificEoi(c, irq) \in PIC
    BY SpecificEoiType
  <2>2. QED
    BY <1>2, <2>1 DEF Updated
<1>4. QED
  BY <1>1, <1>2, <1>3

\* ICW2 keeps the master steady: it is not nested, and its pin 2 does not
\* matter yet.
LEMMA OffsetSteady ==
    ASSUME NEW c \in PIC, NEW offset \in Byte, SteadyChip(c), c.State = 1
    PROVE  SteadyChip(Offset(c, offset))
BY DEF Offset, SteadyChip, PIC

\* ICW3 with the cascade bit lowers pin 2, which may be high without a
\* request since ICW1.
LEMMA CascadedSteady ==
    ASSUME NEW c \in PIC, NEW b \in BOOLEAN, NEW value, SteadyChip(c),
           c.State = 2, CascadeLine \in value
    PROVE  SteadyChip(Cascaded(c, b, value))
BY DEF Cascaded, SteadyChip, PIC

\* ICW4 keeps the master steady.
LEMMA ArchedSteady ==
    ASSUME NEW c \in PIC, NEW mode \in SUBSET MODES, SteadyChip(c),
           c.State = 3, "SPECIAL_MASK" \notin mode
    PROVE  SteadyChip(Arched(c, mode))
BY DEF Arched, SteadyChip, PIC

\* The modes OCW2 and OCW3 set keep the master steady.
LEMMA ModedSteady ==
    ASSUME NEW c \in PIC, NEW mode \in SUBSET MODES, SteadyChip(c),
           "FULLY_NESTED" \notin mode, "SPECIAL_MASK" \notin mode
    PROVE  /\ SteadyChip(Moded(c, mode))
           /\ AckedIrq(Moded(c, mode)) = AckedIrq(c)
           /\ SteadyChip([c EXCEPT !.Mode = mode])
           /\ AckedIrq([c EXCEPT !.Mode = mode]) = AckedIrq(c)
BY DEF Moded, SteadyChip, PIC, AckedIrq

\* The ELCR cannot make line 2 a level line (piix3.c:99).
LEMMA ElcrSteady ==
    ASSUME NEW c \in PIC, NEW level \in SUBSET Irq, SteadyChip(c)
    PROVE  /\ SteadyChip([c EXCEPT !.EdgeLevel = level \cap ElcrMask(0)])
           /\ AckedIrq([c EXCEPT !.EdgeLevel = level \cap ElcrMask(0)]) = AckedIrq(c)
<1>1. CascadeLine \notin ElcrMask(0)
  BY DEF ElcrMask, CascadeLine
<1>2. QED
  BY <1>1 DEF SteadyChip, PIC, AckedIrq

-----------------------------------------------------------------------------
\* The second inductive invariant.
CascadeInv ==
    /\ Steady(Machine({}))
    /\ settled[1] => Relayed(Machine({}))

\* The invariant, about the machine record built from the variables.
LEMMA MachineSteady ==
    ASSUME Inv, CascadeInv, NEW a \in SUBSET Irq
    PROVE  /\ Machine(a) \in MachineType
           /\ Machine(a).pic = pic
           /\ Machine(a).events = events
           /\ Steady(Machine(a))
           /\ settled[1] => Relayed(Machine(a))
<1>1. /\ Machine(a) \in MachineType
      /\ Machine(a).pic = pic
      /\ Machine(a).events = events
  BY MachineIsTyped DEF Inv
<1>2. Machine({}).pic = pic /\ Machine({}).events = events
  BY DEF Machine
<1>3. QED
  BY <1>1, <1>2 DEF CascadeInv, Steady, Relayed

\* How a step re-establishes the invariant.
LEMMA ReestablishCascadeInv ==
    ASSUME NEW n, Become(n), Steady(n), settled'[1] => Relayed(n)
    PROVE  CascadeInv'
<1>1. n.pic = pic' /\ n.events = events'
  BY DEF Become
<1>2. Machine({})'.pic = pic' /\ Machine({})'.events = events'
  BY DEF Machine
<1>3. Steady(Machine({}))' /\ (settled[1] => Relayed(Machine({})))'
  BY <1>1, <1>2 DEF Steady, Relayed
<1>4. QED
  BY <1>3 DEF CascadeInv

\* A new value of chip i that keeps the machine steady and loses no request
\* 2.
Admissible(i, c) ==
    /\ i = 0 => /\ SteadyChip(c)
                /\ "INTR" \in events => c.State = 4 /\ AckedIrq(c) \in Irq
                /\ CascadeLine \in pic[0].InterruptRequest
                      => CascadeLine \in c.InterruptRequest
    /\ i = 1 => "SPECIAL_MASK" \notin c.Mode

\* Replacing a chip by an admissible one.
LEMMA PutCascade ==
    ASSUME Inv, CascadeInv, NEW a \in SUBSET Irq, NEW i \in Chips, NEW c \in PIC,
           Admissible(i, c)
    PROVE  LET n == Put(Machine(a), i, c)
           IN  /\ n \in MachineType
               /\ Steady(n)
               /\ n.pic[i] = c
               /\ i = 0 /\ settled[1] => Relayed(n)
               /\ i = 1 => n.pic[0] = pic[0]
<1> DEFINE m == Machine(a)
           n == Put(m, i, c)
<1>1. /\ m \in MachineType
      /\ m.pic = pic
      /\ m.events = events
      /\ Steady(m)
      /\ settled[1] => Relayed(m)
  BY MachineSteady
<1>0. i = 0 \/ i = 1
  BY DEF Chips
<1> HIDE DEF m
<1>2. CASE i = 0
  <2>1. n \in MachineType /\ n.pic[i] = c
    BY <1>1, PutStep
  <2>2. Steady(Put(m, 0, c)) /\ (settled[1] => Relayed(Put(m, 0, c)))
    BY <1>1, <1>2, PutMasterSteady DEF Admissible
  <2>3. QED
    BY <1>2, <2>1, <2>2 DEF m
<1>3. CASE i = 1
  <2>1. n \in MachineType /\ n.pic[i] = c /\ n.pic[0] = pic[0]
    BY <1>1, <1>3, PutStep DEF Chips
  <2>2. Steady(Put(m, 1, c))
    BY <1>1, <1>3, PutSlaveSteady DEF Admissible
  <2>3. QED
    BY <1>3, <2>1, <2>2 DEF m
<1>4. QED
  BY <1>0, <1>2, <1>3

\* Replacing a chip by an admissible one and servicing it preserves the
\* invariant.
LEMMA ServedCascadeInv ==
    ASSUME Inv, CascadeInv, NEW a \in SUBSET Irq, NEW i \in Chips, NEW c \in PIC,
           Admissible(i, c),
           Become(PicService(Put(Machine(a), i, c), i)),
           settled'[1] => settled[1] \/ (i = 1 /\ pic[0].State \notin {1, 2})
    PROVE  CascadeInv'
<1> DEFINE l == Put(Machine(a), i, c)
<1>1. /\ l \in MachineType
      /\ Steady(l)
      /\ i = 0 /\ settled[1] => Relayed(l)
      /\ i = 1 => l.pic[0] = pic[0]
  BY PutCascade
<1> HIDE DEF l
<1>2. settled[1] => pic[0].State \notin {1, 2}
  BY DEF Inv, SettledReady, Chips
<1>3. CASE i = 0
  <2>1. Become(ServiceMaster(l))
    BY <1>3 DEF PicService, l
  <2>2. QED
    BY <1>1, <1>3, <2>1, ServiceMasterSteady, ReestablishCascadeInv
<1>4. CASE i = 1
  <2>1. Become(ServiceSlave(l))
    BY <1>4 DEF PicService, l
  <2>2. QED
    BY <1>1, <1>2, <1>4, <2>1, ServiceSlaveSteady, ReestablishCascadeInv
<1>5. QED
  BY <1>3, <1>4 DEF Chips

\* Replacing a chip without servicing it preserves the invariant if the slave
\* wants nothing new.
LEMMA QuietCascadeInv ==
    ASSUME Inv, CascadeInv, NEW a \in SUBSET Irq, NEW i \in Chips, NEW c \in PIC,
           Admissible(i, c),
           Become(Put(Machine(a), i, c)),
           settled'[1] => settled[1],
           i = 1 /\ settled'[1] /\ Nested(c) /\ Deliverable(c) # {}
              => Nested(pic[1]) /\ Deliverable(pic[1]) # {}
    PROVE  CascadeInv'
<1> DEFINE l == Put(Machine(a), i, c)
<1>1. /\ l \in MachineType
      /\ Steady(l)
      /\ l.pic[i] = c
      /\ i = 0 /\ settled[1] => Relayed(l)
      /\ i = 1 => l.pic[0] = pic[0]
  BY PutCascade
<1>2. Become(l)
  OBVIOUS
<1> HIDE DEF l
<1>3. settled[1] => Relayed(Machine(a))
  BY MachineSteady
<1>4. Machine(a).pic = pic
  BY DEF Machine
<1>5. i = 1 /\ settled'[1] => Relayed(l)
  BY <1>1, <1>3, <1>4 DEF Relayed
<1>6. settled'[1] => Relayed(l)
  BY <1>1, <1>5 DEF Chips
<1>7. QED
  BY <1>1, <1>2, <1>6, ReestablishCascadeInv

\* An update of mask, priority or in-service lines is admissible.
LEMMA UpdatedAdmissible ==
    ASSUME Inv, CascadeInv, NEW i \in Chips, NEW c, Updated(pic[i], c)
    PROVE  Admissible(i, c)
<1>1. /\ SteadyChip(pic[0])
      /\ "SPECIAL_MASK" \notin pic[1].Mode
      /\ "INTR" \in events => pic[0].State = 4 /\ AckedIrq(pic[0]) \in Irq
  BY DEF CascadeInv, Steady, Machine
<1>2. i = 0 => SteadyChip(c) /\ AckedIrq(c) = AckedIrq(pic[0])
  BY <1>1, UpdatedSteady
<1>3. QED
  BY <1>1, <1>2 DEF Updated, Admissible

\* The invariant, chip by chip.
LEMMA ChipFacts ==
    ASSUME CascadeInv
    PROVE  /\ SteadyChip(pic[0])
           /\ "SPECIAL_MASK" \notin pic[1].Mode
           /\ "INTR" \in events => pic[0].State = 4 /\ AckedIrq(pic[0]) \in Irq
BY DEF CascadeInv, Steady, Machine

\* A step that leaves the chips alone and adds no event preserves the
\* invariant.
LEMMA UnchangedCascadeInv ==
    ASSUME CascadeInv, pic' = pic, events' \subseteq events, settled'[1] => settled[1]
    PROVE  CascadeInv'
BY DEF CascadeInv, Steady, Relayed, Machine

\* PicRaiseIrq preserves the cascade invariant.
LEMMA DeviceRaiseCascade ==
    ASSUME Inv, CascadeInv, NEW l \in Lines, NEW a \in GvmAccepts, DeviceRaise(l, a)
    PROVE  CascadeInv'
<1> DEFINE i == l \div 8
           irq == l % 8
           c == Latched(pic[i], irq)
<1>1. i \in Chips /\ irq \in Irq
  BY LineIsIrq
<1>2. /\ pic[i] \in PIC /\ a \in SUBSET Irq /\ Machine(a).pic = pic
      /\ settled' = settled
  BY <1>1, GuestFacts DEF DeviceRaise
<1>3. CASE irq \in pic[i].InterruptPin
  <2>1. Become(Machine(a))
    BY <1>2, <1>3 DEF DeviceRaise, PicRaiseIrq
  <2>2. pic' = pic /\ events' = events
    BY <2>1 DEF Become, Machine
  <2>3. QED
    BY <1>2, <2>2, UnchangedCascadeInv
<1>4. CASE irq \notin pic[i].InterruptPin
  <2>1. Become(PicService(Put(Machine(a), i, c), i))
    BY <1>2, <1>4 DEF DeviceRaise, PicRaiseIrq
  <2>2. c \in PIC /\ c.State = pic[i].State
    BY <1>1, <1>2, LatchedType
  <2>3. /\ SteadyChip(pic[i]) => SteadyChip(c)
        /\ c.Mode = pic[i].Mode
        /\ AckedIrq(c) = AckedIrq(pic[i])
        /\ pic[i].InterruptRequest \subseteq c.InterruptRequest
    BY <1>1, <1>2, LatchedSteady
  <2> HIDE DEF c, i
  <2>4. Admissible(i, c)
    BY <2>2, <2>3, ChipFacts DEF Admissible
  <2>5. QED
    BY <1>1, <1>2, <2>1, <2>2, <2>4, ServedCascadeInv
<1>5. QED
  BY <1>3, <1>4

\* PicLowerIrq preserves the cascade invariant: devices never lower line 2.
LEMMA DeviceLowerCascade ==
    ASSUME Inv, CascadeInv, NEW l \in Lines, DeviceLower(l)
    PROVE  CascadeInv'
<1> DEFINE c == Lowered(pic[0], l)
<1>1. l \in 0..15 /\ l # CascadeLine /\ 0 \in Chips
  BY LineIsIrq DEF Chips
<1>2. /\ pic[0] \in PIC /\ {} \in SUBSET Irq /\ Machine({}).pic = pic
      /\ settled' = settled
  BY <1>1, GuestFacts DEF DeviceLower
<1>3. CASE l > 7 \/ l \notin pic[0].InterruptPin
  <2>1. Become(Machine({}))
    BY <1>2, <1>3 DEF DeviceLower, PicLowerIrq
  <2>2. pic' = pic /\ events' = events
    BY <2>1 DEF Become, Machine
  <2>3. QED
    BY <1>2, <2>2, UnchangedCascadeInv
<1>4. CASE l \in 0..7 /\ l \in pic[0].InterruptPin
  <2>1. Become(Put(Machine({}), 0, c))
    BY <1>2, <1>4 DEF DeviceLower, PicLowerIrq
  <2>2. l \in Irq \ {CascadeLine}
    BY <1>1, <1>4 DEF Irq
  <2>3. c \in PIC /\ c.State = pic[0].State
    BY <1>2, <2>2, LoweredType
  <2>4. /\ SteadyChip(pic[0]) => SteadyChip(c)
        /\ AckedIrq(c) = AckedIrq(pic[0])
        /\ CascadeLine \in pic[0].InterruptRequest => CascadeLine \in c.InterruptRequest
    BY <1>2, <2>2, LoweredSteady
  <2> HIDE DEF c
  <2>5. Admissible(0, c)
    BY <2>3, <2>4, ChipFacts DEF Admissible
  <2>6. QED
    BY <1>1, <1>2, <2>1, <2>3, <2>5, QuietCascadeInv
<1>5. QED
  BY <1>1, <1>3, <1>4

\* PicSetMode preserves the cascade invariant.
LEMMA GuestElcrCascade ==
    ASSUME Inv, CascadeInv, NEW i \in Chips, NEW level \in LevelLines,
           GuestElcr(i, level)
    PROVE  CascadeInv'
<1> DEFINE c == [pic[i] EXCEPT !.EdgeLevel = level \cap ElcrMask(i)]
<1>1. Become(Put(Machine({}), i, c)) /\ settled' = settled /\ pic[i] \in PIC
  BY GuestFacts DEF GuestElcr, PicSetMode
<1>2. level \in SUBSET Irq
  BY PicAssumption
<1>3. /\ c \in PIC
      /\ c.State = pic[i].State
      /\ c.Mode = pic[i].Mode
      /\ c.InterruptRequest = pic[i].InterruptRequest
      /\ Nested(c) = Nested(pic[i])
      /\ Deliverable(c) = Deliverable(pic[i])
  BY <1>1, <1>2 DEF PIC, Nested, Deliverable
<1>4. i = 0 => SteadyChip(c) /\ AckedIrq(c) = AckedIrq(pic[0])
  BY <1>1, <1>2, ChipFacts, ElcrSteady
<1> HIDE DEF c
<1>5. Admissible(i, c)
  BY <1>3, <1>4, ChipFacts DEF Admissible
<1>6. QED
  BY <1>1, <1>3, <1>5, QuietCascadeInv

\* ICW1 preserves the cascade invariant: it withdraws the event and unsettles
\* both chips.
LEMMA GuestIcw1Cascade ==
    ASSUME Inv, CascadeInv, NEW i \in Chips, NEW icw4 \in Icw1Values,
           GuestIcw1(i, icw4)
    PROVE  CascadeInv'
<1> DEFINE m == Machine({})
           c == Restarted(pic[i], icw4)
           l == Put(m, i, c)
           n == [l EXCEPT !.events = @ \ {"INTR"}]
<1>1. Become(n) /\ ~settled'[1] /\ pic[i] \in PIC
  BY GuestFacts DEF GuestIcw1, WriteIcw1, Chips
<1>2. icw4 \in BOOLEAN
  BY PicAssumption
<1>3. /\ c \in PIC
      /\ c.Mode = {}
      /\ c.State = 1
      /\ c.EdgeLevel = pic[i].EdgeLevel
  BY <1>1, <1>2, RestartedType, RestartedSteady
<1> HIDE DEF c
<1>4. m \in MachineType /\ m.pic = pic
  BY MachineSteady
<1> HIDE DEF m
<1>5. /\ l \in MachineType
      /\ l.pic[i] = c
      /\ \A j \in Chips : j # i => l.pic[j] = pic[j]
  BY <1>3, <1>4, PutStep
<1> HIDE DEF l
<1>6. n.pic = l.pic /\ "INTR" \notin n.events
  BY <1>5 DEF MachineType
<1> HIDE DEF n
<1>7. SteadyChip(n.pic[0])
  <2>1. CASE i = 0
    BY <1>3, <1>5, <1>6, <2>1, ChipFacts DEF SteadyChip
  <2>2. CASE i = 1
    BY <1>5, <1>6, <2>2, ChipFacts DEF Chips
  <2>3. QED
    BY <2>1, <2>2 DEF Chips
<1>8. "SPECIAL_MASK" \notin n.pic[1].Mode
  BY <1>3, <1>5, <1>6, ChipFacts DEF Chips
<1>9. Steady(n)
  BY <1>6, <1>7, <1>8 DEF Steady
<1>10. QED
  BY <1>1, <1>9, ReestablishCascadeInv

\* OCW3 without the special mask command preserves the cascade invariant.
LEMMA GuestOcw3Cascade ==
    ASSUME Inv, CascadeInv, NEW i \in Chips, NEW cmd \in Ocw3Commands,
           NEW a \in GvmAccepts, GuestOcw3(i, cmd, a), cmd # "special_mask"
    PROVE  CascadeInv'
<1> DEFINE read(sel) == [pic[i] EXCEPT !.ReadSelect = sel]
           moded == Moded(pic[i], Ocw3Mode(cmd))
<1>1. /\ Become(WriteOcw3(Machine(a), i, cmd)) /\ settled' = settled
      /\ a \in SUBSET Irq /\ pic[i] \in PIC /\ Machine(a).pic[i] = pic[i]
  BY GuestFacts DEF GuestOcw3
<1>2. cmd \in OCW3
  BY PicAssumption
<1>3. CASE cmd \in {"read_irr", "read_isr", "none"}
  <2>1. PICK sel \in 0..3 : Become(Put(Machine(a), i, read(sel)))
    <3>1. 0 \in 0..3 /\ 2 \in 0..3 /\ 3 \in 0..3
      OBVIOUS
    <3>2. WriteOcw3(Machine(a), i, cmd) \in
            {Put(Machine(a), i, read(0)), Put(Machine(a), i, read(2)),
             Put(Machine(a), i, read(3))}
      BY <1>1, <1>3 DEF WriteOcw3
    <3>3. QED
      BY <1>1, <3>1, <3>2
  <2> DEFINE c == read(sel)
  <2>2. /\ Updated(pic[i], c)
        /\ Nested(c) = Nested(pic[i])
        /\ Deliverable(c) = Deliverable(pic[i])
    BY <1>1 DEF PIC, Nested, Deliverable, Updated
  <2>3. Become(Put(Machine(a), i, c))
    BY <2>1
  <2> HIDE DEF c
  <2>4. Admissible(i, c) /\ c \in PIC
    BY <2>2, UpdatedAdmissible DEF Updated
  <2>5. QED
    BY <1>1, <2>2, <2>3, <2>4, QuietCascadeInv
<1>4. CASE cmd \in {"special_nested", "poll"}
  <2>1. Become(Put(Machine(a), i, moded))
    BY <1>1, <1>4 DEF WriteOcw3
  <2>2. Ocw3Mode(cmd) \in {{"SPECIAL_FULLY_NESTED"}, {"POLL"}}
    BY <1>4 DEF Ocw3Mode
  <2>3. /\ Ocw3Mode(cmd) \in SUBSET MODES
        /\ "FULLY_NESTED" \notin Ocw3Mode(cmd)
        /\ "SPECIAL_MASK" \notin Ocw3Mode(cmd)
    BY <2>2 DEF MODES
  <2>4. /\ moded \in PIC
        /\ moded.State = pic[i].State
        /\ moded.Mode = Ocw3Mode(cmd)
        /\ moded.InterruptRequest = pic[i].InterruptRequest
    BY <1>1, <2>3, ModedType DEF Moded, PIC
  <2>5. i = 0 => SteadyChip(moded) /\ AckedIrq(moded) = AckedIrq(pic[0])
    BY <1>1, <2>3, ChipFacts, ModedSteady
  <2> HIDE DEF moded
  <2>6. Admissible(i, moded) /\ ~Nested(moded)
    BY <2>3, <2>4, <2>5, ChipFacts DEF Admissible, Nested
  <2>7. QED
    BY <1>1, <2>1, <2>4, <2>6, QuietCascadeInv
<1>5. QED
  BY <1>2, <1>3, <1>4 DEF OCW3

\* A write that ends in PicService preserves the cascade invariant.
LEMMA SettlingCascade ==
    ASSUME Inv, CascadeInv, NEW i \in Chips, NEW a \in SUBSET Irq, NEW c \in PIC,
           Updated(pic[i], c),
           Become(PicService(Put(Machine(a), i, c), i)),
           Settle(i)
    PROVE  CascadeInv'
<1>1. settled \in [Chips -> BOOLEAN] /\ 1 \in Chips
  BY GuestFacts DEF Chips
<1>2. settled'[1] => settled[1] \/ (i = 1 /\ pic[0].State \notin {1, 2})
  BY <1>1 DEF Settle
<1>3. Admissible(i, c)
  BY UpdatedAdmissible
<1>4. QED
  BY <1>2, <1>3, ServedCascadeInv

\* OCW2 preserves the cascade invariant.
LEMMA GuestOcw2Cascade ==
    ASSUME Inv, CascadeInv, NEW i \in Chips, NEW cmd \in Ocw2Commands,
           NEW irq \in Irq, NEW a \in GvmAccepts, GuestOcw2(i, cmd, irq, a)
    PROVE  CascadeInv'
<1> DEFINE c == pic[i]
           m == Machine(a)
<1>1. /\ Become(WriteOcw2(m, i, cmd, irq))
      /\ a \in SUBSET Irq /\ c \in PIC /\ m.pic[i] = c
      /\ settled \in [Chips -> BOOLEAN]
  BY GuestFacts DEF GuestOcw2
<1>2. cmd \in OCW2
  BY PicAssumption
<1>3. cmd \in {"normal_mode", "auto_mode"} => UNCHANGED settled
  BY DEF GuestOcw2
<1>4. cmd = "set_priority" => settled' = [settled EXCEPT ![i] = FALSE]
  BY DEF GuestOcw2
<1>5. cmd \in {"nonspecific_eoi", "specific_eoi", "rotate_specific_eoi"} => Settle(i)
  BY DEF GuestOcw2
<1>6. /\ Updated(c, NonspecificEoi(c))
      /\ Updated(c, SpecificEoi(c, irq))
      /\ Updated(c, SetPriority(c, irq))
      /\ Updated(c, SetPriority(SpecificEoi(c, irq), irq))
  BY <1>1, EoiUpdated
<1>7. CASE cmd \in {"normal_mode", "auto_mode"}
  <2>1. PICK mode \in {{"NORMAL_EOI"}, {"AUTO_EOI"}} :
           Become(Put(m, i, [c EXCEPT !.Mode = mode]))
    BY <1>1, <1>7 DEF WriteOcw2
  <2> DEFINE d == [c EXCEPT !.Mode = mode]
  <2>2. mode \in SUBSET MODES /\ "FULLY_NESTED" \notin mode /\ "SPECIAL_MASK" \notin mode
    BY DEF MODES
  <2>3. /\ d \in PIC
        /\ d.State = c.State
        /\ d.InterruptRequest = c.InterruptRequest
        /\ d.Mode = mode
    BY <1>1, <2>2 DEF PIC
  <2>4. i = 0 => SteadyChip(d) /\ AckedIrq(d) = AckedIrq(c)
    BY <1>1, <2>2, ChipFacts, ModedSteady
  <2>5. Become(Put(m, i, d))
    BY <2>1
  <2> HIDE DEF d
  <2>6. Admissible(i, d) /\ ~Nested(d)
    BY <2>2, <2>3, <2>4, ChipFacts DEF Admissible, Nested
  <2>7. QED
    BY <1>1, <1>3, <1>7, <2>3, <2>5, <2>6, QuietCascadeInv
<1>8. CASE cmd = "nonspecific_eoi"
  <2>1. Become(PicService(Put(m, i, NonspecificEoi(c)), i))
    BY <1>1, <1>8 DEF WriteOcw2
  <2>2. QED
    BY <1>1, <1>5, <1>6, <1>8, <2>1, SettlingCascade DEF Updated
<1>9. CASE cmd = "specific_eoi"
  <2>1. Become(PicService(Put(m, i, SpecificEoi(c, irq)), i))
    BY <1>1, <1>9 DEF WriteOcw2
  <2>2. QED
    BY <1>1, <1>5, <1>6, <1>9, <2>1, SettlingCascade DEF Updated
<1>10. CASE cmd = "rotate_specific_eoi"
  <2>1. Become(PicService(Put(m, i, SetPriority(SpecificEoi(c, irq), irq)), i))
    BY <1>1, <1>10 DEF WriteOcw2
  <2>2. QED
    BY <1>1, <1>5, <1>6, <1>10, <2>1, SettlingCascade DEF Updated
<1>11. CASE cmd = "set_priority"
  <2> DEFINE d == SetPriority(c, irq)
  <2>1. Become(Put(m, i, d))
    BY <1>1, <1>11 DEF WriteOcw2
  <2>2. Admissible(i, d) /\ d \in PIC
    BY <1>6, UpdatedAdmissible DEF Updated
  <2> HIDE DEF d
  <2>3. /\ settled'[1] => settled[1]
        /\ i = 1 => ~settled'[1]
    BY <1>1, <1>4, <1>11 DEF Chips
  <2>4. QED
    BY <1>1, <2>1, <2>2, <2>3, QuietCascadeInv
<1>12. QED
  BY <1>2, <1>7, <1>8, <1>9, <1>10, <1>11 DEF OCW2

\* The writes that finish the initialisation preserve the cascade invariant.
LEMMA InitialisingCascade ==
    ASSUME Inv, CascadeInv, NEW i \in Chips, NEW c \in PIC,
           Become(Put(Machine({}), i, c)), settled' = settled,
           pic[i].State # 4,
           c.InterruptRequest = pic[i].InterruptRequest,
           i = 0 => SteadyChip(c),
           i = 1 => "SPECIAL_MASK" \notin c.Mode
    PROVE  CascadeInv'
<1>1. Admissible(i, c)
  BY ChipFacts DEF Admissible
<1>2. ~settled'[i] /\ {} \in SUBSET Irq
  BY GuestFacts
<1>3. QED
  BY <1>1, <1>2, QuietCascadeInv

\* ICW2 preserves the cascade invariant.
LEMMA GuestIcw2Cascade ==
    ASSUME Inv, CascadeInv, NEW i \in Chips, NEW offset \in Byte,
           GuestIcw2(i, offset)
    PROVE  CascadeInv'
<1> DEFINE c == Offset(pic[i], offset)
<1>1. /\ Become(Put(Machine({}), i, c)) /\ settled' = settled
      /\ pic[i] \in PIC /\ pic[i].State = 1
  BY GuestFacts DEF GuestIcw2, WriteIcw2
<1>2. /\ c \in PIC
      /\ c.InterruptRequest = pic[i].InterruptRequest
      /\ c.Mode = pic[i].Mode
  BY <1>1, OffsetType DEF Offset, PIC
<1>3. i = 0 => SteadyChip(c)
  BY <1>1, ChipFacts, OffsetSteady
<1> HIDE DEF c
<1>4. QED
  BY <1>1, <1>2, <1>3, ChipFacts, InitialisingCascade

\* ICW3 preserves the cascade invariant if the master gets its cascade bit.
LEMMA GuestIcw3Cascade ==
    ASSUME Inv, CascadeInv, NEW i \in Chips, NEW value, GuestIcw3(i, value),
           i = 0 => CascadeLine \in value
    PROVE  CascadeInv'
<1> DEFINE b == i = 0 /\ CascadeLine \in value
<1>1. PICK enable \in BOOLEAN : enable = b
  OBVIOUS
<1> DEFINE c == Cascaded(pic[i], enable, value)
<1>2. /\ Become(Put(Machine({}), i, c)) /\ settled' = settled
      /\ pic[i] \in PIC /\ pic[i].State = 2
  BY <1>1, GuestFacts DEF GuestIcw3, WriteIcw3
<1>3. /\ c \in PIC
      /\ c.InterruptRequest = pic[i].InterruptRequest
      /\ c.Mode = pic[i].Mode
  BY <1>2, CascadedType DEF Cascaded, PIC
<1>4. i = 0 => SteadyChip(c)
  BY <1>2, ChipFacts, CascadedSteady
<1> HIDE DEF c
<1>5. QED
  BY <1>2, <1>3, <1>4, ChipFacts, InitialisingCascade

\* ICW4 preserves the cascade invariant.
LEMMA GuestIcw4Cascade ==
    ASSUME Inv, CascadeInv, NEW i \in Chips, NEW bits, GuestIcw4(i, bits)
    PROVE  CascadeInv'
<1> DEFINE c == Arched(pic[i], Icw4Mode(bits))
<1>1. /\ Become(Put(Machine({}), i, c)) /\ settled' = settled
      /\ pic[i] \in PIC /\ pic[i].State = 3
  BY GuestFacts DEF GuestIcw4, WriteIcw4
<1>2. Icw4Mode(bits) \in SUBSET MODES /\ "SPECIAL_MASK" \notin Icw4Mode(bits)
  BY DEF Icw4Mode, MODES
<1>3. /\ c \in PIC
      /\ c.InterruptRequest = pic[i].InterruptRequest
      /\ c.Mode = pic[i].Mode \cup Icw4Mode(bits)
  BY <1>1, <1>2, ArchedType DEF Arched, PIC
<1>4. i = 0 => SteadyChip(c)
  BY <1>1, <1>2, ChipFacts, ArchedSteady
<1> HIDE DEF c
<1>5. QED
  BY <1>1, <1>2, <1>3, <1>4, ChipFacts, InitialisingCascade

\* A write of the IMR preserves the cascade invariant.
LEMMA GuestImrCascade ==
    ASSUME Inv, CascadeInv, NEW i \in Chips, NEW mask \in Masks,
           NEW a \in GvmAccepts, GuestImr(i, mask, a)
    PROVE  CascadeInv'
<1> DEFINE c == [pic[i] EXCEPT !.InterruptMask = mask]
<1>1. /\ Become(PicService(Put(Machine(a), i, c), i)) /\ Settle(i)
      /\ pic[i] \in PIC /\ a \in SUBSET Irq
  BY GuestFacts DEF GuestImr, WriteImr
<1>2. mask \in SUBSET Irq
  BY PicAssumption
<1>3. Updated(pic[i], c) /\ c \in PIC
  BY <1>1, <1>2 DEF PIC, Updated
<1> HIDE DEF c
<1>4. QED
  BY <1>1, <1>3, SettlingCascade

\* PicIAC acknowledges a line of the master: another line than 2 keeps
\* request 2, and line 2 is dropped pin and request together before the slave
\* is serviced again (pic.c:170-191).
LEMMA PicIACSteady ==
    ASSUME NEW m \in MachineType, Steady(m), "INTR" \in m.events
    PROVE  /\ Steady(PicIAC(m))
           /\ Relayed(m) => Relayed(PicIAC(m))
<1> DEFINE n == [m EXCEPT !.events = @ \ {"INTR"}]
           acked == IF AckedIrq(m.pic[0]) = CascadeLine
                    THEN AckSlave(n) ELSE AckMaster(n)
<1>0. 0 \in Chips /\ 1 \in Chips
  BY DEF Chips
<1>1. n \in MachineType /\ n.pic = m.pic /\ "INTR" \notin n.events
  BY DEF MachineType
<1>2. PicIAC(m) = ServiceMaster(acked)
  BY DEF PicIAC
<1> HIDE DEF n
<1>3. Steady(n) /\ (Relayed(m) => Relayed(n))
  BY <1>1 DEF Steady, Relayed
<1>4. /\ m.pic[0] \in PIC /\ m.pic[1] \in PIC
      /\ m.pic[0].State = 4
      /\ AckedIrq(m.pic[0]) \in Irq
      /\ SteadyChip(m.pic[0])
      /\ "SPECIAL_MASK" \notin m.pic[1].Mode
  BY <1>0 DEF MachineType, Steady
<1>5. Bit(AckedIrq(m.pic[0])) = {AckedIrq(m.pic[0])}
  <2>1. \A k \in Irq : k % 32 = k
    BY DEF Irq
  <2>2. QED
    BY <1>4, <2>1 DEF Bit
<1>6. /\ acked \in MachineType
      /\ Steady(acked)
      /\ Relayed(m) => Relayed(acked)
  <2>1. CASE AckedIrq(m.pic[0]) # CascadeLine
    <3> DEFINE c == Entered(Consumed(m.pic[0]))
    <3>1. /\ c \in PIC
          /\ c.InterruptPin = m.pic[0].InterruptPin
          /\ c.State = m.pic[0].State
          /\ c.Mode = m.pic[0].Mode
          /\ c.Cascade = m.pic[0].Cascade
          /\ c.EdgeLevel = m.pic[0].EdgeLevel
          /\ c.InterruptRequest = m.pic[0].InterruptRequest
                \ ({AckedIrq(m.pic[0])} \ m.pic[0].EdgeLevel)
      BY <1>4, <1>5, ConsumedType, EnteredType
    <3>2. acked = Put(n, 0, c)
      BY <1>1, <2>1 DEF AckMaster
    <3> HIDE DEF c, acked
    <3>3. SteadyChip(c)
      BY <1>4, <2>1, <3>1 DEF SteadyChip
    <3>4. CascadeLine \in n.pic[0].InterruptRequest => CascadeLine \in c.InterruptRequest
      BY <1>1, <2>1, <3>1
    <3>5. acked \in MachineType
      BY <1>0, <1>1, <3>1, <3>2, PutStep
    <3>6. QED
      BY <1>1, <1>3, <3>1, <3>2, <3>3, <3>4, <3>5, PutMasterSteady
  <2>2. CASE AckedIrq(m.pic[0]) = CascadeLine
    <3> DEFINE c0 == Consumed(m.pic[0])
               d0 == [c0 EXCEPT !.InterruptPin = @ \ {CascadeLine}]
               d1 == Entered(Consumed(m.pic[1]))
               l == Put(n, 0, d0)
               k == Put(l, 1, d1)
    <3>1. /\ c0 \in PIC
          /\ c0.State = m.pic[0].State
          /\ c0.Mode = m.pic[0].Mode
          /\ c0.Cascade = m.pic[0].Cascade
          /\ c0.EdgeLevel = m.pic[0].EdgeLevel
      BY <1>4, ConsumedType
    <3> HIDE DEF c0
    <3>2. /\ d0 \in PIC
          /\ CascadeLine \notin d0.InterruptPin
          /\ d0.State = m.pic[0].State
          /\ d0.Mode = m.pic[0].Mode
          /\ d0.Cascade = m.pic[0].Cascade
          /\ d0.EdgeLevel = m.pic[0].EdgeLevel
      BY <3>1 DEF PIC
    <3>3. /\ d1 \in PIC
          /\ d1.Mode = m.pic[1].Mode
      BY <1>4, ConsumedType, EnteredType
    <3>4. acked = ServiceSlave(k)
      BY <1>1, <2>2 DEF AckSlave, c0
    <3> HIDE DEF d0, d1, acked
    <3>5. SteadyChip(d0)
      BY <1>4, <3>2 DEF SteadyChip
    <3>6. l \in MachineType /\ Steady(l) /\ l.pic[0] = d0
      BY <1>0, <1>1, <1>3, <3>2, <3>5, PutStep, PutMasterSteady
    <3> HIDE DEF l
    <3>7. k \in MachineType /\ Steady(k) /\ k.pic[0] = d0
      <4>1. "SPECIAL_MASK" \notin d1.Mode
        BY <1>4, <3>3
      <4>2. Steady(k)
        BY <3>3, <3>6, <4>1, PutSlaveSteady
      <4>3. k \in MachineType /\ k.pic[0] = d0
        BY <1>0, <3>3, <3>6, PutStep
      <4>4. QED
        BY <4>2, <4>3
    <3> HIDE DEF k
    <3>8. k.pic[0].State \notin {1, 2}
      BY <1>4, <3>2, <3>7
    <3>9. acked \in MachineType
      BY <3>4, <3>7, ServiceSlaveGrown DEF Grown
    <3>10. QED
      BY <3>4, <3>7, <3>8, <3>9, ServiceSlaveSteady
  <2>3. QED
    BY <2>1, <2>2
<1> HIDE DEF acked
<1>7. QED
  BY <1>2, <1>6, ServiceMasterSteady

\* The interrupt-window exit preserves the cascade invariant.
LEMMA WindowOpenCascade ==
    ASSUME Inv, CascadeInv, NEW a \in GvmAccepts, WindowOpen(a)
    PROVE  CascadeInv'
<1> DEFINE m == CloseWindow(Machine(a))
<1>1. a \in SUBSET Irq
  BY PicAssumption
<1>2. /\ Machine(a) \in MachineType
      /\ Machine(a).pic = pic
      /\ Machine(a).events = events
      /\ Steady(Machine(a))
      /\ settled[1] => Relayed(Machine(a))
  BY <1>1, MachineSteady
<1>3. m \in MachineType /\ m.pic = pic /\ m.events = events
  BY <1>2, CloseWindowType
<1>4. Become(IF "INTR" \in events THEN PicIAC(m) ELSE m) /\ settled' = settled
  BY DEF WindowOpen
<1> HIDE DEF m
<1>5. Steady(m) /\ (settled[1] => Relayed(m))
  BY <1>2, <1>3 DEF Steady, Relayed
<1>6. QED
  BY <1>3, <1>4, <1>5, PicIACSteady, ReestablishCascadeInv

\* The power-on state satisfies the cascade invariant.
LEMMA InitCascade ==
    ASSUME Init
    PROVE  CascadeInv
<1>1. /\ pic[0] = PicReset(8) /\ pic[1] = PicReset(112)
      /\ events = {} /\ ~settled[1]
  BY DEF Init, PicInitialize, Chips
<1>2. QED
  BY <1>1 DEF PicReset, CascadeInv, Steady, SteadyChip, Machine

\* Every operation preserves the cascade invariant.
LEMMA NextCascade ==
    ASSUME "special_mask" \notin Ocw3Commands,
           \A value \in Icw3Values : CascadeLine \in value,
           Inv, CascadeInv, [Next]_vars
    PROVE  CascadeInv'
<1>1. CASE UNCHANGED vars
  BY <1>1, UnchangedCascadeInv DEF vars
<1>2. ASSUME NEW l \in Lines, NEW a \in GvmAccepts, DeviceRaise(l, a)
      PROVE  CascadeInv'
  BY <1>2, DeviceRaiseCascade
<1>3. ASSUME NEW l \in Lines, DeviceLower(l)
      PROVE  CascadeInv'
  BY <1>3, DeviceLowerCascade
<1>4. ASSUME NEW i \in Chips, NEW level \in LevelLines, GuestElcr(i, level)
      PROVE  CascadeInv'
  BY <1>4, GuestElcrCascade
<1>5. ASSUME NEW i \in Chips, NEW icw4 \in Icw1Values, GuestIcw1(i, icw4)
      PROVE  CascadeInv'
  BY <1>5, GuestIcw1Cascade
<1>6. ASSUME NEW i \in Chips, NEW cmd \in Ocw3Commands, NEW a \in GvmAccepts,
             GuestOcw3(i, cmd, a)
      PROVE  CascadeInv'
  BY <1>6, GuestOcw3Cascade
<1>7. ASSUME NEW i \in Chips, NEW cmd \in Ocw2Commands, NEW irq \in OcwIrqs(i),
             NEW a \in GvmAccepts, GuestOcw2(i, cmd, irq, a)
      PROVE  CascadeInv'
  <2>1. irq \in Irq
    BY LineIsIrq DEF OcwIrqs, Irq
  <2>2. QED
    BY <1>7, <2>1, GuestOcw2Cascade
<1>8. ASSUME NEW i \in Chips, NEW offset \in Offsets(i), GuestIcw2(i, offset)
      PROVE  CascadeInv'
  <2>1. offset \in Byte
    BY PicAssumption DEF Offsets
  <2>2. QED
    BY <1>8, <2>1, GuestIcw2Cascade
<1>9. ASSUME NEW i \in Chips, NEW value \in Icw3(i), GuestIcw3(i, value)
      PROVE  CascadeInv'
  <2>1. i = 0 => CascadeLine \in value
    BY DEF Icw3
  <2>2. QED
    BY <1>9, <2>1, GuestIcw3Cascade
<1>10. ASSUME NEW i \in Chips, NEW bits \in Icw4Values, GuestIcw4(i, bits)
       PROVE  CascadeInv'
  BY <1>10, GuestIcw4Cascade
<1>11. ASSUME NEW i \in Chips, NEW mask \in Masks, NEW a \in GvmAccepts,
              GuestImr(i, mask, a)
       PROVE  CascadeInv'
  BY <1>11, GuestImrCascade
<1>12. ASSUME NEW a \in GvmAccepts, WindowOpen(a)
       PROVE  CascadeInv'
  BY <1>12, WindowOpenCascade
<1>13. QED
  BY <1>1, <1>2, <1>3, <1>4, <1>5, <1>6, <1>7, <1>8, <1>9, <1>10, <1>11, <1>12
     DEF Next

\* The cascade invariant holds in every state, for guests that set the cascade
\* bit in the ICW3 of the master and do not use the special mask mode.
THEOREM SpecCascade ==
    ASSUME "special_mask" \notin Ocw3Commands,
           \A value \in Icw3Values : CascadeLine \in value
    PROVE  Spec => []CascadeInv
<1>1. Init => CascadeInv
  BY InitCascade
<1>2. Inv /\ CascadeInv /\ [Next]_vars => CascadeInv'
  BY NextCascade
<1>3. QED
  BY <1>1, <1>2, SpecInv, PTL DEF Spec

\* For such guests, outside ICW1..ICW3 a high pin 2 means a latched request 2:
\* the early return at pic.c:229 never silences the slave.
THEOREM CascadeStaysLatched ==
    ASSUME "special_mask" \notin Ocw3Commands,
           \A value \in Icw3Values : CascadeLine \in value
    PROVE  Spec => []CascadeLatched
<1>1. CascadeInv => CascadeLatched
  BY ChipFacts DEF SteadyChip, CascadeLatched
<1>2. Spec => []CascadeInv
  BY SpecCascade
<1>3. QED
  BY <1>1, <1>2, PTL

\* For such guests there is no lost wake-up at the slave: once serviced, a slave
\* with a deliverable line has its request latched at the master (pic.c:158,
\* 184-191).
THEOREM SlaveNoLostWakeup ==
    ASSUME "special_mask" \notin Ocw3Commands,
           \A value \in Icw3Values : CascadeLine \in value
    PROVE  Spec => []SlaveSignalled
<1>1. CascadeInv => SlaveSignalled
  BY DEF CascadeInv, Relayed, Machine, SlaveSignalled, Wants
<1>2. Spec => []CascadeInv
  BY SpecCascade
<1>3. QED
  BY <1>1, <1>2, PTL

-----------------------------------------------------------------------------
(***************************************************************************)
(* The end of an interrupt gives its priority back.                        *)
(*                                                                         *)
(* Beside the two assumptions above, the guest ends its interrupts with    *)
(* the non-specific EOI (the specific one leaves CurrentPriority at the    *)
(* ended line, pic.c:344) and gives the slave one vector base.  TLC has a  *)
(* counterexample for two: the request at line 2 outlives the ICW1 of the  *)
(* slave, and PicIAC subtracts the new base from the old vector.           *)
(***************************************************************************)

\* A level that is taken is that of a line in service.
Released(c) ==
    c.CurrentPriority = 7 \/ c.CurrentPriority \in c.InterruptInService

\* A chip that scans its requests is closed or initialised.
Dormant(c) ==
    /\ c.State = 0 => c.InterruptMask = Irq
    /\ "FULLY_NESTED" \in c.Mode => c.State \in {0, 4}

\* Behind the request at line 2, and behind the choice of it, is a line the
\* slave chose with the vector base it still has.
Chooses(c) == AckedIrq(c) \in Irq /\ c.CurrentOffset \in SlaveOffsets
Calls(m, c) ==
    \/ CascadeLine \in c.InterruptRequest
    \/ "INTR" \in m.events /\ AckedIrq(c) = CascadeLine
Backed(m) == Calls(m, m.pic[0]) => Chooses(m.pic[1])

Orderly(m) ==
    /\ \A i \in Chips : Released(m.pic[i]) /\ Dormant(m.pic[i])
    /\ "SPECIAL_MASK" \notin m.pic[0].Mode \cup m.pic[1].Mode
    /\ m.pic[0].State \in {3, 4} => m.pic[0].Cascade
    /\ m.pic[1].State \in {2, 3, 4} => m.pic[1].CurrentOffset \in SlaveOffsets
    /\ Backed(m)

\* What a chip keeps when a line of it is chosen.
LEMMA ChosenKeeps ==
    ASSUME NEW c \in PIC, NEW irq \in Irq
    PROVE  LET d == Chosen(c, irq)
           IN  /\ d \in PIC /\ AckedIrq(d) = irq
               /\ Released(c) => Released(d)
               /\ Dormant(c) => Dormant(d)
               /\ d.State = c.State /\ d.Cascade = c.Cascade /\ d.Mode = c.Mode
               /\ d.CurrentOffset = c.CurrentOffset
               /\ d.InterruptRequest = c.InterruptRequest
<1> DEFINE d == Chosen(c, irq)
<1>1. Serviced(c, d) /\ AckedIrq(d) = irq /\ d.InterruptRequest = c.InterruptRequest
  BY ChosenServiced
<1> HIDE DEF d
<1>2. (Released(c) => Released(d)) /\ (Dormant(c) => Dormant(d))
  BY <1>1 DEF Serviced, Released, Dormant
<1>3. QED
  BY <1>1, <1>2 DEF Serviced, d

\* PicService(&Pic[0]) keeps the order: the master chooses one of its requests.
LEMMA ServiceMasterOrderly ==
    ASSUME NEW m \in MachineType, Orderly(m)
    PROVE  /\ Orderly(ServiceMaster(m))
           /\ ServiceMaster(m) \in MachineType
           /\ ServiceMaster(m).pic[1] = m.pic[1]
<1> DEFINE n == ServiceMaster(m)
           c == m.pic[0]
           irq == Lowest(Deliverable(c))
           d == Chosen(c, irq)
<1>0. 0 \in Chips /\ 1 \in Chips /\ \A i \in Chips : i = 0 \/ i = 1
  BY DEF Chips
<1>1. n \in MachineType /\ n.pic[1] = m.pic[1]
  BY ServiceMasterGrown DEF Grown
<1>2. c \in PIC
  BY <1>0 DEF MachineType
<1>3. CASE ~Nested(c) \/ Deliverable(c) = {}
  <2>1. n = m
    BY <1>3 DEF ServiceMaster, Orderly
  <2>2. QED
    BY <1>1, <2>1
<1>4. CASE Nested(c) /\ Deliverable(c) # {}
  <2>1. Deliverable(c) \in SUBSET Irq /\ Deliverable(c) \subseteq c.InterruptRequest
    BY <1>2 DEF Deliverable, PIC
  <2>2. irq \in Irq /\ irq \in c.InterruptRequest
    BY <1>4, <2>1, LowestIn
  <2>3. c.State # 0
    <3>1. Dormant(c)
      BY <1>0 DEF Orderly
    <3>2. SUFFICES ASSUME c.State = 0 PROVE FALSE
      OBVIOUS
    <3>3. c.InterruptMask = Irq /\ c.InterruptRequest \in SUBSET Irq
      BY <1>2, <3>1, <3>2 DEF Dormant, PIC
    <3>4. QED
      BY <1>4, <3>3 DEF Deliverable
  <2>4. c.Cascade
    BY <1>0, <1>4, <2>3 DEF Orderly, Dormant, Nested
  <2>5. n = RequestWindow(Signal(Put(m, 0, d)))
    BY <1>4, <2>4 DEF ServiceMaster, AskMaster, Orderly
  <2> HIDE DEF n
  <2>6. /\ d \in PIC /\ AckedIrq(d) = irq
        /\ Released(c) => Released(d)
        /\ Dormant(c) => Dormant(d)
        /\ d.State = c.State /\ d.Cascade = c.Cascade /\ d.Mode = c.Mode
        /\ d.CurrentOffset = c.CurrentOffset
        /\ d.InterruptRequest = c.InterruptRequest
    BY <1>2, <2>2, ChosenKeeps
  <2> HIDE DEF d
  <2>7. n.pic[0] = d
    <3>1. Put(m, 0, d) \in MachineType /\ Put(m, 0, d).pic[0] = d
      BY <1>0, <2>6, PutStep
    <3>2. QED
      BY <2>5, <3>1, SignalType
  <2> HIDE DEF irq
  <2>8. \A i \in Chips : Released(n.pic[i]) /\ Dormant(n.pic[i])
    BY <1>0, <1>1, <2>6, <2>7 DEF Orderly
  <2>9. Backed(n)
    BY <1>1, <2>2, <2>6, <2>7 DEF Backed, Calls, Orderly
  <2>10. QED
    BY <1>1, <2>6, <2>7, <2>8, <2>9 DEF Orderly, n
<1>5. QED
  BY <1>3, <1>4

\* A new value of chip i that takes no level for itself and raises no line 2 that
\* is not backed.
Keeps(m, i, c) ==
    /\ Released(c) /\ Dormant(c) /\ "SPECIAL_MASK" \notin c.Mode
    /\ i = 0 => /\ c.State \in {3, 4} => c.Cascade
                /\ Calls(m, c) => Chooses(m.pic[1])
    /\ i = 1 => /\ c.State \in {2, 3, 4} => c.CurrentOffset \in SlaveOffsets
                /\ Chooses(m.pic[1]) => Chooses(c)

\* Replacing a chip by such a value keeps the order.
LEMMA PutOrderly ==
    ASSUME NEW m \in MachineType, Orderly(m), NEW i \in Chips, NEW c \in PIC,
           Keeps(m, i, c)
    PROVE  Orderly(Put(m, i, c)) /\ Put(m, i, c) \in MachineType
<1> DEFINE n == Put(m, i, c)
<1>0. 0 \in Chips /\ 1 \in Chips /\ \A j \in Chips : j = 0 \/ j = 1
  BY DEF Chips
<1>1. /\ n \in MachineType /\ n.pic[i] = c /\ n.events = m.events
      /\ \A j \in Chips : j # i => n.pic[j] = m.pic[j]
  BY PutStep
<1> HIDE DEF n
<1>2. \A j \in Chips : Released(n.pic[j]) /\ Dormant(n.pic[j])
  BY <1>1 DEF Keeps, Orderly
<1>3. CASE i = 0
  <2>1. n.pic[0] = c /\ n.pic[1] = m.pic[1]
    BY <1>0, <1>1, <1>3
  <2>2. Backed(n)
    BY <1>1, <1>3, <2>1 DEF Backed, Calls, Keeps
  <2>3. QED
    BY <1>1, <1>2, <1>3, <2>1, <2>2 DEF Orderly, Keeps, n
<1>4. CASE i = 1
  <2>1. n.pic[1] = c /\ n.pic[0] = m.pic[0]
    BY <1>0, <1>1, <1>4
  <2>2. Backed(n)
    BY <1>1, <1>4, <2>1 DEF Backed, Calls, Keeps, Orderly
  <2>3. QED
    BY <1>1, <1>2, <1>4, <2>1, <2>2 DEF Orderly, Keeps, n
<1>5. QED
  BY <1>0, <1>3, <1>4

\* PicService(&Pic[1]) keeps the order: the slave has chosen when it raises
\* line 2 of the master.
LEMMA ServiceSlaveOrderly ==
    ASSUME NEW m \in MachineType, Orderly(m)
    PROVE  Orderly(ServiceSlave(m)) /\ ServiceSlave(m) \in MachineType
<1> DEFINE c == m.pic[1]
           irq == Lowest(Deliverable(c))
           d == Chosen(c, irq)
           l == Put(m, 1, d)
<1>0. 0 \in Chips /\ 1 \in Chips
  BY DEF Chips
<1>1. ServiceSlave(m) \in MachineType
  BY ServiceSlaveGrown DEF Grown
<1>2. c \in PIC
  BY <1>0 DEF MachineType
<1>3. CASE ~Nested(c) \/ Deliverable(c) = {}
  <2>1. ServiceSlave(m) = m
    BY <1>3 DEF ServiceSlave, Orderly
  <2>2. QED
    BY <2>1
<1>4. CASE Nested(c) /\ Deliverable(c) # {}
  <2>1. Deliverable(c) \in SUBSET Irq
    BY <1>2 DEF Deliverable, PIC
  <2>2. irq \in Irq
    BY <1>4, <2>1, LowestIn
  <2>3. c.State # 0
    <3>1. Dormant(c)
      BY <1>0 DEF Orderly
    <3>2. SUFFICES ASSUME c.State = 0 PROVE FALSE
      OBVIOUS
    <3>3. c.InterruptMask = Irq /\ c.InterruptRequest \in SUBSET Irq
      BY <1>2, <3>1, <3>2 DEF Dormant, PIC
    <3>4. QED
      BY <1>4, <3>3 DEF Deliverable
  <2>4. c.State = 4 /\ c.CurrentOffset \in SlaveOffsets
    BY <1>0, <1>4, <2>3 DEF Orderly, Dormant, Nested
  <2>5. ServiceSlave(m) = RaiseCascade(l)
    BY <1>4 DEF ServiceSlave, AskSlave, Orderly
  <2>6. /\ d \in PIC /\ AckedIrq(d) = irq
        /\ Released(c) => Released(d)
        /\ Dormant(c) => Dormant(d)
        /\ d.State = c.State /\ d.Cascade = c.Cascade /\ d.Mode = c.Mode
        /\ d.CurrentOffset = c.CurrentOffset
    BY <1>2, <2>2, ChosenKeeps
  <2> HIDE DEF d, irq
  <2>7. Chooses(d)
    BY <2>2, <2>4, <2>6 DEF Chooses
  <2>8. Keeps(m, 1, d)
    BY <1>0, <2>4, <2>6, <2>7 DEF Keeps, Orderly
  <2>9. Orderly(l) /\ l \in MachineType /\ l.pic[1] = d
    BY <1>0, <2>6, <2>8, PutOrderly, PutStep
  <2> HIDE DEF l
  <2>10. CASE CascadeLine \in l.pic[0].InterruptPin
    BY <1>1, <2>5, <2>9, <2>10 DEF RaiseCascade
  <2>11. CASE CascadeLine \notin l.pic[0].InterruptPin
    <3> DEFINE e == Latched(l.pic[0], CascadeLine)
    <3>1. l.pic[0] \in PIC /\ CascadeLine \in Irq
      BY <1>0, <2>9 DEF MachineType, CascadeLine, Irq
    <3>2. e \in PIC
      BY <3>1, LatchedType
    <3>3. Released(e) /\ Dormant(e) /\ e.Mode = l.pic[0].Mode
          /\ e.State = l.pic[0].State /\ e.Cascade = l.pic[0].Cascade
      BY <1>0, <2>9, <3>1 DEF Latched, PIC, Released, Dormant, Orderly
    <3>4. ServiceSlave(m) = ServiceMaster(Put(l, 0, e))
      BY <2>5, <2>11 DEF RaiseCascade
    <3> HIDE DEF e
    <3>5. Keeps(l, 0, e)
      BY <2>7, <2>9, <3>3 DEF Keeps, Orderly
    <3>6. Orderly(Put(l, 0, e)) /\ Put(l, 0, e) \in MachineType
      BY <1>0, <2>9, <3>2, <3>5, PutOrderly
    <3>7. QED
      BY <1>1, <3>4, <3>6, ServiceMasterOrderly
  <2>12. QED
    BY <2>10, <2>11
<1>5. QED
  BY <1>3, <1>4

\* A line of the chip that is acknowledged is put in service with its priority.
LEMMA EnteredReleased ==
    ASSUME NEW c \in PIC
    PROVE  LET d == Entered(Consumed(c))
           IN  /\ d \in PIC
               /\ AckedIrq(c) \in Irq => Released(d)
               /\ Dormant(c) => Dormant(d)
               /\ AckedIrq(d) = AckedIrq(c) /\ d.CurrentOffset = c.CurrentOffset
               /\ d.InterruptRequest \subseteq c.InterruptRequest
               /\ d.Mode = c.Mode /\ d.State = c.State /\ d.Cascade = c.Cascade
<1> DEFINE b == Consumed(c)
           d == Entered(b)
<1>1. /\ b \in PIC /\ d \in PIC
      /\ b.State = c.State /\ b.Mode = c.Mode /\ b.Cascade = c.Cascade
      /\ b.CurrentOffset = c.CurrentOffset /\ b.InterruptNumber = c.InterruptNumber
      /\ b.InterruptRequest \subseteq c.InterruptRequest
      /\ d.State = b.State /\ d.Mode = b.Mode /\ d.Cascade = b.Cascade
      /\ d.InterruptRequest = b.InterruptRequest
  BY ConsumedType, EnteredType
<1>2. b.InterruptMask = c.InterruptMask
  BY DEF Consumed, PIC
<1> HIDE DEF b
<1>3. /\ d.CurrentOffset = b.CurrentOffset /\ d.InterruptNumber = b.InterruptNumber
      /\ d.InterruptMask = b.InterruptMask
      /\ d.CurrentPriority = AckedIrq(b)
      /\ Bit(AckedIrq(b)) \subseteq d.InterruptInService
  BY <1>1 DEF Entered, PIC
<1> HIDE DEF d
<1>4. AckedIrq(b) = AckedIrq(c) /\ AckedIrq(d) = AckedIrq(c)
  BY <1>1, <1>3 DEF AckedIrq
<1>5. AckedIrq(c) \in Irq => Released(d)
  <2>1. \A k \in Irq : k % 32 = k
    BY DEF Irq
  <2>2. AckedIrq(c) \in Irq => AckedIrq(c) \in Bit(AckedIrq(c))
    BY <2>1 DEF Bit
  <2>3. QED
    BY <1>3, <1>4, <2>2 DEF Released
<1>6. Dormant(c) => Dormant(d)
  BY <1>1, <1>2, <1>3 DEF Dormant
<1>7. QED
  BY <1>1, <1>3, <1>4, <1>5, <1>6 DEF b, d

\* PicIAC keeps the order: what it computes from the vector is a line that was
\* chosen, of the master or, behind line 2, of the slave.
LEMMA PicIACOrderly ==
    ASSUME NEW m \in MachineType, Steady(m), Orderly(m), "INTR" \in m.events
    PROVE  Orderly(PicIAC(m))
<1> DEFINE n == [m EXCEPT !.events = @ \ {"INTR"}]
           acked == IF AckedIrq(m.pic[0]) = CascadeLine
                    THEN AckSlave(n) ELSE AckMaster(n)
<1>0. 0 \in Chips /\ 1 \in Chips
  BY DEF Chips
<1>1. n \in MachineType /\ n.pic = m.pic /\ "INTR" \notin n.events
  BY DEF MachineType
<1>2. PicIAC(m) = ServiceMaster(acked)
  BY DEF PicIAC
<1> HIDE DEF n
<1>3. Orderly(n)
  BY <1>1 DEF Orderly, Backed, Calls
<1>4. /\ m.pic[0] \in PIC /\ m.pic[1] \in PIC
      /\ AckedIrq(m.pic[0]) \in Irq
      /\ \A i \in Chips : Released(m.pic[i]) /\ Dormant(m.pic[i])
      /\ "SPECIAL_MASK" \notin m.pic[0].Mode /\ "SPECIAL_MASK" \notin m.pic[1].Mode
      /\ m.pic[0].State \in {3, 4} => m.pic[0].Cascade
      /\ m.pic[1].State \in {2, 3, 4} => m.pic[1].CurrentOffset \in SlaveOffsets
      /\ Backed(m)
  BY <1>0 DEF MachineType, Steady, Orderly
<1>5. acked \in MachineType /\ Orderly(acked)
  <2>1. CASE AckedIrq(m.pic[0]) # CascadeLine
    <3> DEFINE c == Entered(Consumed(m.pic[0]))
    <3>1. /\ c \in PIC /\ Released(c) /\ Dormant(c)
          /\ c.InterruptRequest \subseteq m.pic[0].InterruptRequest
          /\ c.Mode = m.pic[0].Mode /\ c.State = m.pic[0].State
          /\ c.Cascade = m.pic[0].Cascade
      BY <1>0, <1>4, EnteredReleased
    <3>2. acked = Put(n, 0, c)
      BY <1>1, <2>1 DEF AckMaster
    <3> HIDE DEF c, acked
    <3>3. Keeps(n, 0, c)
      BY <1>1, <1>4, <3>1 DEF Keeps, Backed, Calls
    <3>4. QED
      BY <1>0, <1>1, <1>3, <3>1, <3>2, <3>3, PutOrderly
  <2>2. CASE AckedIrq(m.pic[0]) = CascadeLine
    <3> DEFINE b == Consumed(m.pic[0])
               c == [b EXCEPT !.InterruptPin = @ \ {CascadeLine}]
               d == Entered(Consumed(m.pic[1]))
               l == Put(n, 0, c)
               k == Put(l, 1, d)
    <3>1. Chooses(m.pic[1])
      BY <1>4, <2>2 DEF Backed, Calls
    <3>2. /\ b \in PIC
          /\ b.State = m.pic[0].State /\ b.Mode = m.pic[0].Mode
          /\ b.Cascade = m.pic[0].Cascade
          /\ b.InterruptRequest \subseteq m.pic[0].InterruptRequest
          /\ b.InterruptMask = m.pic[0].InterruptMask
          /\ b.CurrentPriority = m.pic[0].CurrentPriority
          /\ b.InterruptInService = m.pic[0].InterruptInService
      <4>1. /\ b.InterruptMask = m.pic[0].InterruptMask
            /\ b.CurrentPriority = m.pic[0].CurrentPriority
            /\ b.InterruptInService = m.pic[0].InterruptInService
        BY <1>4 DEF Consumed, PIC
      <4>2. QED
        BY <1>4, <4>1, ConsumedType
    <3>3. acked = ServiceSlave(k)
      BY <1>1, <2>2 DEF AckSlave
    <3> HIDE DEF b
    <3>4. /\ c \in PIC
          /\ c.State = b.State /\ c.Mode = b.Mode /\ c.Cascade = b.Cascade
          /\ c.InterruptRequest = b.InterruptRequest
          /\ c.InterruptMask = b.InterruptMask
          /\ c.CurrentPriority = b.CurrentPriority
          /\ c.InterruptInService = b.InterruptInService
      BY <3>2 DEF PIC
    <3> HIDE DEF c, acked
    <3>5. Released(c) /\ Dormant(c)
      BY <1>0, <1>4, <3>2, <3>4 DEF Released, Dormant
    <3>6. Keeps(n, 0, c)
      BY <1>1, <1>4, <3>1, <3>2, <3>4, <3>5 DEF Keeps
    <3>7. l \in MachineType /\ Orderly(l) /\ l.pic[1] = m.pic[1]
      BY <1>0, <1>1, <1>3, <3>4, <3>6, PutOrderly, PutStep
    <3> HIDE DEF l
    <3>8. /\ d \in PIC /\ Released(d) /\ Dormant(d) /\ Chooses(d)
          /\ d.Mode = m.pic[1].Mode
      BY <1>0, <1>4, <3>1, EnteredReleased DEF Chooses
    <3> HIDE DEF d
    <3>9. Keeps(l, 1, d)
      BY <1>4, <3>8 DEF Keeps, Chooses
    <3>10. k \in MachineType /\ Orderly(k)
      BY <1>0, <3>7, <3>8, <3>9, PutOrderly
    <3> HIDE DEF k
    <3>11. QED
      BY <3>3, <3>10, ServiceSlaveOrderly
  <2>3. QED
    BY <2>1, <2>2
<1> HIDE DEF acked
<1>6. QED
  BY <1>2, <1>5, ServiceMasterOrderly

-----------------------------------------------------------------------------
\* The third inductive invariant, beside the other two.
PriorityInv == Orderly(Machine({}))

\* The invariant, about the machine record and the chips in it.
LEMMA MachineOrderly ==
    ASSUME Inv, PriorityInv, NEW a \in SUBSET Irq
    PROVE  /\ Machine(a) \in MachineType
           /\ Machine(a).pic = pic /\ Machine(a).events = events
           /\ Orderly(Machine(a))
<1>1. Machine(a) \in MachineType /\ Machine(a).pic = pic /\ Machine(a).events = events
  BY MachineIsTyped DEF Inv
<1>2. Machine({}).pic = pic /\ Machine({}).events = events
  BY DEF Machine
<1>3. QED
  BY <1>1, <1>2 DEF PriorityInv, Orderly, Backed, Calls

\* What it says of each chip.
LEMMA OrderFacts ==
    ASSUME Inv, PriorityInv, NEW i \in Chips
    PROVE  /\ pic[i] \in PIC /\ Released(pic[i]) /\ Dormant(pic[i])
           /\ "SPECIAL_MASK" \notin pic[i].Mode
           /\ i = 0 => (pic[i].State \in {3, 4} => pic[i].Cascade)
           /\ i = 1 => (pic[i].State \in {2, 3, 4} => pic[i].CurrentOffset \in SlaveOffsets)
           /\ \A a : i = 0 /\ Calls(Machine(a), pic[i]) => Chooses(pic[1])
<1>1. \A a : Machine(a).pic = pic /\ Machine(a).events = events
  BY DEF Machine
<1>2. Orderly(Machine({})) /\ pic[i] \in PIC
  BY DEF PriorityInv, Inv, TypeOK
<1>3. \A a : i = 0 /\ Calls(Machine(a), pic[i]) => Chooses(pic[1])
  BY <1>1, <1>2 DEF Orderly, Backed, Calls
<1>4. QED
  BY <1>1, <1>2, <1>3 DEF Orderly, Chips

\* How a step re-establishes the invariant.
LEMMA ReestablishPriorityInv ==
    ASSUME NEW n, Become(n), Orderly(n)
    PROVE  PriorityInv'
<1>1. n.pic = pic' /\ n.events = events'
  BY DEF Become
<1>2. Machine({})'.pic = pic' /\ Machine({})'.events = events'
  BY DEF Machine
<1>3. Orderly(Machine({}))'
  BY <1>1, <1>2 DEF Orderly, Backed, Calls
<1>4. QED
  BY <1>3 DEF PriorityInv

\* Replacing a chip, with or without a service, keeps the invariant.
LEMMA PutPriorityInv ==
    ASSUME Inv, PriorityInv, NEW a \in SUBSET Irq, NEW i \in Chips, NEW c \in PIC,
           Keeps(Machine(a), i, c),
           \/ Become(Put(Machine(a), i, c))
           \/ Become(PicService(Put(Machine(a), i, c), i))
    PROVE  PriorityInv'
<1> DEFINE l == Put(Machine(a), i, c)
<1>1. l \in MachineType /\ Orderly(l)
  BY MachineOrderly, PutOrderly
<1> HIDE DEF l
<1>2. Orderly(PicService(l, i))
  BY <1>1, ServiceMasterOrderly, ServiceSlaveOrderly DEF PicService
<1>3. QED
  BY <1>1, <1>2, ReestablishPriorityInv DEF l

\* A new value of a chip with the same vector and initialisation.
Alike(c, d) ==
    /\ d \in PIC
    /\ d.State = c.State /\ d.Cascade = c.Cascade
    /\ d.InterruptNumber = c.InterruptNumber /\ d.CurrentOffset = c.CurrentOffset
    /\ d.State # 4 => d.InterruptMask = c.InterruptMask
    /\ "FULLY_NESTED" \in d.Mode => "FULLY_NESTED" \in c.Mode
    /\ "SPECIAL_MASK" \in d.Mode => "SPECIAL_MASK" \in c.Mode
    /\ Released(c) => Released(d)

\* Such a value keeps the order, if it raises no line 2.
LEMMA AlikeKeeps ==
    ASSUME Inv, PriorityInv, NEW a, NEW i \in Chips, NEW c, Alike(pic[i], c),
           i = 0 /\ CascadeLine \in c.InterruptRequest
              => CascadeLine \in pic[0].InterruptRequest
    PROVE  Keeps(Machine(a), i, c)
<1>1. AckedIrq(c) = AckedIrq(pic[i])
  BY DEF Alike, AckedIrq
<1>2. Released(c) /\ Dormant(c) /\ "SPECIAL_MASK" \notin c.Mode
  BY OrderFacts DEF Alike, Dormant
<1>3. Machine(a).pic = pic /\ Machine(a).events = events
  BY DEF Machine
<1>4. CASE i = 0
  <2>1. Calls(Machine(a), c) => Calls(Machine(a), pic[0])
    BY <1>1, <1>4 DEF Calls
  <2>2. QED
    BY <1>2, <1>3, <1>4, <2>1, OrderFacts DEF Keeps, Alike
<1>5. CASE i = 1
  BY <1>1, <1>2, <1>3, <1>5, OrderFacts DEF Keeps, Alike, Chooses
<1>6. QED
  BY <1>4, <1>5 DEF Chips

\* PicRaiseIrq keeps the invariant: devices never raise line 2.
LEMMA DeviceRaisePriority ==
    ASSUME Inv, PriorityInv, NEW l \in Lines, NEW a \in GvmAccepts, DeviceRaise(l, a)
    PROVE  PriorityInv'
<1> DEFINE i == l \div 8
           irq == l % 8
           c == Latched(pic[i], irq)
<1>1. i \in Chips /\ irq \in Irq /\ (i = 0 => irq # CascadeLine)
  BY LineIsIrq
<1>2. pic[i] \in PIC /\ a \in SUBSET Irq /\ Machine(a).pic = pic
  BY <1>1, GuestFacts
<1>3. CASE irq \in pic[i].InterruptPin
  <2>1. Become(Machine(a)) /\ Orderly(Machine(a))
    BY <1>2, <1>3, MachineOrderly DEF DeviceRaise, PicRaiseIrq
  <2>2. QED
    BY <2>1, ReestablishPriorityInv
<1>4. CASE irq \notin pic[i].InterruptPin
  <2>1. Become(PicService(Put(Machine(a), i, c), i))
    BY <1>2, <1>4 DEF DeviceRaise, PicRaiseIrq
  <2> HIDE DEF irq
  <2>2. Alike(pic[i], c) /\ c.InterruptRequest = pic[i].InterruptRequest \cup {irq}
    <3>1. c \in PIC
      BY <1>1, <1>2, LatchedType
    <3>2. QED
      BY <1>2, <3>1 DEF Latched, PIC, Alike, Released
  <2> HIDE DEF c, i
  <2>3. Keeps(Machine(a), i, c)
    BY <1>1, <2>2, AlikeKeeps
  <2>4. QED
    BY <1>1, <1>2, <2>1, <2>2, <2>3, PutPriorityInv DEF Alike
<1>5. QED
  BY <1>3, <1>4

\* PicLowerIrq keeps the invariant.
LEMMA DeviceLowerPriority ==
    ASSUME Inv, PriorityInv, NEW l \in Lines, DeviceLower(l)
    PROVE  PriorityInv'
<1> DEFINE c == Lowered(pic[0], l)
<1>1. l \in 0..15 /\ 0 \in Chips
  BY LineIsIrq DEF Chips
<1>2. pic[0] \in PIC /\ {} \in SUBSET Irq /\ Machine({}).pic = pic
  BY <1>1, GuestFacts
<1>3. CASE l > 7 \/ l \notin pic[0].InterruptPin
  <2>1. Become(Machine({})) /\ Orderly(Machine({}))
    BY <1>2, <1>3, MachineOrderly DEF DeviceLower, PicLowerIrq
  <2>2. QED
    BY <2>1, ReestablishPriorityInv
<1>4. CASE l \in 0..7 /\ l \in pic[0].InterruptPin
  <2>1. Become(Put(Machine({}), 0, c))
    BY <1>2, <1>4 DEF DeviceLower, PicLowerIrq
  <2>2. c \in PIC
    BY <1>2, <1>4, LoweredType DEF Irq
  <2>3. Alike(pic[0], c) /\ c.InterruptRequest \subseteq pic[0].InterruptRequest
    BY <1>2, <2>2 DEF Lowered, PIC, Alike, Released
  <2> HIDE DEF c
  <2>4. Keeps(Machine({}), 0, c)
    BY <1>1, <2>3, AlikeKeeps
  <2>5. QED
    BY <1>1, <1>2, <2>1, <2>2, <2>4, PutPriorityInv
<1>5. QED
  BY <1>1, <1>3, <1>4

\* PicSetMode keeps the invariant.
LEMMA GuestElcrPriority ==
    ASSUME Inv, PriorityInv, NEW i \in Chips, NEW level \in LevelLines,
           GuestElcr(i, level)
    PROVE  PriorityInv'
<1> DEFINE c == [pic[i] EXCEPT !.EdgeLevel = level \cap ElcrMask(i)]
<1>1. Become(Put(Machine({}), i, c)) /\ pic[i] \in PIC /\ {} \in SUBSET Irq
  BY GuestFacts DEF GuestElcr, PicSetMode
<1>2. level \in SUBSET Irq
  BY PicAssumption
<1>3. c \in PIC
  BY <1>1, <1>2 DEF PIC
<1>4. Alike(pic[i], c) /\ c.InterruptRequest = pic[i].InterruptRequest
  BY <1>1, <1>3 DEF PIC, Alike, Released
<1> HIDE DEF c
<1>5. Keeps(Machine({}), i, c)
  BY <1>4, AlikeKeeps
<1>6. QED
  BY <1>1, <1>3, <1>5, PutPriorityInv

\* A write of the IMR keeps the invariant: the chip is initialised.
LEMMA GuestImrPriority ==
    ASSUME Inv, PriorityInv, NEW i \in Chips, NEW mask \in Masks,
           NEW a \in GvmAccepts, GuestImr(i, mask, a)
    PROVE  PriorityInv'
<1> DEFINE c == [pic[i] EXCEPT !.InterruptMask = mask]
<1>1. /\ Become(PicService(Put(Machine(a), i, c), i)) /\ pic[i].State = 4
      /\ pic[i] \in PIC /\ a \in SUBSET Irq
  BY GuestFacts DEF GuestImr, WriteImr
<1>2. mask \in SUBSET Irq
  BY PicAssumption
<1>3. c \in PIC
  BY <1>1, <1>2 DEF PIC
<1>4. Alike(pic[i], c) /\ c.InterruptRequest = pic[i].InterruptRequest
  BY <1>1, <1>3 DEF PIC, Alike, Released
<1> HIDE DEF c
<1>5. Keeps(Machine(a), i, c)
  BY <1>4, AlikeKeeps
<1>6. QED
  BY <1>1, <1>3, <1>5, PutPriorityInv

\* ICW1 keeps the invariant: the level is given back and the event withdrawn.
LEMMA GuestIcw1Priority ==
    ASSUME Inv, PriorityInv, NEW i \in Chips, NEW icw4 \in Icw1Values,
           GuestIcw1(i, icw4)
    PROVE  PriorityInv'
<1> DEFINE m == Machine({})
           c == Restarted(pic[i], icw4)
           l == Put(m, i, c)
           n == [l EXCEPT !.events = @ \ {"INTR"}]
<1>1. Become(n) /\ pic[i] \in PIC /\ {} \in SUBSET Irq
  BY GuestFacts DEF GuestIcw1, WriteIcw1
<1>2. icw4 \in BOOLEAN
  BY PicAssumption
<1>3. /\ c \in PIC /\ c.State = 1 /\ c.Mode = {} /\ c.CurrentPriority = 7
      /\ c.InterruptRequest = {}
      /\ c.InterruptNumber = pic[i].InterruptNumber
      /\ c.CurrentOffset = pic[i].CurrentOffset
  <2>1. c \in PIC
    BY <1>1, <1>2, RestartedType
  <2>2. /\ Cleared(pic[i]) \in PIC /\ Cleared(pic[i]).CurrentPriority = 7
        /\ Cleared(pic[i]).InterruptRequest = {}
        /\ Cleared(pic[i]).InterruptNumber = pic[i].InterruptNumber
        /\ Cleared(pic[i]).CurrentOffset = pic[i].CurrentOffset
    BY <1>1, Bytes DEF Cleared, PIC
  <2>3. QED
    BY <2>1, <2>2 DEF Restarted, PIC
<1> HIDE DEF c
<1>4. AckedIrq(c) = AckedIrq(pic[i])
  BY <1>3 DEF AckedIrq
<1>5. /\ m \in MachineType /\ m.pic = pic /\ m.events = events
      /\ Orderly([m EXCEPT !.events = @ \ {"INTR"}])
      /\ [m EXCEPT !.events = @ \ {"INTR"}] \in MachineType
  <2>1. m \in MachineType /\ m.pic = pic /\ m.events = events /\ Orderly(m)
    BY <1>1, MachineOrderly
  <2> HIDE DEF m
  <2> DEFINE k == [m EXCEPT !.events = @ \ {"INTR"}]
  <2>2. k \in MachineType /\ k.pic = m.pic /\ k.events = m.events \ {"INTR"}
    BY <2>1 DEF MachineType
  <2> HIDE DEF k
  <2>3. Orderly(k)
    BY <2>1, <2>2 DEF Orderly, Backed, Calls
  <2>4. QED
    BY <2>1, <2>2, <2>3 DEF k
<1> DEFINE k == [m EXCEPT !.events = @ \ {"INTR"}]
<1>6. k.pic = pic /\ k.events = events \ {"INTR"}
  BY <1>5 DEF MachineType
<1>7. n.pic = Put(k, i, c).pic /\ n.events = Put(k, i, c).events
  <2> HIDE DEF m
  <2>1. l \in MachineType /\ l.pic = [pic EXCEPT ![i] = c] /\ l.events = events
    BY <1>3, <1>5, PutType
  <2> HIDE DEF l
  <2>2. n.pic = l.pic /\ n.events = l.events \ {"INTR"}
    BY <2>1 DEF MachineType
  <2> HIDE DEF n
  <2>3. k \in MachineType
    BY <1>5
  <2> HIDE DEF k
  <2>4. Put(k, i, c).pic = [k.pic EXCEPT ![i] = c] /\ Put(k, i, c).events = k.events
    BY <1>3, <2>3, PutType
  <2>5. QED
    BY <1>6, <2>1, <2>2, <2>4
<1> HIDE DEF m, n, k
<1>8. Keeps(k, i, c)
  <2>1. Released(c) /\ Dormant(c) /\ "SPECIAL_MASK" \notin c.Mode
    BY <1>3 DEF Released, Dormant
  <2>2. Chooses(pic[i]) => Chooses(c)
    BY <1>3, <1>4 DEF Chooses
  <2>3. ~Calls(k, c)
    BY <1>3, <1>6 DEF Calls
  <2>4. QED
    BY <1>3, <1>6, <2>1, <2>2, <2>3 DEF Keeps
<1>9. Orderly(Put(k, i, c))
  BY <1>3, <1>5, <1>8, PutOrderly DEF k
<1>10. Orderly(n)
  BY <1>7, <1>9 DEF Orderly, Backed, Calls
<1>11. QED
  BY <1>1, <1>10, ReestablishPriorityInv

\* ICW2 keeps the invariant: the vector base of the slave does not change once
\* it has chosen a line.
LEMMA GuestIcw2Priority ==
    ASSUME Inv, CascadeInv, PriorityInv, NEW i \in Chips, NEW offset \in Offsets(i),
           GuestIcw2(i, offset),
           \A v, w \in SlaveOffsets : v = w
    PROVE  PriorityInv'
<1> DEFINE c == Offset(pic[i], offset)
<1>0. offset \in Byte /\ (i = 1 => offset \in SlaveOffsets)
  BY PicAssumption DEF Offsets
<1>1. /\ Become(Put(Machine({}), i, c)) /\ {} \in SUBSET Irq
      /\ pic[i] \in PIC /\ pic[i].State = 1
  BY GuestFacts DEF GuestIcw2, WriteIcw2
<1>2. /\ c \in PIC /\ c.State = 2 /\ c.Mode = pic[i].Mode
      /\ c.InterruptRequest = pic[i].InterruptRequest
      /\ c.CurrentPriority = pic[i].CurrentPriority
      /\ c.InterruptInService = pic[i].InterruptInService
      /\ c.InterruptNumber = pic[i].InterruptNumber
      /\ c.CurrentOffset = offset
  BY <1>0, <1>1, OffsetType DEF Offset, PIC
<1> HIDE DEF c
<1>3. Released(c) /\ Dormant(c) /\ "SPECIAL_MASK" \notin c.Mode
  BY <1>1, <1>2, OrderFacts DEF Released, Dormant
<1>4. Machine({}).pic = pic /\ Machine({}).events = events
  BY DEF Machine
<1>5. Keeps(Machine({}), i, c)
  <2>1. CASE i = 0
    <3>1. "INTR" \notin events
      BY <1>1, <2>1, ChipFacts
    <3>2. Calls(Machine({}), c) => Calls(Machine({}), pic[0])
      BY <1>2, <1>4, <2>1, <3>1 DEF Calls
    <3>3. QED
      BY <1>2, <1>3, <1>4, <2>1, <3>2, OrderFacts DEF Keeps
  <2>2. CASE i = 1
    <3>1. Chooses(pic[1]) => Chooses(c)
      <4>1. SUFFICES ASSUME Chooses(pic[1]) PROVE Chooses(c)
        OBVIOUS
      <4>2. c.CurrentOffset = pic[1].CurrentOffset
        BY <1>0, <1>2, <2>2, <4>1 DEF Chooses
      <4>3. QED
        BY <1>2, <2>2, <4>1, <4>2 DEF Chooses, AckedIrq
    <3>2. QED
      BY <1>0, <1>2, <1>3, <1>4, <2>2, <3>1 DEF Keeps
  <2>3. QED
    BY <2>1, <2>2 DEF Chips
<1>6. QED
  BY <1>1, <1>2, <1>5, PutPriorityInv

\* ICW3 keeps the invariant if the master gets its cascade bit.
LEMMA GuestIcw3Priority ==
    ASSUME Inv, PriorityInv, NEW i \in Chips, NEW value, GuestIcw3(i, value),
           i = 0 => CascadeLine \in value
    PROVE  PriorityInv'
<1>1. PICK enable \in BOOLEAN : enable = (i = 0 /\ CascadeLine \in value)
  OBVIOUS
<1> DEFINE c == Cascaded(pic[i], enable, value)
<1>2. /\ Become(Put(Machine({}), i, c)) /\ {} \in SUBSET Irq
      /\ pic[i] \in PIC /\ pic[i].State = 2
  BY <1>1, GuestFacts DEF GuestIcw3, WriteIcw3
<1>3. /\ c \in PIC /\ c.State = 3 /\ c.Mode = pic[i].Mode
      /\ c.Cascade = enable
      /\ c.InterruptRequest = pic[i].InterruptRequest
      /\ c.CurrentPriority = pic[i].CurrentPriority
      /\ c.InterruptInService = pic[i].InterruptInService
      /\ c.InterruptNumber = pic[i].InterruptNumber
      /\ c.CurrentOffset = pic[i].CurrentOffset
  BY <1>2, CascadedType DEF Cascaded, PIC
<1> HIDE DEF c
<1>4. Released(c) /\ Dormant(c) /\ "SPECIAL_MASK" \notin c.Mode
  BY <1>2, <1>3, OrderFacts DEF Released, Dormant
<1>5. Machine({}).pic = pic /\ Machine({}).events = events
  BY DEF Machine
<1>6. AckedIrq(c) = AckedIrq(pic[i])
  BY <1>3 DEF AckedIrq
<1>7. Keeps(Machine({}), i, c)
  <2>1. CASE i = 0
    <3>1. Calls(Machine({}), c) => Calls(Machine({}), pic[0])
      BY <1>3, <1>5, <1>6, <2>1 DEF Calls
    <3>2. enable
      BY <1>1, <2>1, Zenon
    <3>3. Calls(Machine({}), c) => Chooses(pic[1])
      BY <2>1, <3>1, OrderFacts
    <3>4. QED
      BY <1>3, <1>4, <1>5, <2>1, <3>2, <3>3 DEF Keeps
  <2>2. CASE i = 1
    BY <1>2, <1>3, <1>4, <1>5, <1>6, <2>2, OrderFacts DEF Keeps, Chooses
  <2>3. QED
    BY <2>1, <2>2 DEF Chips
<1>8. QED
  BY <1>2, <1>3, <1>7, PutPriorityInv

\* ICW4 keeps the invariant.
LEMMA GuestIcw4Priority ==
    ASSUME Inv, PriorityInv, NEW i \in Chips, NEW bits, GuestIcw4(i, bits)
    PROVE  PriorityInv'
<1> DEFINE mode == Icw4Mode(bits)
           c == Arched(pic[i], mode)
<1>1. /\ Become(Put(Machine({}), i, c)) /\ {} \in SUBSET Irq
      /\ pic[i] \in PIC /\ pic[i].State = 3
  BY GuestFacts DEF GuestIcw4, WriteIcw4
<1>2. mode \in SUBSET MODES /\ "SPECIAL_MASK" \notin mode
  BY DEF Icw4Mode, MODES
<1> HIDE DEF mode
<1>3. /\ c \in PIC /\ c.State = 4 /\ c.Mode = pic[i].Mode \cup mode
      /\ c.Cascade = pic[i].Cascade
      /\ c.InterruptRequest = pic[i].InterruptRequest
      /\ c.CurrentPriority = pic[i].CurrentPriority
      /\ c.InterruptInService = pic[i].InterruptInService
      /\ c.InterruptNumber = pic[i].InterruptNumber
      /\ c.CurrentOffset = pic[i].CurrentOffset
  BY <1>1, <1>2, ArchedType DEF Arched, PIC
<1> HIDE DEF c
<1>4. Released(c) /\ Dormant(c) /\ "SPECIAL_MASK" \notin c.Mode
  BY <1>1, <1>2, <1>3, OrderFacts DEF Released, Dormant
<1>5. Machine({}).pic = pic /\ Machine({}).events = events
  BY DEF Machine
<1>6. AckedIrq(c) = AckedIrq(pic[i])
  BY <1>3 DEF AckedIrq
<1>7. Keeps(Machine({}), i, c)
  <2>1. CASE i = 0
    <3>1. Calls(Machine({}), c) => Calls(Machine({}), pic[0])
      BY <1>3, <1>5, <1>6, <2>1 DEF Calls
    <3>2. QED
      BY <1>1, <1>3, <1>4, <1>5, <2>1, <3>1, OrderFacts DEF Keeps
  <2>2. CASE i = 1
    BY <1>1, <1>3, <1>4, <1>5, <1>6, <2>2, OrderFacts DEF Keeps, Chooses
  <2>3. QED
    BY <2>1, <2>2 DEF Chips
<1>8. QED
  BY <1>1, <1>3, <1>7, PutPriorityInv

\* OCW3 without the special mask command keeps the invariant.
LEMMA GuestOcw3Priority ==
    ASSUME Inv, PriorityInv, NEW i \in Chips, NEW cmd \in Ocw3Commands,
           NEW a \in GvmAccepts, GuestOcw3(i, cmd, a), cmd # "special_mask"
    PROVE  PriorityInv'
<1> DEFINE read(sel) == [pic[i] EXCEPT !.ReadSelect = sel]
           moded == Moded(pic[i], Ocw3Mode(cmd))
<1>1. /\ Become(WriteOcw3(Machine(a), i, cmd))
      /\ a \in SUBSET Irq /\ pic[i] \in PIC /\ Machine(a).pic[i] = pic[i]
  BY GuestFacts DEF GuestOcw3
<1>2. cmd \in OCW3
  BY PicAssumption
<1>3. CASE cmd \in {"read_irr", "read_isr", "none"}
  <2>1. PICK sel \in 0..3 : Become(Put(Machine(a), i, read(sel)))
    <3>1. 0 \in 0..3 /\ 2 \in 0..3 /\ 3 \in 0..3
      OBVIOUS
    <3>2. WriteOcw3(Machine(a), i, cmd) \in
            {Put(Machine(a), i, read(0)), Put(Machine(a), i, read(2)),
             Put(Machine(a), i, read(3))}
      BY <1>1, <1>3 DEF WriteOcw3
    <3>3. QED
      BY <1>1, <3>1, <3>2
  <2> DEFINE c == read(sel)
  <2>2. Alike(pic[i], c) /\ c.InterruptRequest = pic[i].InterruptRequest
    BY <1>1 DEF PIC, Alike, Released
  <2>3. Become(Put(Machine(a), i, c))
    BY <2>1
  <2> HIDE DEF c
  <2>4. Keeps(Machine(a), i, c)
    BY <2>2, AlikeKeeps
  <2>5. QED
    BY <1>1, <2>2, <2>3, <2>4, PutPriorityInv DEF Alike
<1>4. CASE cmd \in {"special_nested", "poll"}
  <2>1. Become(Put(Machine(a), i, moded))
    BY <1>1, <1>4 DEF WriteOcw3
  <2>2. Ocw3Mode(cmd) \in {{"SPECIAL_FULLY_NESTED"}, {"POLL"}}
    BY <1>4 DEF Ocw3Mode
  <2>3. /\ Ocw3Mode(cmd) \in SUBSET MODES
        /\ "FULLY_NESTED" \notin Ocw3Mode(cmd)
        /\ "SPECIAL_MASK" \notin Ocw3Mode(cmd)
    BY <2>2 DEF MODES
  <2>4. moded \in PIC
    BY <1>1, <2>3, ModedType
  <2>5. Alike(pic[i], moded) /\ moded.InterruptRequest = pic[i].InterruptRequest
    BY <1>1, <2>3, <2>4 DEF Moded, PIC, Alike, Released
  <2> HIDE DEF moded
  <2>6. Keeps(Machine(a), i, moded)
    BY <2>5, AlikeKeeps
  <2>7. QED
    BY <1>1, <2>1, <2>4, <2>6, PutPriorityInv
<1>5. QED
  BY <1>2, <1>3, <1>4 DEF OCW3

\* The non-specific EOI gives the level back (pic.c:323).
LEMMA GuestOcw2Priority ==
    ASSUME Inv, PriorityInv, NEW i \in Chips,
           NEW cmd \in {"nonspecific_eoi", "normal_mode", "auto_mode"},
           NEW irq, NEW a \in GvmAccepts, GuestOcw2(i, cmd, irq, a)
    PROVE  PriorityInv'
<1> DEFINE c == pic[i]
<1>1. /\ Become(WriteOcw2(Machine(a), i, cmd, irq))
      /\ a \in SUBSET Irq /\ c \in PIC /\ Machine(a).pic[i] = c
  BY GuestFacts DEF GuestOcw2
<1>2. CASE cmd \in {"normal_mode", "auto_mode"}
  <2>1. PICK mode \in {{"NORMAL_EOI"}, {"AUTO_EOI"}} :
           Become(Put(Machine(a), i, [c EXCEPT !.Mode = mode]))
    BY <1>1, <1>2 DEF WriteOcw2
  <2> DEFINE d == [c EXCEPT !.Mode = mode]
  <2>2. mode \in SUBSET MODES /\ "FULLY_NESTED" \notin mode /\ "SPECIAL_MASK" \notin mode
    BY DEF MODES
  <2>3. Alike(c, d) /\ d.InterruptRequest = c.InterruptRequest
    BY <1>1, <2>2 DEF PIC, Alike, Released
  <2>4. Become(Put(Machine(a), i, d))
    BY <2>1
  <2> HIDE DEF d
  <2>5. Keeps(Machine(a), i, d)
    BY <2>3, AlikeKeeps
  <2>6. QED
    BY <1>1, <2>3, <2>4, <2>5, PutPriorityInv DEF Alike
<1>3. CASE cmd = "nonspecific_eoi"
  <2> DEFINE d == NonspecificEoi(c)
  <2>1. Become(PicService(Put(Machine(a), i, d), i))
    BY <1>1, <1>3 DEF WriteOcw2
  <2>2. d \in PIC
    BY <1>1, NonspecificEoiType
  <2>3. Alike(c, d) /\ d.InterruptRequest = c.InterruptRequest
    BY <1>1, <2>2 DEF NonspecificEoi, PIC, Alike, Released
  <2> HIDE DEF d
  <2>4. Keeps(Machine(a), i, d)
    BY <2>3, AlikeKeeps
  <2>5. QED
    BY <1>1, <2>1, <2>2, <2>4, PutPriorityInv
<1>4. QED
  BY <1>2, <1>3

\* The interrupt-window exit keeps the invariant.
LEMMA WindowOpenPriority ==
    ASSUME Inv, CascadeInv, PriorityInv, NEW a \in GvmAccepts, WindowOpen(a)
    PROVE  PriorityInv'
<1> DEFINE m == CloseWindow(Machine(a))
<1>1. a \in SUBSET Irq
  BY PicAssumption
<1>2. /\ Machine(a) \in MachineType
      /\ Machine(a).pic = pic /\ Machine(a).events = events
      /\ Steady(Machine(a)) /\ Orderly(Machine(a))
  BY <1>1, MachineSteady, MachineOrderly
<1>3. m \in MachineType /\ m.pic = pic /\ m.events = events
  BY <1>2, CloseWindowType
<1>4. Become(IF "INTR" \in events THEN PicIAC(m) ELSE m)
  BY DEF WindowOpen
<1> HIDE DEF m
<1>5. Steady(m) /\ Orderly(m)
  BY <1>2, <1>3 DEF Steady, Orderly, Backed, Calls
<1>6. QED
  BY <1>3, <1>4, <1>5, PicIACOrderly, ReestablishPriorityInv

\* At power on no level is taken, and both chips are closed.
LEMMA InitPriority ==
    ASSUME Init
    PROVE  PriorityInv
<1>1. /\ pic[0] = PicReset(8) /\ pic[1] = PicReset(112)
      /\ events = {}
  BY DEF Init, PicInitialize, Chips
<1>2. \A i \in Chips : Released(pic[i]) /\ Dormant(pic[i])
  BY <1>1 DEF PicReset, Released, Dormant, Chips
<1>3. "SPECIAL_MASK" \notin pic[0].Mode /\ "SPECIAL_MASK" \notin pic[1].Mode
  BY <1>1 DEF PicReset
<1>4. /\ pic[0].State = 0 /\ pic[1].State = 0 /\ pic[0].InterruptRequest = {}
      /\ Machine({}).pic = pic /\ Machine({}).events = events
  BY <1>1 DEF PicReset, Machine
<1>5. ~Calls(Machine({}), pic[0])
  BY <1>1, <1>4 DEF Calls
<1>6. QED
  BY <1>2, <1>3, <1>4, <1>5 DEF PriorityInv, Orderly, Backed

\* Every operation of such a guest keeps the invariant.
LEMMA NextPriority ==
    ASSUME "special_mask" \notin Ocw3Commands,
           \A value \in Icw3Values : CascadeLine \in value,
           Ocw2Commands \subseteq {"nonspecific_eoi", "normal_mode", "auto_mode"},
           \A v, w \in SlaveOffsets : v = w,
           Inv, CascadeInv, PriorityInv, [Next]_vars
    PROVE  PriorityInv'
<1>1. CASE UNCHANGED vars
  <2>1. Become(Machine({}))
    BY <1>1 DEF vars, Become, Machine
  <2>2. QED
    BY <2>1, ReestablishPriorityInv DEF PriorityInv
<1>2. ASSUME NEW l \in Lines, NEW a \in GvmAccepts, DeviceRaise(l, a)
      PROVE  PriorityInv'
  BY <1>2, DeviceRaisePriority
<1>3. ASSUME NEW l \in Lines, DeviceLower(l)
      PROVE  PriorityInv'
  BY <1>3, DeviceLowerPriority
<1>4. ASSUME NEW i \in Chips, NEW level \in LevelLines, GuestElcr(i, level)
      PROVE  PriorityInv'
  BY <1>4, GuestElcrPriority
<1>5. ASSUME NEW i \in Chips, NEW icw4 \in Icw1Values, GuestIcw1(i, icw4)
      PROVE  PriorityInv'
  BY <1>5, GuestIcw1Priority
<1>6. ASSUME NEW i \in Chips, NEW cmd \in Ocw3Commands, NEW a \in GvmAccepts,
             GuestOcw3(i, cmd, a)
      PROVE  PriorityInv'
  BY <1>6, GuestOcw3Priority
<1>7. ASSUME NEW i \in Chips, NEW cmd \in Ocw2Commands, NEW irq \in OcwIrqs(i),
             NEW a \in GvmAccepts, GuestOcw2(i, cmd, irq, a)
      PROVE  PriorityInv'
  BY <1>7, GuestOcw2Priority
<1>8. ASSUME NEW i \in Chips, NEW offset \in Offsets(i), GuestIcw2(i, offset)
      PROVE  PriorityInv'
  BY <1>8, GuestIcw2Priority
<1>9. ASSUME NEW i \in Chips, NEW value \in Icw3(i), GuestIcw3(i, value)
      PROVE  PriorityInv'
  <2>1. i = 0 => CascadeLine \in value
    BY DEF Icw3
  <2>2. QED
    BY <1>9, <2>1, GuestIcw3Priority
<1>10. ASSUME NEW i \in Chips, NEW bits \in Icw4Values, GuestIcw4(i, bits)
       PROVE  PriorityInv'
  BY <1>10, GuestIcw4Priority
<1>11. ASSUME NEW i \in Chips, NEW mask \in Masks, NEW a \in GvmAccepts,
              GuestImr(i, mask, a)
       PROVE  PriorityInv'
  BY <1>11, GuestImrPriority
<1>12. ASSUME NEW a \in GvmAccepts, WindowOpen(a)
       PROVE  PriorityInv'
  BY <1>12, WindowOpenPriority
<1>13. QED
  BY <1>1, <1>2, <1>3, <1>4, <1>5, <1>6, <1>7, <1>8, <1>9, <1>10, <1>11, <1>12
     DEF Next

\* For guests that cascade the chips, keep out of the special mask mode, give
\* the slave one vector base and end interrupts with the non-specific EOI, a
\* level that shuts lower lines out belongs to a line in service (pic.c:174-175,
\* 323).
THEOREM PriorityIsReleased ==
    ASSUME "special_mask" \notin Ocw3Commands,
           \A value \in Icw3Values : CascadeLine \in value,
           Ocw2Commands \subseteq {"nonspecific_eoi", "normal_mode", "auto_mode"},
           \A v, w \in SlaveOffsets : v = w
    PROVE  Spec => []PriorityReleased
<1>1. Init => PriorityInv
  BY InitPriority
<1>2. Inv /\ CascadeInv /\ PriorityInv /\ [Next]_vars => PriorityInv'
  BY NextPriority
<1>3. Spec => []CascadeInv
  BY SpecCascade
<1>4. PriorityInv => PriorityReleased
  BY DEF PriorityInv, Orderly, Released, Machine, PriorityReleased
<1>5. QED
  BY <1>1, <1>2, <1>3, <1>4, SpecInv, PTL DEF Spec
-----------------------------------------------------------------------------
(***************************************************************************)
(* The 8259 pair beside the APICs (IntrSystem).                            *)
(*                                                                         *)
(* The handlers of pic.c do the same to a machine record whatever else is  *)
(* in it (Full), and those of the APICs leave the chips alone, keep the    *)
(* master's event and never close the window (Beside).                     *)
(***************************************************************************)

\* The machine with the APICs at l and io.
Full(c, l, io) ==
    [pic |-> c.pic, lapic |-> l, ioapic |-> io, events |-> c.events,
     window |-> c.window, accepts |-> c.accepts]

\* What the APICs see of it.
Bare(c, l, io) ==
    [lapic |-> l, ioapic |-> io, events |-> c.events, window |-> c.window]

\* Replacing a chip, recording the event, and asking for or closing the window
\* go past the APICs.
LEMMA PutFull ==
    ASSUME NEW c \in MachineType, NEW l, NEW io, NEW i, NEW d
    PROVE  Put(Full(c, l, io), i, d) = Full(Put(c, i, d), l, io)
BY DEF Put, Full, MachineType

LEMMA SignalFull ==
    ASSUME NEW c \in MachineType, NEW l, NEW io
    PROVE  /\ Signal(Full(c, l, io)) = Full(Signal(c), l, io)
           /\ RequestWindow(Full(c, l, io)) = Full(RequestWindow(c), l, io)
           /\ CloseWindow(Full(c, l, io)) = Full(CloseWindow(c), l, io)
<1>1. Signal(Full(c, l, io)) = Full(Signal(c), l, io)
  BY DEF Signal, Full, MachineType
<1>2. \A w : [Full(c, l, io) EXCEPT !.window = w]
                 = Full([c EXCEPT !.window = w], l, io)
  BY DEF Full, MachineType
<1>3. QED
  BY <1>1, <1>2, Zenon DEF RequestWindow, CloseWindow

\* The chips of the machine are those the APICs stand beside.
LEMMA FullFields ==
    ASSUME NEW c, NEW l, NEW io
    PROVE  /\ Full(c, l, io).pic = c.pic
           /\ Full(c, l, io).events = c.events
           /\ Full(c, l, io).window = c.window
           /\ Full(c, l, io).accepts = c.accepts
           /\ Full(c, l, io).lapic = l
           /\ Full(c, l, io).ioapic = io
BY DEF Full

\* The special-mask branch of PicService goes past the APICs.
LEMMA InjectMaskedFull ==
    ASSUME NEW c \in MachineType, NEW i \in Chips, NEW l, NEW io
    PROVE  InjectMasked(Full(c, l, io), i) = Full(InjectMasked(c, i), l, io)
<1> DEFINE d == c.pic[i]
           tried == Tried(d, c.accepts)
           next == Chosen(d, Highest(tried))
<1>1. /\ Full(c, l, io).pic[i] = d
      /\ Full(c, l, io).accepts = c.accepts
  BY FullFields
<1>2. CASE tried = {}
  BY <1>1, <1>2 DEF InjectMasked
<1>3. CASE tried # {}
  <2>1. d \in PIC
    BY DEF MachineType
  <2>2. next \in PIC
    BY <1>3, <2>1, HighestIn, DeliverableType, ChosenServiced DEF Tried, Serviced
  <2>3. Put(c, i, next) \in MachineType
    BY <2>2, PutStep
  <2>4. Put(Full(c, l, io), i, next) = Full(Put(c, i, next), l, io)
    BY PutFull
  <2>5. Signal(Put(Full(c, l, io), i, next)) = Full(Signal(Put(c, i, next)), l, io)
    BY <2>3, <2>4, SignalFull
  <2>6. QED
    BY <1>1, <1>3, <2>4, <2>5 DEF InjectMasked
<1>4. QED
  BY <1>2, <1>3

\* So does the fully nested branch for the master.
LEMMA AskMasterFull ==
    ASSUME NEW c \in MachineType, Deliverable(c.pic[0]) # {}, NEW l, NEW io
    PROVE  AskMaster(Full(c, l, io)) = Full(AskMaster(c), l, io)
<1> DEFINE d == c.pic[0]
           next == IF d.Cascade \/ CascadeLine \in d.InterruptPin
                   THEN d ELSE Latched(d, CascadeLine)
           e == Chosen(next, Lowest(Deliverable(next)))
<1>0. 0 \in Chips
  BY DEF Chips
<1>1. Full(c, l, io).pic = c.pic
  BY FullFields
<1>2. d \in PIC
  BY <1>0 DEF MachineType
<1>3. e \in PIC
  <2>1. Serviced(d, next)
    BY <1>2, LatchedServiced, ServicedRefl
  <2> HIDE DEF next
  <2>2. next \in PIC /\ Deliverable(next) # {}
    BY <1>2, <2>1, ServicedDeliverable DEF Serviced
  <2>3. QED
    BY <2>2, LowestIn, DeliverableType, ChosenServiced DEF Serviced
<1>4. Put(c, 0, e) \in MachineType
  BY <1>0, <1>3, PutStep
<1>5. Signal(Put(c, 0, e)) \in MachineType
  BY <1>4, SignalType
<1>6. Put(Full(c, l, io), 0, e) = Full(Put(c, 0, e), l, io)
  BY PutFull
<1>7. RequestWindow(Signal(Put(Full(c, l, io), 0, e)))
          = Full(RequestWindow(Signal(Put(c, 0, e))), l, io)
  BY <1>4, <1>5, <1>6, SignalFull
<1>8. QED
  BY <1>1, <1>6, <1>7 DEF AskMaster

\* PicService(&Pic[0]) goes past the APICs.
LEMMA ServiceMasterFull ==
    ASSUME NEW c \in MachineType, NEW l, NEW io
    PROVE  ServiceMaster(Full(c, l, io)) = Full(ServiceMaster(c), l, io)
<1>1. Full(c, l, io).pic = c.pic /\ 0 \in Chips
  BY FullFields DEF Chips
<1>2. InjectMasked(Full(c, l, io), 0) = Full(InjectMasked(c, 0), l, io)
  BY <1>1, InjectMaskedFull
<1>3. Deliverable(c.pic[0]) # {}
          => AskMaster(Full(c, l, io)) = Full(AskMaster(c), l, io)
  BY AskMasterFull
<1>4. QED
  BY <1>1, <1>2, <1>3 DEF ServiceMaster

\* PicService(&Pic[1]), with its raise of line 2, goes past the APICs.
LEMMA ServiceSlaveFull ==
    ASSUME NEW c \in MachineType, NEW l, NEW io
    PROVE  ServiceSlave(Full(c, l, io)) = Full(ServiceSlave(c), l, io)
<1>0. 0 \in Chips /\ 1 \in Chips
  BY DEF Chips
<1>1. \A d : Full(d, l, io).pic = d.pic
  BY FullFields
<1>2. InjectMasked(Full(c, l, io), 1) = Full(InjectMasked(c, 1), l, io)
  BY <1>0, InjectMaskedFull
<1>3. ASSUME NEW d \in MachineType
      PROVE  RaiseCascade(Full(d, l, io)) = Full(RaiseCascade(d), l, io)
  <2> DEFINE e == Latched(d.pic[0], CascadeLine)
  <2>1. e \in PIC
    BY <1>0, LatchedServiced DEF MachineType, Serviced
  <2>2. Put(d, 0, e) \in MachineType
    BY <1>0, <2>1, PutStep
  <2>3. Put(Full(d, l, io), 0, e) = Full(Put(d, 0, e), l, io)
    BY PutFull
  <2>4. ServiceMaster(Full(Put(d, 0, e), l, io))
            = Full(ServiceMaster(Put(d, 0, e)), l, io)
    BY <2>2, ServiceMasterFull
  <2>5. QED
    BY <1>1, <2>3, <2>4 DEF RaiseCascade
<1>4. ASSUME Deliverable(c.pic[1]) # {}
      PROVE  AskSlave(Full(c, l, io)) = Full(AskSlave(c), l, io)
  <2> DEFINE e == Chosen(c.pic[1], Lowest(Deliverable(c.pic[1])))
  <2>1. c.pic[1] \in PIC
    BY <1>0 DEF MachineType
  <2>2. e \in PIC
    BY <1>4, <2>1, LowestIn, DeliverableType, ChosenServiced DEF Serviced
  <2>3. Put(c, 1, e) \in MachineType
    BY <1>0, <2>2, PutStep
  <2>4. Put(Full(c, l, io), 1, e) = Full(Put(c, 1, e), l, io)
    BY PutFull
  <2>5. QED
    BY <1>1, <1>3, <2>3, <2>4 DEF AskSlave
<1>5. QED
  BY <1>1, <1>2, <1>4 DEF ServiceSlave

\* The pins devices drive go past the APICs.
LEMMA PicRaiseIrqFull ==
    ASSUME NEW c \in MachineType, NEW n \in Lines, NEW l, NEW io
    PROVE  PicRaiseIrq(Full(c, l, io), n) = Full(PicRaiseIrq(c, n), l, io)
<1> DEFINE i == n \div 8
           irq == n % 8
           d == Latched(c.pic[i], irq)
<1>1. i \in Chips /\ irq \in Irq
  BY LineIsIrq
<1>2. c.pic[i] \in PIC
  BY <1>1 DEF MachineType
<1>3. d \in PIC
  BY <1>1, <1>2, LatchedType
<1>4. Put(c, i, d) \in MachineType
  BY <1>1, <1>3, PutStep
<1>5. Put(Full(c, l, io), i, d) = Full(Put(c, i, d), l, io)
  BY PutFull
<1>6. PicService(Full(Put(c, i, d), l, io), i)
          = Full(PicService(Put(c, i, d), i), l, io)
  BY <1>4, ServiceMasterFull, ServiceSlaveFull DEF PicService
<1>7. Full(c, l, io).pic = c.pic
  BY FullFields
<1>8. QED
  BY <1>5, <1>6, <1>7 DEF PicRaiseIrq

LEMMA PicLowerIrqFull ==
    ASSUME NEW c \in MachineType, NEW n, NEW l, NEW io
    PROVE  PicLowerIrq(Full(c, l, io), n) = Full(PicLowerIrq(c, n), l, io)
BY FullFields, PutFull DEF PicLowerIrq

\* So does the acknowledge of the window exit.
LEMMA PicIACFull ==
    ASSUME NEW c \in MachineType, NEW l, NEW io
    PROVE  PicIAC(Full(c, l, io)) = Full(PicIAC(c), l, io)
<1> DEFINE n == [c EXCEPT !.events = @ \ {"INTR"}]
           c0 == Consumed(c.pic[0])
           d0 == [c0 EXCEPT !.InterruptPin = @ \ {CascadeLine}]
           d1 == Entered(Consumed(c.pic[1]))
           e == Entered(Consumed(c.pic[0]))
           k == Put(Put(n, 0, d0), 1, d1)
<1>0. /\ 0 \in Chips /\ 1 \in Chips
      /\ Full(c, l, io).pic = c.pic
  BY FullFields DEF Chips
<1>1. /\ n \in MachineType /\ n.pic = c.pic
      /\ [Full(c, l, io) EXCEPT !.events = @ \ {"INTR"}] = Full(n, l, io)
      /\ Full(n, l, io).pic = c.pic
  BY DEF MachineType, Full
<1>2. c0 \in PIC /\ d1 \in PIC /\ e \in PIC
  BY <1>0, ConsumedType, EnteredType DEF MachineType
<1> HIDE DEF n
<1>3. d0 \in PIC
  <2> HIDE DEF c0
  <2> QED BY <1>2 DEF PIC
<1>4. /\ AckMaster(Full(n, l, io)) = Full(AckMaster(n), l, io)
      /\ AckMaster(n) \in MachineType
  <2>1. Put(n, 0, e) \in MachineType
    BY <1>0, <1>1, <1>2, PutStep
  <2>2. Put(Full(n, l, io), 0, e) = Full(Put(n, 0, e), l, io)
    BY <1>1, PutFull
  <2>3. QED
    BY <1>1, <2>1, <2>2 DEF AckMaster
<1>5. /\ AckSlave(Full(n, l, io)) = Full(AckSlave(n), l, io)
      /\ AckSlave(n) \in MachineType
  <2>1. Put(n, 0, d0) \in MachineType
    BY <1>0, <1>1, <1>3, PutStep
  <2>2. k \in MachineType
    BY <1>0, <1>2, <2>1, PutStep
  <2>3. Put(Put(Full(n, l, io), 0, d0), 1, d1) = Full(k, l, io)
    BY <1>1, <2>1, PutFull
  <2>4. ServiceSlave(Full(k, l, io)) = Full(ServiceSlave(k), l, io)
    BY <2>2, ServiceSlaveFull
  <2>5. ServiceSlave(k) \in MachineType
    BY <2>2, ServiceSlaveGrown DEF Grown
  <2>6. QED
    BY <1>1, <2>3, <2>4, <2>5 DEF AckSlave
<1>6. QED
  BY <1>0, <1>1, <1>4, <1>5, ServiceMasterFull DEF PicIAC, n

-----------------------------------------------------------------------------
\* d is machine c with other events and another window, but the same for the
\* 8259 pair, which the APICs have nothing to take from.
Unharmed(c, d) ==
    /\ d \in MachineType
    /\ d.pic = c.pic
    /\ d.accepts = c.accepts
    /\ "INTR" \in d.events <=> "INTR" \in c.events
    /\ c.window => d.window

\* m is machine c after some work of the APICs, with the chips in it or without.
Shape(full, d, l, io) == IF full THEN Full(d, l, io) ELSE Bare(d, l, io)
Beside(full, c, m) == \E d, l, io : Unharmed(c, d) /\ m = Shape(full, d, l, io)

\* New registers of either APIC, recording a request and taking it back leave
\* the 8259 pair alone.
LEMMA PutBeside ==
    ASSUME NEW full \in BOOLEAN, NEW c, NEW m, Beside(full, c, m), NEW r
    PROVE  /\ Beside(full, c, A!PutLapic(m, r))
           /\ Beside(full, c, A!PutIoApic(m, r))
<1>1. PICK d, l, io : Unharmed(c, d) /\ m = Shape(full, d, l, io)
  BY DEF Beside
<1>2. A!PutLapic(m, r) = Shape(full, d, r, io)
  BY <1>1 DEF A!PutLapic, Shape, Full, Bare
<1>3. A!PutIoApic(m, r) = Shape(full, d, l, r)
  BY <1>1 DEF A!PutIoApic, Shape, Full, Bare
<1>4. QED
  BY <1>1, <1>2, <1>3 DEF Beside

LEMMA EventBeside ==
    ASSUME NEW full \in BOOLEAN, NEW c, NEW m, Beside(full, c, m)
    PROVE  /\ Beside(full, c, A!RequestLapic(m))
           /\ Beside(full, c, A!ClearLapicEvent(m))
<1>1. PICK d, l, io : Unharmed(c, d) /\ m = Shape(full, d, l, io)
  BY DEF Beside
<1> DEFINE more == [d EXCEPT !.window = TRUE, !.events = @ \cup {"LAPIC"}]
           less == [d EXCEPT !.events = @ \ {"LAPIC"}]
<1>2. d \in MachineType
  BY <1>1 DEF Unharmed
<1>3. \A e : \A x \in MachineType : [Shape(full, x, l, io) EXCEPT !.events = e]
                = Shape(full, [x EXCEPT !.events = e], l, io)
  BY DEF Shape, Full, Bare, MachineType
<1>4. \A w : [Shape(full, d, l, io) EXCEPT !.window = w]
                = Shape(full, [d EXCEPT !.window = w], l, io)
  BY <1>2 DEF Shape, Full, Bare, MachineType
<1>5. m.events = d.events
  BY <1>1 DEF Shape, Full, Bare
<1>6. A!RequestLapic(m) = Shape(full, more, l, io)
  <2> DEFINE open == [d EXCEPT !.window = TRUE]
  <2>1. open \in MachineType /\ open.events = d.events
    BY <1>2 DEF MachineType
  <2>2. [m EXCEPT !.window = TRUE] = Shape(full, open, l, io)
    BY <1>1, <1>4, Zenon
  <2>3. A!RequestLapic(m)
            = [[m EXCEPT !.window = TRUE] EXCEPT !.events = m.events \cup {"LAPIC"}]
    <3>1. \A x : [x EXCEPT !.window = TRUE].events = x.events
      OBVIOUS
    <3> QED BY <3>1 DEF A!RequestLapic
  <2>4. more = [open EXCEPT !.events = d.events \cup {"LAPIC"}]
    BY <1>2 DEF MachineType
  <2> HIDE DEF open
  <2> QED BY <1>3, <1>5, <2>1, <2>2, <2>3, <2>4, ZenonT(60)
<1>7. A!ClearLapicEvent(m) = Shape(full, less, l, io)
  BY <1>1, <1>2, <1>3, <1>5, Zenon DEF A!ClearLapicEvent
<1>8. Unharmed(c, more)
  BY <1>1 DEF Unharmed, MachineType
<1>9. Unharmed(c, less)
  BY <1>1 DEF Unharmed, MachineType
<1> HIDE DEF more, less
<1>10. QED
  BY <1>6, <1>7, <1>8, <1>9 DEF Beside

\* ApicService only ever adds its own event and asks for the window
\* (apic.c:104-108).
LEMMA ApicServiceBeside ==
    ASSUME NEW full \in BOOLEAN, NEW c, NEW m, Beside(full, c, m)
    PROVE  Beside(full, c, A!ApicService(m))
BY EventBeside DEF A!ApicService

\* A vector that arrives leaves the 8259 pair alone.
LEMMA ApicSetIrqBeside ==
    ASSUME NEW full \in BOOLEAN, NEW c, NEW m, Beside(full, c, m), NEW v,
           NEW level
    PROVE  Beside(full, c, A!ApicSetIrq(m, v, level))
<1>1. \A l : /\ Beside(full, c, A!PutLapic(m, l))
            /\ Beside(full, c, A!ApicService(A!PutLapic(m, l)))
  BY PutBeside, ApicServiceBeside
<1>2. QED
  BY <1>1 DEF A!ApicSetIrq

\* Neither does the acknowledge of the local APIC, the end of its interrupt or
\* an inter-processor interrupt disturb it.
LEMMA AcknowledgeBeside ==
    ASSUME NEW full \in BOOLEAN, NEW c, NEW m, Beside(full, c, m)
    PROVE  Beside(full, c, A!ApicAcknowledgeInterrupt(m))
BY PutBeside, EventBeside, ApicServiceBeside DEF A!ApicAcknowledgeInterrupt

LEMMA EoiBeside ==
    ASSUME NEW full \in BOOLEAN, NEW c, NEW m, Beside(full, c, m)
    PROVE  Beside(full, c, A!ApicReceiveEOI(m))
<1> DEFINE v == A!HighestVector(m.lapic.InterruptServiceRegister)
           n == IF v \in m.lapic.TriggerModeRegister
                THEN A!IoApicReceiveEndOfInterrupt(m, v) ELSE m
<1>1. Beside(full, c, n)
  BY PutBeside DEF A!IoApicReceiveEndOfInterrupt
<1> HIDE DEF n
<1>2. Beside(full, c, A!ApicService(A!PutLapic(n, A!Ended(m.lapic, v))))
  BY <1>1, PutBeside, ApicServiceBeside
<1>3. QED
  BY <1>2 DEF A!ApicReceiveEOI, n

LEMMA SendIpiBeside ==
    ASSUME NEW full \in BOOLEAN, NEW c, NEW m, Beside(full, c, m), NEW v,
           NEW logical, NEW mode, NEW level, NEW shorthand
    PROVE  Beside(full, c, A!ApicSendIpi(m, v, logical, mode, level, shorthand))
BY PutBeside, ApicSetIrqBeside DEF A!ApicSendIpi

\* Nor a write to the task priority.
LEMMA TprBeside ==
    ASSUME NEW full \in BOOLEAN, NEW c, NEW m, Beside(full, c, m), NEW tpr
    PROVE  Beside(full, c, A!WriteTpr(m, tpr))
BY PutBeside, ApicServiceBeside DEF A!WriteTpr

\* Messages of the I/O APIC, and with them the lines devices drive and the
\* writes to its registers, leave the 8259 pair alone.
LEMMA IoApicServiceBeside ==
    ASSUME NEW full \in BOOLEAN, NEW c, NEW m, Beside(full, c, m)
    PROVE  Beside(full, c, A!IoApicService(m))
<1> DEFINE n == A!PutIoApic(A!PutLapic(m, A!Arrived(m.lapic, m.ioapic)),
                            A!Sent(m.lapic, m.ioapic))
<1>1. Beside(full, c, n)
  BY PutBeside
<1> HIDE DEF n
<1>2. Beside(full, c, A!ApicService(n))
  BY <1>1, ApicServiceBeside
<1>3. QED
  BY <1>1, <1>2 DEF A!IoApicService, n

LEMMA LinesBeside ==
    ASSUME NEW full \in BOOLEAN, NEW c, NEW m, Beside(full, c, m), NEW line
    PROVE  /\ Beside(full, c, A!IoApicRaiseIrq(m, line))
           /\ Beside(full, c, A!IoApicLowerIrq(m, line))
BY PutBeside, IoApicServiceBeside DEF A!IoApicRaiseIrq, A!IoApicLowerIrq

LEMMA IoWritesBeside ==
    ASSUME NEW full \in BOOLEAN, NEW c, NEW m, Beside(full, c, m), NEW sel,
           NEW low, NEW high
    PROVE  /\ Beside(full, c, A!WriteSelect(m, sel))
           /\ Beside(full, c, A!WriteData(m, low, high))
<1>1. Beside(full, c, A!WriteSelect(m, sel))
  BY PutBeside DEF A!WriteSelect
<1>2. Beside(full, c, A!WriteData(m, low, high))
  <2>1. \A io : Beside(full, c, A!IoApicService(A!PutIoApic(m, io)))
    BY PutBeside, IoApicServiceBeside
  <2>2. QED
    BY <2>1 DEF A!WriteData
<1>3. QED
  BY <1>1, <1>2

\* The machine as every handler sees it.
LEMMA SharedBeside ==
    ASSUME TypeOK, NEW a \in SUBSET Irq
    PROVE  /\ Machine(a) \in MachineType
           /\ Shared(a) = Full(Machine(a), lapic, ioapic)
           /\ A!Machine = Bare(Machine(a), lapic, ioapic)
           /\ Beside(TRUE, Machine(a), Shared(a))
           /\ Beside(FALSE, Machine(a), A!Machine)
<1>1. Machine(a) \in MachineType
  BY MachineIsTyped
<1>2. /\ Shared(a) = Full(Machine(a), lapic, ioapic)
      /\ A!Machine = Bare(Machine(a), lapic, ioapic)
  BY DEF Machine, Shared, A!Machine, Full, Bare
<1>3. Unharmed(Machine(a), Machine(a))
  BY <1>1 DEF Unharmed
<1>4. QED
  BY <1>1, <1>2, <1>3 DEF Beside, Shape

\* A settled master that has something to deliver keeps its announcement
\* through whatever the APICs do.
LEMMA UnharmedAsked ==
    ASSUME Inv, NEW a \in SUBSET Irq, NEW d, Unharmed(Machine(a), d)
    PROVE  /\ d \in MachineType
           /\ d.pic = pic
           /\ settled[0] => Asked(d)
<1>1. /\ Machine(a).pic = pic
      /\ settled[0] => Asked(Machine(a))
  BY MachineIsTyped DEF Inv
<1>2. QED
  BY <1>1 DEF Unharmed, Asked

\* A line that reaches both controllers preserves the invariant.
LEMMA LineRaiseInv ==
    ASSUME Inv, NEW n \in Lines, NEW a \in GvmAccepts, LineRaise(n, a)
    PROVE  Inv'
<1> DEFINE m == A!IoApicRaiseIrq(Shared(a), n)
<1>1. a \in SUBSET Irq
  BY PicAssumption
<1>2. Beside(TRUE, Machine(a), m)
  BY <1>1, SharedBeside, LinesBeside DEF Inv
<1>3. PICK d, l, io : Unharmed(Machine(a), d) /\ m = Full(d, l, io)
  BY <1>2 DEF Beside, Shape
<1>4. d \in MachineType /\ d.pic = pic /\ (settled[0] => Asked(d))
  BY <1>1, <1>3, UnharmedAsked
<1>5. /\ Become(PicRaiseIrq(m, n))
      /\ wire' = [wire EXCEPT ![n] = TRUE]
      /\ UNCHANGED settled
  BY DEF LineRaise, BecomeShared, SharedRaiseIrq
<1> HIDE DEF m
<1>6. PicRaiseIrq(m, n) = Full(PicRaiseIrq(d, n), l, io)
  BY <1>3, <1>4, PicRaiseIrqFull
<1>7. Become(PicRaiseIrq(d, n))
  BY <1>5, <1>6, FullFields DEF Become
<1>8. QED
  BY <1>4, <1>5, <1>7, RaiseFrom

LEMMA LineLowerInv ==
    ASSUME Inv, NEW n \in Lines, LineLower(n)
    PROVE  Inv'
<1> DEFINE m == A!IoApicLowerIrq(Shared({}), n)
<1>1. Beside(TRUE, Machine({}), m)
  BY SharedBeside, LinesBeside DEF Inv
<1>2. PICK d, l, io : Unharmed(Machine({}), d) /\ m = Full(d, l, io)
  BY <1>1 DEF Beside, Shape
<1>3. d \in MachineType /\ d.pic = pic /\ (settled[0] => Asked(d))
  BY <1>2, UnharmedAsked
<1>4. /\ Become(PicLowerIrq(m, n))
      /\ wire' = [wire EXCEPT ![n] = FALSE]
      /\ UNCHANGED settled
  BY DEF LineLower, BecomeShared, SharedLowerIrq
<1> HIDE DEF m
<1>5. PicLowerIrq(m, n) = Full(PicLowerIrq(d, n), l, io)
  BY <1>2, <1>3, PicLowerIrqFull
<1>6. Become(PicLowerIrq(d, n))
  BY <1>4, <1>5, FullFields DEF Become
<1>7. QED
  BY <1>3, <1>4, <1>6, LowerFrom

\* So does every access to the 8259 pair, whose handlers know no APIC.
LEMMA GuestPicInv ==
    ASSUME Inv, GuestPic
    PROVE  Inv'
<1>1. ASSUME NEW i \in Chips, NEW icw4 \in Icw1Values, GuestIcw1(i, icw4)
      PROVE  Inv'
  BY <1>1, GuestIcw1Inv
<1>2. ASSUME NEW i \in Chips, NEW offset \in Offsets(i), GuestIcw2(i, offset)
      PROVE  Inv'
  <2>1. offset \in Byte
    BY PicAssumption DEF Offsets
  <2>2. QED
    BY <1>2, <2>1, GuestIcw2Inv
<1>3. ASSUME NEW i \in Chips, NEW value \in Icw3(i), GuestIcw3(i, value)
      PROVE  Inv'
  BY <1>3, GuestIcw3Inv
<1>4. ASSUME NEW i \in Chips, NEW bits \in Icw4Values, GuestIcw4(i, bits)
      PROVE  Inv'
  BY <1>4, GuestIcw4Inv
<1>5. ASSUME NEW i \in Chips, NEW mask \in Masks, NEW a \in GvmAccepts,
             GuestImr(i, mask, a)
      PROVE  Inv'
  BY <1>5, GuestImrInv
<1>6. ASSUME NEW i \in Chips, NEW cmd \in Ocw2Commands, NEW irq \in OcwIrqs(i),
             NEW a \in GvmAccepts, GuestOcw2(i, cmd, irq, a)
      PROVE  Inv'
  <2>1. irq \in Irq
    BY LineIsIrq DEF OcwIrqs, Irq
  <2>2. QED
    BY <1>6, <2>1, GuestOcw2Inv
<1>7. QED
  BY <1>1, <1>2, <1>3, <1>4, <1>5, <1>6 DEF GuestPic

\* And every access to the APICs, which only add an event and ask for the
\* window.
LEMMA GuestApicInv ==
    ASSUME Inv, GuestApic
    PROVE  Inv'
<1>1. Beside(FALSE, Machine({}), A!Machine)
  BY SharedBeside DEF Inv
<1>2. PICK m : Beside(FALSE, Machine({}), m) /\ A!Become(m)
  <2>1. ASSUME NEW sel \in Selects, A!GuestSelect(sel)
        PROVE  \E m : Beside(FALSE, Machine({}), m) /\ A!Become(m)
    BY <1>1, <2>1, IoWritesBeside DEF A!GuestSelect
  <2>2. ASSUME NEW low \in RteLows, NEW high \in RteHighs, A!GuestData(low, high)
        PROVE  \E m : Beside(FALSE, Machine({}), m) /\ A!Become(m)
    BY <1>1, <2>2, IoWritesBeside DEF A!GuestData
  <2>3. ASSUME NEW tpr \in TaskPriorities, A!GuestTpr(tpr)
        PROVE  \E m : Beside(FALSE, Machine({}), m) /\ A!Become(m)
    BY <1>1, <2>3, TprBeside DEF A!GuestTpr
  <2>4. ASSUME NEW i \in Ipis, A!GuestIcrLow(i)
        PROVE  \E m : Beside(FALSE, Machine({}), m) /\ A!Become(m)
    BY <1>1, <2>4, SendIpiBeside DEF A!GuestIcrLow
  <2>5. CASE A!GuestEoi
    BY <1>1, <2>5, EoiBeside DEF A!GuestEoi
  <2>6. QED
    BY <2>1, <2>2, <2>3, <2>4, <2>5 DEF GuestApic
<1>3. PICK d, l, io : Unharmed(Machine({}), d) /\ m = Bare(d, l, io)
  BY <1>2 DEF Beside, Shape
<1>4. d \in MachineType /\ d.pic = pic /\ (settled[0] => Asked(d))
  BY <1>3, UnharmedAsked
<1>5. UNCHANGED <<pic, wire, settled>>
  BY DEF GuestApic
<1>6. Become(d)
  BY <1>2, <1>3, <1>4, <1>5 DEF A!Become, Bare, Become
<1>7. QED
  BY <1>4, <1>5, <1>6, StillInv

\* The window exit serves the 8259 pair as it does alone, and the local APIC
\* only when the pair has nothing pending.
LEMMA SharedWindowInv ==
    ASSUME Inv, NEW a \in GvmAccepts, SharedWindow(a)
    PROVE  Inv'
<1> DEFINE c == CloseWindow(Machine(a))
           m == CloseWindow(Shared(a))
<1>1. a \in SUBSET Irq
  BY PicAssumption
<1>2. /\ Machine(a) \in MachineType
      /\ Machine(a).pic = pic
      /\ Machine(a).events = events
      /\ Shared(a) = Full(Machine(a), lapic, ioapic)
  BY <1>1, SharedBeside, MachineIsTyped DEF Inv
<1>3. /\ c \in MachineType
      /\ c.pic = pic
      /\ c.events = events
      /\ m = Full(c, lapic, ioapic)
  BY <1>2, CloseWindowType, SignalFull
<1>4. window /\ UNCHANGED <<wire, settled>>
  BY DEF SharedWindow
<1>5. Become(CASE "INTR" \in events -> PicIAC(m)
               [] "INTR" \notin events /\ "LAPIC" \in events ->
                     A!ApicAcknowledgeInterrupt(m)
               [] OTHER -> m)
  BY DEF SharedWindow, BecomeShared
<1>6. CASE "INTR" \in events
  <2>1. Become(PicIAC(m))
    BY <1>5, <1>6
  <2> HIDE DEF m
  <2>2. Become(PicIAC(c))
    <3> HIDE DEF c
    <3>1. PicIAC(m) = Full(PicIAC(c), lapic, ioapic)
      BY <1>3, PicIACFull
    <3>2. QED
      BY <2>1, <3>1, FullFields DEF Become
  <2>3. WindowOpen(a)
    BY <1>4, <1>6, <2>2 DEF WindowOpen
  <2>4. QED
    BY <2>3, WindowOpenInv
<1>7. CASE "INTR" \notin events /\ "LAPIC" \in events
  <2>1. Become(A!ApicAcknowledgeInterrupt(m))
    BY <1>5, <1>7
  <2> HIDE DEF c, m
  <2>2. Beside(TRUE, c, m)
    BY <1>3 DEF Beside, Shape, Unharmed
  <2>3. Beside(TRUE, c, A!ApicAcknowledgeInterrupt(m))
    BY <2>2, AcknowledgeBeside
  <2>4. PICK d, l, io : /\ Unharmed(c, d)
                        /\ A!ApicAcknowledgeInterrupt(m) = Full(d, l, io)
    BY <2>3 DEF Beside, Shape
  <2>5. d \in MachineType /\ d.pic = pic
    BY <1>3, <2>4 DEF Unharmed
  <2>6. Become(d)
    BY <2>1, <2>4, FullFields DEF Become
  <2>7. settled[0] => Asked(d)
    <3>1. 0 \in Chips
      BY DEF Chips
    <3>2. QED
      BY <1>7, <2>5, <3>1, GuestFacts DEF Asked
  <2>8. QED
    BY <1>4, <2>5, <2>6, <2>7, StillInv
<1>8. CASE "INTR" \notin events /\ "LAPIC" \notin events
  <2>1. Become(m)
    BY <1>5, <1>8
  <2> HIDE DEF m
  <2>2. Become(c)
    <3> HIDE DEF c
    <3> QED BY <1>3, <2>1, FullFields DEF Become
  <2>3. WindowOpen(a)
    BY <1>4, <1>8, <2>2 DEF WindowOpen
  <2>4. QED
    BY <2>3, WindowOpenInv
<1>9. QED
  BY <1>6, <1>7, <1>8

\* The invariant of the 8259 pair alone is one of the whole interrupt path.
THEOREM SystemInv == SystemSpec => []Inv
<1>1. SystemInit => Inv
  BY InitInv DEF SystemInit
<1>2. Inv /\ [SystemNext]_systemVars => Inv'
  <2> SUFFICES ASSUME Inv, [SystemNext]_systemVars PROVE Inv'
    OBVIOUS
  <2>1. CASE UNCHANGED systemVars
    BY <2>1 DEF systemVars, Inv, TypeOK, SettledReady, MasterSignalled, Wants,
                MasterPinsFollow, PinFollowsWire
  <2>2. ASSUME NEW n \in Lines, NEW a \in GvmAccepts, LineRaise(n, a)
        PROVE  Inv'
    BY <2>2, LineRaiseInv
  <2>3. ASSUME NEW n \in Lines, LineLower(n)
        PROVE  Inv'
    BY <2>3, LineLowerInv
  <2>4. CASE GuestPic
    BY <2>4, GuestPicInv
  <2>5. CASE GuestApic
    BY <2>5, GuestApicInv
  <2>6. ASSUME NEW a \in GvmAccepts, SharedWindow(a)
        PROVE  Inv'
    BY <2>6, SharedWindowInv
  <2>7. QED
    BY <2>1, <2>2, <2>3, <2>4, <2>5, <2>6 DEF SystemNext
<1>3. QED
  BY <1>1, <1>2, PTL DEF SystemSpec

\* Beside the APICs, too, the 8259 pair loses no wake-up: no line, write or
\* acknowledge of either controller takes the event or the window a serviced
\* master with a deliverable line has asked for (pic.c:144-152, SVMM.c:934-960).
THEOREM PicNeverStarved == SystemSpec => []PicNotStarved
<1>1. Inv => PicNotStarved
  BY DEF Inv, PicNotStarved
<1>2. QED
  BY <1>1, SystemInv, PTL
=============================================================================
