---------------------------- MODULE DisplayProofs ----------------------------
(***************************************************************************)
(* Proofs about the VGA, the window and the way of the input to the guest, *)
(* for any session: any port and memory accesses, keys and buttons.        *)
(*                                                                         *)
(* The first half is about the input.  The inductive invariant says of the *)
(* ring that a slot always stays free, and that the slot the main thread   *)
(* gave back before it read it is the one before the head; of the flags of *)
(* the modifier keys that they are ahead of the events under way.          *)
(*                                                                         *)
(* The second half is about the screen.  Its invariant joins the ranges of *)
(* the registers, the rectangle that is to be painted, the copy of the     *)
(* font and the values derived from the CRT controller's registers.        *)
(***************************************************************************)
EXTENDS Display, TLAPS, Rounds, FiniteSetTheorems

Keys == Modifiers \cup {"NONE"} \cup UNION {s.keys : s \in Sessions}
Held == MouseButtons
EVENT ==
    {Pressed(k) : k \in Keys} \cup {Released(k) : k \in Keys} \cup
    {MOUSE_PRESSED(b) : b \in SUBSET Held} \cup {FOCUS_CHANGED, TOOLBAR_CLICKED}
WIN ==
    [keyevents : [Slots -> EVENT], head : Slots, tail : Slots,
     keyCS : {"free", "ui", "main"}, pressed : SUBSET Modifiers, todo : Seq(EVENT),
     ui : Steps, main : Steps, taken : Slots \cup {Nothing},
     keymodstate : SUBSET {"CTRL", "SHIFT", "ALT", "CAPS"},
     toggle_keystate : SUBSET {"CTRL", "ALT", "F10", "F12", "MBUTTON"},
     mouseCaptureMode : BOOLEAN, mouseModeChange : BOOLEAN,
     mouse_button_state : SUBSET Held, queryFullScreen : BOOLEAN,
     owed : Seq(EVENT), handed : SUBSET Modifiers, guest : SUBSET Modifiers, lost : SUBSET Modifiers, raced : BOOLEAN]

\* The slot i after another, and how far one is behind another.
Slot(h, i) == IF h + i < SCANCODE_BUFSIZE THEN h + i ELSE h + i - SCANCODE_BUFSIZE
Count(w) == IF w.head <= w.tail THEN w.tail - w.head
            ELSE w.tail - w.head + SCANCODE_BUFSIZE
Read(w) == IF w.taken = Nothing THEN 0 ELSE 1

\* Who is where: keyCS belongs to the main thread while it has a slot that it
\* has not read, and a thread that has found room still has it.
Busy(w) == {"store", "advance"} \cap {w.ui, w.main} # {}
Threads(w) ==
    /\ w.ui = "idle" \/ w.main = "idle"
    /\ w.main # "idle" => w.keyCS # "main"
    /\ w.taken # Nothing => w.keyCS = "main" /\ After(w.taken) = w.head
    /\ Busy(w) => ~Full(w)
    /\ w.ui = "advance" => w.keyevents[w.tail] = Head(w.todo)
    /\ w.main = "advance" => w.keyevents[w.tail] = Released("ALT_L")

\* The ring holds what is owed, behind what has been taken.
Order(w) ==
    /\ Len(w.owed) = Read(w) + Count(w)
    /\ w.taken # Nothing => w.owed[1] = w.keyevents[w.taken]
    /\ \A i \in 0..(Count(w) - 1) :
           w.owed[Read(w) + i + 1] = w.keyevents[Slot(w.head, i)]

\* A modifier key without an event on its way into the ring.
Settled(w, k) ==
    /\ \A i \in DOMAIN w.todo : w.todo[i] \notin {Pressed(k), Released(k)}
    /\ w.main # "idle" => k # "ALT_L"
\* The flags are ahead of the events that are on their way into the ring.
Flagged(w) ==
    /\ \A i \in DOMAIN w.todo : \A k \in Modifiers :
           /\ w.todo[i] = Pressed(k) => k \in w.pressed
           /\ w.todo[i] = Released(k) => k \notin w.pressed
    /\ w.main # "idle" => "ALT_L" \notin w.pressed
InStep(w) ==
    \A k \in Modifiers \ w.lost :
        Settled(w, k) => (k \in w.pressed) = DownAfter(k, w.handed, w.owed)

WinInv(w) ==
    /\ w \in WIN
    /\ (w.ui = "idle") = (w.todo = <<>>)
    /\ w.handed \subseteq w.guest
    /\ ~w.raced => Threads(w) /\ Order(w) /\ Flagged(w) /\ InStep(w)
WinOK == WinInv(win) /\ buttons \subseteq Held
-----------------------------------------------------------------------------

\* The events of the keys and the buttons.
LEMMA EventTypes ==
    /\ \A k \in Keys : Pressed(k) \in EVENT /\ Released(k) \in EVENT
    /\ \A b \in SUBSET Held : MOUSE_PRESSED(b) \in EVENT
    /\ FOCUS_CHANGED \in EVENT /\ TOOLBAR_CLICKED \in EVENT
BY Zenon DEF EVENT

\* Events are told apart by their kind and their key.
LEMMA EventsDiffer ==
    /\ \A k, j : Pressed(k) # Released(j)
    /\ \A k, j : Pressed(k) = Pressed(j) => k = j
    /\ \A k, j : Released(k) = Released(j) => k = j
    /\ \A k, b : /\ MOUSE_PRESSED(b) \notin {Pressed(k), Released(k)}
                 /\ FOCUS_CHANGED \notin {Pressed(k), Released(k)}
                 /\ TOOLBAR_CLICKED \notin {Pressed(k), Released(k)}
BY DEF Pressed, Released, MOUSE_PRESSED, FOCUS_CHANGED, TOOLBAR_CLICKED

\* What enq_key_event reads of an event.
LEMMA EventFields ==
    /\ \A k : Pressed(k).type = "PRESSED" /\ Pressed(k).key = k
    /\ \A k : Released(k).type = "RELEASED" /\ Released(k).key = k
    /\ \A b : MOUSE_PRESSED(b).type = "MOUSE" /\ MOUSE_PRESSED(b).key = "NONE"
    /\ FOCUS_CHANGED.type = "FOCUS" /\ FOCUS_CHANGED.key = "NONE"
    /\ TOOLBAR_CLICKED.type = "TOOLBAR" /\ TOOLBAR_CLICKED.key = "NONE"
BY DEF Pressed, Released, MOUSE_PRESSED, FOCUS_CHANGED, TOOLBAR_CLICKED

\* The modifiers are keys, and no key is none of them.
LEMMA ModifierKeys == Modifiers \subseteq Keys /\ "NONE" \in Keys /\ "NONE" \notin Modifiers
BY DEF Keys, Modifiers

\* Positions in the ring.
LEMMA SlotIs ==
    ASSUME NEW h \in Slots, NEW i \in 0..SCANCODE_BUFSIZE
    PROVE  (h + i) % SCANCODE_BUFSIZE = Slot(h, i) /\ Slot(h, i) \in Slots
<1>. DEFINE N == SCANCODE_BUFSIZE
<1>1. N \in Nat /\ N > 1
  BY RingAssumption
<1>2. h \in Nat /\ h < N /\ i \in Nat /\ i <= N
  BY <1>1 DEF Slots
<1>3. CASE h + i < N
  BY <1>1, <1>2, <1>3 DEF Slot, Slots
<1>4. CASE h + i >= N
  <2>1. h + i - N \in 0..(N - 1) /\ h + i = N + (h + i - N)
    BY <1>1, <1>2, <1>4
  <2>2. (h + i) % N = h + i - N
    BY <1>1, <1>2, <2>1
  <2>. QED BY <1>1, <1>2, <1>4, <2>1, <2>2 DEF Slot, Slots
<1>. QED BY <1>1, <1>2, <1>3, <1>4

\* The slot that head and tail move on to.
LEMMA AfterIs ==
    ASSUME NEW h \in Slots
    PROVE  After(h) = Slot(h, 1) /\ After(h) \in Slots
<1>1. 1 \in 0..SCANCODE_BUFSIZE
  BY RingAssumption
<1>. QED BY <1>1, SlotIs DEF After

\* How far the tail is ahead of the head, around the end of the ring or not:
\* empty and full are the two ends of it.
LEMMA CountIs ==
    ASSUME NEW w, w.head \in Slots, w.tail \in Slots
    PROVE  /\ Count(w) \in 0..(SCANCODE_BUFSIZE - 1)
           /\ (w.tail - w.head + SCANCODE_BUFSIZE) % SCANCODE_BUFSIZE = Count(w)
           /\ Slot(w.head, Count(w)) = w.tail
           /\ Count(w) = 0 <=> w.head = w.tail
           /\ Full(w) <=> Count(w) = SCANCODE_BUFSIZE - 1
<1>. DEFINE N == SCANCODE_BUFSIZE
<1>1. N \in Nat /\ N > 1
  BY RingAssumption
<1>2. w.head \in Nat /\ w.head < N /\ w.tail \in Nat /\ w.tail < N
  BY <1>1 DEF Slots
<1>3. Count(w) \in 0..(N - 1) /\ Slot(w.head, Count(w)) = w.tail /\ (Count(w) = 0 <=> w.head = w.tail)
  BY <1>1, <1>2 DEF Count, Slot
<1>4. (w.tail - w.head + N) % N = Count(w)
  <2>1. CASE w.head <= w.tail
    <3>1. w.tail - w.head + N = N + (w.tail - w.head) /\ w.tail - w.head \in 0..(N - 1)
      BY <1>1, <1>2, <2>1
    <3>2. (N + (w.tail - w.head)) % N = w.tail - w.head
      BY <1>1, <1>2, <3>1
    <3>. QED BY <2>1, <3>1, <3>2 DEF Count
  <2>2. CASE w.head > w.tail
    BY <1>1, <1>2, <2>2 DEF Count
  <2>. QED BY <1>2, <2>1, <2>2
<1>5. Full(w) <=> Slot(w.tail, 1) = w.head
  BY AfterIs DEF Full
<1>6. Full(w) <=> Count(w) = N - 1
  BY <1>1, <1>2, <1>5 DEF Count, Slot
<1>. QED BY <1>3, <1>4, <1>6

-----------------------------------------------------------------------------

\* An event at the end of the ring settles its own key and no other.
LEMMA DownAppend ==
    ASSUME NEW s \in Seq(EVENT), NEW e \in EVENT, NEW k, NEW g
    PROVE  /\ e \notin {Pressed(k), Released(k)} =>
                  DownAfter(k, g, Append(s, e)) = DownAfter(k, g, s)
           /\ e = Pressed(k) => DownAfter(k, g, Append(s, e)) = TRUE
           /\ e = Released(k) => DownAfter(k, g, Append(s, e)) = FALSE
<1>. DEFINE t == Append(s, e)
<1>1. /\ DOMAIN t = 1..(Len(s) + 1) /\ DOMAIN s = 1..Len(s) /\ Len(s) \in Nat
      /\ t[Len(s) + 1] = e
      /\ \A i \in 1..Len(s) : t[i] = s[i]
  OBVIOUS
<1>2. Pressed(k) # Released(k)
  BY EventsDiffer, Zenon
<1>. HIDE DEF t
<1>3. ASSUME e \notin {Pressed(k), Released(k)}
      PROVE  DownAfter(k, g, t) = DownAfter(k, g, s)
  <2>1. (\A i \in DOMAIN t : t[i] # Released(k)) <=> (\A i \in DOMAIN s : s[i] # Released(k))
    BY <1>1, <1>3
  <2>2. \A i \in DOMAIN s :
            (\A j \in DOMAIN t : j > i => t[j] # Released(k)) <=>
            (\A j \in DOMAIN s : j > i => s[j] # Released(k))
    BY <1>1, <1>3
  <2>3. (\E i \in DOMAIN t : t[i] = Pressed(k) /\ \A j \in DOMAIN t : j > i => t[j] # Released(k)) <=>
        (\E i \in DOMAIN s : s[i] = Pressed(k) /\ \A j \in DOMAIN s : j > i => s[j] # Released(k))
    BY <1>1, <1>3, <2>2
  <2>. QED BY <2>1, <2>3, Zenon DEF DownAfter
<1>4. ASSUME e = Pressed(k) PROVE DownAfter(k, g, t) = TRUE
  <2>1. Len(s) + 1 \in DOMAIN t /\ t[Len(s) + 1] = Pressed(k)
    BY <1>1, <1>4
  <2>2. \A j \in DOMAIN t : ~(j > Len(s) + 1)
    BY <1>1
  <2>3. DownAfter(k, g, t)
    BY <2>1, <2>2 DEF DownAfter
  <2>. QED BY <2>3
<1>5. ASSUME e = Released(k) PROVE DownAfter(k, g, t) = FALSE
  <2>1. Len(s) + 1 \in DOMAIN t /\ t[Len(s) + 1] = Released(k)
    BY <1>1, <1>5
  <2>2. \A i \in DOMAIN t : t[i] = Pressed(k) => Len(s) + 1 > i
    BY <1>1, <1>2, <1>5
  <2>3. ~DownAfter(k, g, t)
    BY <2>1, <2>2 DEF DownAfter
  <2>. QED BY <2>3
<1>. QED BY <1>3, <1>4, <1>5, Zenon DEF t

\* What Told makes of the events.
LEMMA ToldIs ==
    ASSUME NEW g \in SUBSET Modifiers, NEW e \in EVENT, NEW k \in Modifiers
    PROVE  /\ Told(g, e) \in SUBSET Modifiers
           /\ e = Pressed(k) => k \in Told(g, e)
           /\ e = Released(k) => k \notin Told(g, e)
           /\ e \notin {Pressed(k), Released(k)} => (k \in Told(g, e) <=> k \in g)
<1>1. CASE \E j \in Keys : e = Pressed(j)
  <2>1. PICK j \in Keys : e = Pressed(j)
    BY <1>1
  <2>2. e.type = "PRESSED" /\ e.key = j
    BY <2>1, EventFields, Zenon
  <2>3. Told(g, e) = IF j \in Modifiers THEN g \cup {j} ELSE g
    BY <2>2 DEF Told
  <2>4. e # Released(k) /\ (e = Pressed(k) <=> j = k)
    BY <2>1, EventsDiffer, Zenon
  <2>. QED BY <2>3, <2>4
<1>2. CASE \E j \in Keys : e = Released(j)
  <2>1. PICK j \in Keys : e = Released(j)
    BY <1>2
  <2>2. e.type = "RELEASED" /\ e.key = j
    BY <2>1, EventFields, Zenon
  <2>3. Told(g, e) = g \ {j}
    BY <2>2 DEF Told
  <2>4. e # Pressed(k) /\ (e = Released(k) <=> j = k)
    BY <2>1, EventsDiffer, Zenon
  <2>. QED BY <2>3, <2>4
<1>3. CASE ~ \E j \in Keys : e \in {Pressed(j), Released(j)}
  <2>1. \/ \E b \in SUBSET Held : e = MOUSE_PRESSED(b)
        \/ e = FOCUS_CHANGED \/ e = TOOLBAR_CLICKED
    BY <1>3, Zenon DEF EVENT
  <2>2. e.type \in {"MOUSE", "FOCUS", "TOOLBAR"}
    BY <2>1, EventFields, Zenon
  <2>3. Told(g, e) = g
    BY <2>2 DEF Told
  <2>4. e \notin {Pressed(k), Released(k)}
    BY <2>1, EventsDiffer, Zenon
  <2>. QED BY <2>3, <2>4
<1>. QED BY <1>1, <1>2, <1>3, Zenon

\* Of modifiers only handle_events' last word is kept.
LEMMA ToldType ==
    ASSUME NEW g \in SUBSET Modifiers, NEW e \in EVENT
    PROVE  Told(g, e) \in SUBSET Modifiers
<1>1. "ALT_L" \in Modifiers
  BY DEF Modifiers
<1>. QED BY <1>1, ToldIs

\* Passing the first event on changes nothing of what the last event of a key
\* will have been in the end.
LEMMA DownTail ==
    ASSUME NEW s \in Seq(EVENT), s # <<>>, NEW k \in Modifiers, NEW g \in SUBSET Modifiers
    PROVE  DownAfter(k, Told(g, s[1]), Tail(s)) = DownAfter(k, g, s)
<1>. DEFINE t == Tail(s)
            h == Told(g, s[1])
<1>1. /\ Len(s) \in Nat \ {0} /\ DOMAIN s = 1..Len(s) /\ DOMAIN t = 1..(Len(s) - 1)
      /\ \A i \in 1..(Len(s) - 1) : t[i] = s[i + 1]
      /\ s[1] \in EVENT
  OBVIOUS
<1>2. /\ s[1] = Pressed(k) => k \in h
      /\ s[1] = Released(k) => k \notin h
      /\ s[1] \notin {Pressed(k), Released(k)} => (k \in h <=> k \in g)
  BY <1>1, ToldIs
<1>3. Pressed(k) # Released(k)
  BY EventsDiffer, Zenon
<1>. HIDE DEF t, h
<1>4. (\A i \in DOMAIN t : t[i] # Released(k)) <=>
      (\A j \in DOMAIN s : j > 1 => s[j] # Released(k))
  <2>1. ASSUME NEW j \in DOMAIN s, j > 1 PROVE j - 1 \in DOMAIN t /\ t[j - 1] = s[j]
    BY <1>1, <2>1
  <2>2. ASSUME NEW i \in DOMAIN t PROVE i + 1 \in DOMAIN s /\ i + 1 > 1 /\ t[i] = s[i + 1]
    BY <1>1
  <2>. QED BY <2>1, <2>2, Zenon
<1>5. ASSUME NEW i \in DOMAIN t
      PROVE  (\A j \in DOMAIN t : j > i => t[j] # Released(k)) <=>
             (\A j \in DOMAIN s : j > i + 1 => s[j] # Released(k))
  <2>1. ASSUME NEW j \in DOMAIN s, j > i + 1
        PROVE  j - 1 \in DOMAIN t /\ j - 1 > i /\ t[j - 1] = s[j]
    BY <1>1, <2>1
  <2>2. ASSUME NEW j \in DOMAIN t, j > i
        PROVE  j + 1 \in DOMAIN s /\ j + 1 > i + 1 /\ t[j] = s[j + 1]
    BY <1>1, <2>2
  <2>. QED BY <2>1, <2>2, Zenon
<1>. DEFINE Q(i) == s[i] = Pressed(k) /\ \A j \in DOMAIN s : j > i => s[j] # Released(k)
<1>6. (\E i \in DOMAIN t : t[i] = Pressed(k) /\ \A j \in DOMAIN t : j > i => t[j] # Released(k)) <=>
      (\E i \in DOMAIN s : i > 1 /\ Q(i))
  <2>1. \A i \in DOMAIN t :
           (t[i] = Pressed(k) /\ \A j \in DOMAIN t : j > i => t[j] # Released(k)) <=> Q(i + 1)
    BY <1>1, <1>5
  <2>2. \A i \in DOMAIN t : i + 1 \in DOMAIN s /\ i + 1 > 1
    BY <1>1
  <2>3. \A i \in DOMAIN s : i > 1 => i - 1 \in DOMAIN t /\ (i - 1) + 1 = i
    BY <1>1
  <2>4. ASSUME NEW i \in DOMAIN s, i > 1, Q(i)
        PROVE  \E j \in DOMAIN t : t[j] = Pressed(k) /\ \A l \in DOMAIN t : l > j => t[l] # Released(k)
    <3>1. i - 1 \in DOMAIN t /\ Q((i - 1) + 1)
      BY <2>3, <2>4, Zenon
    <3>. QED BY <2>1, <3>1, Zenon
  <2>5. ASSUME NEW i \in DOMAIN t, Q(i + 1)
        PROVE  \E j \in DOMAIN s : j > 1 /\ Q(j)
    BY <2>2, <2>5, Zenon
  <2>. HIDE DEF Q
  <2>. QED BY <2>1, <2>4, <2>5, Zenon
<1>7. (\E i \in DOMAIN s : Q(i)) <=> (Q(1) \/ \E i \in DOMAIN s : i > 1 /\ Q(i))
  <2>. HIDE DEF Q
  <2>1. 1 \in DOMAIN s /\ \A i \in DOMAIN s : i = 1 \/ i > 1
    BY <1>1
  <2>. QED BY <2>1, Zenon
<1>8. (\A i \in DOMAIN s : s[i] # Released(k)) <=>
      (s[1] # Released(k) /\ \A j \in DOMAIN s : j > 1 => s[j] # Released(k))
  <2>1. 1 \in DOMAIN s /\ \A i \in DOMAIN s : i = 1 \/ i > 1
    BY <1>1
  <2>. QED BY <2>1, Zenon
<1>. DEFINE A == \A j \in DOMAIN s : j > 1 => s[j] # Released(k)
            E == \E i \in DOMAIN s : i > 1 /\ Q(i)
<1>9. Q(1) <=> s[1] = Pressed(k) /\ A
  BY Zenon
<1>10. DownAfter(k, h, t) <=> (k \in h /\ A) \/ E
  BY <1>4, <1>6, Zenon DEF DownAfter
<1>11. DownAfter(k, g, s) <=> (k \in g /\ s[1] # Released(k) /\ A) \/ Q(1) \/ E
  BY <1>7, <1>8, Zenon DEF DownAfter
<1>12. DownAfter(k, h, t) <=> DownAfter(k, g, s)
  <2>. HIDE DEF A, E, Q
  <2>. QED BY <1>2, <1>3, <1>9, <1>10, <1>11, Zenon
<1>13. DownAfter(k, h, t) = DownAfter(k, g, s)
  BY <1>12, Zenon DEF DownAfter
<1>. QED BY <1>13, Zenon DEF h, t
-----------------------------------------------------------------------------
\* The fields of the ring and of the main thread are the same.
SameRing(w, n) ==
    /\ n.keyevents = w.keyevents /\ n.head = w.head /\ n.tail = w.tail
    /\ n.taken = w.taken /\ n.owed = w.owed /\ n.handed = w.handed /\ n.guest = w.guest
    /\ n.main = w.main /\ n.raced = w.raced
\* Nothing of the way into the ring is touched.
Aside(w, n) ==
    /\ n \in WIN /\ SameRing(w, n)
    /\ n.keyCS = w.keyCS /\ n.pressed = w.pressed /\ n.todo = w.todo
    /\ n.ui = w.ui /\ n.lost = w.lost
\* A message has been made into events that are still to be put into the ring.
Begins(w, n) ==
    /\ n \in WIN /\ SameRing(w, n)
    /\ n.keyCS = w.keyCS \/ (w.keyCS = "free" /\ n.keyCS = "ui")
    /\ n.ui = IF n.todo = <<>> THEN "idle" ELSE "check"
    /\ n.todo = <<>> => n.pressed = w.pressed
    /\ \A i \in DOMAIN n.todo : \A k \in Modifiers :
           /\ n.todo[i] = Pressed(k) => k \in n.pressed
           /\ n.todo[i] = Released(k) => k \notin n.pressed
    /\ \A k \in Modifiers \ n.lost :
           (\A i \in DOMAIN n.todo : n.todo[i] \notin {Pressed(k), Released(k)}) =>
               k \notin w.lost /\ (k \in n.pressed <=> k \in w.pressed)

\* The invariant of what is not raced.
WinSafe(w) == Threads(w) /\ Order(w) /\ Flagged(w) /\ InStep(w)

\* Overlap only turns raced on.
LEMMA OverlapKeeps ==
    ASSUME NEW n \in WIN, (n.ui = "idle") = (n.todo = <<>>), n.handed \subseteq n.guest,
           ~n.raced /\ (n.ui = "idle" \/ n.main = "idle") => WinSafe(n)
    PROVE  WinInv(Overlap(n))
<1>. DEFINE o == Overlap(n)
<1>1. /\ o \in WIN
      /\ o.raced = (n.raced \/ (n.ui # "idle" /\ n.main # "idle"))
      /\ o.keyevents = n.keyevents /\ o.head = n.head /\ o.tail = n.tail /\ o.keyCS = n.keyCS
      /\ o.pressed = n.pressed /\ o.todo = n.todo /\ o.ui = n.ui /\ o.main = n.main
      /\ o.taken = n.taken /\ o.owed = n.owed /\ o.handed = n.handed /\ o.guest = n.guest /\ o.lost = n.lost
  BY DEF Overlap, WIN
<1>. HIDE DEF o
<1>2. ASSUME ~o.raced PROVE WinSafe(o)
  <2>1. WinSafe(n)
    BY <1>1, <1>2
  <2>2. Count(o) = Count(n) /\ Read(o) = Read(n) /\ Full(o) = Full(n) /\ Busy(o) = Busy(n)
    BY <1>1 DEF Count, Read, Full, Busy
  <2>3. Threads(o)
    BY <1>1, <2>1, <2>2 DEF WinSafe, Threads
  <2>4. Order(o)
    BY <1>1, <2>1, <2>2, Zenon DEF WinSafe, Order
  <2>5. Flagged(o) /\ InStep(o)
    BY <1>1, <2>1, Zenon DEF WinSafe, Flagged, InStep, Settled
  <2>. QED BY <2>3, <2>4, <2>5 DEF WinSafe
<1>. QED BY <1>1, <1>2, Zenon DEF WinInv, WinSafe, o

\* Flagged and InStep are about six fields.
LEMMA SameFlags ==
    ASSUME NEW w, NEW n, Flagged(w), InStep(w), n.todo = w.todo, n.main = w.main,
           n.pressed = w.pressed, n.handed = w.handed, n.owed = w.owed, n.lost = w.lost
    PROVE  Flagged(n) /\ InStep(n)
<1>1. Flagged(n)
  BY DEF Flagged
<1>2. ASSUME NEW k PROVE Settled(n, k) <=> Settled(w, k)
  BY DEF Settled
<1>3. ASSUME NEW k \in Modifiers, k \notin n.lost, Settled(n, k)
      PROVE  (k \in n.pressed) = DownAfter(k, n.handed, n.owed)
  <2>1. (k \in w.pressed) = DownAfter(k, w.handed, w.owed)
    BY <1>2, <1>3, Zenon DEF InStep
  <2>. QED BY <2>1, Zenon
<1>4. InStep(n)
  BY <1>3, Zenon DEF InStep
<1>. QED BY <1>1, <1>4

\* The start of enq_key_event keeps the invariant, whichever handler calls it.
LEMMA BeginsKeeps ==
    ASSUME NEW w, WinInv(w), w.ui = "idle", NEW n, Begins(w, n)
    PROVE  WinInv(Overlap(n))
<1>1. n \in WIN /\ w \in WIN
  BY DEF Begins, WinInv
<1>2. (n.ui = "idle") = (n.todo = <<>>)
  BY DEF Begins
<1>3. ASSUME ~n.raced, n.ui = "idle" \/ n.main = "idle" PROVE WinSafe(n)
  <2>1. WinSafe(w)
    BY <1>3 DEF WinInv, WinSafe, Begins, SameRing
  <2>2. SameRing(w, n)
    BY DEF Begins
  <2>3. Count(n) = Count(w) /\ Read(n) = Read(w) /\ Full(n) = Full(w)
    BY <2>2 DEF Count, Read, Full, SameRing
  <2>4. Order(n)
    BY <2>1, <2>2, <2>3, Zenon DEF WinSafe, Order, SameRing
  <2>5. n.ui \in {"idle", "check"}
    BY DEF Begins
  <2>6. Threads(n)
    <3>1. Busy(n) => Busy(w)
      BY <2>2, <2>5 DEF Busy, SameRing
    <3>2. n.main # "idle" => n.keyCS # "main"
      BY <2>1, <2>2 DEF WinSafe, Threads, SameRing, Begins
    <3>3. n.taken # Nothing => n.keyCS = "main" /\ After(n.taken) = n.head
      BY <2>1, <2>2 DEF WinSafe, Threads, SameRing, Begins
    <3>. QED BY <1>3, <2>1, <2>2, <2>3, <2>5, <3>1, <3>2, <3>3 DEF WinSafe, Threads, SameRing
  <2>7. Flagged(n)
    <3>1. ASSUME n.main # "idle" PROVE "ALT_L" \notin n.pressed
      <4>1. n.todo = <<>> /\ n.pressed = w.pressed
        BY <1>2, <1>3, <3>1 DEF Begins
      <4>. QED BY <2>1, <2>2, <3>1, <4>1 DEF WinSafe, Flagged, SameRing
    <3>. QED BY <3>1, Zenon DEF Flagged, Begins
  <2>8. InStep(n)
    <3>1. SUFFICES ASSUME NEW k \in Modifiers, k \notin n.lost, Settled(n, k)
                   PROVE  (k \in n.pressed) = DownAfter(k, n.handed, n.owed)
      BY Zenon DEF InStep
    <3>2. k \notin w.lost /\ (k \in n.pressed <=> k \in w.pressed)
      BY <3>1, Zenon DEF Begins, Settled
    <3>3. Settled(w, k)
      <4>1. w.todo = <<>>
        BY DEF WinInv
      <4>. QED BY <2>2, <3>1, <4>1 DEF Settled, SameRing
    <3>4. (k \in w.pressed) = DownAfter(k, w.handed, w.owed)
      BY <2>1, <3>2, <3>3, Zenon DEF WinSafe, InStep
    <3>5. DownAfter(k, n.handed, n.owed) = DownAfter(k, w.handed, w.owed)
      BY <2>2, Zenon DEF SameRing
    <3>6. (k \in n.pressed) = (k \in w.pressed)
      BY <3>2
    <3>. QED BY <3>4, <3>5, <3>6, Zenon
  <2>. QED BY <2>4, <2>6, <2>7, <2>8 DEF WinSafe
<1>9. n.handed \subseteq n.guest
  BY <1>1 DEF WinInv, Begins, SameRing, Aside
<1>. QED BY <1>1, <1>2, <1>3, <1>9, OverlapKeeps
\* What enq_key_event makes of an event.
LEMMA KeyEventsAre ==
    ASSUME NEW w \in WIN, NEW e \in EVENT
    PROVE  /\ KeyEvents(w, e) \in Seq(EVENT)
           /\ Flags(w, e) \in SUBSET Modifiers
           /\ KeyEvents(w, e) = <<>> => Flags(w, e) = w.pressed /\ e.type # "FOCUS"
           /\ \A i \in DOMAIN KeyEvents(w, e) : \A k \in Modifiers :
                  /\ KeyEvents(w, e)[i] = Pressed(k) => k \in Flags(w, e)
                  /\ KeyEvents(w, e)[i] = Released(k) => k \notin Flags(w, e)
           /\ \A k \in Modifiers :
                  (\A i \in DOMAIN KeyEvents(w, e) : KeyEvents(w, e)[i] \notin {Pressed(k), Released(k)}) =>
                      \/ k \in Flags(w, e) <=> k \in w.pressed
                      \/ e.type = "FOCUS" /\ k \in w.pressed
<1>. DEFINE p == w.pressed
            t == KeyEvents(w, e)
            f == Flags(w, e)
<1>0. p \in SUBSET Modifiers
  BY DEF WIN
<1>1. CASE \E j \in Keys : e = Pressed(j)
  <2>1. PICK j \in Keys : e = Pressed(j)
    BY <1>1
  <2>2. e.type = "PRESSED" /\ e.key = j
    BY <2>1, EventFields, Zenon
  <2>3. CASE j \in p
    <3>1. t = <<>>
      BY <2>2, <2>3 DEF KeyEvents
    <3>2. f = p
      BY <1>0, <2>2, <2>3 DEF Flags
    <3>. HIDE DEF t, f
    <3>3. DOMAIN t = {} /\ t \in Seq(EVENT)
      BY <3>1
    <3>. QED BY <1>0, <2>2, <3>1, <3>2, <3>3 DEF t, f
  <2>4. CASE j \notin p /\ j = "ALT_R" /\ "CTRL_L" \in p
    <3>1. t = <<Released("CTRL_L"), e>>
      BY <2>2, <2>4 DEF KeyEvents
    <3>2. f = (p \ {"CTRL_L"}) \cup {"ALT_R"}
      BY <2>2, <2>4 DEF Flags
    <3>3. Released("CTRL_L") \in EVENT /\ "CTRL_L" \in Modifiers /\ "ALT_R" \in Modifiers
      BY EventTypes, ModifierKeys DEF Modifiers
    <3>. HIDE DEF t, f
    <3>4. /\ t \in Seq(EVENT) /\ DOMAIN t = {1, 2} /\ t[1] = Released("CTRL_L") /\ t[2] = Pressed("ALT_R")
          /\ t # <<>>
      <4>1. t = <<Released("CTRL_L"), Pressed("ALT_R")>>
        BY <2>1, <2>4, <3>1
      <4>. QED BY <2>1, <2>4, <3>3, <4>1
    <3>5. \A k : /\ Pressed("ALT_R") = Pressed(k) => k = "ALT_R"
                 /\ Released("CTRL_L") = Released(k) => k = "CTRL_L"
                 /\ Pressed("ALT_R") # Released(k) /\ Released("CTRL_L") # Pressed(k)
      BY EventsDiffer, Zenon
    <3>6. \A k \in Modifiers : k \notin {"CTRL_L", "ALT_R"} => (k \in f <=> k \in p)
      BY <3>2
    <3>7. \A k \in Modifiers :
            (\A i \in DOMAIN t : t[i] \notin {Pressed(k), Released(k)}) => k \notin {"CTRL_L", "ALT_R"}
      BY <3>4
    <3>. QED BY <1>0, <3>2, <3>3, <3>4, <3>5, <3>6, <3>7 DEF t, f
  <2>5. CASE j \notin p /\ ~(j = "ALT_R" /\ "CTRL_L" \in p)
    <3>1. t = <<e>>
      BY <2>2, <2>5 DEF KeyEvents
    <3>2. f = IF j \in Modifiers THEN p \cup {j} ELSE p
      <4>1. CASE j = "ALT_R"
        BY <1>0, <2>2, <2>5, <4>1 DEF Flags, Modifiers
      <4>2. CASE j # "ALT_R"
        BY <1>0, <2>2, <2>5, <4>2 DEF Flags
      <4>. QED BY <4>1, <4>2
    <3>. HIDE DEF t, f
    <3>3. t \in Seq(EVENT) /\ DOMAIN t = {1} /\ t[1] = Pressed(j) /\ t # <<>>
      BY <2>1, <3>1
    <3>4. \A k : (Pressed(j) = Pressed(k) => k = j) /\ Pressed(j) # Released(k)
      BY EventsDiffer, Zenon
    <3>5. \A k \in Modifiers : k # j => (k \in f <=> k \in p)
      BY <3>2
    <3>6. \A k \in Modifiers :
            (\A i \in DOMAIN t : t[i] \notin {Pressed(k), Released(k)}) => k # j
      BY <3>3
    <3>. QED BY <1>0, <3>2, <3>3, <3>4, <3>5, <3>6 DEF t, f
  <2>. QED BY <2>3, <2>4, <2>5, Zenon
<1>2. CASE \E j \in Keys : e = Released(j)
  <2>1. PICK j \in Keys : e = Released(j)
    BY <1>2
  <2>2. e.type = "RELEASED" /\ e.key = j
    BY <2>1, EventFields, Zenon
  <2>3. f = p \ {j}
    BY <2>2 DEF Flags
  <2>4. CASE j = "CTRL_L" /\ j \notin p
    <3>1. t = <<>>
      BY <2>2, <2>4 DEF KeyEvents
    <3>. HIDE DEF t, f
    <3>3. DOMAIN t = {} /\ t \in Seq(EVENT)
      BY <3>1
    <3>. QED BY <1>0, <2>2, <2>3, <2>4, <3>1, <3>3 DEF t, f
  <2>5. CASE ~(j = "CTRL_L" /\ j \notin p)
    <3>1. t = <<e>>
      BY <2>2, <2>5 DEF KeyEvents
    <3>. HIDE DEF t, f
    <3>3. t \in Seq(EVENT) /\ DOMAIN t = {1} /\ t[1] = Released(j) /\ t # <<>>
      BY <2>1, <3>1
    <3>4. \A k : (Released(j) = Released(k) => k = j) /\ Released(j) # Pressed(k)
      BY EventsDiffer, Zenon
    <3>5. \A k \in Modifiers : k # j => (k \in f <=> k \in p)
      BY <2>3
    <3>6. \A k \in Modifiers :
            (\A i \in DOMAIN t : t[i] \notin {Pressed(k), Released(k)}) => k # j
      BY <3>3
    <3>. QED BY <1>0, <2>3, <3>3, <3>4, <3>5, <3>6 DEF t, f
  <2>. QED BY <2>4, <2>5, Zenon
<1>3. CASE ~ \E j \in Keys : e \in {Pressed(j), Released(j)}
  <2>1. \/ \E b \in SUBSET Held : e = MOUSE_PRESSED(b)
        \/ e = FOCUS_CHANGED \/ e = TOOLBAR_CLICKED
    BY <1>3, Zenon DEF EVENT
  <2>2. e.type \in {"MOUSE", "FOCUS", "TOOLBAR"}
    BY <2>1, EventFields, Zenon
  <2>3. t = <<e>>
    BY <2>2 DEF KeyEvents
  <2>4. f = IF e.type = "FOCUS" THEN {} ELSE p
    BY <2>2 DEF Flags
  <2>5. \A k : e # Pressed(k) /\ e # Released(k)
    BY <2>1, EventsDiffer, Zenon
  <2>. HIDE DEF t, f
  <2>6. t \in Seq(EVENT) /\ DOMAIN t = {1} /\ t[1] = e /\ t # <<>>
    BY <2>3
  <2>. QED BY <1>0, <2>4, <2>5, <2>6 DEF t, f
<1>. QED BY <1>1, <1>2, <1>3, Zenon

\* enq_key_event, called without keyCS.
LEMMA EnqBegins ==
    ASSUME NEW w \in WIN, w.ui = "idle", NEW e \in EVENT
    PROVE  Begins(w, enq_key_event(w, e))
<1>. DEFINE t == KeyEvents(w, e)
            f == Flags(w, e)
            n == enq_key_event(w, e)
<1>1. /\ t \in Seq(EVENT) /\ f \in SUBSET Modifiers
      /\ t = <<>> => f = w.pressed /\ e.type # "FOCUS"
      /\ \A i \in DOMAIN t : \A k \in Modifiers :
             (t[i] = Pressed(k) => k \in f) /\ (t[i] = Released(k) => k \notin f)
      /\ \A k \in Modifiers :
             (\A i \in DOMAIN t : t[i] \notin {Pressed(k), Released(k)}) =>
                 \/ k \in f <=> k \in w.pressed
                 \/ e.type = "FOCUS" /\ k \in w.pressed
  BY KeyEventsAre
<1>2. n = [w EXCEPT !.pressed = f, !.todo = t, !.ui = IF t = <<>> THEN "idle" ELSE "check",
                    !.lost = IF e.type = "FOCUS" THEN @ \cup w.pressed ELSE @]
  BY DEF enq_key_event
<1>. HIDE DEF t, f, n
<1>3. w.lost \in SUBSET Modifiers /\ w.pressed \in SUBSET Modifiers
  BY DEF WIN
<1>4. /\ n \in WIN /\ SameRing(w, n) /\ n.keyCS = w.keyCS
      /\ n.pressed = f /\ n.todo = t /\ n.ui = (IF t = <<>> THEN "idle" ELSE "check")
      /\ n.lost = (IF e.type = "FOCUS" THEN w.lost \cup w.pressed ELSE w.lost)
  BY <1>1, <1>2, <1>3 DEF WIN, SameRing, Steps
<1>5. \A k \in Modifiers \ n.lost :
        (\A i \in DOMAIN t : t[i] \notin {Pressed(k), Released(k)}) =>
            k \notin w.lost /\ (k \in f <=> k \in w.pressed)
  BY <1>1, <1>4
<1>6. Begins(w, n)
  BY <1>1, <1>4, <1>5, Zenon DEF Begins
<1>. QED BY <1>6 DEF n

\* enq_key_event, called with keyCS.
LEMMA LockedBegins ==
    ASSUME NEW w \in WIN, w.ui = "idle", w.keyCS = "free", NEW e \in EVENT
    PROVE  Begins(w, Locked(w, e))
<1>. DEFINE n == enq_key_event(w, e)
            l == [n EXCEPT !.keyCS = "ui"]
<1>1. Begins(w, n)
  BY EnqBegins
<1>2. Locked(w, e) = n \/ Locked(w, e) = l
  BY DEF Locked
<1>. HIDE DEF n
<1>3. /\ l \in WIN /\ SameRing(w, l) /\ l.keyCS = "ui"
      /\ l.pressed = n.pressed /\ l.todo = n.todo /\ l.ui = n.ui /\ l.lost = n.lost
  BY <1>1 DEF Begins, WIN, SameRing
<1>. HIDE DEF l
<1>4. Begins(w, l)
  BY <1>1, <1>3, Zenon DEF Begins
<1>. QED BY <1>1, <1>2, <1>4, Zenon

\* What a handler does aside of the ring does not matter to what it begins.
LEMMA AsideBegins ==
    ASSUME NEW w, NEW v, Aside(w, v), NEW n, Begins(v, n)
    PROVE  Begins(w, n)
<1>1. SameRing(w, n)
  BY DEF Aside, Begins, SameRing
<1>. QED BY <1>1, Zenon DEF Aside, Begins

\* A handler may enqueue nothing at all.
LEMMA AsideIdle ==
    ASSUME NEW w, w.ui = "idle", w.todo = <<>>, NEW n, Aside(w, n)
    PROVE  Begins(w, n)
<1>1. n.todo = <<>> /\ DOMAIN n.todo = {}
  BY DEF Aside
<1>. QED BY <1>1, Zenon DEF Aside, Begins
\* The messages of the window.
LEMMA SetModifierAside ==
    ASSUME NEW w \in WIN, NEW m \in {"CTRL", "SHIFT", "ALT", "CAPS"}, NEW down \in BOOLEAN
    PROVE  Aside(w, set_modifier_keys(w, m, down))
<1>1. PICK s \in SUBSET {"CTRL", "SHIFT", "ALT", "CAPS"} :
          set_modifier_keys(w, m, down) = [w EXCEPT !.keymodstate = s]
  <2>. DEFINE s == CASE m = "CAPS" -> IF down THEN Toggled(w.keymodstate, {m}) ELSE w.keymodstate
                     [] m # "CAPS" /\ down -> w.keymodstate \cup {m}
                     [] OTHER -> w.keymodstate \ {m}
  <2>1. s \in SUBSET {"CTRL", "SHIFT", "ALT", "CAPS"}
    BY DEF WIN, Toggled
  <2>2. set_modifier_keys(w, m, down) = [w EXCEPT !.keymodstate = s]
    BY DEF set_modifier_keys
  <2>. QED BY <2>1, <2>2
<1>. QED BY <1>1, ZenonT(60) DEF Aside, SameRing, WIN

\* mouse_toggle_check touches the combination of keys only.
LEMMA ToggleAside ==
    ASSUME NEW w \in WIN, NEW k \in {"CTRL", "ALT", "F10", "F12", "MBUTTON"},
           NEW down \in BOOLEAN
    PROVE  Aside(w, mouse_toggle_check(w, k, down))
<1>1. PICK s \in SUBSET {"CTRL", "ALT", "F10", "F12", "MBUTTON"} :
          mouse_toggle_check(w, k, down) = [w EXCEPT !.toggle_keystate = s]
  <2>. DEFINE s == IF down THEN w.toggle_keystate \cup {k} ELSE w.toggle_keystate \ {k}
  <2>1. s \in SUBSET {"CTRL", "ALT", "F10", "F12", "MBUTTON"}
    BY DEF WIN
  <2>2. mouse_toggle_check(w, k, down) = [w EXCEPT !.toggle_keystate = s]
    BY DEF mouse_toggle_check
  <2>. QED BY <2>1, <2>2
<1>. QED BY <1>1, ZenonT(60) DEF Aside, SameRing, WIN

\* The switches of the window are aside of the ring.
LEMMA CaptureAside ==
    ASSUME NEW w \in WIN, NEW change \in BOOLEAN
    PROVE  /\ Aside(w, [w EXCEPT !.mouseCaptureMode = ~@])
           /\ Aside(w, [w EXCEPT !.mouseCaptureMode = ~@, !.mouseModeChange = TRUE])
           /\ Aside(w, [w EXCEPT !.mouseModeChange = FALSE])
           /\ Aside(w, [w EXCEPT !.queryFullScreen = TRUE])
BY DEF Aside, SameRing, WIN

\* Two changes aside of the ring, one after the other.
LEMMA AsideTrans ==
    ASSUME NEW w, NEW v, NEW n, Aside(w, v), Aside(v, n)
    PROVE  Aside(w, n)
BY DEF Aside, SameRing

\* No change is a change aside of the ring.
LEMMA AsideSelf ==
    ASSUME NEW w \in WIN
    PROVE  Aside(w, w)
BY DEF Aside, SameRing

\* What the keyboard messages do before the event is enqueued.
Kept(w, m, t, down) ==
    LET w1 == IF m = "NONE" THEN w ELSE set_modifier_keys(w, m, down)
    IN  IF t = {} THEN w1 ELSE mouse_toggle_check(w1, CHOOSE k \in t : TRUE, down)

\* A key that is kept track of without an event.
LEMMA KeptAside ==
    ASSUME NEW w \in WIN, NEW key, NEW t \in SUBSET {"CTRL", "ALT", "F10", "F12"},
           NEW down \in BOOLEAN
    PROVE  Aside(w, Kept(w, ModifierOf(key), t, down))
<1>. DEFINE m == ModifierOf(key)
            w1 == IF m = "NONE" THEN w ELSE set_modifier_keys(w, m, down)
<1>1. m = "NONE" \/ m \in {"CTRL", "SHIFT", "ALT", "CAPS"}
  BY DEF ModifierOf
<1>. HIDE DEF m
<1>2. Aside(w, w1)
  BY <1>1, SetModifierAside, AsideSelf, Zenon
<1>3. Kept(w, m, t, down) = IF t = {} THEN w1 ELSE mouse_toggle_check(w1, CHOOSE k \in t : TRUE, down)
  BY Zenon DEF Kept
<1>. HIDE DEF w1
<1>4. CASE t = {}
  BY <1>2, <1>3, <1>4 DEF m
<1>5. CASE t # {}
  <2>1. (CHOOSE k \in t : TRUE) \in {"CTRL", "ALT", "F10", "F12", "MBUTTON"}
    BY <1>5
  <2>2. w1 \in WIN
    BY <1>2 DEF Aside
  <2>3. Aside(w1, mouse_toggle_check(w1, CHOOSE k \in t : TRUE, down))
    BY <2>1, <2>2, ToggleAside, Zenon
  <2>. QED BY <1>2, <1>3, <1>5, <2>3, AsideTrans, Zenon DEF m
<1>. QED BY <1>4, <1>5

\* WM_KEYDOWN begins with the events of one key, or with none.
LEMMA KeyDownBegins ==
    ASSUME NEW w \in WIN, w.ui = "idle", w.todo = <<>>, w.keyCS = "free", NEW key \in Keys
    PROVE  Begins(w, WM_KEYDOWN(w, key))
<1>. DEFINE t == ToggleKey(w, key)
            w2 == Kept(w, ModifierOf(key), t, TRUE)
<1>1. t \in SUBSET {"CTRL", "ALT", "F10", "F12"}
  BY DEF ToggleKey
<1>2. WM_KEYDOWN(w, key) = IF \E k \in t : Toggles(w, k) THEN [w2 EXCEPT !.mouseCaptureMode = ~@]
                           ELSE Locked(w2, Pressed(key))
  BY Zenon DEF WM_KEYDOWN, Kept
<1>3. Aside(w, w2)
  BY <1>1, KeptAside
<1>. HIDE DEF t, w2
<1>4. w2 \in WIN /\ w2.ui = "idle" /\ w2.keyCS = "free"
  BY <1>3 DEF Aside
<1>5. CASE \E k \in t : Toggles(w, k)
  BY <1>2, <1>3, <1>4, <1>5, CaptureAside, AsideTrans, AsideIdle
<1>6. CASE ~ \E k \in t : Toggles(w, k)
  <2>1. Pressed(key) \in EVENT
    BY EventTypes, Zenon
  <2>2. Begins(w2, Locked(w2, Pressed(key)))
    BY <1>4, <2>1, LockedBegins
  <2>. QED BY <1>2, <1>3, <1>6, <2>2, AsideBegins
<1>. QED BY <1>5, <1>6, Zenon

\* WM_KEYUP begins with the events of one key, or with none.
LEMMA KeyUpBegins ==
    ASSUME NEW w \in WIN, w.ui = "idle", w.keyCS = "free", NEW key \in Keys
    PROVE  Begins(w, WM_KEYUP(w, key))
<1>. DEFINE t == ReleaseKey(w, key)
            w2 == Kept(w, ModifierOf(key), t, FALSE)
<1>1. t \in SUBSET {"CTRL", "ALT", "F10", "F12"}
  BY DEF ReleaseKey
<1>2. WM_KEYUP(w, key) = Locked(w2, Released(key))
  BY Zenon DEF WM_KEYUP, Kept
<1>3. Aside(w, w2)
  BY <1>1, KeptAside
<1>. HIDE DEF t, w2
<1>4. w2 \in WIN /\ w2.ui = "idle" /\ w2.keyCS = "free"
  BY <1>3 DEF Aside
<1>5. Released(key) \in EVENT
  BY EventTypes, Zenon
<1>6. Begins(w2, Locked(w2, Released(key)))
  BY <1>4, <1>5, LockedBegins
<1>. QED BY <1>2, <1>3, <1>6, AsideBegins

\* processMouseXY begins with one event of the mouse, or with none.
LEMMA MouseBegins ==
    ASSUME NEW w \in WIN, w.ui = "idle", w.keyCS = "free", NEW b \in SUBSET Held, NEW i \in SUBSET Held
    PROVE  Begins(w, processMouseXY(w, b, i))
<1>. DEFINE old == Toggled(b, i)
            t1 == IF old # w.mouse_button_state THEN <<MOUSE_PRESSED(old)>> ELSE <<>>
            t2 == IF b # old THEN <<MOUSE_PRESSED(b)>> ELSE <<>>
            t == t1 \o t2
            n == processMouseXY(w, b, i)
<1>1. old \in SUBSET Held
  BY DEF Toggled
<1>. HIDE DEF old
<1>2. MOUSE_PRESSED(old) \in EVENT /\ MOUSE_PRESSED(b) \in EVENT
  BY <1>1, EventTypes, Zenon
<1>3. /\ t1 \in Seq(EVENT) /\ t2 \in Seq(EVENT)
      /\ \A x \in DOMAIN t1 : t1[x] = MOUSE_PRESSED(old)
      /\ \A x \in DOMAIN t2 : t2[x] = MOUSE_PRESSED(b)
  BY <1>2
<1>. HIDE DEF t1, t2
<1>4. t \in Seq(EVENT) /\ \A x \in DOMAIN t : t[x] \in {MOUSE_PRESSED(old), MOUSE_PRESSED(b)}
  <2>1. t \in Seq(EVENT) /\ Len(t) = Len(t1) + Len(t2) /\ Len(t1) \in Nat /\ Len(t2) \in Nat
        /\ DOMAIN t = 1..Len(t) /\ DOMAIN t1 = 1..Len(t1) /\ DOMAIN t2 = 1..Len(t2)
    BY <1>3
  <2>2. ASSUME NEW x \in DOMAIN t PROVE t[x] \in {MOUSE_PRESSED(old), MOUSE_PRESSED(b)}
    <3>1. CASE x <= Len(t1)
      <4>1. t[x] = t1[x] /\ x \in DOMAIN t1
        BY <1>3, <2>1, <3>1
      <4>. HIDE DEF t
      <4>. QED BY <1>3, <4>1
    <3>2. CASE x > Len(t1)
      <4>1. t[x] = t2[x - Len(t1)] /\ x - Len(t1) \in DOMAIN t2
        BY <1>3, <2>1, <3>2
      <4>2. t2[x - Len(t1)] = MOUSE_PRESSED(b)
        BY <1>3, <4>1, Zenon
      <4>. HIDE DEF t
      <4>. QED BY <4>1, <4>2
    <3>. QED BY <2>1, <3>1, <3>2
  <2>. QED BY <2>1, <2>2
<1>5. n = [w EXCEPT !.mouse_button_state = b, !.todo = t,
                    !.ui = IF t = <<>> THEN "idle" ELSE "check",
                    !.keyCS = IF t = <<>> THEN @ ELSE "ui"]
  BY Zenon DEF processMouseXY, old, t1, t2
<1>. HIDE DEF t, n
<1>6. /\ n \in WIN /\ SameRing(w, n) /\ n.keyCS = (IF t = <<>> THEN w.keyCS ELSE "ui")
      /\ n.pressed = w.pressed /\ n.todo = t /\ n.ui = (IF t = <<>> THEN "idle" ELSE "check")
      /\ n.lost = w.lost
  BY <1>4, <1>5 DEF WIN, SameRing, Steps
<1>7. \A x \in DOMAIN t : \A k : t[x] # Pressed(k) /\ t[x] # Released(k)
  BY <1>4, EventsDiffer, Zenon
<1>8. Begins(w, n)
  BY <1>6, <1>7 DEF Begins
<1>. QED BY <1>8 DEF n

\* The messages of the mouse.
LEMMA ButtonBegins ==
    ASSUME NEW w \in WIN, w.ui = "idle", w.todo = <<>>, w.keyCS = "free",
           NEW b \in SUBSET Held, NEW k \in Held, NEW down \in BOOLEAN
    PROVE  /\ k = "MBUTTON" => Begins(w, WM_MBUTTON(w, b, down))
           /\ k = "LBUTTON" => Begins(w, WM_LBUTTON(w, b))
           /\ k = "RBUTTON" => Begins(w, WM_RBUTTON(w, b))
           /\ Begins(w, WM_MOUSEMOVE(w, b))
<1>1. {} \in SUBSET Held /\ {k} \in SUBSET Held
  OBVIOUS
<1>2. Begins(w, processMouseXY(w, b, {})) /\ Begins(w, processMouseXY(w, b, {k}))
  BY <1>1, MouseBegins
<1>3. Aside(w, mouse_toggle_check(w, "MBUTTON", TRUE)) /\ Aside(w, mouse_toggle_check(w, "MBUTTON", FALSE))
  BY ToggleAside
<1>4. Begins(w, WM_MOUSEMOVE(w, b))
  BY <1>2, AsideSelf, AsideIdle DEF WM_MOUSEMOVE
<1>5. ASSUME k = "MBUTTON" PROVE Begins(w, WM_MBUTTON(w, b, down))
  <2>. DEFINE n == mouse_toggle_check(w, "MBUTTON", TRUE)
              f == mouse_toggle_check(w, "MBUTTON", FALSE)
  <2>1. WM_MBUTTON(w, b, down) \in
            {[n EXCEPT !.mouseCaptureMode = ~@, !.mouseModeChange = TRUE], n,
             [f EXCEPT !.mouseModeChange = FALSE], processMouseXY(w, b, {k})}
    BY <1>5 DEF WM_MBUTTON
  <2>. HIDE DEF n, f
  <2>2. Aside(w, n) /\ Aside(w, f) /\ n \in WIN /\ f \in WIN
    BY <1>3 DEF n, f, Aside
  <2>3. /\ Aside(w, [n EXCEPT !.mouseCaptureMode = ~@, !.mouseModeChange = TRUE])
        /\ Aside(w, [f EXCEPT !.mouseModeChange = FALSE])
    BY <2>2, CaptureAside, AsideTrans
  <2>4. /\ Begins(w, [n EXCEPT !.mouseCaptureMode = ~@, !.mouseModeChange = TRUE])
        /\ Begins(w, [f EXCEPT !.mouseModeChange = FALSE]) /\ Begins(w, n)
    BY <2>2, <2>3, AsideIdle
  <2>. QED BY <1>2, <2>1, <2>4
<1>6. /\ k = "LBUTTON" => Begins(w, WM_LBUTTON(w, b))
      /\ k = "RBUTTON" => Begins(w, WM_RBUTTON(w, b))
  BY <1>2 DEF WM_LBUTTON, WM_RBUTTON
<1>. QED BY <1>4, <1>5, <1>6

\* The toolbar, the loss of the focus and the switch to the full screen.
LEMMA OthersBegin ==
    ASSUME NEW w \in WIN, w.ui = "idle", w.todo = <<>>
    PROVE  /\ w.keyCS = "free" => Begins(w, WM_COMMAND(w))
           /\ Begins(w, WM_KILLFOCUS(w))
           /\ Begins(w, set_fullscreen_mode(w))
<1>1. w.keyCS = "free" => Begins(w, WM_COMMAND(w))
  BY EventTypes, LockedBegins DEF WM_COMMAND
<1>2. Begins(w, WM_KILLFOCUS(w))
  BY EventTypes, EnqBegins DEF WM_KILLFOCUS
<1>3. Begins(w, set_fullscreen_mode(w))
  <2>. DEFINE v == [w EXCEPT !.queryFullScreen = TRUE]
  <2>1. Aside(w, v)
    BY CaptureAside
  <2>2. v \in WIN /\ v.ui = "idle"
    BY <2>1 DEF Aside
  <2>3. Released("ALT_L") \in EVENT
    BY EventTypes, ModifierKeys DEF Modifiers
  <2>4. set_fullscreen_mode(w) = w \/ set_fullscreen_mode(w) = enq_key_event(v, Released("ALT_L"))
    BY DEF set_fullscreen_mode
  <2>. HIDE DEF v
  <2>5. Begins(v, enq_key_event(v, Released("ALT_L")))
    BY <2>2, <2>3, EnqBegins
  <2>6. Begins(w, enq_key_event(v, Released("ALT_L")))
    BY <2>1, <2>5, AsideBegins
  <2>7. Begins(w, w)
    BY AsideSelf, AsideIdle
  <2>. QED BY <2>4, <2>6, <2>7
<1>. QED BY <1>1, <1>2, <1>3
-----------------------------------------------------------------------------
(***************************************************************************)
(* The steps of the ring.                                                  *)
(***************************************************************************)

\* An event that is put in at the end.
LEMMA Lengthens ==
    ASSUME NEW w \in WIN, Order(w), ~Full(w), NEW e \in EVENT, w.keyevents[w.tail] = e,
           NEW n \in WIN, n.keyevents = w.keyevents, n.head = w.head, n.taken = w.taken,
           n.tail = After(w.tail), n.owed = Append(w.owed, e)
    PROVE  Order(n)
<1>. DEFINE N == SCANCODE_BUFSIZE
            c == Count(w)
<1>0. N \in Nat /\ N > 1 /\ w.head \in Slots /\ w.tail \in Slots /\ n.tail \in Slots
      /\ w.owed \in Seq(EVENT) /\ w.taken \in Slots \cup {Nothing}
  BY RingAssumption DEF WIN
<1>1. c \in 0..(N - 2) /\ Slot(w.head, c) = w.tail
  BY <1>0, CountIs
<1>2. n.tail = Slot(w.tail, 1)
  BY <1>0, AfterIs
<1>3. Count(n) = c + 1
  <2>1. /\ w.head \in Nat /\ w.head < N /\ w.tail \in Nat /\ w.tail < N
        /\ n.tail = IF w.tail + 1 < N THEN w.tail + 1 ELSE w.tail + 1 - N
    BY <1>0, <1>2 DEF Slot, Slots
  <2>2. CASE w.head <= w.tail
    <3>1. c = w.tail - w.head
      BY <2>2 DEF Count
    <3>. QED BY <1>0, <1>1, <2>1, <2>2, <3>1, SMTT(40) DEF Count
  <2>3. CASE w.head > w.tail
    <3>1. c = w.tail - w.head + N
      BY <2>1, <2>3 DEF Count
    <3>2. w.tail + 1 < w.head /\ n.tail = w.tail + 1
      BY <1>0, <1>1, <2>1, <2>3, <3>1
    <3>3. Count(n) = n.tail - w.head + N
      BY <2>1, <3>2 DEF Count
    <3>4. n.tail - w.head + N = w.tail - w.head + N + 1
      BY <1>0, <2>1, <3>2
    <3>. QED BY <3>1, <3>3, <3>4, Zenon
  <2>. QED BY <2>1, <2>2, <2>3
<1>4. Read(n) = Read(w) /\ Read(w) \in {0, 1}
  BY DEF Read
<1>. HIDE DEF c
<1>5. Len(w.owed) = Read(w) + c
  BY DEF Order, c
<1>6. Len(n.owed) = Read(w) + c + 1 /\ n.owed[Read(w) + c + 1] = e
      /\ \A i \in 1..(Read(w) + c) : n.owed[i] = w.owed[i]
  BY <1>0, <1>1, <1>4, <1>5
<1>7. ASSUME n.taken # Nothing PROVE n.owed[1] = n.keyevents[n.taken]
  <2>1. Read(w) = 1 /\ 1 \in 1..(Read(w) + c) /\ w.owed[1] = w.keyevents[w.taken]
    BY <1>1, <1>7 DEF Read, Order
  <2>. QED BY <1>6, <2>1
<1>8. ASSUME NEW i \in 0..(Count(n) - 1)
      PROVE  n.owed[Read(n) + i + 1] = n.keyevents[Slot(n.head, i)]
  <2>1. CASE i = c
    BY <1>1, <1>4, <1>6, <2>1
  <2>2. CASE i # c
    <3>1. i \in 0..(c - 1) /\ Read(w) + i + 1 \in 1..(Read(w) + c)
      BY <1>1, <1>3, <1>4, <2>2
    <3>2. w.owed[Read(w) + i + 1] = w.keyevents[Slot(w.head, i)]
      BY <3>1 DEF Order, c
    <3>. QED BY <1>4, <1>6, <3>1, <3>2
  <2>. QED BY <2>1, <2>2
<1>9. Len(n.owed) = Read(n) + Count(n)
  BY <1>1, <1>3, <1>4, <1>6
<1>. QED BY <1>7, <1>8, <1>9 DEF Order

\* A slot that is neither in the ring nor taken may be written.
LEMMA StoreKeeps ==
    ASSUME NEW w \in WIN, Order(w), ~Full(w),
           w.taken # Nothing => After(w.taken) = w.head,
           NEW e \in EVENT, NEW n \in WIN, n.keyevents[w.tail] = e,
           \A i \in Slots : i # w.tail => n.keyevents[i] = w.keyevents[i],
           n.head = w.head, n.taken = w.taken, n.tail = w.tail, n.owed = w.owed
    PROVE  Order(n) /\ n.keyevents[n.tail] = e
<1>. DEFINE N == SCANCODE_BUFSIZE
            c == Count(w)
<1>0. N \in Nat /\ N > 1 /\ w.head \in Slots /\ w.tail \in Slots
      /\ w.taken \in Slots \cup {Nothing} /\ w.keyevents \in [Slots -> EVENT]
  BY RingAssumption DEF WIN
<1>1. c \in 0..(N - 1) /\ Slot(w.head, c) = w.tail
  BY <1>0, CountIs
<1>2. Count(n) = c /\ Read(n) = Read(w)
  BY DEF Count, Read
<1>. HIDE DEF c
<1>3. ASSUME NEW i \in 0..(c - 1) PROVE Slot(w.head, i) # w.tail /\ Slot(w.head, i) \in Slots
  BY <1>0, <1>1, SMTT(40) DEF Slot, Slots
<1>4. ASSUME w.taken # Nothing PROVE w.taken # w.tail /\ w.taken \in Slots
  BY <1>0, <1>4 DEF Full
<1>5. ASSUME NEW s \in Slots, s # w.tail PROVE n.keyevents[s] = w.keyevents[s]
  BY <1>0, <1>5
<1>6. n.keyevents[n.tail] = e
  BY <1>0
<1>7. n.taken # Nothing => n.owed[1] = n.keyevents[n.taken]
  BY <1>4, <1>5 DEF Order
<1>8. ASSUME NEW i \in 0..(Count(n) - 1)
      PROVE  n.owed[Read(n) + i + 1] = n.keyevents[Slot(n.head, i)]
  <2>1. w.owed[Read(w) + i + 1] = w.keyevents[Slot(w.head, i)]
    BY <1>2 DEF Order, c
  <2>2. n.keyevents[Slot(w.head, i)] = w.keyevents[Slot(w.head, i)]
    BY <1>2, <1>3, <1>5
  <2>. QED BY <1>2, <2>1, <2>2
<1>9. Len(n.owed) = Read(n) + Count(n)
  BY <1>2 DEF Order, c
<1>. QED BY <1>6, <1>7, <1>8, <1>9 DEF Order

\* deq_key_event: the slot is given back, and room stays room.
LEMMA TakeKeeps ==
    ASSUME NEW w \in WIN, Order(w), w.taken = Nothing, w.head # w.tail,
           NEW n \in WIN, n.keyevents = w.keyevents, n.head = After(w.head),
           n.taken = w.head, n.tail = w.tail, n.owed = w.owed
    PROVE  Order(n) /\ ~Full(n) /\ After(n.taken) = n.head
<1>. DEFINE N == SCANCODE_BUFSIZE
            c == Count(w)
<1>0. N \in Nat /\ N > 1 /\ w.head \in Slots /\ w.tail \in Slots /\ n.head \in Slots
  BY RingAssumption DEF WIN
<1>1. c \in 1..(N - 1)
  BY <1>0, CountIs
<1>2. n.head = Slot(w.head, 1)
  BY <1>0, AfterIs
<1>3. Count(n) = c - 1
  BY <1>0, <1>1, <1>2 DEF Count, Slot, Slots
<1>4. Read(w) = 0 /\ Read(n) = 1
  <2>1. w.head # Nothing
    BY <1>0 DEF Slots, Nothing
  <2>. QED BY <2>1 DEF Read
<1>. HIDE DEF c
<1>5. ASSUME NEW i \in 0..(c - 1) PROVE w.owed[i + 1] = w.keyevents[Slot(w.head, i)]
  BY <1>4 DEF Order, c
<1>6. ASSUME NEW i \in 0..(c - 2) PROVE Slot(n.head, i) = Slot(w.head, i + 1)
  BY <1>0, <1>1, <1>2 DEF Slot, Slots
<1>7. Slot(w.head, 0) = w.head
  BY <1>0 DEF Slot, Slots
<1>8. n.owed[1] = n.keyevents[n.taken]
  <2>1. w.owed[0 + 1] = w.keyevents[Slot(w.head, 0)]
    BY <1>1, <1>5
  <2>. QED BY <1>7, <2>1
<1>9. ASSUME NEW i \in 0..(Count(n) - 1)
      PROVE  n.owed[Read(n) + i + 1] = n.keyevents[Slot(n.head, i)]
  <2>1. i \in 0..(c - 2) /\ i + 1 \in 0..(c - 1)
    BY <1>1, <1>3
  <2>2. w.owed[(i + 1) + 1] = w.keyevents[Slot(w.head, i + 1)]
    BY <1>5, <2>1
  <2>3. Read(n) + i + 1 = (i + 1) + 1
    BY <1>4, <2>1
  <2>. QED BY <1>6, <2>1, <2>2, <2>3
<1>10. Len(n.owed) = Read(n) + Count(n)
  BY <1>1, <1>3, <1>4 DEF Order, c
<1>11. ~Full(n)
  BY <1>0, <1>1, <1>3, CountIs
<1>. QED BY <1>8, <1>9, <1>10, <1>11 DEF Order

\* The event that has been taken is handed on.
LEMMA DeliverKeeps ==
    ASSUME NEW w \in WIN, Order(w), w.taken # Nothing,
           NEW n \in WIN, n.keyevents = w.keyevents, n.head = w.head,
           n.taken = Nothing, n.tail = w.tail, n.owed = Tail(w.owed)
    PROVE  Order(n)
<1>. DEFINE c == Count(w)
<1>0. w.head \in Slots /\ w.tail \in Slots /\ w.owed \in Seq(EVENT)
  BY DEF WIN
<1>1. c \in Nat
  BY <1>0, CountIs, RingAssumption
<1>2. Count(n) = c /\ Read(n) = 0 /\ Read(w) = 1
  BY DEF Count, Read
<1>. HIDE DEF c
<1>3. Len(w.owed) = 1 + c /\ \A i \in 0..(c - 1) : w.owed[1 + i + 1] = w.keyevents[Slot(w.head, i)]
  BY <1>2 DEF Order, c
<1>4. Len(n.owed) = c /\ \A j \in 1..c : n.owed[j] = w.owed[j + 1]
  BY <1>0, <1>1, <1>3
<1>5. ASSUME NEW i \in 0..(Count(n) - 1)
      PROVE  n.owed[Read(n) + i + 1] = n.keyevents[Slot(n.head, i)]
  <2>1. i + 1 \in 1..c /\ Read(n) + i + 1 = i + 1 /\ (i + 1) + 1 = 1 + i + 1
    BY <1>1, <1>2
  <2>. QED BY <1>2, <1>3, <1>4, <2>1
<1>. QED BY <1>2, <1>4, <1>5 DEF Order
\* The thread of the window puts an event into the ring, or drops it.
LEMMA CheckKeeps ==
    ASSUME NEW w, WinInv(w), w.ui = "check"
    PROVE  WinInv(Overlap(Check(w)))
<1>. DEFINE t == w.todo
            n == Check(w)
<1>0. w \in WIN /\ t \in Seq(EVENT) /\ t # <<>> /\ w.lost \in SUBSET Modifiers
  BY DEF WinInv, WIN
<1>1. Head(t) \in EVENT /\ Tail(t) \in Seq(EVENT) /\ Len(t) \in Nat \ {0} /\ Head(t) = t[1]
      /\ DOMAIN t = 1..Len(t) /\ DOMAIN Tail(t) = 1..(Len(t) - 1)
      /\ \A i \in 1..(Len(t) - 1) : Tail(t)[i] = t[i + 1]
  BY <1>0
<1>2. CASE Full(w)
  <2>. DEFINE r == Tail(t)
              l == w.lost \cup ({Head(t).key} \cap Modifiers)
  <2>1. n = [[w EXCEPT !.todo = r, !.ui = IF r = <<>> THEN "idle" ELSE "check",
                       !.keyCS = IF r = <<>> /\ @ = "ui" THEN "free" ELSE @] EXCEPT !.lost = l]
    BY <1>2 DEF Check, Finish
  <2>2. l \in SUBSET Modifiers
    BY <1>0, SMTT(40)
  <2>. HIDE DEF n, t, r, l
  <2>3. /\ n \in WIN /\ SameRing(w, n) /\ n.todo = r /\ n.lost = l /\ n.pressed = w.pressed
        /\ n.ui = (IF r = <<>> THEN "idle" ELSE "check")
        /\ n.keyCS = (IF r = <<>> /\ w.keyCS = "ui" THEN "free" ELSE w.keyCS)
    BY <1>0, <1>1, <2>1, <2>2 DEF WIN, SameRing, Steps, r
  <2>4. (n.ui = "idle") = (n.todo = <<>>)
    BY <2>3
  <2>5. ASSUME ~n.raced PROVE WinSafe(n)
    <3>1. WinSafe(w)
      BY <2>3, <2>5 DEF WinInv, WinSafe, SameRing
    <3>2. w.main = "idle" /\ n.main = "idle"
      BY <2>3, <3>1 DEF WinSafe, Threads, SameRing
    <3>3. Count(n) = Count(w) /\ Read(n) = Read(w)
      BY <2>3 DEF Count, Read, SameRing
    <3>4. Order(n)
      BY <2>3, <3>1, <3>3, Zenon DEF WinSafe, Order, SameRing
    <3>5. Threads(n)
      <4>1. n.ui # "store" /\ n.ui # "advance"
        BY <2>3
      <4>. QED BY <2>3, <3>1, <3>2, <4>1 DEF WinSafe, Threads, SameRing, Busy
    <3>6. Flagged(n)
      <4>1. ASSUME NEW i \in DOMAIN r, NEW k \in Modifiers
            PROVE  /\ r[i] = Pressed(k) => k \in w.pressed
                   /\ r[i] = Released(k) => k \notin w.pressed
        <5>1. i + 1 \in DOMAIN t /\ r[i] = t[i + 1]
          BY <1>1 DEF r
        <5>. QED BY <3>1, <5>1 DEF WinSafe, Flagged, t
      <4>. QED BY <2>3, <3>2, <4>1 DEF Flagged
    <3>7. InStep(n)
      <4>1. SUFFICES ASSUME NEW k \in Modifiers, k \notin l, Settled(n, k)
                     PROVE  (k \in w.pressed) = DownAfter(k, w.handed, w.owed)
        BY <2>3, Zenon DEF InStep, SameRing
      <4>2. Head(t) # Pressed(k) /\ Head(t) # Released(k)
        <5>1. Head(t).key # k
          BY <4>1 DEF l
        <5>. QED BY <5>1, EventFields, Zenon
      <4>3. ASSUME NEW i \in DOMAIN t PROVE t[i] \notin {Pressed(k), Released(k)}
        <5>1. CASE i = 1
          BY <1>1, <4>2, <5>1
        <5>2. CASE i # 1
          <6>1. i - 1 \in DOMAIN r /\ r[i - 1] = t[i]
            BY <1>1, <5>2 DEF r
          <6>. QED BY <2>3, <4>1, <6>1 DEF Settled
        <5>. QED BY <5>1, <5>2
      <4>4. Settled(w, k) /\ k \notin w.lost
        BY <3>2, <4>1, <4>3 DEF Settled, t, l
      <4>. QED BY <3>1, <4>4, Zenon DEF WinSafe, InStep
    <3>. QED BY <3>4, <3>5, <3>6, <3>7 DEF WinSafe
  <2>9. n.handed \subseteq n.guest
    BY <2>3 DEF WinInv, SameRing
  <2>. QED BY <2>3, <2>4, <2>5, <2>9, OverlapKeeps DEF n
<1>3. CASE ~Full(w)
  <2>1. n = [w EXCEPT !.ui = "store"]
    BY <1>3 DEF Check
  <2>. HIDE DEF n
  <2>2. /\ n \in WIN /\ SameRing(w, n) /\ n.todo = t /\ n.lost = w.lost /\ n.pressed = w.pressed
        /\ n.ui = "store" /\ n.keyCS = w.keyCS
    BY <1>0, <2>1 DEF WIN, SameRing, Steps
  <2>3. (n.ui = "idle") = (n.todo = <<>>)
    BY <1>0, <2>2
  <2>4. ASSUME ~n.raced PROVE WinSafe(n)
    <3>1. WinSafe(w)
      BY <2>2, <2>4 DEF WinInv, WinSafe, SameRing
    <3>2. w.main = "idle" /\ n.main = "idle"
      BY <2>2, <3>1 DEF WinSafe, Threads, SameRing
    <3>3. Count(n) = Count(w) /\ Read(n) = Read(w) /\ ~Full(n)
      BY <1>3, <2>2 DEF Count, Read, Full, SameRing
    <3>4. Order(n)
      BY <2>2, <3>1, <3>3, Zenon DEF WinSafe, Order, SameRing
    <3>5. Threads(n)
      BY <2>2, <3>1, <3>2, <3>3 DEF WinSafe, Threads, SameRing
    <3>6. Flagged(n) /\ InStep(n)
      BY <2>2, <3>1, Zenon DEF WinSafe, Flagged, InStep, Settled, SameRing
    <3>. QED BY <3>4, <3>5, <3>6 DEF WinSafe
  <2>9. n.handed \subseteq n.guest
    BY <2>2 DEF WinInv, SameRing
  <2>. QED BY <2>2, <2>3, <2>4, <2>9, OverlapKeeps DEF n
<1>. QED BY <1>2, <1>3

\* The thread of the window stores an event in the slot at the tail.
LEMMA StoreStep ==
    ASSUME NEW w, WinInv(w), w.ui = "store"
    PROVE  WinInv(Overlap(Store(w)))
<1>. DEFINE e == Head(w.todo)
            n == Store(w)
<1>0. w \in WIN /\ w.todo \in Seq(EVENT) /\ w.todo # <<>>
  BY DEF WinInv, WIN
<1>1. e \in EVENT
  BY <1>0
<1>2. n = [w EXCEPT !.keyevents = [@ EXCEPT ![w.tail] = e], !.ui = "advance"]
  BY DEF Store
<1>. HIDE DEF n, e
<1>3. /\ n \in WIN /\ n.keyevents = [w.keyevents EXCEPT ![w.tail] = e] /\ n.head = w.head
      /\ n.tail = w.tail /\ n.taken = w.taken /\ n.owed = w.owed /\ n.handed = w.handed /\ n.guest = w.guest
      /\ n.main = w.main /\ n.raced = w.raced
      /\ n.todo = w.todo /\ n.lost = w.lost /\ n.pressed = w.pressed
      /\ n.ui = "advance" /\ n.keyCS = w.keyCS
  BY <1>0, <1>1, <1>2 DEF WIN, Steps
<1>4. (n.ui = "idle") = (n.todo = <<>>)
  BY <1>0, <1>3
<1>5. ASSUME ~n.raced PROVE WinSafe(n)
  <2>1. WinSafe(w)
    BY <1>3, <1>5 DEF WinInv, WinSafe
  <2>2. w.main = "idle" /\ n.main = "idle" /\ ~Full(w) /\ ~Full(n)
    BY <1>3, <2>1 DEF WinSafe, Threads, Busy, Full
  <2>3. Order(w) /\ (w.taken # Nothing => After(w.taken) = w.head)
    BY <2>1 DEF WinSafe, Threads
  <2>4. Order(n) /\ n.keyevents[n.tail] = e
    <3>1. /\ n.keyevents[w.tail] = e
          /\ \A i \in Slots : i # w.tail => n.keyevents[i] = w.keyevents[i]
      BY <1>0, <1>3 DEF WIN
    <3>. QED BY <1>0, <1>1, <1>3, <2>2, <2>3, <3>1, StoreKeeps
  <2>5. Threads(n)
    BY <1>3, <2>1, <2>2, <2>4 DEF WinSafe, Threads, e
  <2>6. Flagged(n) /\ InStep(n)
    BY <1>3, <2>1, SameFlags DEF WinSafe
  <2>. QED BY <2>4, <2>5, <2>6 DEF WinSafe
<1>9. n.handed \subseteq n.guest
  BY <1>3 DEF WinInv
<1>. QED BY <1>3, <1>4, <1>5, <1>9, OverlapKeeps DEF n

\* The thread of the window moves the tail on behind what it stored.
LEMMA AdvanceStep ==
    ASSUME NEW w, WinInv(w), w.ui = "advance"
    PROVE  WinInv(Overlap(Advance(w)))
<1>. DEFINE t == w.todo
            r == Tail(t)
            e == Head(t)
            n == Advance(w)
<1>0. w \in WIN /\ t \in Seq(EVENT) /\ t # <<>> /\ w.lost \in SUBSET Modifiers /\ w.tail \in Slots
      /\ w.owed \in Seq(EVENT)
  BY DEF WinInv, WIN
<1>1. /\ e \in EVENT /\ r \in Seq(EVENT) /\ Len(t) \in Nat \ {0} /\ e = t[1]
      /\ DOMAIN t = 1..Len(t) /\ DOMAIN r = 1..(Len(t) - 1)
      /\ \A i \in 1..(Len(t) - 1) : r[i] = t[i + 1]
  BY <1>0
<1>2. n = [[w EXCEPT !.todo = r, !.ui = IF r = <<>> THEN "idle" ELSE "check",
                     !.keyCS = IF r = <<>> /\ @ = "ui" THEN "free" ELSE @]
              EXCEPT !.tail = After(@), !.owed = Append(@, e), !.lost = @ \ {e.key}]
  BY DEF Advance, Finish
<1>3. After(w.tail) \in Slots /\ Append(w.owed, e) \in Seq(EVENT)
  BY <1>0, <1>1, AfterIs
<1>. HIDE DEF n, t, r, e
<1>4. /\ n \in WIN /\ n.keyevents = w.keyevents /\ n.head = w.head
      /\ n.tail = After(w.tail) /\ n.taken = w.taken /\ n.owed = Append(w.owed, e)
      /\ n.handed = w.handed /\ n.guest = w.guest /\ n.main = w.main /\ n.raced = w.raced
      /\ n.todo = r /\ n.lost = w.lost \ {e.key} /\ n.pressed = w.pressed
      /\ n.ui = (IF r = <<>> THEN "idle" ELSE "check")
      /\ n.keyCS = (IF r = <<>> /\ w.keyCS = "ui" THEN "free" ELSE w.keyCS)
  BY <1>0, <1>1, <1>2, <1>3, ZenonT(60) DEF WIN, Steps
<1>5. (n.ui = "idle") = (n.todo = <<>>)
  BY <1>4
<1>6. ASSUME ~n.raced PROVE WinSafe(n)
  <2>1. WinSafe(w)
    BY <1>4, <1>6 DEF WinInv, WinSafe
  <2>2. w.main = "idle" /\ n.main = "idle" /\ ~Full(w)
    BY <1>4, <2>1 DEF WinSafe, Threads, Busy
  <2>3. Order(w) /\ w.keyevents[w.tail] = e
    BY <2>1 DEF WinSafe, Threads, e, t
  <2>4. Order(n)
    BY <1>0, <1>1, <1>4, <2>2, <2>3, Lengthens
  <2>5. Threads(n)
    <3>1. n.ui # "store" /\ n.ui # "advance"
      BY <1>4
    <3>. QED BY <1>4, <2>1, <2>2, <3>1 DEF WinSafe, Threads, Busy
  <2>0. 1 \in DOMAIN t
    BY <1>1
  <2>6. ASSUME NEW i \in DOMAIN t, NEW k \in Modifiers
        PROVE  (t[i] = Pressed(k) => k \in w.pressed) /\ (t[i] = Released(k) => k \notin w.pressed)
    BY <2>1 DEF WinSafe, Flagged, t
  <2>7. Flagged(n)
    <3>1. ASSUME NEW i \in DOMAIN r, NEW k \in Modifiers
          PROVE  /\ r[i] = Pressed(k) => k \in w.pressed
                 /\ r[i] = Released(k) => k \notin w.pressed
      <4>1. i + 1 \in DOMAIN t /\ r[i] = t[i + 1]
        BY <1>1
      <4>. QED BY <2>6, <4>1
    <3>. QED BY <1>4, <2>2, <3>1 DEF Flagged
  <2>8. InStep(n)
    <3>1. SUFFICES ASSUME NEW k \in Modifiers, k \notin n.lost, Settled(n, k)
                   PROVE  (k \in w.pressed) = DownAfter(k, w.handed, Append(w.owed, e))
      BY <1>4, Zenon DEF InStep
    <3>2. CASE e = Pressed(k)
      <4>1. (k \in w.pressed) = TRUE
        <5>1. k \in w.pressed
          BY <1>1, <2>0, <2>6, <3>2, Zenon
        <5>. QED BY <5>1
      <4>2. DownAfter(k, w.handed, Append(w.owed, e)) = TRUE
        BY <1>0, <1>1, <3>2, DownAppend
      <4>. QED BY <4>1, <4>2, Zenon
    <3>3. CASE e = Released(k)
      <4>1. (k \in w.pressed) = FALSE
        <5>1. k \notin w.pressed
          BY <1>1, <2>0, <2>6, <3>3, Zenon
        <5>. QED BY <5>1
      <4>2. DownAfter(k, w.handed, Append(w.owed, e)) = FALSE
        BY <1>0, <1>1, <3>3, DownAppend
      <4>. QED BY <4>1, <4>2, Zenon
    <3>4. CASE e \notin {Pressed(k), Released(k)}
      <4>1. ASSUME NEW i \in DOMAIN t PROVE t[i] \notin {Pressed(k), Released(k)}
        <5>1. CASE i = 1
          BY <1>1, <3>4, <5>1
        <5>2. CASE i # 1
          <6>1. i - 1 \in DOMAIN r /\ r[i - 1] = t[i]
            BY <1>1, <5>2
          <6>. QED BY <1>4, <3>1, <6>1 DEF Settled
        <5>. QED BY <5>1, <5>2
      <4>2. Settled(w, k)
        BY <2>2, <4>1 DEF Settled, t
      <4>3. k \notin w.lost
        <5>1. e.key # k
          <6>1. SUFFICES ASSUME e.key = k PROVE FALSE
            OBVIOUS
          <6>2. k # "NONE"
            BY ModifierKeys
          <6>3. \/ \E j \in Keys : e = Pressed(j) \/ e = Released(j)
                \/ \E b \in SUBSET Held : e = MOUSE_PRESSED(b)
                \/ e = FOCUS_CHANGED \/ e = TOOLBAR_CLICKED
            BY <1>1, Zenon DEF EVENT
          <6>4. ASSUME NEW j \in Keys, e = Pressed(j) \/ e = Released(j) PROVE FALSE
            <7>1. e.key = j
              BY <6>4, EventFields, Zenon
            <7>. QED BY <3>4, <6>1, <6>4, <7>1
          <6>5. ASSUME e.key = "NONE" PROVE FALSE
            BY <6>1, <6>2, <6>5
          <6>6. ASSUME NEW b \in SUBSET Held, e = MOUSE_PRESSED(b) PROVE e.key = "NONE"
            BY <6>6, EventFields, Zenon
          <6>7. e = FOCUS_CHANGED \/ e = TOOLBAR_CLICKED => e.key = "NONE"
            BY EventFields, Zenon
          <6>. QED BY <6>3, <6>4, <6>5, <6>6, <6>7, Zenon
        <5>. QED BY <1>4, <3>1, <5>1
      <4>4. (k \in w.pressed) = DownAfter(k, w.handed, w.owed)
        BY <2>1, <4>2, <4>3, Zenon DEF WinSafe, InStep
      <4>5. DownAfter(k, w.handed, Append(w.owed, e)) = DownAfter(k, w.handed, w.owed)
        BY <1>0, <1>1, <3>4, DownAppend
      <4>. QED BY <4>4, <4>5, Zenon
    <3>. QED BY <3>2, <3>3, <3>4, Zenon
  <2>. QED BY <2>4, <2>5, <2>7, <2>8 DEF WinSafe
<1>9. n.handed \subseteq n.guest
  BY <1>4 DEF WinInv
<1>. QED BY <1>4, <1>5, <1>6, <1>9, OverlapKeeps DEF n

\* Every step of the thread of the window in enq_key_event.
LEMMA UiStepKeeps ==
    ASSUME NEW w, WinInv(w), w.ui # "idle"
    PROVE  WinInv(Overlap(UiStep(w)))
<1>1. w.ui \in Steps
  BY DEF WinInv, WIN
<1>2. CASE w.ui = "check"
  BY <1>2, CheckKeeps DEF UiStep
<1>3. CASE w.ui = "store"
  BY <1>3, StoreStep DEF UiStep
<1>4. CASE w.ui = "advance"
  BY <1>4, AdvanceStep DEF UiStep
<1>. QED BY <1>1, <1>2, <1>3, <1>4 DEF Steps
\* The main thread.
LEMMA FullscreenKeeps ==
    ASSUME NEW w, WinInv(w), w.main = "idle", w.keyCS # "main"
    PROVE  WinInv(Overlap(MainFullscreen(w)))
<1>. DEFINE n == MainFullscreen(w)
<1>0. w \in WIN /\ w.pressed \in SUBSET Modifiers
  BY DEF WinInv, WIN
<1>1. n = [w EXCEPT !.queryFullScreen = TRUE, !.pressed = @ \ {"ALT_L"}, !.main = "check"]
  BY DEF MainFullscreen
<1>. HIDE DEF n
<1>2. /\ n \in WIN /\ n.keyevents = w.keyevents /\ n.head = w.head /\ n.tail = w.tail
      /\ n.taken = w.taken /\ n.owed = w.owed /\ n.handed = w.handed /\ n.guest = w.guest
      /\ n.main = "check" /\ n.raced = w.raced
      /\ n.todo = w.todo /\ n.lost = w.lost /\ n.pressed = w.pressed \ {"ALT_L"}
      /\ n.ui = w.ui /\ n.keyCS = w.keyCS
  BY <1>0, <1>1 DEF WIN, Steps
<1>3. (n.ui = "idle") = (n.todo = <<>>)
  BY <1>2 DEF WinInv
<1>4. ASSUME ~n.raced, n.ui = "idle" \/ n.main = "idle" PROVE WinSafe(n)
  <2>1. WinSafe(w)
    BY <1>2, <1>4 DEF WinInv, WinSafe
  <2>2. n.ui = "idle" /\ w.todo = <<>>
    BY <1>2, <1>4 DEF WinInv
  <2>3. Count(n) = Count(w) /\ Read(n) = Read(w)
    BY <1>2 DEF Count, Read
  <2>4. Order(n)
    BY <1>2, <2>1, <2>3, Zenon DEF WinSafe, Order
  <2>5. Threads(n)
    BY <1>2, <2>1, <2>2 DEF WinSafe, Threads, Busy
  <2>6. Flagged(n)
    BY <1>2, <2>2 DEF Flagged
  <2>7. InStep(n)
    <3>1. SUFFICES ASSUME NEW k \in Modifiers, k \notin w.lost, Settled(n, k)
                   PROVE  (k \in n.pressed) = DownAfter(k, w.handed, w.owed)
      BY <1>2, Zenon DEF InStep
    <3>2. k # "ALT_L"
      BY <1>2, <3>1 DEF Settled
    <3>3. Settled(w, k)
      BY <2>2 DEF Settled
    <3>4. (k \in w.pressed) = DownAfter(k, w.handed, w.owed)
      BY <2>1, <3>1, <3>3, Zenon DEF WinSafe, InStep
    <3>5. (k \in n.pressed) = (k \in w.pressed)
      BY <1>2, <3>2
    <3>. QED BY <3>4, <3>5, Zenon
  <2>. QED BY <2>4, <2>5, <2>6, <2>7 DEF WinSafe
<1>9. n.handed \subseteq n.guest
  BY <1>2 DEF WinInv
<1>. QED BY <1>2, <1>3, <1>4, <1>9, OverlapKeeps DEF n

\* The event the main thread enqueues is one of a modifier.
LEMMA AltIs == "ALT_L" \in Modifiers /\ "ALT_L" \in Keys /\ Released("ALT_L") \in EVENT
<1>1. "ALT_L" \in Modifiers /\ "ALT_L" \in Keys
  BY ModifierKeys DEF Modifiers
<1>. QED BY <1>1, EventTypes, Zenon

\* Every step of the main thread in enq_key_event.
LEMMA MainStepKeeps ==
    ASSUME NEW w, WinInv(w), w.main # "idle"
    PROVE  WinInv(Overlap(MainStep(w)))
<1>. DEFINE n == MainStep(w)
<1>0. w \in WIN /\ w.main \in Steps /\ w.lost \in SUBSET Modifiers /\ w.tail \in Slots
      /\ w.owed \in Seq(EVENT)
  BY DEF WinInv, WIN
<1>e. PICK e \in EVENT : e = Released("ALT_L")
  BY AltIs
<1>1. CASE w.main = "check" /\ Full(w)
  <2>1. n = [w EXCEPT !.main = "idle", !.lost = @ \cup {"ALT_L"}]
    BY <1>1 DEF MainStep
  <2>. HIDE DEF n
  <2>2. /\ n \in WIN /\ n.keyevents = w.keyevents /\ n.head = w.head /\ n.tail = w.tail
        /\ n.taken = w.taken /\ n.owed = w.owed /\ n.handed = w.handed /\ n.guest = w.guest
        /\ n.main = "idle" /\ n.raced = w.raced
        /\ n.todo = w.todo /\ n.lost = w.lost \cup {"ALT_L"} /\ n.pressed = w.pressed
        /\ n.ui = w.ui /\ n.keyCS = w.keyCS
    BY <1>0, <2>1, AltIs DEF WIN, Steps
  <2>3. (n.ui = "idle") = (n.todo = <<>>)
    BY <2>2 DEF WinInv
  <2>4. ASSUME ~n.raced PROVE WinSafe(n)
    <3>1. WinSafe(w)
      BY <2>2, <2>4 DEF WinInv, WinSafe
    <3>2. w.ui = "idle" /\ w.todo = <<>>
      BY <3>1 DEF WinInv, WinSafe, Threads
    <3>3. Count(n) = Count(w) /\ Read(n) = Read(w)
      BY <2>2 DEF Count, Read
    <3>4. Order(n)
      BY <2>2, <3>1, <3>3, Zenon DEF WinSafe, Order
    <3>5. Threads(n)
      BY <2>2, <3>1, <3>2 DEF WinSafe, Threads, Busy
    <3>6. Flagged(n)
      BY <2>2, <3>2 DEF Flagged
    <3>7. InStep(n)
      <4>1. SUFFICES ASSUME NEW k \in Modifiers, k \notin n.lost
                     PROVE  (k \in w.pressed) = DownAfter(k, w.handed, w.owed)
        BY <2>2, Zenon DEF InStep
      <4>2. Settled(w, k) /\ k \notin w.lost
        BY <2>2, <3>2, <4>1 DEF Settled
      <4>. QED BY <3>1, <4>2, Zenon DEF WinSafe, InStep
    <3>. QED BY <3>4, <3>5, <3>6, <3>7 DEF WinSafe
  <2>9. n.handed \subseteq n.guest
    BY <2>2 DEF WinInv
  <2>. QED BY <2>2, <2>3, <2>4, <2>9, OverlapKeeps DEF n
<1>2. CASE w.main = "check" /\ ~Full(w)
  <2>1. n = [w EXCEPT !.main = "store"]
    BY <1>2 DEF MainStep
  <2>. HIDE DEF n
  <2>2. /\ n \in WIN /\ n.keyevents = w.keyevents /\ n.head = w.head /\ n.tail = w.tail
        /\ n.taken = w.taken /\ n.owed = w.owed /\ n.handed = w.handed /\ n.guest = w.guest
        /\ n.main = "store" /\ n.raced = w.raced
        /\ n.todo = w.todo /\ n.lost = w.lost /\ n.pressed = w.pressed
        /\ n.ui = w.ui /\ n.keyCS = w.keyCS
    BY <1>0, <2>1 DEF WIN, Steps
  <2>3. (n.ui = "idle") = (n.todo = <<>>)
    BY <2>2 DEF WinInv
  <2>4. ASSUME ~n.raced PROVE WinSafe(n)
    <3>1. WinSafe(w)
      BY <2>2, <2>4 DEF WinInv, WinSafe
    <3>2. w.ui = "idle" /\ w.todo = <<>>
      BY <3>1 DEF WinInv, WinSafe, Threads
    <3>3. Count(n) = Count(w) /\ Read(n) = Read(w) /\ ~Full(n)
      BY <1>2, <2>2 DEF Count, Read, Full
    <3>4. Order(n)
      BY <2>2, <3>1, <3>3, Zenon DEF WinSafe, Order
    <3>5. Threads(n)
      BY <1>2, <2>2, <3>1, <3>2, <3>3 DEF WinSafe, Threads
    <3>6. Flagged(n)
      BY <1>2, <2>2, <3>1, <3>2 DEF WinSafe, Flagged
    <3>7. InStep(n)
      <4>1. SUFFICES ASSUME NEW k \in Modifiers, k \notin w.lost, Settled(n, k)
                     PROVE  (k \in w.pressed) = DownAfter(k, w.handed, w.owed)
        BY <2>2, Zenon DEF InStep
      <4>2. Settled(w, k)
        BY <1>2, <2>2, <4>1 DEF Settled
      <4>. QED BY <3>1, <4>1, <4>2, Zenon DEF WinSafe, InStep
    <3>. QED BY <3>4, <3>5, <3>6, <3>7 DEF WinSafe
  <2>9. n.handed \subseteq n.guest
    BY <2>2 DEF WinInv
  <2>. QED BY <2>2, <2>3, <2>4, <2>9, OverlapKeeps DEF n
<1>3. CASE w.main = "store"
  <2>1. n = [w EXCEPT !.keyevents = [@ EXCEPT ![w.tail] = e], !.main = "advance"]
    BY <1>3, <1>e DEF MainStep
  <2>. HIDE DEF n
  <2>2. /\ n \in WIN /\ n.keyevents = [w.keyevents EXCEPT ![w.tail] = e]
        /\ n.head = w.head /\ n.tail = w.tail
        /\ n.taken = w.taken /\ n.owed = w.owed /\ n.handed = w.handed /\ n.guest = w.guest
        /\ n.main = "advance" /\ n.raced = w.raced
        /\ n.todo = w.todo /\ n.lost = w.lost /\ n.pressed = w.pressed
        /\ n.ui = w.ui /\ n.keyCS = w.keyCS
    BY <1>0, <1>e, <2>1 DEF WIN, Steps
  <2>3. (n.ui = "idle") = (n.todo = <<>>)
    BY <2>2 DEF WinInv
  <2>4. ASSUME ~n.raced PROVE WinSafe(n)
    <3>1. WinSafe(w)
      BY <2>2, <2>4 DEF WinInv, WinSafe
    <3>2. w.ui = "idle" /\ w.todo = <<>>
      BY <1>3, <3>1 DEF WinInv, WinSafe, Threads
    <3>3. ~Full(w) /\ ~Full(n) /\ Order(w) /\ (w.taken # Nothing => After(w.taken) = w.head)
      BY <1>3, <2>2, <3>1 DEF WinSafe, Threads, Busy, Full
    <3>4. Order(n) /\ n.keyevents[n.tail] = e
      <4>1. w \in WIN
        BY <1>0
      <4>2. n \in WIN
        BY <2>2
      <4>3. n.keyevents = [w.keyevents EXCEPT ![w.tail] = e]
        BY <2>2
      <4>4. n.head = w.head /\ n.taken = w.taken /\ n.tail = w.tail /\ n.owed = w.owed
        BY <2>2
      <4>5. Order(w) /\ ~Full(w) /\ (w.taken # Nothing => After(w.taken) = w.head)
        BY <3>3
      <4>6. /\ n.keyevents[w.tail] = e
            /\ \A i \in Slots : i # w.tail => n.keyevents[i] = w.keyevents[i]
        BY <1>0, <4>3 DEF WIN
      <4>. QED BY <4>1, <4>2, <4>4, <4>5, <4>6, StoreKeeps
    <3>5. Threads(n)
      BY <1>3, <1>e, <2>2, <3>1, <3>2, <3>3, <3>4 DEF WinSafe, Threads
    <3>6. Flagged(n)
      BY <1>3, <2>2, <3>1, <3>2 DEF WinSafe, Flagged
    <3>7. InStep(n)
      <4>1. SUFFICES ASSUME NEW k \in Modifiers, k \notin w.lost, Settled(n, k)
                     PROVE  (k \in w.pressed) = DownAfter(k, w.handed, w.owed)
        BY <2>2, Zenon DEF InStep
      <4>2. Settled(w, k)
        BY <1>3, <2>2, <4>1 DEF Settled
      <4>. QED BY <3>1, <4>1, <4>2, Zenon DEF WinSafe, InStep
    <3>. QED BY <3>4, <3>5, <3>6, <3>7 DEF WinSafe
  <2>9. n.handed \subseteq n.guest
    BY <2>2 DEF WinInv
  <2>. QED BY <2>2, <2>3, <2>4, <2>9, OverlapKeeps DEF n
<1>4. CASE w.main = "advance"
  <2>1. n = [w EXCEPT !.tail = After(@), !.owed = Append(@, e), !.lost = @ \ {"ALT_L"},
                      !.main = "idle"]
    BY <1>4, <1>e DEF MainStep
  <2>0. After(w.tail) \in Slots /\ Append(w.owed, e) \in Seq(EVENT)
    BY <1>0, <1>e, AfterIs
  <2>. HIDE DEF n
  <2>2. /\ n \in WIN /\ n.keyevents = w.keyevents /\ n.head = w.head /\ n.tail = After(w.tail)
        /\ n.taken = w.taken /\ n.owed = Append(w.owed, e) /\ n.handed = w.handed /\ n.guest = w.guest
        /\ n.main = "idle" /\ n.raced = w.raced
        /\ n.todo = w.todo /\ n.lost = w.lost \ {"ALT_L"} /\ n.pressed = w.pressed
        /\ n.ui = w.ui /\ n.keyCS = w.keyCS
    BY <1>0, <2>0, <2>1 DEF WIN, Steps
  <2>3. (n.ui = "idle") = (n.todo = <<>>)
    BY <2>2 DEF WinInv
  <2>4. ASSUME ~n.raced PROVE WinSafe(n)
    <3>1. WinSafe(w)
      BY <2>2, <2>4 DEF WinInv, WinSafe
    <3>2. w.ui = "idle" /\ w.todo = <<>>
      BY <1>4, <3>1 DEF WinInv, WinSafe, Threads
    <3>3. ~Full(w) /\ Order(w) /\ w.keyevents[w.tail] = e
      BY <1>4, <1>e, <3>1 DEF WinSafe, Threads, Busy
    <3>4. Order(n)
      BY <1>0, <1>e, <2>2, <3>3, Lengthens
    <3>5. Threads(n)
      BY <1>4, <2>2, <3>1, <3>2 DEF WinSafe, Threads, Busy
    <3>6. Flagged(n)
      BY <2>2, <3>2 DEF Flagged
    <3>7. InStep(n)
      <4>1. SUFFICES ASSUME NEW k \in Modifiers, k \notin n.lost
                     PROVE  (k \in w.pressed) = DownAfter(k, w.handed, Append(w.owed, e))
        BY <2>2, Zenon DEF InStep
      <4>2. CASE k = "ALT_L"
        <5>1. (k \in w.pressed) = FALSE
          BY <1>4, <3>1, <4>2 DEF WinSafe, Flagged
        <5>2. DownAfter(k, w.handed, Append(w.owed, e)) = FALSE
          <6>1. e = Released(k)
            BY <1>e, <4>2
          <6>2. w.owed \in Seq(EVENT) /\ e \in EVENT
            BY <1>0, <1>e
          <6>3. e = Released(k) => DownAfter(k, w.handed, Append(w.owed, e)) = FALSE
            BY <6>2, DownAppend
          <6>. QED BY <6>1, <6>3, Zenon
        <5>. QED BY <5>1, <5>2, Zenon
      <4>3. CASE k # "ALT_L"
        <5>1. Settled(w, k) /\ k \notin w.lost
          BY <2>2, <3>2, <4>1, <4>3 DEF Settled
        <5>2. (k \in w.pressed) = DownAfter(k, w.handed, w.owed)
          BY <3>1, <5>1, Zenon DEF WinSafe, InStep
        <5>3. e \notin {Pressed(k), Released(k)}
          BY <1>e, <4>3, EventsDiffer, Zenon
        <5>4. DownAfter(k, w.handed, Append(w.owed, e)) = DownAfter(k, w.handed, w.owed)
          BY <1>0, <1>e, <5>3, DownAppend
        <5>. QED BY <5>2, <5>4, Zenon
      <4>. QED BY <4>2, <4>3
    <3>. QED BY <3>4, <3>5, <3>6, <3>7 DEF WinSafe
  <2>9. n.handed \subseteq n.guest
    BY <2>2 DEF WinInv
  <2>. QED BY <2>2, <2>3, <2>4, <2>9, OverlapKeeps DEF n
<1>. QED BY <1>0, <1>1, <1>2, <1>3, <1>4 DEF Steps

\* keyCS changes hands.
LEMMA LockKeeps ==
    ASSUME NEW w, WinInv(w), NEW c \in {"free", "main"}, w.main = "idle" \/ c = "free",
           ~w.raced => w.taken = Nothing
    PROVE  WinInv(Overlap([w EXCEPT !.keyCS = c]))
<1>. DEFINE n == [w EXCEPT !.keyCS = c]
<1>0. w \in WIN
  BY DEF WinInv
<1>1. n \in WIN /\ SameRing(w, n) /\ n.todo = w.todo /\ n.lost = w.lost
      /\ n.pressed = w.pressed /\ n.ui = w.ui /\ n.keyCS = c
  BY <1>0 DEF WIN, SameRing
<1>. HIDE DEF n
<1>2. (n.ui = "idle") = (n.todo = <<>>)
  BY <1>1 DEF WinInv
<1>3. ASSUME ~n.raced PROVE WinSafe(n)
  <2>1. WinSafe(w)
    BY <1>1, <1>3 DEF WinInv, WinSafe, SameRing
  <2>2. Count(n) = Count(w) /\ Read(n) = Read(w) /\ (Full(n) <=> Full(w)) /\ (Busy(n) <=> Busy(w))
    BY <1>1 DEF Count, Read, SameRing, Full, Busy
  <2>3. Order(n)
    BY <1>1, <2>1, <2>2, Zenon DEF WinSafe, Order, SameRing
  <2>4. Threads(n)
    BY <1>1, <1>3, <2>1, <2>2 DEF WinSafe, Threads, SameRing
  <2>5. Flagged(n) /\ InStep(n)
    BY <1>1, <2>1, SameFlags DEF WinSafe, SameRing
  <2>. QED BY <2>3, <2>4, <2>5 DEF WinSafe
<1>9. n.handed \subseteq n.guest
  BY <1>1 DEF WinInv, Begins, SameRing, Aside
<1>. QED BY <1>1, <1>2, <1>3, <1>9, OverlapKeeps DEF n

\* deq_key_event, which gives the slot back before it has been read.
LEMMA TakeStep ==
    ASSUME NEW w, WinInv(w), w.keyCS = "main", w.taken = Nothing, w.head # w.tail
    PROVE  WinInv(Overlap(deq_key_event(w)))
<1>. DEFINE n == deq_key_event(w)
<1>0. w \in WIN /\ w.head \in Slots /\ After(w.head) \in Slots
  BY AfterIs DEF WinInv, WIN
<1>1. n = [w EXCEPT !.taken = w.head, !.head = After(w.head)]
  BY DEF deq_key_event
<1>. HIDE DEF n
<1>2. /\ n \in WIN /\ n.keyevents = w.keyevents /\ n.head = After(w.head) /\ n.tail = w.tail
      /\ n.taken = w.head /\ n.owed = w.owed /\ n.handed = w.handed /\ n.guest = w.guest
      /\ n.main = w.main /\ n.raced = w.raced
      /\ n.todo = w.todo /\ n.lost = w.lost /\ n.pressed = w.pressed
      /\ n.ui = w.ui /\ n.keyCS = w.keyCS
  BY <1>0, <1>1 DEF WIN
<1>3. (n.ui = "idle") = (n.todo = <<>>)
  BY <1>2 DEF WinInv
<1>4. ASSUME ~n.raced PROVE WinSafe(n)
  <2>1. WinSafe(w)
    BY <1>2, <1>4 DEF WinInv, WinSafe
  <2>2. Order(w)
    BY <2>1 DEF WinSafe
  <2>3. Order(n) /\ ~Full(n) /\ After(n.taken) = n.head
    BY <1>0, <1>2, <2>2, TakeKeeps
  <2>4. Threads(n)
    BY <1>2, <2>1, <2>3 DEF WinSafe, Threads
  <2>5. Flagged(n) /\ InStep(n)
    BY <1>2, <2>1, SameFlags DEF WinSafe
  <2>. QED BY <2>3, <2>4, <2>5 DEF WinSafe
<1>9. n.handed \subseteq n.guest
  BY <1>2 DEF WinInv
<1>. QED BY <1>2, <1>3, <1>4, <1>9, OverlapKeeps DEF n

\* handle_event, which reads the slot that was given back.
LEMMA DeliverStep ==
    ASSUME NEW w, WinInv(w), w.taken # Nothing
    PROVE  WinInv(Overlap(handle_event(w)))
<1>. DEFINE n == handle_event(w)
            g == Told(w.handed, w.keyevents[w.taken])
            u == Ps2GenerateScancode(w.guest, w.keyevents[w.taken])
            o == IF w.owed = <<>> THEN w.owed ELSE Tail(w.owed)
<1>0. w \in WIN /\ w.handed \in SUBSET Modifiers /\ w.guest \in SUBSET Modifiers /\ w.owed \in Seq(EVENT)
      /\ w.keyevents[w.taken] \in EVENT
  BY DEF WinInv, WIN
<1>1. n = [w EXCEPT !.handed = g, !.guest = u, !.taken = Nothing, !.owed = o]
  BY DEF handle_event
<1>2. g \in SUBSET Modifiers /\ o \in Seq(EVENT) /\ u \in SUBSET Modifiers /\ g \subseteq u
  <2>1. g \in SUBSET Modifiers
    BY <1>0, ToldType
  <2>2. o \in Seq(EVENT)
    BY <1>0
  <2>3. u \in SUBSET Modifiers
    BY <1>0 DEF Ps2GenerateScancode
  <2>4. g \subseteq u
    BY DEF WinInv, Told, Ps2GenerateScancode
  <2>. QED BY <2>1, <2>2, <2>3, <2>4
<1>. HIDE DEF n, g, o, u
<1>3. /\ n \in WIN /\ n.keyevents = w.keyevents /\ n.head = w.head /\ n.tail = w.tail
      /\ n.taken = Nothing /\ n.owed = o /\ n.handed = g /\ n.guest = u
      /\ n.main = w.main /\ n.raced = w.raced
      /\ n.todo = w.todo /\ n.lost = w.lost /\ n.pressed = w.pressed
      /\ n.ui = w.ui /\ n.keyCS = w.keyCS
  BY <1>0, <1>1, <1>2 DEF WIN
<1>4. (n.ui = "idle") = (n.todo = <<>>)
  BY <1>3 DEF WinInv
<1>5. ASSUME ~n.raced PROVE WinSafe(n)
  <2>1. WinSafe(w)
    BY <1>3, <1>5 DEF WinInv, WinSafe
  <2>2. Order(w)
    BY <2>1 DEF WinSafe
  <2>3. w.owed # <<>> /\ o = Tail(w.owed) /\ w.owed[1] = w.keyevents[w.taken]
    <3>1. Count(w) \in Nat /\ Read(w) = 1
      BY <1>0, CountIs, RingAssumption DEF WIN, Read
    <3>2. Len(w.owed) > 0
      BY <2>2, <3>1 DEF Order
    <3>3. w.owed # <<>>
      BY <1>0, <3>2
    <3>. QED BY <2>2, <3>3 DEF Order, o
  <2>4. Order(n)
    BY <1>0, <1>3, <2>2, <2>3, DeliverKeeps
  <2>5. Threads(n)
    <3>1. (Full(n) <=> Full(w)) /\ (Busy(n) <=> Busy(w))
      BY <1>3 DEF Full, Busy
    <3>. QED BY <1>3, <2>1, <3>1 DEF WinSafe, Threads
  <2>6. Flagged(n)
    BY <1>3, <2>1 DEF WinSafe, Flagged
  <2>7. InStep(n)
    <3>1. SUFFICES ASSUME NEW k \in Modifiers, k \notin w.lost, Settled(n, k)
                   PROVE  (k \in w.pressed) = DownAfter(k, g, o)
      BY <1>3, Zenon DEF InStep
    <3>2. Settled(w, k)
      BY <1>3, <3>1 DEF Settled
    <3>3. (k \in w.pressed) = DownAfter(k, w.handed, w.owed)
      BY <2>1, <3>1, <3>2, Zenon DEF WinSafe, InStep
    <3>4. DownAfter(k, Told(w.handed, w.owed[1]), Tail(w.owed)) = DownAfter(k, w.handed, w.owed)
      BY <1>0, <2>3, DownTail
    <3>5. g = Told(w.handed, w.owed[1])
      BY <2>3 DEF g
    <3>. QED BY <2>3, <3>3, <3>4, <3>5, Zenon
  <2>. QED BY <2>4, <2>5, <2>6, <2>7 DEF WinSafe
<1>. QED BY <1>2, <1>3, <1>4, <1>5, OverlapKeeps DEF n
-----------------------------------------------------------------------------
(***************************************************************************)
(* The invariant of the input side.                                        *)
(***************************************************************************)

\* The invariant of the input holds at first.
LEMMA WinInit == Init => WinOK /\ session \in Sessions
<1>. SUFFICES ASSUME Init PROVE WinOK /\ session \in Sessions
  OBVIOUS
<1>. DEFINE w == Win32GuiSpecificInit
<1>1. Pressed("NONE") \in EVENT
  BY EventTypes, ModifierKeys, Zenon
<1>2. 0 \in Slots /\ 0 # Nothing
  BY RingAssumption DEF Slots, Nothing
<1>3. /\ w \in WIN /\ w.ui = "idle" /\ w.main = "idle" /\ w.todo = <<>> /\ w.owed = <<>>
      /\ w.taken = Nothing /\ w.head = 0 /\ w.tail = 0 /\ w.pressed = {} /\ w.handed = {}
  BY <1>1, <1>2 DEF Win32GuiSpecificInit, WIN, Steps
<1>. HIDE DEF w
<1>4. Count(w) = 0 /\ Read(w) = 0 /\ ~Busy(w)
  BY <1>3 DEF Count, Read, Busy
<1>5. Threads(w)
  BY <1>3, <1>4 DEF Threads
<1>6. Order(w)
  BY <1>3, <1>4 DEF Order
<1>7. Flagged(w)
  BY <1>3 DEF Flagged
<1>8. ASSUME NEW k PROVE (k \in w.pressed) = DownAfter(k, w.handed, w.owed)
  <2>1. ~DownAfter(k, w.handed, w.owed)
    BY <1>3 DEF DownAfter
  <2>2. (k \in w.pressed) = FALSE
    BY <1>3
  <2>. QED BY <2>1, <2>2, Zenon DEF DownAfter
<1>9. InStep(w)
  BY <1>8, Zenon DEF InStep
<1>10. WinInv(w)
  BY <1>3, <1>5, <1>6, <1>7, <1>9 DEF WinInv
<1>. QED BY <1>10 DEF Init, WinOK, w

\* Every step keeps the invariant of the input.
LEMMA WinNext == WinOK /\ session \in Sessions /\ [Next]_vars => WinOK' /\ (session \in Sessions)'
<1>. SUFFICES ASSUME WinOK, session \in Sessions, [Next]_vars
              PROVE  WinOK' /\ (session \in Sessions)'
  OBVIOUS
<1>0. /\ WinInv(win) /\ buttons \subseteq Held /\ win \in WIN
      /\ win.ui = "idle" => win.todo = <<>>
  BY DEF WinOK, WinInv
<1>1. ASSUME NEW m, Become(m) PROVE win' = win /\ buttons' = buttons /\ session' = session
  BY <1>1 DEF Become
<1>2. CASE UNCHANGED vars
  BY <1>2 DEF vars, WinOK
<1>3. ASSUME win' = win, buttons' = buttons, session' = session
      PROVE  WinOK' /\ (session \in Sessions)'
  BY <1>3 DEF WinOK
<1>4. ASSUME NEW n, Input(n), WinInv(Overlap(n)), buttons' \subseteq Held
      PROVE  WinOK' /\ (session \in Sessions)'
  BY <1>4 DEF WinOK, Input
<1>5. ASSUME NEW n, Input(n), Begins(win, n), Idle, buttons' \subseteq Held
      PROVE  WinOK' /\ (session \in Sessions)'
  <2>1. WinInv(Overlap(n))
    BY <1>0, <1>5, BeginsKeeps DEF Idle
  <2>. QED BY <1>4, <1>5, <2>1
<1>6. session.buttons \subseteq Held /\ session.keys \subseteq Keys
  <2>1. session.buttons \subseteq Held
    BY DisplayAssumption DEF Held
  <2>2. session.keys \subseteq Keys
    BY DEF Keys
  <2>. QED BY <2>1, <2>2
<1>7. ASSUME NEW key \in session.keys, KeyDown(key) PROVE WinOK' /\ (session \in Sessions)'
  <2>1. key \in Keys /\ Idle /\ Input(WM_KEYDOWN(win, key)) /\ buttons' \subseteq Held
        /\ win.ui = "idle" /\ win.keyCS = "free"
    BY <1>0, <1>6, <1>7 DEF KeyDown, Idle, Free
  <2>2. Begins(win, WM_KEYDOWN(win, key))
    BY <1>0, <2>1, KeyDownBegins
  <2>. QED BY <1>5, <2>1, <2>2
<1>8. ASSUME NEW key \in session.keys, KeyUp(key) PROVE WinOK' /\ (session \in Sessions)'
  <2>1. key \in Keys /\ Idle /\ Input(WM_KEYUP(win, key)) /\ buttons' \subseteq Held
        /\ win.ui = "idle" /\ win.keyCS = "free"
    BY <1>0, <1>6, <1>8 DEF KeyUp, Idle, Free
  <2>2. Begins(win, WM_KEYUP(win, key))
    BY <1>0, <2>1, KeyUpBegins
  <2>. QED BY <1>5, <2>1, <2>2
<1>9. ASSUME NEW b \in session.buttons, Button(b) PROVE WinOK' /\ (session \in Sessions)'
  <2>. DEFINE h == Toggled(buttons, {b})
              n == CASE b = "MBUTTON" -> WM_MBUTTON(win, h, b \in h)
                     [] b = "LBUTTON" -> WM_LBUTTON(win, h)
                     [] OTHER -> WM_RBUTTON(win, h)
  <2>1. b \in Held /\ Idle /\ Input(n) /\ buttons' = h /\ win.ui = "idle" /\ win.keyCS = "free"
    BY <1>6, <1>9, Zenon DEF Button, Idle, Free
  <2>2. h \in SUBSET Held
    BY <1>0, <2>1 DEF Toggled
  <2>. HIDE DEF h
  <2>3. PICK d \in BOOLEAN : d = (b \in h)
    <3>1. (b \in h) = TRUE \/ (b \in h) = FALSE
      OBVIOUS
    <3>. QED BY <3>1, Zenon
  <2>4. /\ b = "MBUTTON" => Begins(win, WM_MBUTTON(win, h, d))
        /\ b = "LBUTTON" => Begins(win, WM_LBUTTON(win, h))
        /\ b = "RBUTTON" => Begins(win, WM_RBUTTON(win, h))
    BY <1>0, <2>1, <2>2, ButtonBegins
  <2>5. b \in {"MBUTTON", "LBUTTON", "RBUTTON"}
    BY <2>1 DEF Held, MouseButtons
  <2>6. b = "MBUTTON" => n = WM_MBUTTON(win, h, d)
    BY <2>3
  <2>7. (b = "LBUTTON" => n = WM_LBUTTON(win, h)) /\ (b = "RBUTTON" => n = WM_RBUTTON(win, h))
    OBVIOUS
  <2>. HIDE DEF n
  <2>8. Begins(win, n)
    BY <2>4, <2>5, <2>6, <2>7
  <2>. QED BY <1>5, <2>1, <2>2, <2>8
<1>10. ASSUME NEW h \in SUBSET session.buttons, Move(h) PROVE WinOK' /\ (session \in Sessions)'
  <2>1. h \in SUBSET Held /\ Idle /\ Input(WM_MOUSEMOVE(win, h)) /\ buttons' = h
        /\ win.ui = "idle" /\ win.keyCS = "free"
    BY <1>6, <1>10 DEF Move, Idle, Free
  <2>2. "LBUTTON" \in Held
    BY DEF Held, MouseButtons
  <2>3. Begins(win, WM_MOUSEMOVE(win, h))
    BY <1>0, <2>1, <2>2, ButtonBegins
  <2>. QED BY <1>5, <2>1, <2>3
<1>11. ASSUME Click \/ KillFocus \/ AltEnter PROVE WinOK' /\ (session \in Sessions)'
  <2>1. Idle /\ win.ui = "idle" /\ buttons' \subseteq Held
    BY <1>0, <1>11 DEF Click, KillFocus, AltEnter, Idle
  <2>2. /\ win.keyCS = "free" => Begins(win, WM_COMMAND(win))
        /\ Begins(win, WM_KILLFOCUS(win)) /\ Begins(win, set_fullscreen_mode(win))
    BY <1>0, <2>1, OthersBegin
  <2>3. CASE Click
    BY <1>5, <2>1, <2>2, <2>3 DEF Click, Free
  <2>4. CASE KillFocus
    BY <1>5, <2>1, <2>2, <2>4 DEF KillFocus
  <2>5. CASE AltEnter
    BY <1>5, <2>1, <2>2, <2>5 DEF AltEnter
  <2>. QED BY <1>11, <2>3, <2>4, <2>5
<1>12. ASSUME Enqueue PROVE WinOK' /\ (session \in Sessions)'
  <2>1. win.ui # "idle" /\ Input(UiStep(win)) /\ buttons' \subseteq Held
    BY <1>0, <1>12 DEF Enqueue, Idle
  <2>. QED BY <1>0, <1>4, <2>1, UiStepKeeps
<1>13. ASSUME Fullscreen PROVE WinOK' /\ (session \in Sessions)'
  <2>1. win.main = "idle" /\ win.keyCS # "main" /\ Input(MainFullscreen(win)) /\ buttons' \subseteq Held
    BY <1>0, <1>13 DEF Fullscreen
  <2>. QED BY <1>0, <1>4, <2>1, FullscreenKeeps
<1>14. ASSUME EnqueueMain PROVE WinOK' /\ (session \in Sessions)'
  <2>1. win.main # "idle" /\ Input(MainStep(win)) /\ buttons' \subseteq Held
    BY <1>0, <1>14 DEF EnqueueMain
  <2>. QED BY <1>0, <1>4, <2>1, MainStepKeeps
<1>15. ASSUME HandleEvents \/ HandledEvents PROVE WinOK' /\ (session \in Sessions)'
  <2>1. PICK c \in {"free", "main"} : /\ Input([win EXCEPT !.keyCS = c]) /\ buttons' \subseteq Held
                                      /\ win.main = "idle" \/ c = "free"
    BY <1>0, <1>15 DEF HandleEvents, HandledEvents
  <2>2. ~win.raced => win.taken = Nothing
    BY <1>0, <1>15 DEF HandleEvents, HandledEvents, Free, WinInv, Threads
  <2>. QED BY <1>0, <1>4, <2>1, <2>2, LockKeeps
<1>16. ASSUME Take PROVE WinOK' /\ (session \in Sessions)'
  <2>1. /\ win.keyCS = "main" /\ win.taken = Nothing /\ win.head # win.tail
        /\ Input(deq_key_event(win)) /\ buttons' \subseteq Held
    BY <1>0, <1>16 DEF Take
  <2>. QED BY <1>0, <1>4, <2>1, TakeStep
<1>17. ASSUME Deliver PROVE WinOK' /\ (session \in Sessions)'
  <2>1. win.taken # Nothing /\ Input(handle_event(win)) /\ buttons' \subseteq Held
    BY <1>0, <1>17 DEF Deliver
  <2>. QED BY <1>0, <1>4, <2>1, DeliverStep
<1>18. ASSUME NEW port, NEW value, OutByte(port, value) PROVE WinOK' /\ (session \in Sessions)'
  BY <1>1, <1>3, <1>18, Zenon DEF OutByte
<1>19. ASSUME NEW i, NEW d, NEW x, NEW v, OutWord(i, d, x, v) PROVE WinOK' /\ (session \in Sessions)'
  BY <1>1, <1>3, <1>19, Zenon DEF OutWord
<1>20. ASSUME NEW port, InByte(port) PROVE WinOK' /\ (session \in Sessions)'
  BY <1>1, <1>3, <1>20, Zenon DEF InByte
<1>21. ASSUME NEW a, NEW b, VgaCoreMMIOWriteHandler(a, b) PROVE WinOK' /\ (session \in Sessions)'
  BY <1>1, <1>3, <1>21, Zenon DEF VgaCoreMMIOWriteHandler
<1>22. ASSUME NEW a, VgaCoreMMIOReadHandler(a) PROVE WinOK' /\ (session \in Sessions)'
  BY <1>1, <1>3, <1>22, Zenon DEF VgaCoreMMIOReadHandler
<1>23. ASSUME Tick \/ UIThread \/ Paint PROVE WinOK' /\ (session \in Sessions)'
  BY <1>1, <1>3, <1>23, Zenon DEF Tick, UIThread, CreateBitmap, SetUIinited, ClearFirst, Reach, Paint
<1>24. ASSUME NEW t, Expose(t) PROVE WinOK' /\ (session \in Sessions)'
  BY <1>1, <1>3, <1>24, Zenon DEF Expose
<1>25. ASSUME Message PROVE WinOK' /\ (session \in Sessions)'
  BY <1>7, <1>8, <1>9, <1>10, <1>11, <1>25 DEF Message
<1>26. CASE Next
  BY <1>12, <1>13, <1>14, <1>15, <1>16, <1>17, <1>18, <1>19, <1>20, <1>21, <1>22, <1>23,
     <1>24, <1>25, <1>26, Zenon DEF Next
<1>. QED BY <1>2, <1>26

\* What the ring holds, one slot after the other.
LEMMA RingIs ==
    ASSUME NEW w \in WIN
    PROVE  /\ Ring(w) \in Seq(EVENT) /\ Len(Ring(w)) = Count(w) /\ Count(w) \in Nat
           /\ \A i \in 0..(Count(w) - 1) : Ring(w)[i + 1] = w.keyevents[Slot(w.head, i)]
<1>. DEFINE N == SCANCODE_BUFSIZE
            c == Count(w)
<1>1. /\ N \in Nat /\ N > 1 /\ w.head \in Slots /\ w.tail \in Slots
      /\ w.keyevents \in [Slots -> EVENT]
  BY RingAssumption DEF WIN
<1>2. c \in 0..(N - 1) /\ (w.tail - w.head + N) % N = c
  BY <1>1, CountIs
<1>. HIDE DEF c
<1>3. Ring(w) = [i \in 1..c |-> w.keyevents[(w.head + i - 1) % N]]
  BY <1>2 DEF Ring
<1>4. ASSUME NEW i \in 1..c
      PROVE  (w.head + i - 1) % N = Slot(w.head, i - 1) /\ Slot(w.head, i - 1) \in Slots
  <2>1. i - 1 \in 0..N /\ w.head + i - 1 = w.head + (i - 1)
    BY <1>1, <1>2 DEF Slots
  <2>2. (w.head + (i - 1)) % N = Slot(w.head, i - 1) /\ Slot(w.head, i - 1) \in Slots
    BY <1>1, <2>1, SlotIs
  <2>. QED BY <2>1, <2>2
<1>5. Ring(w) = [i \in 1..c |-> w.keyevents[Slot(w.head, i - 1)]]
  BY <1>3, <1>4
<1>6. \A i \in 1..c : w.keyevents[Slot(w.head, i - 1)] \in EVENT
  BY <1>1, <1>4
<1>7. Ring(w) \in Seq(EVENT) /\ Len(Ring(w)) = c
  BY <1>2, <1>5, <1>6
<1>8. ASSUME NEW i \in 0..(c - 1) PROVE Ring(w)[i + 1] = w.keyevents[Slot(w.head, i)]
  <2>1. i + 1 \in 1..c /\ (i + 1) - 1 = i
    BY <1>2
  <2>. QED BY <1>5, <2>1
<1>. QED BY <1>2, <1>7, <1>8 DEF c

\* What is owed is what is under way, if the ring is in order.
LEMMA OwedIsUnderway ==
    ASSUME NEW w \in WIN, Order(w)
    PROVE  w.owed = Underway(w)
<1>. DEFINE c == Count(w)
            r == Ring(w)
<1>1. /\ r \in Seq(EVENT) /\ Len(r) = c /\ c \in Nat
      /\ \A i \in 0..(c - 1) : r[i + 1] = w.keyevents[Slot(w.head, i)]
  BY RingIs
<1>2. /\ w.owed \in Seq(EVENT) /\ Len(w.owed) = Read(w) + c
      /\ w.taken # Nothing => w.owed[1] = w.keyevents[w.taken]
      /\ \A i \in 0..(c - 1) : w.owed[Read(w) + i + 1] = w.keyevents[Slot(w.head, i)]
  BY DEF Order, WIN
<1>3. w.taken # Nothing => w.keyevents[w.taken] \in EVENT
  BY DEF WIN
<1>4. Underway(w) = (IF w.taken = Nothing THEN <<>> ELSE <<w.keyevents[w.taken]>>) \o r
  BY DEF Underway
<1>. HIDE DEF c, r
<1>5. CASE w.taken = Nothing
  <2>1. Underway(w) = r
    BY <1>1, <1>4, <1>5
  <2>2. Read(w) = 0
    BY <1>5 DEF Read
  <2>3. \A j \in 1..c : w.owed[j] = r[j]
    <3>1. ASSUME NEW j \in 1..c PROVE w.owed[j] = r[j]
      <4>1. j - 1 \in 0..(c - 1) /\ (j - 1) + 1 = j /\ Read(w) + (j - 1) + 1 = j
        BY <1>1, <2>2
      <4>. QED BY <1>1, <1>2, <4>1
    <3>. QED BY <3>1
  <2>4. w.owed \in Seq(EVENT) /\ Len(w.owed) = c /\ r \in Seq(EVENT) /\ Len(r) = c
    BY <1>1, <1>2, <2>2
  <2>5. w.owed = r
    BY <2>3, <2>4
  <2>. QED BY <2>1, <2>5
<1>6. CASE w.taken # Nothing
  <2>. DEFINE e == w.keyevents[w.taken]
              u == <<e>> \o r
  <2>0. e \in EVENT
    BY <1>3, <1>6
  <2>1. Underway(w) = u
    BY <1>4, <1>6
  <2>2. Read(w) = 1
    BY <1>6 DEF Read
  <2>. HIDE DEF e
  <2>3. u \in Seq(EVENT) /\ Len(u) = c + 1 /\ u[1] = e /\ \A j \in 2..(c + 1) : u[j] = r[j - 1]
    BY <1>1, <2>0
  <2>. HIDE DEF u
  <2>4. \A j \in 1..(c + 1) : w.owed[j] = u[j]
    <3>1. ASSUME NEW j \in 1..(c + 1) PROVE w.owed[j] = u[j]
      <4>1. CASE j = 1
        BY <1>2, <1>6, <2>3, <4>1 DEF e
      <4>2. CASE j # 1
        <5>1. j \in 2..(c + 1) /\ j - 2 \in 0..(c - 1) /\ (j - 2) + 1 = j - 1 /\ Read(w) + (j - 2) + 1 = j
          BY <1>1, <2>2, <4>2
        <5>2. w.owed[j] = w.keyevents[Slot(w.head, j - 2)]
          BY <1>2, <5>1
        <5>3. r[j - 1] = w.keyevents[Slot(w.head, j - 2)]
          BY <1>1, <5>1
        <5>. QED BY <2>3, <5>1, <5>2, <5>3
      <4>. QED BY <4>1, <4>2
    <3>. QED BY <3>1
  <2>5. Len(w.owed) = c + 1
    BY <1>1, <1>2, <2>2
  <2>. QED BY <1>1, <1>2, <2>1, <2>3, <2>4, <2>5
<1>. QED BY <1>5, <1>6

\* The invariant of the input side holds throughout, whichever messages come
\* and however the two threads take turns in enq_key_event and handle_events.
THEOREM InputInvariant == Spec => [](WinOK /\ session \in Sessions)
<1>. DEFINE I == WinOK /\ session \in Sessions
<1>1. Init => I
  BY WinInit
<1>2. I /\ [Next]_vars => I'
  BY WinNext
<1>. HIDE DEF I
<1>3. Spec => []I
  BY <1>1, <1>2, PTL DEF Spec
<1>. QED BY <1>3 DEF I

\* Every event that enq_key_event got into the ring comes out of it once and in
\* order, for rings of any size, any keys and any interleaving of the two
\* threads in which they are not both in enq_key_event.
THEOREM EventsInOrderHolds == Spec => []EventsInOrder
<1>1. WinOK => EventsInOrder
  BY OwedIsUnderway DEF WinOK, WinInv, EventsInOrder
<1>. QED BY <1>1, InputInvariant, PTL

\* The last event of a modifier key that was passed on, or is in the ring, agrees
\* with the flags of enq_key_event, and of every key that is held the keyboard has
\* been given a make code or will be, for rings of any size and any interleaving of
\* the two threads.
THEOREM ModifiersInStepHolds == Spec => []ModifiersInStep
<1>1. WinOK => ModifiersInStep
  <2>. SUFFICES ASSUME WinOK, win.ui = "idle", win.main = "idle", ~win.raced,
                       NEW k \in Modifiers \ win.lost
                PROVE  /\ (k \in win.pressed) = DownAfter(k, win.handed, win.owed)
                       /\ k \in win.pressed =>
                              \/ k \in win.guest
                              \/ \E i \in DOMAIN win.owed : win.owed[i] = Pressed(k)
    BY Zenon DEF ModifiersInStep
  <2>1. InStep(win) /\ win.todo = <<>> /\ win.handed \subseteq win.guest
    BY DEF WinOK, WinInv
  <2>2. Settled(win, k)
    BY <2>1 DEF Settled
  <2>3. (k \in win.pressed) = DownAfter(k, win.handed, win.owed)
    BY <2>1, <2>2, Zenon DEF InStep
  <2>4. ASSUME k \in win.pressed
        PROVE  k \in win.guest \/ \E i \in DOMAIN win.owed : win.owed[i] = Pressed(k)
    <3>1. DownAfter(k, win.handed, win.owed)
      BY <2>3, <2>4
    <3>. QED BY <2>1, <3>1 DEF DownAfter
  <2>. QED BY <2>3, <2>4
<1>. QED BY <1>1, InputInvariant, PTL

\* The type invariant of the input side.
LEMMA WinTyped == WinOK => WinTypeOK(win)
BY DEF WinOK, WinInv, WIN, WinTypeOK

-----------------------------------------------------------------------------
\* What the copies depend on is left alone: the font, and the registers and the
\* values derived from them.
Plain(v, w) ==
    /\ w \in VGA
    /\ w.memory = v.memory /\ w.charmap_address = v.charmap_address
    /\ w.CRTC.reg = v.CRTC.reg /\ w.line_offset = v.line_offset
    /\ w.line_compare = v.line_compare /\ w.vertical_display_end = v.vertical_display_end

EFFECT == [redraw: BOOLEAN, charmap: BOOLEAN, clear: BOOLEAN, palette: BOOLEAN]
\* What a port write may do.
PortOK(v, r) ==
    /\ r.vga \in VGA /\ r.effect \in EFFECT
    /\ r.vga.memory = v.memory
    /\ r.effect.charmap \/ r.vga.charmap_address = v.charmap_address
    /\ Derived(v) => Derived(r.vga)
    /\ r.effect.palette => v.pel.write_data_register \in 0..(DacSize - 1)

-----------------------------------------------------------------------------
\* Bits of a register.
LEMMA BitTypes ==
    /\ \A v, n : Bit(v, n) \in BOOLEAN
    /\ \A v : PlanesOf(v) \in SUBSET Planes
    /\ \A v : ByteOf(v) \in Byte
    /\ \A b : Number(b) \in {0, 1}
BY DEF Bit, PlanesOf, ByteOf, Byte, Number

\* The effects of a port write.
LEMMA NoneType ==
    /\ None \in EFFECT
    /\ \A e \in EFFECT, b \in BOOLEAN :
           /\ [e EXCEPT !.redraw = b] \in EFFECT /\ [e EXCEPT !.charmap = b] \in EFFECT
           /\ [e EXCEPT !.clear = b] \in EFFECT /\ [e EXCEPT !.palette = b] \in EFFECT
BY DEF None, EFFECT

\* VGA, with the kinds of its fields as parameters: what follows does not depend
\* on what they are.
Registers(G, S, A, P, C, B, T, M, L1, L2, L3, X, Y, W, H, F) ==
    [graphics_ctrl: G, sequencer: S, attribute_ctrl: A, pel: P,
     CRTC: C, color_emulation: B, vga_enabled: B, vga_mem_updated: B,
     cs_visible: B, tiles: T, memory: M, text_snapshot: M,
     line_offset: L1, line_compare: L2, vertical_display_end: L3, x_dotclockdiv2: B,
     y_doublescan: B, last_xres: X, last_yres: Y, last_fw: W,
     last_fh: H, charmap_address: F]

\* A record of registers with one of them replaced, whatever their types are.
LEMMA FieldReplaced ==
    ASSUME NEW G, NEW S, NEW A, NEW P, NEW C, NEW B, NEW T, NEW M, NEW L1, NEW L2, NEW L3, NEW X, NEW Y, NEW W, NEW H, NEW F,
           NEW v \in Registers(G, S, A, P, C, B, T, M, L1, L2, L3, X, Y, W, H, F)
    PROVE  /\ \A x \in G : [v EXCEPT !.graphics_ctrl = x] \in Registers(G, S, A, P, C, B, T, M, L1, L2, L3, X, Y, W, H, F)
           /\ \A x \in S : [v EXCEPT !.sequencer = x] \in Registers(G, S, A, P, C, B, T, M, L1, L2, L3, X, Y, W, H, F)
           /\ \A x \in A : [v EXCEPT !.attribute_ctrl = x] \in Registers(G, S, A, P, C, B, T, M, L1, L2, L3, X, Y, W, H, F)
           /\ \A x \in P : [v EXCEPT !.pel = x] \in Registers(G, S, A, P, C, B, T, M, L1, L2, L3, X, Y, W, H, F)
           /\ \A x \in C : [v EXCEPT !.CRTC = x] \in Registers(G, S, A, P, C, B, T, M, L1, L2, L3, X, Y, W, H, F)
           /\ \A x \in B : [v EXCEPT !.color_emulation = x] \in Registers(G, S, A, P, C, B, T, M, L1, L2, L3, X, Y, W, H, F)
           /\ \A x \in B : [v EXCEPT !.vga_enabled = x] \in Registers(G, S, A, P, C, B, T, M, L1, L2, L3, X, Y, W, H, F)
           /\ \A x \in B : [v EXCEPT !.vga_mem_updated = x] \in Registers(G, S, A, P, C, B, T, M, L1, L2, L3, X, Y, W, H, F)
           /\ \A x \in B : [v EXCEPT !.cs_visible = x] \in Registers(G, S, A, P, C, B, T, M, L1, L2, L3, X, Y, W, H, F)
           /\ \A x \in T : [v EXCEPT !.tiles = x] \in Registers(G, S, A, P, C, B, T, M, L1, L2, L3, X, Y, W, H, F)
           /\ \A x \in M : [v EXCEPT !.memory = x] \in Registers(G, S, A, P, C, B, T, M, L1, L2, L3, X, Y, W, H, F)
           /\ \A x \in M : [v EXCEPT !.text_snapshot = x] \in Registers(G, S, A, P, C, B, T, M, L1, L2, L3, X, Y, W, H, F)
           /\ \A x \in L1 : [v EXCEPT !.line_offset = x] \in Registers(G, S, A, P, C, B, T, M, L1, L2, L3, X, Y, W, H, F)
           /\ \A x \in L2 : [v EXCEPT !.line_compare = x] \in Registers(G, S, A, P, C, B, T, M, L1, L2, L3, X, Y, W, H, F)
           /\ \A x \in L3 : [v EXCEPT !.vertical_display_end = x] \in Registers(G, S, A, P, C, B, T, M, L1, L2, L3, X, Y, W, H, F)
           /\ \A x \in B : [v EXCEPT !.x_dotclockdiv2 = x] \in Registers(G, S, A, P, C, B, T, M, L1, L2, L3, X, Y, W, H, F)
           /\ \A x \in B : [v EXCEPT !.y_doublescan = x] \in Registers(G, S, A, P, C, B, T, M, L1, L2, L3, X, Y, W, H, F)
           /\ \A x \in X : [v EXCEPT !.last_xres = x] \in Registers(G, S, A, P, C, B, T, M, L1, L2, L3, X, Y, W, H, F)
           /\ \A x \in Y : [v EXCEPT !.last_yres = x] \in Registers(G, S, A, P, C, B, T, M, L1, L2, L3, X, Y, W, H, F)
           /\ \A x \in W : [v EXCEPT !.last_fw = x] \in Registers(G, S, A, P, C, B, T, M, L1, L2, L3, X, Y, W, H, F)
           /\ \A x \in H : [v EXCEPT !.last_fh = x] \in Registers(G, S, A, P, C, B, T, M, L1, L2, L3, X, Y, W, H, F)
           /\ \A x \in F : [v EXCEPT !.charmap_address = x] \in Registers(G, S, A, P, C, B, T, M, L1, L2, L3, X, Y, W, H, F)
<1>1. ASSUME NEW x \in G PROVE [v EXCEPT !.graphics_ctrl = x] \in Registers(G, S, A, P, C, B, T, M, L1, L2, L3, X, Y, W, H, F)
  BY DEF Registers
<1>2. ASSUME NEW x \in S PROVE [v EXCEPT !.sequencer = x] \in Registers(G, S, A, P, C, B, T, M, L1, L2, L3, X, Y, W, H, F)
  BY DEF Registers
<1>3. ASSUME NEW x \in A PROVE [v EXCEPT !.attribute_ctrl = x] \in Registers(G, S, A, P, C, B, T, M, L1, L2, L3, X, Y, W, H, F)
  BY DEF Registers
<1>4. ASSUME NEW x \in P PROVE [v EXCEPT !.pel = x] \in Registers(G, S, A, P, C, B, T, M, L1, L2, L3, X, Y, W, H, F)
  BY DEF Registers
<1>5. ASSUME NEW x \in C PROVE [v EXCEPT !.CRTC = x] \in Registers(G, S, A, P, C, B, T, M, L1, L2, L3, X, Y, W, H, F)
  BY DEF Registers
<1>6. ASSUME NEW x \in B PROVE [v EXCEPT !.color_emulation = x] \in Registers(G, S, A, P, C, B, T, M, L1, L2, L3, X, Y, W, H, F)
  BY DEF Registers
<1>7. ASSUME NEW x \in B PROVE [v EXCEPT !.vga_enabled = x] \in Registers(G, S, A, P, C, B, T, M, L1, L2, L3, X, Y, W, H, F)
  BY DEF Registers
<1>8. ASSUME NEW x \in B PROVE [v EXCEPT !.vga_mem_updated = x] \in Registers(G, S, A, P, C, B, T, M, L1, L2, L3, X, Y, W, H, F)
  BY DEF Registers
<1>9. ASSUME NEW x \in B PROVE [v EXCEPT !.cs_visible = x] \in Registers(G, S, A, P, C, B, T, M, L1, L2, L3, X, Y, W, H, F)
  BY DEF Registers
<1>10. ASSUME NEW x \in T PROVE [v EXCEPT !.tiles = x] \in Registers(G, S, A, P, C, B, T, M, L1, L2, L3, X, Y, W, H, F)
  BY DEF Registers
<1>11. ASSUME NEW x \in M PROVE [v EXCEPT !.memory = x] \in Registers(G, S, A, P, C, B, T, M, L1, L2, L3, X, Y, W, H, F)
  BY DEF Registers
<1>12. ASSUME NEW x \in M PROVE [v EXCEPT !.text_snapshot = x] \in Registers(G, S, A, P, C, B, T, M, L1, L2, L3, X, Y, W, H, F)
  BY DEF Registers
<1>13. ASSUME NEW x \in L1 PROVE [v EXCEPT !.line_offset = x] \in Registers(G, S, A, P, C, B, T, M, L1, L2, L3, X, Y, W, H, F)
  BY DEF Registers
<1>14. ASSUME NEW x \in L2 PROVE [v EXCEPT !.line_compare = x] \in Registers(G, S, A, P, C, B, T, M, L1, L2, L3, X, Y, W, H, F)
  BY DEF Registers
<1>15. ASSUME NEW x \in L3 PROVE [v EXCEPT !.vertical_display_end = x] \in Registers(G, S, A, P, C, B, T, M, L1, L2, L3, X, Y, W, H, F)
  BY DEF Registers
<1>16. ASSUME NEW x \in B PROVE [v EXCEPT !.x_dotclockdiv2 = x] \in Registers(G, S, A, P, C, B, T, M, L1, L2, L3, X, Y, W, H, F)
  BY DEF Registers
<1>17. ASSUME NEW x \in B PROVE [v EXCEPT !.y_doublescan = x] \in Registers(G, S, A, P, C, B, T, M, L1, L2, L3, X, Y, W, H, F)
  BY DEF Registers
<1>18. ASSUME NEW x \in X PROVE [v EXCEPT !.last_xres = x] \in Registers(G, S, A, P, C, B, T, M, L1, L2, L3, X, Y, W, H, F)
  BY DEF Registers
<1>19. ASSUME NEW x \in Y PROVE [v EXCEPT !.last_yres = x] \in Registers(G, S, A, P, C, B, T, M, L1, L2, L3, X, Y, W, H, F)
  BY DEF Registers
<1>20. ASSUME NEW x \in W PROVE [v EXCEPT !.last_fw = x] \in Registers(G, S, A, P, C, B, T, M, L1, L2, L3, X, Y, W, H, F)
  BY DEF Registers
<1>21. ASSUME NEW x \in H PROVE [v EXCEPT !.last_fh = x] \in Registers(G, S, A, P, C, B, T, M, L1, L2, L3, X, Y, W, H, F)
  BY DEF Registers
<1>22. ASSUME NEW x \in F PROVE [v EXCEPT !.charmap_address = x] \in Registers(G, S, A, P, C, B, T, M, L1, L2, L3, X, Y, W, H, F)
  BY DEF Registers
<1>. QED BY <1>1, <1>2, <1>3, <1>4, <1>5, <1>6, <1>7, <1>8, <1>9, <1>10, <1>11, <1>12, <1>13, <1>14, <1>15, <1>16, <1>17, <1>18, <1>19, <1>20, <1>21, <1>22

\* The fields of the structure, and one of them replaced by another value of its
\* kind.
LEMMA VgaFields ==
    ASSUME NEW v \in VGA
    PROVE  /\ v.graphics_ctrl \in GRAPHICS_CTRL
           /\ v.sequencer \in SEQUENCER
           /\ v.attribute_ctrl \in ATTRIBUTE_CTRL
           /\ v.pel \in PEL
           /\ v.CRTC \in CRTC
           /\ v.color_emulation \in BOOLEAN
           /\ v.vga_enabled \in BOOLEAN
           /\ v.vga_mem_updated \in BOOLEAN
           /\ v.cs_visible \in BOOLEAN
           /\ v.tiles \in SUBSET Tiles
           /\ v.memory \in SUBSET CELL
           /\ v.text_snapshot \in SUBSET CELL
           /\ v.line_offset \in LineOffsets
           /\ v.line_compare \in Lines
           /\ v.vertical_display_end \in Lines
           /\ v.x_dotclockdiv2 \in BOOLEAN
           /\ v.y_doublescan \in BOOLEAN
           /\ v.last_xres \in ScreenWidths
           /\ v.last_yres \in ScreenHeights
           /\ v.last_fw \in CharWidths
           /\ v.last_fh \in CharHeights
           /\ v.charmap_address \in CharMaps
BY DEF VGA

\* The VGA with one of its register sets replaced.
LEMMA VgaPartsReplaced ==
    ASSUME NEW v \in VGA
    PROVE  /\ \A x \in GRAPHICS_CTRL : [v EXCEPT !.graphics_ctrl = x] \in VGA
           /\ \A x \in SEQUENCER : [v EXCEPT !.sequencer = x] \in VGA
           /\ \A x \in ATTRIBUTE_CTRL : [v EXCEPT !.attribute_ctrl = x] \in VGA
           /\ \A x \in PEL : [v EXCEPT !.pel = x] \in VGA
           /\ \A x \in CRTC : [v EXCEPT !.CRTC = x] \in VGA
<1>. DEFINE T == SUBSET Tiles
            M == SUBSET CELL
            R == Registers(GRAPHICS_CTRL, SEQUENCER, ATTRIBUTE_CTRL, PEL, CRTC, BOOLEAN, T, M, LineOffsets, Lines, Lines,
                           ScreenWidths, ScreenHeights, CharWidths, CharHeights, CharMaps)
<1>1. VGA = R
  BY DEF VGA, Registers
<1>. HIDE DEF T, M
<1>2. ASSUME NEW x \in GRAPHICS_CTRL PROVE [v EXCEPT !.graphics_ctrl = x] \in VGA
  BY <1>1, FieldReplaced
<1>3. ASSUME NEW x \in SEQUENCER PROVE [v EXCEPT !.sequencer = x] \in VGA
  BY <1>1, FieldReplaced
<1>4. ASSUME NEW x \in ATTRIBUTE_CTRL PROVE [v EXCEPT !.attribute_ctrl = x] \in VGA
  BY <1>1, FieldReplaced
<1>5. ASSUME NEW x \in PEL PROVE [v EXCEPT !.pel = x] \in VGA
  BY <1>1, FieldReplaced
<1>6. ASSUME NEW x \in CRTC PROVE [v EXCEPT !.CRTC = x] \in VGA
  BY <1>1, FieldReplaced
<1>. QED BY <1>2, <1>3, <1>4, <1>5, <1>6

\* The VGA with one of its switches replaced.
LEMMA VgaSwitched ==
    ASSUME NEW v \in VGA
    PROVE  /\ \A x \in BOOLEAN : [v EXCEPT !.color_emulation = x] \in VGA
           /\ \A x \in BOOLEAN : [v EXCEPT !.vga_enabled = x] \in VGA
           /\ \A x \in BOOLEAN : [v EXCEPT !.vga_mem_updated = x] \in VGA
           /\ \A x \in BOOLEAN : [v EXCEPT !.cs_visible = x] \in VGA
           /\ \A x \in BOOLEAN : [v EXCEPT !.x_dotclockdiv2 = x] \in VGA
           /\ \A x \in BOOLEAN : [v EXCEPT !.y_doublescan = x] \in VGA
<1>. DEFINE T == SUBSET Tiles
            M == SUBSET CELL
            R == Registers(GRAPHICS_CTRL, SEQUENCER, ATTRIBUTE_CTRL, PEL, CRTC, BOOLEAN, T, M, LineOffsets, Lines, Lines,
                           ScreenWidths, ScreenHeights, CharWidths, CharHeights, CharMaps)
<1>1. VGA = R
  BY DEF VGA, Registers
<1>. HIDE DEF T, M
<1>2. ASSUME NEW x \in BOOLEAN PROVE [v EXCEPT !.color_emulation = x] \in VGA
  BY <1>1, FieldReplaced
<1>3. ASSUME NEW x \in BOOLEAN PROVE [v EXCEPT !.vga_enabled = x] \in VGA
  BY <1>1, FieldReplaced
<1>4. ASSUME NEW x \in BOOLEAN PROVE [v EXCEPT !.vga_mem_updated = x] \in VGA
  BY <1>1, FieldReplaced
<1>5. ASSUME NEW x \in BOOLEAN PROVE [v EXCEPT !.cs_visible = x] \in VGA
  BY <1>1, FieldReplaced
<1>6. ASSUME NEW x \in BOOLEAN PROVE [v EXCEPT !.x_dotclockdiv2 = x] \in VGA
  BY <1>1, FieldReplaced
<1>7. ASSUME NEW x \in BOOLEAN PROVE [v EXCEPT !.y_doublescan = x] \in VGA
  BY <1>1, FieldReplaced
<1>. QED BY <1>2, <1>3, <1>4, <1>5, <1>6, <1>7

\* The VGA with its tiles, its memory or its text snapshot replaced.
LEMMA VgaMemoryReplaced ==
    ASSUME NEW v \in VGA
    PROVE  /\ \A x \in SUBSET Tiles : [v EXCEPT !.tiles = x] \in VGA
           /\ \A x \in SUBSET CELL : [v EXCEPT !.memory = x] \in VGA
           /\ \A x \in SUBSET CELL : [v EXCEPT !.text_snapshot = x] \in VGA
<1>. DEFINE T == SUBSET Tiles
            M == SUBSET CELL
            R == Registers(GRAPHICS_CTRL, SEQUENCER, ATTRIBUTE_CTRL, PEL, CRTC, BOOLEAN, T, M, LineOffsets, Lines, Lines,
                           ScreenWidths, ScreenHeights, CharWidths, CharHeights, CharMaps)
<1>1. VGA = R
  BY DEF VGA, Registers
<1>. HIDE DEF T, M
<1>2. ASSUME NEW x \in SUBSET Tiles PROVE [v EXCEPT !.tiles = x] \in VGA
  BY <1>1, FieldReplaced DEF T
<1>3. ASSUME NEW x \in SUBSET CELL PROVE [v EXCEPT !.memory = x] \in VGA
  BY <1>1, FieldReplaced DEF M
<1>4. ASSUME NEW x \in SUBSET CELL PROVE [v EXCEPT !.text_snapshot = x] \in VGA
  BY <1>1, FieldReplaced DEF M
<1>. QED BY <1>2, <1>3, <1>4

\* The VGA with one of the derived values or the last sizes replaced.
LEMMA VgaSizesReplaced ==
    ASSUME NEW v \in VGA
    PROVE  /\ \A x \in LineOffsets : [v EXCEPT !.line_offset = x] \in VGA
           /\ \A x \in Lines : [v EXCEPT !.line_compare = x] \in VGA
           /\ \A x \in Lines : [v EXCEPT !.vertical_display_end = x] \in VGA
           /\ \A x \in ScreenWidths : [v EXCEPT !.last_xres = x] \in VGA
           /\ \A x \in ScreenHeights : [v EXCEPT !.last_yres = x] \in VGA
           /\ \A x \in CharWidths : [v EXCEPT !.last_fw = x] \in VGA
           /\ \A x \in CharHeights : [v EXCEPT !.last_fh = x] \in VGA
           /\ \A x \in CharMaps : [v EXCEPT !.charmap_address = x] \in VGA
<1>. DEFINE T == SUBSET Tiles
            M == SUBSET CELL
            R == Registers(GRAPHICS_CTRL, SEQUENCER, ATTRIBUTE_CTRL, PEL, CRTC, BOOLEAN, T, M, LineOffsets, Lines, Lines,
                           ScreenWidths, ScreenHeights, CharWidths, CharHeights, CharMaps)
<1>1. VGA = R
  BY DEF VGA, Registers
<1>. HIDE DEF T, M
<1>2. ASSUME NEW x \in LineOffsets PROVE [v EXCEPT !.line_offset = x] \in VGA
  BY <1>1, FieldReplaced
<1>3. ASSUME NEW x \in Lines PROVE [v EXCEPT !.line_compare = x] \in VGA
  BY <1>1, FieldReplaced
<1>4. ASSUME NEW x \in Lines PROVE [v EXCEPT !.vertical_display_end = x] \in VGA
  BY <1>1, FieldReplaced
<1>5. ASSUME NEW x \in ScreenWidths PROVE [v EXCEPT !.last_xres = x] \in VGA
  BY <1>1, FieldReplaced
<1>6. ASSUME NEW x \in ScreenHeights PROVE [v EXCEPT !.last_yres = x] \in VGA
  BY <1>1, FieldReplaced
<1>7. ASSUME NEW x \in CharWidths PROVE [v EXCEPT !.last_fw = x] \in VGA
  BY <1>1, FieldReplaced
<1>8. ASSUME NEW x \in CharHeights PROVE [v EXCEPT !.last_fh = x] \in VGA
  BY <1>1, FieldReplaced
<1>9. ASSUME NEW x \in CharMaps PROVE [v EXCEPT !.charmap_address = x] \in VGA
  BY <1>1, FieldReplaced
<1>. QED BY <1>2, <1>3, <1>4, <1>5, <1>6, <1>7, <1>8, <1>9

\* The fields of the VGA.
LEMMA VgaDomain ==
    ASSUME NEW v \in VGA
    PROVE  DOMAIN v = {"graphics_ctrl", "sequencer", "attribute_ctrl", "pel", "CRTC", "color_emulation", "vga_enabled", "vga_mem_updated", "cs_visible", "tiles", "memory", "text_snapshot", "line_offset", "line_compare", "vertical_display_end", "x_dotclockdiv2", "y_doublescan", "last_xres", "last_yres", "last_fw", "last_fh", "charmap_address"}
BY DEF VGA

\* A part of the registers is replaced, or a switch.
LEMMA PlainParts ==
    ASSUME NEW v \in VGA
    PROVE  /\ Plain(v, v)
           /\ \A g \in GRAPHICS_CTRL : Plain(v, [v EXCEPT !.graphics_ctrl = g])
           /\ \A s \in SEQUENCER : Plain(v, [v EXCEPT !.sequencer = s])
           /\ \A a \in ATTRIBUTE_CTRL : Plain(v, [v EXCEPT !.attribute_ctrl = a])
           /\ \A p \in PEL : Plain(v, [v EXCEPT !.pel = p])
           /\ \A b \in BOOLEAN : /\ Plain(v, [v EXCEPT !.color_emulation = b])
                                 /\ Plain(v, [v EXCEPT !.vga_enabled = b])
                                 /\ Plain(v, [v EXCEPT !.vga_mem_updated = b])
                                 /\ Plain(v, [v EXCEPT !.cs_visible = b])
                                 /\ Plain(v, [v EXCEPT !.x_dotclockdiv2 = b])
<1>1. Plain(v, v)
  BY DEF Plain
<1>2. ASSUME NEW g \in GRAPHICS_CTRL PROVE Plain(v, [v EXCEPT !.graphics_ctrl = g])
  BY VgaPartsReplaced, VgaDomain DEF Plain
<1>3. ASSUME NEW s \in SEQUENCER PROVE Plain(v, [v EXCEPT !.sequencer = s])
  BY VgaPartsReplaced, VgaDomain DEF Plain
<1>4. ASSUME NEW a \in ATTRIBUTE_CTRL PROVE Plain(v, [v EXCEPT !.attribute_ctrl = a])
  BY VgaPartsReplaced, VgaDomain DEF Plain
<1>5. ASSUME NEW p \in PEL PROVE Plain(v, [v EXCEPT !.pel = p])
  BY VgaPartsReplaced, VgaDomain DEF Plain
<1>6. ASSUME NEW b \in BOOLEAN PROVE Plain(v, [v EXCEPT !.color_emulation = b])
  BY VgaSwitched, VgaDomain DEF Plain
<1>7. ASSUME NEW b \in BOOLEAN PROVE Plain(v, [v EXCEPT !.vga_enabled = b])
  BY VgaSwitched, VgaDomain DEF Plain
<1>8. ASSUME NEW b \in BOOLEAN PROVE Plain(v, [v EXCEPT !.vga_mem_updated = b])
  BY VgaSwitched, VgaDomain DEF Plain
<1>9. ASSUME NEW b \in BOOLEAN PROVE Plain(v, [v EXCEPT !.cs_visible = b])
  BY VgaSwitched, VgaDomain DEF Plain
<1>10. ASSUME NEW b \in BOOLEAN PROVE Plain(v, [v EXCEPT !.x_dotclockdiv2 = b])
  BY VgaSwitched, VgaDomain DEF Plain
<1>. QED BY <1>1, <1>2, <1>3, <1>4, <1>5, <1>6, <1>7, <1>8, <1>9, <1>10

\* A plain change keeps the derived values true.
LEMMA PlainDerived ==
    ASSUME NEW v, NEW w, Plain(v, w)
    PROVE  Derived(v) => Derived(w)
BY DEF Plain, Derived, Height

\* Two plain changes, one after the other.
LEMMA PlainTrans ==
    ASSUME NEW u, NEW v, NEW w, Plain(u, v), Plain(v, w)
    PROVE  Plain(u, w)
BY DEF Plain

\* A port write that makes a plain change, with any effect.
LEMMA PlainOK ==
    ASSUME NEW v, NEW w, Plain(v, w), NEW e \in EFFECT,
           e.palette => v.pel.write_data_register \in 0..(DacSize - 1)
    PROVE  PortOK(v, [vga |-> w, effect |-> e])
<1>1. Derived(v) => Derived(w)
  BY PlainDerived
<1>. QED BY <1>1 DEF PortOK, Plain

\* A port write that makes a plain change and redraws or does not.
LEMMA QuietOK ==
    ASSUME NEW v, NEW w, Plain(v, w)
    PROVE  PortOK(v, Quiet(w)) /\ PortOK(v, Redraw(w)) /\ \A c \in BOOLEAN : PortOK(v, RedrawIf(w, c))
<1>1. None \in EFFECT /\ ~None.palette /\ [None EXCEPT !.redraw = TRUE] \in EFFECT
      /\ ~[None EXCEPT !.redraw = TRUE].palette
  BY NoneType DEF None
<1>2. PortOK(v, Quiet(w)) /\ PortOK(v, Redraw(w))
  BY <1>1, PlainOK DEF Quiet, Redraw
<1>. QED BY <1>2 DEF RedrawIf

-----------------------------------------------------------------------------
\* Numbers in the ranges of the registers.
LEMMA Numbers ==
    ASSUME NEW value \in 0..255
    PROVE  /\ value % 8 \in 0..7 /\ (value \div 8) % 4 \in 0..3 /\ value % 4 \in 0..3
           /\ (value \div 8) % 2 \in 0..1 /\ (value \div 32) % 4 \in 0..3
           /\ (value \div 4) % 4 \in 0..3 /\ value % 32 \in 0..31 /\ value % 16 \in 0..15
           /\ value % 64 \in 0..63
OBVIOUS

\* Port 3CF, register by register.
LEMMA GraphicsTypes ==
    ASSUME NEW g \in GRAPHICS_CTRL, NEW value \in 0..255
    PROVE  LET planes == PlanesOf(value)
           IN  /\ [g EXCEPT !.index = value] \in GRAPHICS_CTRL
               /\ [g EXCEPT !.set_reset = planes] \in GRAPHICS_CTRL
               /\ [g EXCEPT !.enable_set_reset = planes] \in GRAPHICS_CTRL
               /\ [g EXCEPT !.color_compare = planes] \in GRAPHICS_CTRL
               /\ [g EXCEPT !.color_dont_care = planes] \in GRAPHICS_CTRL
               /\ [g EXCEPT !.data_rotate = value % 8, !.raster_op = (value \div 8) % 4]
                      \in GRAPHICS_CTRL
               /\ [g EXCEPT !.read_map_select = value % 4] \in GRAPHICS_CTRL
               /\ [g EXCEPT !.write_mode = value % 4, !.read_mode = (value \div 8) % 2,
                            !.shift_reg = (value \div 32) % 4] \in GRAPHICS_CTRL
               /\ [g EXCEPT !.graphics_alpha = Bit(value, 0),
                            !.memory_mapping = (value \div 4) % 4] \in GRAPHICS_CTRL
               /\ [g EXCEPT !.bitmask = ByteOf(value)] \in GRAPHICS_CTRL
<1>. DEFINE planes == PlanesOf(value)
            mask == ByteOf(value)
<1>1. planes \in SUBSET Planes /\ mask \in Byte
  BY BitTypes
<1>2. PICK alpha \in BOOLEAN : alpha = Bit(value, 0)
  BY BitTypes
<1>. HIDE DEF planes, mask
<1>3. [g EXCEPT !.index = value] \in GRAPHICS_CTRL
  BY DEF GRAPHICS_CTRL
<1>4. /\ [g EXCEPT !.set_reset = planes] \in GRAPHICS_CTRL
      /\ [g EXCEPT !.enable_set_reset = planes] \in GRAPHICS_CTRL
  BY <1>1 DEF GRAPHICS_CTRL
<1>5. /\ [g EXCEPT !.color_compare = planes] \in GRAPHICS_CTRL
      /\ [g EXCEPT !.color_dont_care = planes] \in GRAPHICS_CTRL
  BY <1>1 DEF GRAPHICS_CTRL
<1>6. [g EXCEPT !.data_rotate = value % 8, !.raster_op = (value \div 8) % 4] \in GRAPHICS_CTRL
  BY Numbers, ZenonT(60) DEF GRAPHICS_CTRL
<1>7. [g EXCEPT !.read_map_select = value % 4] \in GRAPHICS_CTRL
  BY Numbers DEF GRAPHICS_CTRL, Planes
<1>8. [g EXCEPT !.write_mode = value % 4, !.read_mode = (value \div 8) % 2,
                !.shift_reg = (value \div 32) % 4] \in GRAPHICS_CTRL
  BY Numbers, ZenonT(60) DEF GRAPHICS_CTRL
<1>9. [g EXCEPT !.graphics_alpha = alpha, !.memory_mapping = (value \div 4) % 4]
          \in GRAPHICS_CTRL
  <2>1. [g EXCEPT !.graphics_alpha = alpha] \in GRAPHICS_CTRL
    BY <1>2 DEF GRAPHICS_CTRL
  <2>2. PICK h \in GRAPHICS_CTRL : h = [g EXCEPT !.graphics_alpha = alpha]
    BY <2>1
  <2>3. [h EXCEPT !.memory_mapping = (value \div 4) % 4] \in GRAPHICS_CTRL
    BY Numbers DEF GRAPHICS_CTRL
  <2>. QED BY <2>2, <2>3
<1>10. [g EXCEPT !.bitmask = mask] \in GRAPHICS_CTRL
  BY <1>1 DEF GRAPHICS_CTRL
<1>. QED BY <1>2, <1>3, <1>4, <1>5, <1>6, <1>7, <1>8, <1>9, <1>10 DEF planes, mask

\* What was drawn is forgotten or brought up to date.
LEMMA PlainDrawn ==
    ASSUME NEW v \in VGA
    PROVE  /\ \A x \in ScreenWidths : Plain(v, [v EXCEPT !.last_xres = x])
           /\ \A x \in ScreenHeights : Plain(v, [v EXCEPT !.last_yres = x])
           /\ \A x \in CharWidths : Plain(v, [v EXCEPT !.last_fw = x])
           /\ \A x \in CharHeights : Plain(v, [v EXCEPT !.last_fh = x])
           /\ \A x \in SUBSET Tiles : Plain(v, [v EXCEPT !.tiles = x])
           /\ \A x \in SUBSET CELL : Plain(v, [v EXCEPT !.text_snapshot = x])
<1>1. ASSUME NEW x \in ScreenWidths PROVE Plain(v, [v EXCEPT !.last_xres = x])
  BY VgaSizesReplaced, VgaDomain DEF Plain
<1>2. ASSUME NEW x \in ScreenHeights PROVE Plain(v, [v EXCEPT !.last_yres = x])
  BY VgaSizesReplaced, VgaDomain DEF Plain
<1>3. ASSUME NEW x \in CharWidths PROVE Plain(v, [v EXCEPT !.last_fw = x])
  BY VgaSizesReplaced, VgaDomain DEF Plain
<1>4. ASSUME NEW x \in CharHeights PROVE Plain(v, [v EXCEPT !.last_fh = x])
  BY VgaSizesReplaced, VgaDomain DEF Plain
<1>5. ASSUME NEW x \in SUBSET Tiles PROVE Plain(v, [v EXCEPT !.tiles = x])
  BY VgaMemoryReplaced, VgaDomain DEF Plain
<1>6. ASSUME NEW x \in SUBSET CELL PROVE Plain(v, [v EXCEPT !.text_snapshot = x])
  BY VgaMemoryReplaced, VgaDomain DEF Plain
<1>. QED BY <1>1, <1>2, <1>3, <1>4, <1>5, <1>6

\* The registers of the graphics controller.
LEMMA GraphicsOK ==
    ASSUME NEW v \in VGA, NEW value \in 0..255
    PROVE  PortOK(v, WriteGraphics(v, value))
<1>. DEFINE g == v.graphics_ctrl
            planes == PlanesOf(value)
            i == g.index
<1>1. g \in GRAPHICS_CTRL
  BY VgaFields
<1>2. ASSUME NEW h \in GRAPHICS_CTRL
      PROVE  /\ PortOK(v, Quiet([v EXCEPT !.graphics_ctrl = h]))
             /\ \A c \in BOOLEAN : PortOK(v, RedrawIf([v EXCEPT !.graphics_ctrl = h], c))
             /\ PortOK(v, Redraw([[v EXCEPT !.graphics_ctrl = h] EXCEPT !.last_yres = 0]))
  <2>. DEFINE w == [v EXCEPT !.graphics_ctrl = h]
  <2>1. Plain(v, w)
    BY PlainParts
  <2>2. w \in VGA
    BY <2>1 DEF Plain
  <2>. HIDE DEF w
  <2>3. Plain(w, [w EXCEPT !.last_yres = 0])
    <3>1. 0 \in ScreenHeights
      BY DEF ScreenHeights
    <3>. QED BY <2>2, <3>1, PlainDrawn
  <2>4. Plain(v, [w EXCEPT !.last_yres = 0])
    BY <2>1, <2>3, PlainTrans
  <2>. QED BY <2>1, <2>4, QuietOK DEF w
<1>3. /\ [g EXCEPT !.set_reset = planes] \in GRAPHICS_CTRL
      /\ [g EXCEPT !.enable_set_reset = planes] \in GRAPHICS_CTRL
      /\ [g EXCEPT !.color_compare = planes] \in GRAPHICS_CTRL
      /\ [g EXCEPT !.color_dont_care = planes] \in GRAPHICS_CTRL
      /\ [g EXCEPT !.data_rotate = value % 8, !.raster_op = (value \div 8) % 4]
             \in GRAPHICS_CTRL
      /\ [g EXCEPT !.read_map_select = value % 4] \in GRAPHICS_CTRL
      /\ [g EXCEPT !.write_mode = value % 4, !.read_mode = (value \div 8) % 2,
                   !.shift_reg = (value \div 32) % 4] \in GRAPHICS_CTRL
      /\ [g EXCEPT !.graphics_alpha = Bit(value, 0),
                   !.memory_mapping = (value \div 4) % 4] \in GRAPHICS_CTRL
      /\ [g EXCEPT !.bitmask = ByteOf(value)] \in GRAPHICS_CTRL
  BY <1>1, GraphicsTypes
<1>4. PortOK(v, Quiet(v))
  BY PlainParts, QuietOK
<1>5. PortOK(v, WriteGraphicsMode(v, value))
  BY <1>2, <1>3, Zenon DEF WriteGraphicsMode
<1>6. PortOK(v, WriteMiscellaneous(v, value))
  <2>. DEFINE h == [g EXCEPT !.graphics_alpha = Bit(value, 0),
                             !.memory_mapping = (value \div 4) % 4]
              w == [v EXCEPT !.graphics_ctrl = h]
              c == (value \div 4) % 4 # g.memory_mapping
  <2>1. WriteMiscellaneous(v, value) =
            IF Bit(value, 0) # g.graphics_alpha THEN Redraw([w EXCEPT !.last_yres = 0])
            ELSE RedrawIf(w, c)
    BY DEF WriteMiscellaneous
  <2>2. c \in BOOLEAN
    OBVIOUS
  <2>3. PortOK(v, RedrawIf(w, c)) /\ PortOK(v, Redraw([w EXCEPT !.last_yres = 0]))
    BY <1>2, <1>3, <2>2, Zenon
  <2>. HIDE DEF w, c
  <2>. QED BY <2>1, <2>3, Zenon
<1>. QED BY <1>2, <1>3, <1>4, <1>5, <1>6, ZenonT(60) DEF WriteGraphics

-----------------------------------------------------------------------------
\* Port 3C0, index and data.
LEMMA AttributeTypes ==
    ASSUME NEW a \in ATTRIBUTE_CTRL, NEW value \in 0..255, NEW b \in BOOLEAN
    PROVE  /\ [a EXCEPT !.flip_flop = b] \in ATTRIBUTE_CTRL
           /\ [a EXCEPT !.video_enabled = b] \in ATTRIBUTE_CTRL
           /\ [a EXCEPT !.address = value % 32] \in ATTRIBUTE_CTRL
           /\ [a EXCEPT !.palette_reg = value] \in ATTRIBUTE_CTRL
           /\ [a EXCEPT !.color_plane_enable = PlanesOf(value)] \in ATTRIBUTE_CTRL
           /\ [a EXCEPT !.horiz_pel_panning = value % 16] \in ATTRIBUTE_CTRL
           /\ [a EXCEPT !.color_select = value % 16] \in ATTRIBUTE_CTRL
           /\ [a EXCEPT !.graphics_alpha = b] \in ATTRIBUTE_CTRL
           /\ [a EXCEPT !.enable_line_graphics = b] \in ATTRIBUTE_CTRL
           /\ [a EXCEPT !.blink_intensity = b] \in ATTRIBUTE_CTRL
           /\ [a EXCEPT !.pixel_panning_compat = b] \in ATTRIBUTE_CTRL
           /\ [a EXCEPT !.internal_palette_size = b] \in ATTRIBUTE_CTRL
<1>. DEFINE planes == PlanesOf(value)
<1>1. planes \in SUBSET Planes
  BY BitTypes
<1>. HIDE DEF planes
<1>2. /\ [a EXCEPT !.flip_flop = b] \in ATTRIBUTE_CTRL
      /\ [a EXCEPT !.video_enabled = b] \in ATTRIBUTE_CTRL
      /\ [a EXCEPT !.graphics_alpha = b] \in ATTRIBUTE_CTRL
      /\ [a EXCEPT !.enable_line_graphics = b] \in ATTRIBUTE_CTRL
  BY DEF ATTRIBUTE_CTRL
<1>3. /\ [a EXCEPT !.blink_intensity = b] \in ATTRIBUTE_CTRL
      /\ [a EXCEPT !.pixel_panning_compat = b] \in ATTRIBUTE_CTRL
      /\ [a EXCEPT !.internal_palette_size = b] \in ATTRIBUTE_CTRL
  BY DEF ATTRIBUTE_CTRL
<1>4. /\ [a EXCEPT !.address = value % 32] \in ATTRIBUTE_CTRL
      /\ [a EXCEPT !.palette_reg = value] \in ATTRIBUTE_CTRL
  BY Numbers DEF ATTRIBUTE_CTRL
<1>5. [a EXCEPT !.color_plane_enable = planes] \in ATTRIBUTE_CTRL
  BY <1>1 DEF ATTRIBUTE_CTRL
<1>6. /\ [a EXCEPT !.horiz_pel_panning = value % 16] \in ATTRIBUTE_CTRL
      /\ [a EXCEPT !.color_select = value % 16] \in ATTRIBUTE_CTRL
  BY Numbers DEF ATTRIBUTE_CTRL
<1>. QED BY <1>2, <1>3, <1>4, <1>5, <1>6 DEF planes

\* The five bits of the mode control register.
LEMMA ModeControlType ==
    ASSUME NEW a \in ATTRIBUTE_CTRL, NEW value \in 0..255
    PROVE  [a EXCEPT !.graphics_alpha = Bit(value, 0), !.enable_line_graphics = Bit(value, 2),
                     !.blink_intensity = Bit(value, 3), !.pixel_panning_compat = Bit(value, 5),
                     !.internal_palette_size = Bit(value, 7)] \in ATTRIBUTE_CTRL
<1>1. PICK b0 \in BOOLEAN : b0 = Bit(value, 0)
  BY BitTypes
<1>2. PICK b2 \in BOOLEAN : b2 = Bit(value, 2)
  BY BitTypes
<1>3. PICK b3 \in BOOLEAN : b3 = Bit(value, 3)
  BY BitTypes
<1>4. PICK b5 \in BOOLEAN : b5 = Bit(value, 5)
  BY BitTypes
<1>5. PICK b7 \in BOOLEAN : b7 = Bit(value, 7)
  BY BitTypes, SMTT(40)
<1>6. PICK a1 \in ATTRIBUTE_CTRL : a1 = [a EXCEPT !.graphics_alpha = b0]
  BY <1>1, AttributeTypes, ZenonT(60)
<1>7. PICK a2 \in ATTRIBUTE_CTRL : a2 = [a1 EXCEPT !.enable_line_graphics = b2]
  BY <1>2, <1>6, AttributeTypes, ZenonT(60)
<1>8. PICK a3 \in ATTRIBUTE_CTRL : a3 = [a2 EXCEPT !.blink_intensity = b3]
  BY <1>3, <1>7, AttributeTypes, ZenonT(60)
<1>9. PICK a4 \in ATTRIBUTE_CTRL : a4 = [a3 EXCEPT !.pixel_panning_compat = b5]
  BY <1>4, <1>8, AttributeTypes, ZenonT(60)
<1>10. [a4 EXCEPT !.internal_palette_size = b7] \in ATTRIBUTE_CTRL
  BY <1>5, <1>9, AttributeTypes
<1>. QED BY <1>1, <1>2, <1>3, <1>4, <1>5, <1>6, <1>7, <1>8, <1>9, <1>10

\* What follows a plain change of the registers.
LEMMA PortAfter ==
    ASSUME NEW u, NEW v, NEW r, Plain(u, v), v.pel = u.pel, PortOK(v, r)
    PROVE  PortOK(u, r)
BY PlainDerived DEF PortOK, Plain

\* The registers of the attribute controller.
LEMMA AttributeOK ==
    ASSUME NEW v \in VGA, NEW value \in 0..255
    PROVE  PortOK(v, WriteAttribute(v, value))
<1>1. ASSUME NEW u \in VGA, NEW h \in ATTRIBUTE_CTRL, NEW e \in EFFECT, ~e.palette
      PROVE  PortOK(u, [vga |-> [u EXCEPT !.attribute_ctrl = h], effect |-> e])
  <2>1. Plain(u, [u EXCEPT !.attribute_ctrl = h])
    BY PlainParts
  <2>. HIDE DEF PortOK
  <2>. QED BY <1>1, <2>1, PlainOK
<1>2. ASSUME NEW u \in VGA, NEW h \in ATTRIBUTE_CTRL
      PROVE  /\ PortOK(u, Quiet([u EXCEPT !.attribute_ctrl = h]))
             /\ PortOK(u, Redraw([u EXCEPT !.attribute_ctrl = h]))
             /\ \A c \in BOOLEAN : PortOK(u, RedrawIf([u EXCEPT !.attribute_ctrl = h], c))
  <2>1. Plain(u, [u EXCEPT !.attribute_ctrl = h])
    BY PlainParts
  <2>. QED BY <2>1, QuietOK
<1>3. ASSUME NEW u \in VGA PROVE PortOK(u, WriteAttributeIndex(u, value))
  <2>. DEFINE a == u.attribute_ctrl
  <2>1. a \in ATTRIBUTE_CTRL
    BY VgaFields
  <2>2. PICK on \in BOOLEAN : on = Bit(value, 5)
    BY BitTypes
  <2>3. PICK b \in ATTRIBUTE_CTRL : b = [a EXCEPT !.video_enabled = on]
    BY <2>1, <2>2, AttributeTypes
  <2>4. PICK h \in ATTRIBUTE_CTRL : h = [b EXCEPT !.address = value % 32]
    BY <2>1, <2>2, <2>3, AttributeTypes
  <2>5. PICK d \in BOOLEAN : d = (on /\ ~a.video_enabled)
    OBVIOUS
  <2>6. PICK e \in EFFECT : e = [None EXCEPT !.clear = ~on]
    BY <2>2, NoneType
  <2>7. [e EXCEPT !.redraw = d] \in EFFECT /\ ~[e EXCEPT !.redraw = d].palette
    <3>1. [e EXCEPT !.redraw = d] \in EFFECT
      BY <2>5, <2>6, NoneType
    <3>. QED BY <3>1, <2>6 DEF None
  <2>8. WriteAttributeIndex(u, value) =
            [vga |-> [u EXCEPT !.attribute_ctrl = h], effect |-> [e EXCEPT !.redraw = d]]
    BY <2>2, <2>3, <2>4, <2>5, <2>6, VgaDomain DEF WriteAttributeIndex
  <2>. QED BY <1>1, <2>4, <2>7, <2>8, ZenonT(60)
<1>4. ASSUME NEW u \in VGA PROVE PortOK(u, WriteModeControl(u, value))
  <2>. DEFINE a == u.attribute_ctrl
              h == [a EXCEPT !.graphics_alpha = Bit(value, 0),
                             !.enable_line_graphics = Bit(value, 2),
                             !.blink_intensity = Bit(value, 3),
                             !.pixel_panning_compat = Bit(value, 5),
                             !.internal_palette_size = Bit(value, 7)]
              c == Bit(value, 2) # a.enable_line_graphics
              d == Bit(value, 7) # a.internal_palette_size
              e == [None EXCEPT !.charmap = c, !.redraw = d]
  <2>1. h \in ATTRIBUTE_CTRL
    <3>1. a \in ATTRIBUTE_CTRL
      BY VgaFields
    <3>. QED BY <3>1, ModeControlType, Zenon
  <2>2. c \in BOOLEAN /\ d \in BOOLEAN
    OBVIOUS
  <2>3. WriteModeControl(u, value) = [vga |-> [u EXCEPT !.attribute_ctrl = h], effect |-> e]
    BY DEF WriteModeControl
  <2>. HIDE DEF c, d, h
  <2>4. e \in EFFECT /\ ~e.palette
    <3>1. PICK x \in EFFECT : x = [None EXCEPT !.charmap = c]
      BY <2>2, NoneType
    <3>2. [x EXCEPT !.redraw = d] \in EFFECT
      BY <2>2, <3>1, NoneType
    <3>. QED BY <3>1, <3>2 DEF None
  <2>. HIDE DEF e
  <2>. QED BY <1>1, <2>1, <2>3, <2>4
<1>5. ASSUME NEW u \in VGA PROVE PortOK(u, WriteAttributeData(u, value))
  <2>. DEFINE a == u.attribute_ctrl
              c == value # a.palette_reg
  <2>1. a \in ATTRIBUTE_CTRL
    BY VgaFields
  <2>2. /\ [a EXCEPT !.palette_reg = value] \in ATTRIBUTE_CTRL
        /\ [a EXCEPT !.color_plane_enable = PlanesOf(value)] \in ATTRIBUTE_CTRL
        /\ [a EXCEPT !.horiz_pel_panning = value % 16] \in ATTRIBUTE_CTRL
        /\ [a EXCEPT !.color_select = value % 16] \in ATTRIBUTE_CTRL
    BY <2>1, AttributeTypes
  <2>3. c \in BOOLEAN
    OBVIOUS
  <2>4. PortOK(u, Quiet(u))
    BY PlainParts, QuietOK
  <2>5. PortOK(u, RedrawIf([u EXCEPT !.attribute_ctrl.palette_reg = value], c))
    <3>. HIDE DEF c
    <3>. QED BY <1>2, <2>2, <2>3
  <2>6. /\ PortOK(u, Redraw([u EXCEPT !.attribute_ctrl.color_plane_enable = PlanesOf(value)]))
        /\ PortOK(u, Redraw([u EXCEPT !.attribute_ctrl.horiz_pel_panning = value % 16]))
        /\ PortOK(u, Redraw([u EXCEPT !.attribute_ctrl.color_select = value % 16]))
    BY <1>2, <2>2
  <2>. QED BY <1>4, <2>4, <2>5, <2>6, SMTT(40) DEF WriteAttributeData
<1>6. /\ Flip(v) \in VGA /\ Plain(v, Flip(v)) /\ Flip(v).pel = v.pel
  <2>. DEFINE a == v.attribute_ctrl
  <2>1. a \in ATTRIBUTE_CTRL
    BY VgaFields
  <2>2. a.flip_flop \in BOOLEAN
    BY <2>1, SMTT(40) DEF ATTRIBUTE_CTRL
  <2>3. PICK h \in ATTRIBUTE_CTRL : h = [a EXCEPT !.flip_flop = ~a.flip_flop]
    BY <2>1, <2>2, AttributeTypes
  <2>4. Flip(v) = [v EXCEPT !.attribute_ctrl = h]
    BY <2>3 DEF Flip
  <2>5. Plain(v, Flip(v))
    BY <2>3, <2>4, PlainParts
  <2>. QED BY <2>4, <2>5, VgaDomain DEF Plain
<1>7. /\ PortOK(v, WriteAttributeData(Flip(v), value))
      /\ PortOK(v, WriteAttributeIndex(Flip(v), value))
  BY <1>3, <1>5, <1>6, PortAfter
<1>. QED BY <1>7 DEF WriteAttribute

-----------------------------------------------------------------------------
\* The sequencer.
LEMMA SequencerTypes ==
    ASSUME NEW s \in SEQUENCER, NEW value \in 0..255, NEW b \in BOOLEAN
    PROVE  /\ [s EXCEPT !.index = value] \in SEQUENCER
           /\ [s EXCEPT !.map_mask = PlanesOf(value)] \in SEQUENCER
           /\ [s EXCEPT !.reset1 = b] \in SEQUENCER
           /\ [s EXCEPT !.reset2 = b] \in SEQUENCER
           /\ [s EXCEPT !.reg1 = (value % 2) + 4 * ((value \div 4) % 16)] \in SEQUENCER
           /\ [s EXCEPT !.char_map_select = value % 64] \in SEQUENCER
           /\ [s EXCEPT !.char_map_select = 0] \in SEQUENCER
           /\ [s EXCEPT !.chain_four = b] \in SEQUENCER
           /\ [s EXCEPT !.clear_screen = b] \in SEQUENCER
<1>. DEFINE planes == PlanesOf(value)
            kept == (value % 2) + 4 * ((value \div 4) % 16)
<1>1. planes \in SUBSET Planes
  BY BitTypes
<1>2. kept \in 0..255
  OBVIOUS
<1>. HIDE DEF planes, kept
<1>3. /\ [s EXCEPT !.index = value] \in SEQUENCER
      /\ [s EXCEPT !.reg1 = kept] \in SEQUENCER
  BY <1>2 DEF SEQUENCER
<1>4. [s EXCEPT !.map_mask = planes] \in SEQUENCER
  BY <1>1 DEF SEQUENCER
<1>5. /\ [s EXCEPT !.reset1 = b] \in SEQUENCER
      /\ [s EXCEPT !.reset2 = b] \in SEQUENCER
      /\ [s EXCEPT !.chain_four = b] \in SEQUENCER
      /\ [s EXCEPT !.clear_screen = b] \in SEQUENCER
  BY DEF SEQUENCER
<1>6. /\ [s EXCEPT !.char_map_select = value % 64] \in SEQUENCER
      /\ [s EXCEPT !.char_map_select = 0] \in SEQUENCER
  BY Numbers DEF SEQUENCER
<1>. QED BY <1>3, <1>4, <1>5, <1>6 DEF planes, kept

\* A change of the font's place asks for a new copy.
LEMMA MovedOK ==
    ASSUME NEW u, NEW v \in VGA, Plain(u, v), NEW a \in CharMaps, NEW e \in EFFECT,
           e.charmap, ~e.palette
    PROVE  PortOK(u, [vga |-> [v EXCEPT !.charmap_address = a], effect |-> e])
<1>. DEFINE w == [v EXCEPT !.charmap_address = a]
<1>1. w \in VGA
  BY VgaSizesReplaced
<1>2. /\ w.memory = u.memory /\ w.CRTC.reg = u.CRTC.reg /\ w.line_offset = u.line_offset
      /\ w.line_compare = u.line_compare
      /\ w.vertical_display_end = u.vertical_display_end
  BY VgaDomain DEF Plain
<1>. HIDE DEF w
<1>3. Derived(u) => Derived(w)
  BY <1>2 DEF Derived, Height
<1>. QED BY <1>1, <1>2, <1>3 DEF PortOK, w

\* The character map select register names one of the eight maps.
LEMMA CharMapOffsets ==
    ASSUME NEW value \in 0..255
    PROVE  charmap_offset[(value % 4) + 4 * Number(Bit(value, 4)) + 1] \in CharMaps
<1>. DEFINE i == (value % 4) + 4 * Number(Bit(value, 4)) + 1
<1>1. i \in 1..8
  <2>1. value % 4 \in 0..3
    BY Numbers
  <2>. QED BY <2>1, BitTypes
<1>. HIDE DEF i
<1>2. i = 1 \/ i = 2 \/ i = 3 \/ i = 4 \/ i = 5 \/ i = 6 \/ i = 7 \/ i = 8
  BY <1>1
<1>3. charmap_offset[i] \in CharMaps
  BY <1>2 DEF charmap_offset, CharMaps
<1>. QED BY <1>3 DEF i

\* The registers of the sequencer.
LEMMA SequencerOK ==
    ASSUME NEW v \in VGA, NEW value \in 0..255
    PROVE  PortOK(v, WriteSequencer(v, value))
<1>. DEFINE s == v.sequencer
<1>1. s \in SEQUENCER
  BY VgaFields
<1>2. ASSUME NEW h \in SEQUENCER
      PROVE  Plain(v, [v EXCEPT !.sequencer = h]) /\ PortOK(v, Quiet([v EXCEPT !.sequencer = h]))
  <2>1. Plain(v, [v EXCEPT !.sequencer = h])
    BY PlainParts
  <2>. QED BY <2>1, QuietOK
<1>3. PICK font \in EFFECT : font = [None EXCEPT !.charmap = TRUE]
  BY NoneType
<1>4. font.charmap /\ ~font.palette
  BY <1>3 DEF None
<1>5. 0 \in CharMaps
  BY DEF CharMaps
<1>6. PortOK(v, WriteSequencerReset(v, value))
  <2>. DEFINE resets == s.reset1 /\ ~Bit(value, 0)
  <2>1. PICK b0 \in BOOLEAN : b0 = Bit(value, 0)
    BY BitTypes
  <2>2. PICK b1 \in BOOLEAN : b1 = Bit(value, 1)
    BY BitTypes, SMTT(40)
  <2>3. PICK h \in SEQUENCER : h = [s EXCEPT !.reset1 = b0]
    BY <1>1, <2>1, SequencerTypes, ZenonT(60)
  <2>4. PICK k \in SEQUENCER : k = [h EXCEPT !.reset2 = b1]
    BY <2>2, <2>3, SequencerTypes, ZenonT(60)
  <2>5. PICK l \in SEQUENCER : l = [k EXCEPT !.char_map_select = 0]
    BY <2>4, SequencerTypes
  <2>6. WriteSequencerReset(v, value) =
            IF resets
            THEN [vga |-> [[v EXCEPT !.sequencer = l] EXCEPT !.charmap_address = 0],
                  effect |-> font]
            ELSE Quiet([v EXCEPT !.sequencer = k])
    BY <1>3, <2>1, <2>2, <2>3, <2>4, <2>5, VgaDomain DEF WriteSequencerReset
  <2>7. PortOK(v, Quiet([v EXCEPT !.sequencer = k]))
    BY <1>2
  <2>8. PortOK(v, [vga |-> [[v EXCEPT !.sequencer = l] EXCEPT !.charmap_address = 0],
                   effect |-> font])
    <3>1. Plain(v, [v EXCEPT !.sequencer = l]) /\ [v EXCEPT !.sequencer = l] \in VGA
      BY <1>2, VgaPartsReplaced
    <3>. QED BY <1>4, <1>5, <3>1, MovedOK
  <2>. QED BY <2>6, <2>7, <2>8, Zenon
<1>7. PortOK(v, WriteClocking(v, value))
  <2>. DEFINE changed == \E b \in {0, 3, 5} : Bit(value, b) # Bit(s.reg1, b)
  <2>1. PICK b3 \in BOOLEAN : b3 = Bit(value, 3)
    BY BitTypes
  <2>2. PICK b5 \in BOOLEAN : b5 = Bit(value, 5)
    BY BitTypes, SMTT(40)
  <2>3. PICK h \in SEQUENCER : h = [s EXCEPT !.reg1 = (value % 2) + 4 * ((value \div 4) % 16)]
    BY <1>1, SequencerTypes, ZenonT(60)
  <2>4. PICK k \in SEQUENCER : k = [h EXCEPT !.clear_screen = b5]
    BY <2>2, SequencerTypes
  <2>5. WriteClocking(v, value) =
            IF changed
            THEN Redraw([[v EXCEPT !.sequencer = k] EXCEPT !.x_dotclockdiv2 = b3])
            ELSE Quiet([v EXCEPT !.sequencer = h])
    BY <2>1, <2>2, <2>3, <2>4, VgaDomain DEF WriteClocking
  <2>6. PortOK(v, Quiet([v EXCEPT !.sequencer = h]))
    BY <1>2
  <2>7. PortOK(v, Redraw([[v EXCEPT !.sequencer = k] EXCEPT !.x_dotclockdiv2 = b3]))
    <3>1. PICK w \in VGA : w = [v EXCEPT !.sequencer = k]
      BY VgaPartsReplaced
    <3>2. Plain(v, w)
      BY <1>2, <3>1
    <3>3. Plain(w, [w EXCEPT !.x_dotclockdiv2 = b3])
      BY PlainParts
    <3>4. Plain(v, [w EXCEPT !.x_dotclockdiv2 = b3])
      BY <3>2, <3>3, PlainTrans
    <3>. QED BY <3>1, <3>4, QuietOK
  <2>. HIDE DEF changed
  <2>. QED BY <2>5, <2>6, <2>7, Zenon
<1>8. PortOK(v, WriteCharMapSelect(v, value))
  <2>. DEFINE a == charmap_offset[(value % 4) + 4 * Number(Bit(value, 4)) + 1]
              h == [s EXCEPT !.char_map_select = value % 64]
  <2>1. a \in CharMaps
    BY CharMapOffsets, SMTT(40)
  <2>2. h \in SEQUENCER
    BY <1>1, SequencerTypes
  <2>3. WriteCharMapSelect(v, value) =
            IF v.CRTC.reg[9] > 0
            THEN [vga |-> [[v EXCEPT !.sequencer = h] EXCEPT !.charmap_address = a],
                  effect |-> font]
            ELSE Quiet([v EXCEPT !.sequencer = h])
    BY <1>3, VgaDomain DEF WriteCharMapSelect
  <2>. HIDE DEF a, h
  <2>4. PortOK(v, Quiet([v EXCEPT !.sequencer = h]))
    BY <1>2, <2>2
  <2>5. PortOK(v, [vga |-> [[v EXCEPT !.sequencer = h] EXCEPT !.charmap_address = a],
                   effect |-> font])
    <3>1. Plain(v, [v EXCEPT !.sequencer = h]) /\ [v EXCEPT !.sequencer = h] \in VGA
      BY <1>2, <2>2, VgaPartsReplaced, SMTT(40)
    <3>. QED BY <1>4, <2>1, <3>1, MovedOK
  <2>. QED BY <2>3, <2>4, <2>5, Zenon
<1>9. PortOK(v, Quiet([v EXCEPT !.sequencer.map_mask = PlanesOf(value)]))
  BY <1>1, <1>2, SequencerTypes, ZenonT(60)
<1>10. PortOK(v, Quiet([v EXCEPT !.sequencer.chain_four = Bit(value, 3)]))
  <2>1. PICK b3 \in BOOLEAN : b3 = Bit(value, 3)
    BY BitTypes
  <2>. QED BY <1>1, <1>2, <2>1, SequencerTypes
<1>11. PortOK(v, Quiet(v))
  BY PlainParts, QuietOK
<1>. QED BY <1>6, <1>7, <1>8, <1>9, <1>10, <1>11 DEF WriteSequencer

-----------------------------------------------------------------------------
\* The palette.
LEMMA PelTypes ==
    ASSUME NEW p \in PEL, NEW value \in 0..255
    PROVE  /\ [p EXCEPT !.mask = value] \in PEL
           /\ [p EXCEPT !.read_data_register = value % DacSize,
                        !.read_data_cycle = 0, !.dac_state = 3] \in PEL
           /\ [p EXCEPT !.write_data_register = value % DacSize,
                        !.write_data_cycle = 0, !.dac_state = 0] \in PEL
<1>. DEFINE D == 0..(DacSize - 1)
            C == 0..2
            S == {0, 1, 3}
            M == 0..255
            first == value % DacSize
<1>1. first \in D /\ 0 \in C /\ 0 \in S /\ 3 \in S /\ value \in M
  BY VgaAssumption
<1>2. PEL = [write_data_register: D, write_data_cycle: C,
             read_data_register: D, read_data_cycle: C,
             dac_state: S, data: [D -> RGB], mask: M]
  BY DEF PEL
<1>. HIDE DEF C, S, M, D, first, RGB
<1>3. [p EXCEPT !.mask = value] \in PEL
  BY <1>1, <1>2
<1>4. [p EXCEPT !.read_data_register = first, !.read_data_cycle = 0, !.dac_state = 3] \in PEL
  <2>1. PICK q \in PEL : q = [p EXCEPT !.read_data_register = first]
    BY <1>1, <1>2
  <2>2. PICK s \in PEL : s = [q EXCEPT !.read_data_cycle = 0]
    BY <1>1, <1>2, <2>1
  <2>3. [s EXCEPT !.dac_state = 3] \in PEL
    BY <1>1, <1>2, <2>2
  <2>. QED BY <2>1, <2>2, <2>3
<1>5. [p EXCEPT !.write_data_register = first, !.write_data_cycle = 0, !.dac_state = 0] \in PEL
  <2>1. PICK q \in PEL : q = [p EXCEPT !.write_data_register = first]
    BY <1>1, <1>2
  <2>2. PICK s \in PEL : s = [q EXCEPT !.write_data_cycle = 0]
    BY <1>1, <1>2, <2>1
  <2>3. [s EXCEPT !.dac_state = 0] \in PEL
    BY <1>1, <1>2, <2>2
  <2>. QED BY <2>1, <2>2, <2>3
<1>. QED BY <1>3, <1>4, <1>5 DEF first

\* An entry, and the place of the next byte.
LEMMA PelMoves ==
    ASSUME NEW p \in PEL, NEW r \in 0..(DacSize - 1)
    PROVE  /\ \A c \in 0..2 :
                  /\ [p EXCEPT !.read_data_cycle = c, !.read_data_register = r] \in PEL
                  /\ [p EXCEPT !.write_data_cycle = c, !.write_data_register = r] \in PEL
           /\ \A c \in RGB : [p EXCEPT !.data[r] = c] \in PEL
<1>. DEFINE D == 0..(DacSize - 1)
<1>1. PEL = [write_data_register: D, write_data_cycle: 0..2,
             read_data_register: D, read_data_cycle: 0..2,
             dac_state: {0, 1, 3}, data: [D -> RGB], mask: 0..255]
  BY DEF PEL
<1>2. r \in D
  OBVIOUS
<1>. HIDE DEF D, RGB
<1>3. ASSUME NEW c \in 0..2
      PROVE  [p EXCEPT !.read_data_cycle = c, !.read_data_register = r] \in PEL
  BY <1>1, <1>2
<1>4. ASSUME NEW c \in 0..2
      PROVE  [p EXCEPT !.write_data_cycle = c, !.write_data_register = r] \in PEL
  BY <1>1, <1>2
<1>5. ASSUME NEW c \in RGB PROVE [p EXCEPT !.data[r] = c] \in PEL
  <2>1. [p.data EXCEPT ![r] = c] \in [D -> RGB]
    BY <1>1, <1>2
  <2>2. [p EXCEPT !.data = [p.data EXCEPT ![r] = c]] \in PEL
    BY <1>1, <2>1
  <2>. QED BY <2>2
<1>. QED BY <1>3, <1>4, <1>5

\* A colour of the palette with one of its parts replaced.
LEMMA ColourTypes ==
    ASSUME NEW c \in RGB, NEW value \in 0..255
    PROVE  /\ [c EXCEPT !.red = value] \in RGB
           /\ [c EXCEPT !.green = value] \in RGB
           /\ [c EXCEPT !.blue = value] \in RGB
BY DEF RGB

\* The fields of the palette registers.
LEMMA PelFields ==
    ASSUME NEW p \in PEL
    PROVE  /\ p.write_data_register \in 0..(DacSize - 1) /\ p.write_data_cycle \in 0..2
           /\ p.read_data_register \in 0..(DacSize - 1) /\ p.read_data_cycle \in 0..2
           /\ p.data \in [0..(DacSize - 1) -> RGB]
           /\ DOMAIN p = {"write_data_register", "write_data_cycle", "read_data_register",
                          "read_data_cycle", "dac_state", "data", "mask"}
BY DEF PEL

\* The next entry, and the next of its three bytes.
LEMMA PelNext ==
    ASSUME NEW r \in 0..(DacSize - 1), NEW c \in 0..2
    PROVE  (r + 1) % DacSize \in 0..(DacSize - 1) /\ (c + 1) % 3 \in 0..2
<1>1. (r + 1) % DacSize \in 0..(DacSize - 1)
  BY VgaAssumption
<1>. QED BY <1>1

\* The registers of the palette.
LEMMA PelOK ==
    ASSUME NEW v \in VGA, NEW value \in 0..255
    PROVE  /\ PortOK(v, WritePelMask(v, value))
           /\ PortOK(v, WritePelRead(v, value))
           /\ PortOK(v, WritePelWrite(v, value))
           /\ PortOK(v, WritePelData(v, value))
<1>. DEFINE p == v.pel
            r == p.write_data_register
            cycle == p.write_data_cycle
<1>1. p \in PEL
  BY VgaFields
<1>2. ASSUME NEW h \in PEL
      PROVE  /\ Plain(v, [v EXCEPT !.pel = h])
             /\ PortOK(v, Quiet([v EXCEPT !.pel = h]))
             /\ \A c \in BOOLEAN : PortOK(v, RedrawIf([v EXCEPT !.pel = h], c))
  <2>1. Plain(v, [v EXCEPT !.pel = h])
    BY PlainParts
  <2>. QED BY <2>1, QuietOK
<1>3. PortOK(v, WritePelMask(v, value))
  <2>. DEFINE c == value # p.mask
  <2>1. c \in BOOLEAN
    BY SMTT(40)
  <2>2. PICK h \in PEL : h = [p EXCEPT !.mask = value]
    BY <1>1, PelTypes, ZenonT(60)
  <2>3. WritePelMask(v, value) = RedrawIf([v EXCEPT !.pel = h], c)
    BY <2>2 DEF WritePelMask
  <2>. HIDE DEF c
  <2>. QED BY <1>2, <2>1, <2>2, <2>3
<1>4. PortOK(v, WritePelRead(v, value))
  <2>1. PICK h \in PEL : h = [p EXCEPT !.read_data_register = value % DacSize,
                                       !.read_data_cycle = 0, !.dac_state = 3]
    BY <1>1, PelTypes, ZenonT(60)
  <2>2. WritePelRead(v, value) = Quiet([v EXCEPT !.pel = h])
    BY <2>1 DEF WritePelRead
  <2>. QED BY <1>2, <2>1, <2>2
<1>5. PortOK(v, WritePelWrite(v, value))
  <2>1. PICK h \in PEL : h = [p EXCEPT !.write_data_register = value % DacSize,
                                       !.write_data_cycle = 0, !.dac_state = 0]
    BY <1>1, PelTypes
  <2>2. WritePelWrite(v, value) = Quiet([v EXCEPT !.pel = h])
    BY <2>1 DEF WritePelWrite
  <2>. QED BY <1>2, <2>1, <2>2
<1>6. PortOK(v, WritePelData(v, value))
  <2>. DEFINE last == cycle = 2
              colour == CASE cycle = 0 -> [p.data[r] EXCEPT !.red = value]
                          [] cycle = 1 -> [p.data[r] EXCEPT !.green = value]
                          [] OTHER -> [p.data[r] EXCEPT !.blue = value]
              next == IF last THEN (r + 1) % DacSize ELSE r
              then == (cycle + 1) % 3
              e == [None EXCEPT !.palette = last, !.redraw = last]
  <2>1. r \in 0..(DacSize - 1) /\ cycle \in 0..2 /\ p.data[r] \in RGB
    BY <1>1, PelFields
  <2>2. colour \in RGB
    BY <2>1, ColourTypes
  <2>3. next \in 0..(DacSize - 1) /\ then \in 0..2
    BY <2>1, PelNext
  <2>4. last \in BOOLEAN
    OBVIOUS
  <2>5. e \in EFFECT
    <3>1. PICK x \in EFFECT : x = [None EXCEPT !.palette = last]
      BY <2>4, NoneType
    <3>2. [x EXCEPT !.redraw = last] \in EFFECT
      BY <2>4, <3>1, NoneType
    <3>. QED BY <3>1, <3>2 DEF None
  <2>6. WritePelData(v, value) =
            [vga |-> [v EXCEPT !.pel = [@ EXCEPT !.data[r] = colour, !.write_data_cycle = then,
                                                 !.write_data_register = next]],
             effect |-> e]
    BY SMTT(40) DEF WritePelData
  <2>. HIDE DEF colour, next, then, e, last, r, cycle
  <2>7. PICK q \in PEL : q = [p EXCEPT !.data[r] = colour]
    BY <1>1, <2>1, <2>2, PelMoves, ZenonT(60)
  <2>8. PICK h \in PEL : h = [q EXCEPT !.write_data_cycle = then, !.write_data_register = next]
    BY <2>3, <2>7, PelMoves
  <2>9. WritePelData(v, value) = [vga |-> [v EXCEPT !.pel = h], effect |-> e]
    BY <2>6, <2>7, <2>8
  <2>10. Plain(v, [v EXCEPT !.pel = h])
    BY <1>2, <2>8
  <2>11. v.pel.write_data_register \in 0..(DacSize - 1)
    BY <2>1 DEF r
  <2>. QED BY <2>5, <2>9, <2>10, <2>11, PlainOK
<1>. QED BY <1>3, <1>4, <1>5, <1>6

\* Reading the palette moves its index on and nothing else.
LEMMA PelRead ==
    ASSUME NEW v \in VGA
    PROVE  Plain(v, ReadPelData(v))
<1>. DEFINE p == v.pel
            r == p.read_data_register
            cycle == p.read_data_cycle
            last == cycle = 2
            next == IF last THEN (r + 1) % DacSize ELSE r
            then == (cycle + 1) % 3
<1>1. p \in PEL
  BY VgaFields
<1>2. r \in 0..(DacSize - 1) /\ cycle \in 0..2
  BY <1>1, PelFields
<1>3. next \in 0..(DacSize - 1) /\ then \in 0..2
  BY <1>2, PelNext
<1>4. ReadPelData(v) =
          IF p.dac_state # 3 THEN v
          ELSE [v EXCEPT !.pel = [@ EXCEPT !.read_data_cycle = then, !.read_data_register = next]]
  BY SMTT(40) DEF ReadPelData
<1>. HIDE DEF next, then
<1>5. [p EXCEPT !.read_data_cycle = then, !.read_data_register = next] \in PEL
  BY <1>1, <1>3, PelMoves
<1>6. Plain(v, [v EXCEPT !.pel = [@ EXCEPT !.read_data_cycle = then, !.read_data_register = next]])
  BY <1>5, PlainParts
<1>7. Plain(v, v)
  BY PlainParts
<1>. QED BY <1>4, <1>6, <1>7

-----------------------------------------------------------------------------
\* The CRT controller.
REGS == [0..24 -> 0..255]

\* Derived, of the values alone.
Follow(r, offset, compare, end) ==
    /\ offset = LineOffset(r)
    /\ compare = r[24] + 256 * Number(Bit(r[7], 4)) + 512 * Number(Bit(r[9], 6))
    /\ end = r[18] + 256 * Number(Bit(r[7], 1)) + 512 * Number(Bit(r[7], 6))

\* The registers of the CRT controller are bytes.
LEMMA RegRange ==
    ASSUME NEW r \in REGS, NEW i \in 0..24
    PROVE  r[i] \in 0..255
BY DEF REGS

\* That the derived values follow the registers, for the VGA as a whole.
LEMMA FollowDerived ==
    ASSUME NEW v, NEW r \in REGS, v.CRTC.reg = r
    PROVE  Derived(v) <=> Follow(r, v.line_offset, v.line_compare, v.vertical_display_end)
<1>. DEFINE n == r[18]
            b == Number(Bit(r[7], 1))
            c == Number(Bit(r[7], 6))
<1>1. n \in 0..255
  BY RegRange
<1>2. b \in {0, 1} /\ c \in {0, 1}
  BY BitTypes, Zenon
<1>3. Height(v) = n + 256 * b + 512 * c + 1
  BY DEF Height
<1>. HIDE DEF n, b, c
<1>4. Height(v) - 1 = n + 256 * b + 512 * c
  BY <1>1, <1>2, <1>3
<1>. QED BY <1>4 DEF Derived, Follow, n, b, c

\* One of the values replaced in a part.
LEMMA ValueParts ==
    ASSUME NEW a \in 0..255, NEW x \in {0, 1}, NEW y \in {0, 1}, NEW z \in {0, 1},
           NEW value \in 0..255
    PROVE  LET n == a + 256 * x + 512 * y
           IN  /\ (n % 256) + 512 * (n \div 512) + 256 * z = a + 256 * z + 512 * y
               /\ (n % 512) + 512 * z = a + 256 * x + 512 * z
               /\ 256 * (n \div 256) + value = value + 256 * x + 512 * y
<1>1. x = 0 \/ x = 1
  OBVIOUS
<1>2. y = 0 \/ y = 1
  OBVIOUS
<1>. QED BY <1>1, <1>2

\* The line counters stay in ten bits, whichever part of them is replaced.
LEMMA ValueRanges ==
    ASSUME NEW n \in Lines, NEW z \in {0, 1}, NEW y \in {0, 1}, NEW value \in 0..255
    PROVE  /\ (n % 256) + 512 * (n \div 512) + 256 * z \in Lines
           /\ (n % 512) + 512 * z \in Lines
           /\ 256 * (n \div 256) + value \in Lines
           /\ (n % 256) + 256 * z + 512 * y \in Lines
<1>1. /\ n \in 0..1023 /\ n % 256 \in 0..255 /\ n \div 512 \in 0..1 /\ n % 512 \in 0..511
      /\ n \div 256 \in 0..3
  BY DEF Lines
<1>2. (z = 0 \/ z = 1) /\ (y = 0 \/ y = 1)
  OBVIOUS
<1>3. (n % 256) + 512 * (n \div 512) + 256 * z \in Lines
  BY <1>1, <1>2 DEF Lines
<1>4. (n % 512) + 512 * z \in Lines
  BY <1>1, <1>2 DEF Lines
<1>5. 256 * (n \div 256) + value \in Lines
  BY <1>1 DEF Lines
<1>6. (n % 256) + 256 * z + 512 * y \in Lines
  BY <1>1, <1>2 DEF Lines
<1>. QED BY <1>3, <1>4, <1>5, <1>6

\* The bits of register 7 that a protected write leaves alone, and the one that
\* it sets.
LEMMA ProtectedBits ==
    ASSUME NEW n \in 0..255, NEW z \in BOOLEAN
    PROVE  LET m == n - 16 * Number(Bit(n, 4)) + 16 * Number(z)
           IN  /\ m \in 0..255
               /\ Bit(m, 4) = z /\ Bit(m, 1) = Bit(n, 1) /\ Bit(m, 6) = Bit(n, 6)
<1>. DEFINE low == n % 16
            bit == (n \div 16) % 2
            high == n \div 32
            k == Number(z)
            m == n - 16 * Number(Bit(n, 4)) + 16 * k
<1>1. low \in 0..15 /\ bit \in {0, 1} /\ high \in 0..7 /\ n = low + 16 * bit + 32 * high
  OBVIOUS
<1>2. 2^4 = 16 /\ 2^1 = 2 /\ 2^6 = 64
  OBVIOUS
<1>3. Number(Bit(n, 4)) = bit
  BY <1>1, <1>2 DEF Number, Bit
<1>4. k \in {0, 1}
  BY BitTypes
<1>. HIDE DEF low, bit, high, k
<1>5. m = low + 16 * k + 32 * high
  BY <1>1, <1>3, <1>4
<1>6. m \in 0..255
  BY <1>1, <1>4, <1>5
<1>. HIDE DEF m
<1>7. Bit(m, 4) <=> k = 1
  <2>1. (m \div 16) % 2 = k
    BY <1>1, <1>4, <1>5
  <2>. QED BY <1>2, <2>1 DEF Bit
<1>8. Bit(m, 1) <=> Bit(n, 1)
  <2>1. (m \div 2) % 2 = (low \div 2) % 2
    BY <1>1, <1>4, <1>5
  <2>2. (n \div 2) % 2 = (low \div 2) % 2
    BY <1>1
  <2>. QED BY <1>2, <2>1, <2>2 DEF Bit
<1>9. Bit(m, 6) <=> Bit(n, 6)
  <2>1. (m \div 64) % 2 = (high \div 2) % 2
    BY <1>1, <1>4, <1>5
  <2>2. (n \div 64) % 2 = (high \div 2) % 2
    BY <1>1
  <2>. QED BY <1>2, <2>1, <2>2 DEF Bit
<1>10. k = 1 <=> z
  BY DEF Number, k
<1>11. Bit(m, 4) \in BOOLEAN /\ Bit(m, 1) \in BOOLEAN /\ Bit(m, 6) \in BOOLEAN
       /\ Bit(n, 1) \in BOOLEAN /\ Bit(n, 6) \in BOOLEAN
  BY BitTypes
<1>. QED BY <1>6, <1>7, <1>8, <1>9, <1>10, <1>11 DEF m, k

\* A write of register r.
RegSet(v, r, value) == [v EXCEPT !.CRTC.reg[r] = value]

\* The VGA with a register of the CRT controller replaced.
LEMMA CrtcWritten ==
    ASSUME NEW v \in VGA, NEW r \in 0..24, NEW value \in 0..255
    PROVE  /\ RegSet(v, r, value) \in VGA
           /\ RegSet(v, r, value).memory = v.memory
           /\ RegSet(v, r, value).charmap_address = v.charmap_address
           /\ RegSet(v, r, value).CRTC.reg = [v.CRTC.reg EXCEPT ![r] = value]
           /\ RegSet(v, r, value).CRTC.reg \in REGS
           /\ RegSet(v, r, value).line_offset = v.line_offset
           /\ RegSet(v, r, value).line_compare = v.line_compare
           /\ RegSet(v, r, value).vertical_display_end = v.vertical_display_end
<1>1. v.CRTC \in CRTC
  BY VgaFields
<1>2. CRTC = [address: 0..63, reg: REGS, write_protect: BOOLEAN]
  BY DEF CRTC, REGS
<1>3. v.CRTC.reg \in REGS
  BY <1>1, <1>2, SMTT(40)
<1>4. PICK reg \in REGS : reg = [v.CRTC.reg EXCEPT ![r] = value]
  BY <1>3 DEF REGS
<1>5. PICK c \in CRTC : c = [v.CRTC EXCEPT !.reg = reg]
  BY <1>1, <1>2
<1>6. c.reg = reg
  BY <1>1, <1>2, <1>5
<1>7. [v EXCEPT !.CRTC = c] \in VGA
  BY <1>5, VgaPartsReplaced
<1>8. [v EXCEPT !.CRTC.reg[r] = value] = [v EXCEPT !.CRTC = c]
  BY <1>4, <1>5, SMTT(40)
<1>. QED BY <1>3, <1>4, <1>6, <1>7, <1>8, VgaDomain DEF RegSet

\* The registers of the CRT controller.
LEMMA RegsType ==
    ASSUME NEW v \in VGA
    PROVE  v.CRTC.reg \in REGS
<1>1. v.CRTC \in CRTC
  BY VgaFields
<1>. QED BY <1>1 DEF CRTC, REGS

\* A write to the CRT controller after which the derived values follow.
LEMMA CrtcOK ==
    ASSUME NEW v \in VGA, NEW w \in VGA, w.memory = v.memory,
           w.charmap_address = v.charmap_address,
           v.CRTC.reg \in REGS, w.CRTC.reg \in REGS,
           Follow(v.CRTC.reg, v.line_offset, v.line_compare, v.vertical_display_end) =>
               Follow(w.CRTC.reg, w.line_offset, w.line_compare, w.vertical_display_end)
    PROVE  /\ PortOK(v, Quiet(w)) /\ PortOK(v, Redraw(w))
           /\ PortOK(v, [vga |-> w, effect |-> [None EXCEPT !.redraw = TRUE, !.charmap = TRUE]])
<1>1. Derived(v) => Derived(w)
  BY FollowDerived
<1>2. PICK e \in EFFECT : e = [None EXCEPT !.redraw = TRUE]
  BY NoneType
<1>3. PICK f \in EFFECT : f = [None EXCEPT !.redraw = TRUE, !.charmap = TRUE]
  <2>1. [e EXCEPT !.charmap = TRUE] \in EFFECT
    BY NoneType
  <2>. QED BY <1>2, <2>1
<1>4. None \in EFFECT /\ ~None.palette /\ ~e.palette /\ ~f.palette
  BY <1>2, <1>3, NoneType DEF None
<1>5. \A x \in EFFECT : ~x.palette => PortOK(v, [vga |-> w, effect |-> x])
  BY <1>1 DEF PortOK
<1>. QED BY <1>2, <1>3, <1>4, <1>5 DEF Quiet, Redraw

\* Half of the length of a line in words is in a register.
LEMMA OffsetRange ==
    ASSUME NEW r \in REGS
    PROVE  LineOffset(r) \in LineOffsets
<1>1. r[19] \in 0..255
  BY DEF REGS
<1>. QED BY <1>1 DEF LineOffset, LineOffsets

\* A register that the derived values do not come from.
LEMMA OtherRegister ==
    ASSUME NEW reg \in REGS, NEW r \in 0..24, r \notin {7, 9, 18, 19, 20, 23, 24},
           NEW value \in 0..255, NEW offset, NEW compare, NEW end,
           Follow(reg, offset, compare, end)
    PROVE  Follow([reg EXCEPT ![r] = value], offset, compare, end)
<1>. DEFINE new == [reg EXCEPT ![r] = value]
<1>1. /\ new[7] = reg[7] /\ new[9] = reg[9] /\ new[18] = reg[18] /\ new[19] = reg[19]
      /\ new[20] = reg[20] /\ new[23] = reg[23] /\ new[24] = reg[24]
  BY DEF REGS
<1>. HIDE DEF new
<1>. QED BY <1>1 DEF Follow, LineOffset, new

\* The registers that they come from.
EndOf(end, value) == (end % 256) + 256 * Number(Bit(value, 1)) + 512 * Number(Bit(value, 6))

\* Register 7 holds the ninth bit of the line compare and two bits of the end.
LEMMA HighBitsRegister ==
    ASSUME NEW reg \in REGS, NEW value \in 0..255, NEW offset, NEW compare, NEW end,
           Follow(reg, offset, compare, end)
    PROVE  Follow([reg EXCEPT ![7] = value], offset, Bit8(compare, Bit(value, 4)),
                  EndOf(end, value))
<1>. DEFINE new == [reg EXCEPT ![7] = value]
            x == Number(Bit(reg[7], 4))
            y == Number(Bit(reg[9], 6))
            z == Number(Bit(value, 4))
            p == Number(Bit(reg[7], 1))
            q == Number(Bit(reg[7], 6))
            k == Number(Bit(value, 1))
            l == Number(Bit(value, 6))
            a == reg[24]
            c == reg[18]
<1>1. /\ new[7] = value /\ new[9] = reg[9] /\ new[18] = reg[18] /\ new[19] = reg[19]
      /\ new[20] = reg[20] /\ new[23] = reg[23] /\ new[24] = reg[24]
  BY DEF REGS
<1>2. a \in 0..255 /\ c \in 0..255
  BY RegRange
<1>3. x \in {0, 1} /\ y \in {0, 1} /\ z \in {0, 1} /\ p \in {0, 1} /\ q \in {0, 1}
  BY BitTypes, Zenon
<1>4. compare = a + 256 * x + 512 * y /\ end = c + 256 * p + 512 * q /\ offset = LineOffset(reg)
  BY DEF Follow
<1>. HIDE DEF new, x, y, z, p, q, k, l, a, c
<1>5. (compare % 256) + 512 * (compare \div 512) + 256 * z = a + 256 * z + 512 * y
  BY <1>2, <1>3, <1>4, ValueParts
<1>6. end % 256 = c
  <2>1. (p = 0 \/ p = 1) /\ (q = 0 \/ q = 1)
    BY <1>3
  <2>. QED BY <1>2, <1>4, <2>1
<1>. QED BY <1>1, <1>4, <1>5, <1>6 DEF Follow, LineOffset, Bit8, EndOf, new, x, y, z, k, l, a, c

\* Register 9 holds the tenth bit of the line compare.
LEMMA Bit9Register ==
    ASSUME NEW reg \in REGS, NEW value \in 0..255, NEW offset, NEW compare, NEW end,
           Follow(reg, offset, compare, end)
    PROVE  Follow([reg EXCEPT ![9] = value], offset, Bit9(compare, Bit(value, 6)), end)
<1>. DEFINE new == [reg EXCEPT ![9] = value]
            x == Number(Bit(reg[7], 4))
            y == Number(Bit(reg[9], 6))
            z == Number(Bit(value, 6))
            a == reg[24]
<1>1. /\ new[7] = reg[7] /\ new[9] = value /\ new[18] = reg[18] /\ new[19] = reg[19]
      /\ new[20] = reg[20] /\ new[23] = reg[23] /\ new[24] = reg[24]
  BY DEF REGS
<1>2. a \in 0..255
  BY RegRange
<1>3. x \in {0, 1} /\ y \in {0, 1} /\ z \in {0, 1}
  BY BitTypes, Zenon
<1>4. compare = a + 256 * x + 512 * y
  BY DEF Follow
<1>. HIDE DEF new, x, y, z, a
<1>5. (compare % 512) + 512 * z = a + 256 * x + 512 * z
  BY <1>2, <1>3, <1>4, ValueParts
<1>. QED BY <1>1, <1>5 DEF Follow, LineOffset, Bit9, new, x, z, a

\* Registers 24 and 18 hold the low bytes.
LEMMA LowByteRegister ==
    ASSUME NEW reg \in REGS, NEW value \in 0..255, NEW offset, NEW compare, NEW end,
           Follow(reg, offset, compare, end)
    PROVE  /\ Follow([reg EXCEPT ![24] = value], offset, LowByte(compare, value), end)
           /\ Follow([reg EXCEPT ![18] = value], offset, compare, LowByte(end, value))
<1>. DEFINE n == [reg EXCEPT ![24] = value]
            m == [reg EXCEPT ![18] = value]
            x == Number(Bit(reg[7], 4))
            y == Number(Bit(reg[9], 6))
            p == Number(Bit(reg[7], 1))
            q == Number(Bit(reg[7], 6))
            a == reg[24]
            c == reg[18]
<1>1. /\ n[7] = reg[7] /\ n[9] = reg[9] /\ n[18] = reg[18] /\ n[19] = reg[19]
      /\ n[20] = reg[20] /\ n[23] = reg[23] /\ n[24] = value
  BY DEF REGS
<1>2. /\ m[7] = reg[7] /\ m[9] = reg[9] /\ m[18] = value /\ m[19] = reg[19]
      /\ m[20] = reg[20] /\ m[23] = reg[23] /\ m[24] = reg[24]
  BY DEF REGS
<1>3. a \in 0..255 /\ c \in 0..255
  BY RegRange
<1>4. x \in {0, 1} /\ y \in {0, 1} /\ p \in {0, 1} /\ q \in {0, 1}
  BY BitTypes, Zenon
<1>5. compare = a + 256 * x + 512 * y /\ end = c + 256 * p + 512 * q
  BY DEF Follow
<1>. HIDE DEF n, m, x, y, p, q, a, c
<1>6. 256 * (compare \div 256) + value = value + 256 * x + 512 * y
  BY <1>3, <1>4, <1>5, ValueParts
<1>7. 256 * (end \div 256) + value = value + 256 * p + 512 * q
  BY <1>3, <1>4, <1>5, ValueParts
<1>8. Follow(n, offset, LowByte(compare, value), end)
  BY <1>1, <1>6 DEF Follow, LineOffset, LowByte, x, y
<1>9. Follow(m, offset, compare, LowByte(end, value))
  BY <1>2, <1>7 DEF Follow, LineOffset, LowByte, p, q
<1>. QED BY <1>8, <1>9 DEF n, m

\* Registers 19, 20 and 23 make up the line offset.
LEMMA OffsetRegister ==
    ASSUME NEW reg \in REGS, NEW r \in {19, 20, 23}, NEW value \in 0..255,
           NEW offset, NEW compare, NEW end, Follow(reg, offset, compare, end)
    PROVE  LET new == [reg EXCEPT ![r] = value]
           IN  Follow(new, LineOffset(new), compare, end)
<1>. DEFINE new == [reg EXCEPT ![r] = value]
<1>1. new[7] = reg[7] /\ new[9] = reg[9] /\ new[18] = reg[18] /\ new[24] = reg[24]
  BY DEF REGS
<1>. HIDE DEF new
<1>. QED BY <1>1 DEF Follow, new

\* A protected write reaches one bit of register 7.
LEMMA ProtectedRegister ==
    ASSUME NEW reg \in REGS, NEW value \in 0..255, NEW offset, NEW compare, NEW end,
           Follow(reg, offset, compare, end)
    PROVE  LET n == reg[7] - 16 * Number(Bit(reg[7], 4)) + 16 * Number(Bit(value, 4))
           IN  Follow([reg EXCEPT ![7] = n], offset, Bit8(compare, Bit(value, 4)), end)
<1>. DEFINE n == reg[7] - 16 * Number(Bit(reg[7], 4)) + 16 * Number(Bit(value, 4))
            new == [reg EXCEPT ![7] = n]
            x == Number(Bit(reg[7], 4))
            y == Number(Bit(reg[9], 6))
            z == Number(Bit(value, 4))
            a == reg[24]
<1>0. /\ n \in 0..255
      /\ Bit(n, 4) = Bit(value, 4) /\ Bit(n, 1) = Bit(reg[7], 1) /\ Bit(n, 6) = Bit(reg[7], 6)
  <2>1. PICK b \in BOOLEAN : b = Bit(value, 4)
    BY BitTypes
  <2>2. reg[7] \in 0..255
    BY RegRange
  <2>. QED BY <2>1, <2>2, ProtectedBits
<1>. HIDE DEF n
<1>1. /\ new[7] = n /\ new[9] = reg[9] /\ new[18] = reg[18] /\ new[19] = reg[19]
      /\ new[20] = reg[20] /\ new[23] = reg[23] /\ new[24] = reg[24]
  BY <1>0 DEF REGS
<1>2. a \in 0..255
  BY RegRange
<1>3. x \in {0, 1} /\ y \in {0, 1} /\ z \in {0, 1}
  BY BitTypes, Zenon
<1>4. compare = a + 256 * x + 512 * y
  BY DEF Follow
<1>. HIDE DEF new, x, y, z, a
<1>5. (compare % 256) + 512 * (compare \div 512) + 256 * z = a + 256 * z + 512 * y
  BY <1>2, <1>3, <1>4, ValueParts
<1>6. Number(Bit(n, 4)) = z /\ Number(Bit(n, 1)) = Number(Bit(reg[7], 1))
      /\ Number(Bit(n, 6)) = Number(Bit(reg[7], 6))
  BY <1>0 DEF z
<1>7. Bit8(compare, Bit(value, 4)) = a + 256 * Number(Bit(new[7], 4)) + 512 * Number(Bit(new[9], 6))
  BY <1>1, <1>5, <1>6 DEF Bit8, y, z
<1>8. end = new[18] + 256 * Number(Bit(new[7], 1)) + 512 * Number(Bit(new[7], 6))
  BY <1>1, <1>6 DEF Follow
<1>9. offset = LineOffset(new)
  BY <1>1 DEF Follow, LineOffset
<1>. QED BY <1>1, <1>7, <1>8, <1>9, SMTT(40) DEF Follow, new, a, n

\* One more of the values replaced.
LEMMA CrtcValue ==
    ASSUME NEW w \in VGA
    PROVE  /\ \A x \in Lines :
                  LET u == [w EXCEPT !.line_compare = x]
                  IN  /\ u \in VGA /\ u.memory = w.memory /\ u.charmap_address = w.charmap_address
                      /\ u.CRTC = w.CRTC /\ u.line_offset = w.line_offset
                      /\ u.line_compare = x /\ u.vertical_display_end = w.vertical_display_end
           /\ \A x \in Lines :
                  LET u == [w EXCEPT !.vertical_display_end = x]
                  IN  /\ u \in VGA /\ u.memory = w.memory /\ u.charmap_address = w.charmap_address
                      /\ u.CRTC = w.CRTC /\ u.line_offset = w.line_offset
                      /\ u.line_compare = w.line_compare /\ u.vertical_display_end = x
           /\ \A x \in LineOffsets :
                  LET u == [w EXCEPT !.line_offset = x]
                  IN  /\ u \in VGA /\ u.memory = w.memory /\ u.charmap_address = w.charmap_address
                      /\ u.CRTC = w.CRTC /\ u.line_offset = x
                      /\ u.line_compare = w.line_compare
                      /\ u.vertical_display_end = w.vertical_display_end
           /\ \A x \in BOOLEAN :
                  LET u == [w EXCEPT !.y_doublescan = x]
                  IN  /\ u \in VGA /\ u.memory = w.memory /\ u.charmap_address = w.charmap_address
                      /\ u.CRTC = w.CRTC /\ u.line_offset = w.line_offset
                      /\ u.line_compare = w.line_compare
                      /\ u.vertical_display_end = w.vertical_display_end
           /\ \A x \in BOOLEAN :
                  LET u == [w EXCEPT !.CRTC.write_protect = x]
                  IN  /\ u \in VGA /\ u.memory = w.memory /\ u.charmap_address = w.charmap_address
                      /\ u.CRTC.reg = w.CRTC.reg /\ u.line_offset = w.line_offset
                      /\ u.line_compare = w.line_compare
                      /\ u.vertical_display_end = w.vertical_display_end
<1>1. ASSUME NEW x \in Lines
      PROVE  LET u == [w EXCEPT !.line_compare = x]
             IN  /\ u \in VGA /\ u.memory = w.memory /\ u.charmap_address = w.charmap_address
                 /\ u.CRTC = w.CRTC /\ u.line_offset = w.line_offset
                 /\ u.line_compare = x /\ u.vertical_display_end = w.vertical_display_end
  BY VgaSizesReplaced, VgaDomain
<1>2. ASSUME NEW x \in Lines
      PROVE  LET u == [w EXCEPT !.vertical_display_end = x]
             IN  /\ u \in VGA /\ u.memory = w.memory /\ u.charmap_address = w.charmap_address
                 /\ u.CRTC = w.CRTC /\ u.line_offset = w.line_offset
                 /\ u.line_compare = w.line_compare /\ u.vertical_display_end = x
  BY VgaSizesReplaced, VgaDomain
<1>3. ASSUME NEW x \in LineOffsets
      PROVE  LET u == [w EXCEPT !.line_offset = x]
             IN  /\ u \in VGA /\ u.memory = w.memory /\ u.charmap_address = w.charmap_address
                 /\ u.CRTC = w.CRTC /\ u.line_offset = x
                 /\ u.line_compare = w.line_compare
                 /\ u.vertical_display_end = w.vertical_display_end
  BY VgaSizesReplaced, VgaDomain
<1>4. ASSUME NEW x \in BOOLEAN
      PROVE  LET u == [w EXCEPT !.y_doublescan = x]
             IN  /\ u \in VGA /\ u.memory = w.memory /\ u.charmap_address = w.charmap_address
                 /\ u.CRTC = w.CRTC /\ u.line_offset = w.line_offset
                 /\ u.line_compare = w.line_compare
                 /\ u.vertical_display_end = w.vertical_display_end
  BY VgaSwitched, VgaDomain
<1>5. ASSUME NEW x \in BOOLEAN
      PROVE  LET u == [w EXCEPT !.CRTC.write_protect = x]
             IN  /\ u \in VGA /\ u.memory = w.memory /\ u.charmap_address = w.charmap_address
                 /\ u.CRTC.reg = w.CRTC.reg /\ u.line_offset = w.line_offset
                 /\ u.line_compare = w.line_compare
                 /\ u.vertical_display_end = w.vertical_display_end
  <2>1. w.CRTC \in CRTC
    BY VgaFields
  <2>2. PICK c \in CRTC : c = [w.CRTC EXCEPT !.write_protect = x]
    BY <2>1 DEF CRTC
  <2>3. c.reg = w.CRTC.reg
    BY <2>1, <2>2 DEF CRTC
  <2>4. [w EXCEPT !.CRTC = c] \in VGA
    BY <2>2, VgaPartsReplaced
  <2>. QED BY <2>2, <2>3, <2>4, VgaDomain
<1>. QED BY <1>1, <1>2, <1>3, <1>4, <1>5

\* A write to register 7 while the registers are protected.
LEMMA ProtectedOK ==
    ASSUME NEW v \in VGA, NEW value \in 0..255
    PROVE  PortOK(v, WriteProtected(v, value))
<1>. DEFINE reg == v.CRTC.reg
            n == reg[7] - 16 * Number(Bit(reg[7], 4)) + 16 * Number(Bit(value, 4))
            compare == Bit8(v.line_compare, Bit(value, 4))
<1>1. reg \in REGS
  BY RegsType, SMTT(40)
<1>2. n \in 0..255
  <2>1. PICK b \in BOOLEAN : b = Bit(value, 4)
    BY BitTypes
  <2>2. reg[7] \in 0..255
    BY <1>1, RegRange
  <2>. QED BY <2>1, <2>2, ProtectedBits
<1>3. compare \in Lines
  <2>1. Number(Bit(value, 4)) \in {0, 1}
    BY BitTypes, Zenon
  <2>2. v.line_compare \in Lines
    BY VgaFields
  <2>3. \A k \in {0, 1} : (v.line_compare % 256) + 512 * (v.line_compare \div 512) + 256 * k \in Lines
    BY <2>2, ValueRanges
  <2>. QED BY <2>1, <2>3 DEF Bit8
<1>4. WriteProtected(v, value) =
          IF v.CRTC.address = 7
          THEN Redraw([RegSet(v, 7, n) EXCEPT !.line_compare = compare])
          ELSE Quiet(v)
  BY VgaDomain, SMTT(40) DEF WriteProtected, RegSet
<1>5. ASSUME Follow(reg, v.line_offset, v.line_compare, v.vertical_display_end)
      PROVE  Follow([reg EXCEPT ![7] = n], v.line_offset, compare, v.vertical_display_end)
  BY <1>1, <1>5, ProtectedRegister
<1>. HIDE DEF n, compare
<1>. DEFINE written == RegSet(v, 7, n)
<1>12. /\ written \in VGA /\ written.memory = v.memory
       /\ written.charmap_address = v.charmap_address
       /\ written.CRTC.reg = [reg EXCEPT ![7] = n] /\ written.CRTC.reg \in REGS
       /\ written.line_offset = v.line_offset
       /\ written.vertical_display_end = v.vertical_display_end
  <2>1. PICK i \in 0..24 : i = 7
    OBVIOUS
  <2>2. LET u == RegSet(v, i, n)
        IN  /\ u \in VGA /\ u.memory = v.memory /\ u.charmap_address = v.charmap_address
            /\ u.CRTC.reg = [reg EXCEPT ![i] = n] /\ u.CRTC.reg \in REGS
            /\ u.line_offset = v.line_offset
            /\ u.vertical_display_end = v.vertical_display_end
    BY <1>2, CrtcWritten, ZenonT(60)
  <2>. QED BY <2>1, <2>2
<1>6. PICK w \in VGA : w = written
  BY <1>12
<1>7. /\ w.memory = v.memory /\ w.charmap_address = v.charmap_address
      /\ w.CRTC.reg = [reg EXCEPT ![7] = n] /\ w.CRTC.reg \in REGS
      /\ w.line_offset = v.line_offset /\ w.vertical_display_end = v.vertical_display_end
  BY <1>6, <1>12
<1>8. PICK u \in VGA : u = [w EXCEPT !.line_compare = compare]
  BY <1>3, CrtcValue
<1>9. /\ u.memory = v.memory /\ u.charmap_address = v.charmap_address
      /\ u.CRTC.reg = [reg EXCEPT ![7] = n] /\ u.CRTC.reg \in REGS
      /\ u.line_offset = v.line_offset /\ u.vertical_display_end = v.vertical_display_end
      /\ u.line_compare = compare
  BY <1>3, <1>7, <1>8, CrtcValue
<1>10. PortOK(v, Redraw(u))
  BY <1>1, <1>5, <1>8, <1>9, CrtcOK
<1>11. PortOK(v, Quiet(v))
  BY PlainParts, QuietOK
<1>. QED BY <1>4, <1>6, <1>8, <1>10, <1>11

\* A write to a register that is not protected.
LEMMA RegisterOK ==
    ASSUME NEW v \in VGA, NEW value \in 0..255, v.CRTC.address \in 0..24
    PROVE  PortOK(v, WriteCrtcRegister(v, value))
<1>. DEFINE r == v.CRTC.address
            reg == v.CRTC.reg
            w == RegSet(v, r, value)
            new == [reg EXCEPT ![r] = value]
            offset == v.line_offset
            compare == v.line_compare
            end == v.vertical_display_end
            newend == EndOf(end, value)
            font == [None EXCEPT !.redraw = TRUE, !.charmap = TRUE]
<1>1. reg \in REGS
  BY RegsType
<1>16. r \in 0..24
  OBVIOUS
<1>2. /\ w \in VGA /\ w.memory = v.memory /\ w.charmap_address = v.charmap_address
      /\ w.CRTC.reg = new /\ w.CRTC.reg \in REGS /\ w.line_offset = offset
      /\ w.line_compare = compare /\ w.vertical_display_end = end
  BY CrtcWritten, ZenonT(60)
<1>3. compare \in Lines /\ end \in Lines
  BY VgaFields
<1>4. \A n : Number(n) \in {0, 1}
  BY BitTypes, Zenon
<1>5. /\ Bit8(compare, Bit(value, 4)) \in Lines /\ Bit9(compare, Bit(value, 6)) \in Lines
      /\ newend \in Lines /\ LowByte(compare, value) \in Lines /\ LowByte(end, value) \in Lines
  <2>1. ASSUME NEW k \in Lines, NEW y \in {0, 1}, NEW z \in {0, 1}
        PROVE  /\ (k % 256) + 512 * (k \div 512) + 256 * z \in Lines
               /\ (k % 512) + 512 * z \in Lines
               /\ 256 * (k \div 256) + value \in Lines
               /\ (k % 256) + 256 * z + 512 * y \in Lines
    BY ValueRanges
  <2>2. Bit8(compare, Bit(value, 4)) \in Lines
    BY <1>3, <1>4, <2>1 DEF Bit8
  <2>3. Bit9(compare, Bit(value, 6)) \in Lines
    BY <1>3, <1>4, <2>1 DEF Bit9
  <2>4. newend \in Lines
    BY <1>3, <1>4, <2>1 DEF EndOf
  <2>5. LowByte(compare, value) \in Lines /\ LowByte(end, value) \in Lines
    BY <1>3, <1>4, <2>1 DEF LowByte
  <2>. QED BY <2>2, <2>3, <2>4, <2>5
<1>6. LineOffset(new) \in LineOffsets
  BY <1>2, OffsetRange
\* What a case has to show: the values go with the registers.
<1>7. ASSUME NEW u \in VGA, u.memory = v.memory, u.charmap_address = v.charmap_address,
             u.CRTC.reg = new,
             Follow(reg, offset, compare, end) =>
                 Follow(new, u.line_offset, u.line_compare, u.vertical_display_end)
      PROVE  PortOK(v, Quiet(u)) /\ PortOK(v, Redraw(u)) /\ PortOK(v, [vga |-> u, effect |-> font])
  BY <1>1, <1>2, <1>7, CrtcOK
<1>. DEFINE Updated(u) == [u EXCEPT !.vga_mem_updated = TRUE]
            u7 == [[w EXCEPT !.vertical_display_end = newend]
                      EXCEPT !.line_compare = Bit8(compare, Bit(value, 4))]
            double == (value % 32) + 128 * (value \div 128) > 0
            u9 == [[w EXCEPT !.y_doublescan = double]
                      EXCEPT !.line_compare = Bit9(compare, Bit(value, 6))]
            u17 == [w EXCEPT !.CRTC.write_protect = Bit(value, 7)]
            u18 == [w EXCEPT !.vertical_display_end = LowByte(end, value)]
            u19 == [w EXCEPT !.line_offset = LineOffset(new)]
            u24 == [w EXCEPT !.line_compare = LowByte(compare, value)]
<1>8. WriteCrtcRegister(v, value) =
          CASE r = 7 -> Redraw(u7)
            [] r = 8 -> Redraw(w)
            [] r = 9 -> [vga |-> u9, effect |-> font]
            [] r \in {10, 11, 14, 15} -> Quiet(Updated(w))
            [] r \in {12, 13} -> IF IsGraphics(v) THEN Redraw(w) ELSE Quiet(Updated(w))
            [] r = 17 -> Quiet(u17)
            [] r = 18 -> Quiet(u18)
            [] r \in {19, 20, 23} -> Redraw(u19)
            [] r = 24 -> Redraw(u24)
            [] OTHER -> Quiet(w)
  <2>1. w.line_offset = offset /\ w.line_compare = compare /\ w.vertical_display_end = end
        /\ w.CRTC.reg = new
    BY <1>2
  <2>. DEFINE first == [w EXCEPT !.vertical_display_end = newend]
              second == [w EXCEPT !.y_doublescan = double]
  <2>2. [w EXCEPT !.vertical_display_end =
                     (@ % 256) + 256 * Number(Bit(value, 1)) + 512 * Number(Bit(value, 6)),
                  !.line_compare = Bit8(@, Bit(value, 4))] = u7
    BY <1>2, VgaDomain DEF EndOf
  <2>3. [w EXCEPT !.y_doublescan = (value % 32) + 128 * (value \div 128) > 0,
                  !.line_compare = Bit9(@, Bit(value, 6))] = u9
    BY <1>2, VgaDomain
  <2>4. [w EXCEPT !.vertical_display_end = LowByte(@, value)] = u18
    BY <2>1
  <2>5. [w EXCEPT !.line_offset = LineOffset(w.CRTC.reg)] = u19
    BY <2>1
  <2>6. [w EXCEPT !.line_compare = LowByte(@, value)] = u24
    BY <2>1
  <2>7. w = [v EXCEPT !.CRTC.reg[r] = value]
    BY DEF RegSet
  <2>. HIDE DEF w, u7, u9, u18, u19, u24
  <2>. QED BY <2>2, <2>3, <2>4, <2>5, <2>6, <2>7, Zenon DEF WriteCrtcRegister, EndOf
<1>. HIDE DEF w, new, newend, double
<1>9. \/ /\ PortOK(v, Quiet(Updated(w))) /\ PortOK(v, Quiet(w))
         /\ PortOK(v, Redraw(w))
      \/ r \in {7, 9, 18, 19, 20, 23, 24}
  <2>. SUFFICES ASSUME r \notin {7, 9, 18, 19, 20, 23, 24}
                PROVE  /\ PortOK(v, Quiet(Updated(w)))
                       /\ PortOK(v, Quiet(w)) /\ PortOK(v, Redraw(w))
    BY SMTT(40)
  <2>1. Follow(reg, offset, compare, end) => Follow(new, offset, compare, end)
    BY <1>1, OtherRegister DEF new
  <2>2. PortOK(v, Quiet(w)) /\ PortOK(v, Redraw(w))
    BY <1>2, <1>7, <2>1
  <2>3. Plain(w, Updated(w))
    BY <1>2, PlainParts
  <2>4. PortOK(v, Quiet(Updated(w)))
    BY <1>2, <1>7, <2>1, <2>3 DEF Plain
  <2>. QED BY <2>2, <2>4
<1>10. ASSUME r = 7 PROVE PortOK(v, Redraw(u7))
  <2>1. PICK u \in VGA : u = [w EXCEPT !.vertical_display_end = newend]
    BY <1>2, <1>5, CrtcValue
  <2>2. PICK x \in VGA : x = [u EXCEPT !.line_compare = Bit8(compare, Bit(value, 4))]
    BY <1>5, <2>1, CrtcValue
  <2>3. /\ x.memory = v.memory /\ x.charmap_address = v.charmap_address /\ x.CRTC.reg = new
        /\ x.line_offset = offset /\ x.vertical_display_end = newend
        /\ x.line_compare = Bit8(compare, Bit(value, 4))
    BY <1>2, <1>5, <2>1, <2>2, CrtcValue
  <2>4. Follow(reg, offset, compare, end) =>
            Follow(new, offset, Bit8(compare, Bit(value, 4)), newend)
    <3>1. new = [reg EXCEPT ![7] = value]
      BY <1>10 DEF new
    <3>. HIDE DEF offset, compare, end, reg
    <3>. QED BY <1>1, <3>1, HighBitsRegister, Zenon DEF newend
  <2>5. PortOK(v, Redraw(x))
    BY <1>7, <2>2, <2>3, <2>4
  <2>. QED BY <2>1, <2>2, <2>5
<1>11. ASSUME r = 9 PROVE PortOK(v, [vga |-> u9, effect |-> font])
  <2>0. double \in BOOLEAN
    BY DEF double
  <2>1. PICK u \in VGA : u = [w EXCEPT !.y_doublescan = double]
    BY <1>2, <2>0, CrtcValue
  <2>2. PICK x \in VGA : x = [u EXCEPT !.line_compare = Bit9(compare, Bit(value, 6))]
    BY <1>5, <2>1, CrtcValue
  <2>3. /\ x.memory = v.memory /\ x.charmap_address = v.charmap_address /\ x.CRTC.reg = new
        /\ x.line_offset = offset /\ x.vertical_display_end = end
        /\ x.line_compare = Bit9(compare, Bit(value, 6))
    BY <1>2, <1>5, <2>0, <2>1, <2>2, CrtcValue, SMTT(40)
  <2>4. Follow(reg, offset, compare, end) =>
            Follow(new, offset, Bit9(compare, Bit(value, 6)), end)
    BY <1>1, <1>11, Bit9Register DEF new
  <2>5. PortOK(v, [vga |-> x, effect |-> font])
    BY <1>7, <2>2, <2>3, <2>4
  <2>. QED BY <2>1, <2>2, <2>5
<1>12. ASSUME r = 17 PROVE PortOK(v, Quiet(u17))
  <2>0. PICK b \in BOOLEAN : b = Bit(value, 7)
    BY BitTypes
  <2>1. PICK u \in VGA : u = [w EXCEPT !.CRTC.write_protect = b]
    BY <1>2, <2>0, CrtcValue
  <2>2. /\ u.memory = v.memory /\ u.charmap_address = v.charmap_address /\ u.CRTC.reg = new
        /\ u.line_offset = offset /\ u.vertical_display_end = end /\ u.line_compare = compare
    BY <1>2, <2>0, <2>1, CrtcValue
  <2>3. Follow(reg, offset, compare, end) => Follow(new, offset, compare, end)
    <3>1. r \notin {7, 9, 18, 19, 20, 23, 24}
      BY <1>12
    <3>. HIDE DEF r, offset, compare, end, reg
    <3>. QED BY <1>1, <1>16, <3>1, OtherRegister, Zenon DEF new
  <2>4. PortOK(v, Quiet(u))
    BY <1>7, <2>1, <2>2, <2>3
  <2>. QED BY <2>0, <2>1, <2>4
<1>13. ASSUME r = 18 PROVE PortOK(v, Quiet(u18))
  <2>1. PICK u \in VGA : u = u18
    BY <1>2, <1>5, CrtcValue
  <2>2. /\ u.memory = v.memory /\ u.charmap_address = v.charmap_address /\ u.CRTC.reg = new
        /\ u.line_offset = offset /\ u.vertical_display_end = LowByte(end, value)
        /\ u.line_compare = compare
    BY <1>2, <1>5, <2>1, CrtcValue
  <2>3. Follow(reg, offset, compare, end) => Follow(new, offset, compare, LowByte(end, value))
    BY <1>1, <1>13, LowByteRegister DEF new
  <2>. QED BY <1>7, <2>1, <2>2, <2>3
<1>14. ASSUME r \in {19, 20, 23} PROVE PortOK(v, Redraw(u19))
  <2>1. PICK u \in VGA : u = u19
    BY <1>2, <1>6, CrtcValue
  <2>2. /\ u.memory = v.memory /\ u.charmap_address = v.charmap_address /\ u.CRTC.reg = new
        /\ u.line_offset = LineOffset(new) /\ u.vertical_display_end = end
        /\ u.line_compare = compare
    BY <1>2, <1>6, <2>1, CrtcValue, SMTT(40)
  <2>3. Follow(reg, offset, compare, end) => Follow(new, LineOffset(new), compare, end)
    BY <1>1, <1>14, OffsetRegister, ZenonT(60) DEF new
  <2>. QED BY <1>7, <2>1, <2>2, <2>3
<1>15. ASSUME r = 24 PROVE PortOK(v, Redraw(u24))
  <2>1. PICK u \in VGA : u = u24
    BY <1>2, <1>5, CrtcValue
  <2>2. /\ u.memory = v.memory /\ u.charmap_address = v.charmap_address /\ u.CRTC.reg = new
        /\ u.line_offset = offset /\ u.vertical_display_end = end
        /\ u.line_compare = LowByte(compare, value)
    BY <1>2, <1>5, <2>1, CrtcValue
  <2>3. Follow(reg, offset, compare, end) => Follow(new, offset, LowByte(compare, value), end)
    BY <1>1, <1>15, LowByteRegister DEF new
  <2>. QED BY <1>7, <2>1, <2>2, <2>3
<1>. HIDE DEF u7, u9, u17, u18, u19, u24, font, Updated, r
<1>. QED BY <1>8, <1>9, <1>10, <1>11, <1>12, <1>13, <1>14, <1>15

\* A write to the data port of the CRT controller.
LEMMA CrtcPortOK ==
    ASSUME NEW v \in VGA, NEW value \in 0..255
    PROVE  PortOK(v, WriteCrtc(v, value))
<1>1. v.CRTC.address \in 0..63
  <2>1. v.CRTC \in CRTC
    BY VgaFields
  <2>. QED BY <2>1 DEF CRTC
<1>2. PortOK(v, Quiet(v)) /\ PortOK(v, WriteProtected(v, value))
  BY PlainParts, QuietOK, ProtectedOK, SMTT(40)
<1>3. ~(v.CRTC.address > 24) => PortOK(v, WriteCrtcRegister(v, value))
  BY <1>1, RegisterOK
<1>. QED BY <1>2, <1>3 DEF WriteCrtc

-----------------------------------------------------------------------------
\* Every port.
LEMMA PortWriteOK ==
    ASSUME NEW v \in VGA, NEW port, NEW value \in 0..255
    PROVE  PortOK(v, VgaCorePortIoWrite(v, port, value))
<1>1. PortOK(v, Quiet(v))
  BY PlainParts, QuietOK
<1>2. PICK b \in BOOLEAN : b = Bit(value, 0)
  BY BitTypes
<1>3. PortOK(v, Quiet([v EXCEPT !.color_emulation = b]))
  BY <1>2, PlainParts, QuietOK
<1>4. PortOK(v, Quiet([v EXCEPT !.vga_enabled = b]))
  BY <1>2, PlainParts, QuietOK
<1>5. PortOK(v, Quiet([v EXCEPT !.sequencer.index = value]))
  <2>1. PICK s \in SEQUENCER : s = [v.sequencer EXCEPT !.index = value]
    BY VgaFields, SequencerTypes, ZenonT(60)
  <2>2. PortOK(v, Quiet([v EXCEPT !.sequencer = s]))
    BY <2>1, PlainParts, QuietOK
  <2>. QED BY <2>1, <2>2, SMTT(40)
<1>6. PortOK(v, Quiet([v EXCEPT !.graphics_ctrl.index = value]))
  <2>1. PICK g \in GRAPHICS_CTRL : g = [v.graphics_ctrl EXCEPT !.index = value]
    BY VgaFields, GraphicsTypes
  <2>2. PortOK(v, Quiet([v EXCEPT !.graphics_ctrl = g]))
    BY <2>1, PlainParts, QuietOK
  <2>. QED BY <2>1, <2>2
<1>7. PortOK(v, Quiet([v EXCEPT !.CRTC.address = value % 64]))
  <2>1. v.CRTC \in CRTC
    BY VgaFields, SMTT(40)
  <2>2. PICK c \in CRTC : c = [v.CRTC EXCEPT !.address = value % 64]
    BY <2>1, Numbers DEF CRTC
  <2>3. c.reg = v.CRTC.reg
    BY <2>1, <2>2 DEF CRTC
  <2>4. Plain(v, [v EXCEPT !.CRTC = c])
    <3>1. [v EXCEPT !.CRTC = c] \in VGA
      BY <2>2, VgaPartsReplaced
    <3>. QED BY <2>3, <3>1, VgaDomain DEF Plain
  <2>5. PortOK(v, Quiet([v EXCEPT !.CRTC = c]))
    BY <2>4, QuietOK
  <2>. QED BY <2>2, <2>5
<1>8. /\ PortOK(v, WriteAttribute(v, value)) /\ PortOK(v, WriteSequencer(v, value))
      /\ PortOK(v, WriteGraphics(v, value)) /\ PortOK(v, WriteCrtc(v, value))
      /\ PortOK(v, WritePelMask(v, value)) /\ PortOK(v, WritePelRead(v, value))
      /\ PortOK(v, WritePelWrite(v, value)) /\ PortOK(v, WritePelData(v, value))
  BY AttributeOK, SequencerOK, GraphicsOK, CrtcPortOK, PelOK, SMTT(40)
<1>. QED BY <1>1, <1>2, <1>3, <1>4, <1>5, <1>6, <1>7, <1>8, Zenon DEF VgaCorePortIoWrite

\* A port read makes a plain change.
LEMMA PortReadPlain ==
    ASSUME NEW v \in VGA, NEW port
    PROVE  Plain(v, VgaCorePortIoRead(v, port))
<1>1. PICK a \in ATTRIBUTE_CTRL : a = [v.attribute_ctrl EXCEPT !.flip_flop = FALSE]
  <2>1. v.attribute_ctrl \in ATTRIBUTE_CTRL
    BY VgaFields
  <2>2. PICK value \in 0..255 : value = 0
    OBVIOUS
  <2>. QED BY <2>1, <2>2, AttributeTypes
<1>2. Plain(v, [v EXCEPT !.attribute_ctrl.flip_flop = FALSE])
  <2>1. Plain(v, [v EXCEPT !.attribute_ctrl = a])
    BY <1>1, PlainParts
  <2>. QED BY <1>1, <2>1
<1>3. Plain(v, v) /\ Plain(v, ReadPelData(v))
  BY PlainParts, PelRead
<1>. QED BY <1>2, <1>3, Zenon DEF VgaCorePortIoRead

\* Marking tiles for the next update.
LEMMA MarkPlain ==
    ASSUME NEW v \in VGA, NEW ts
    PROVE  Plain(v, Mark(v, ts))
<1>1. PICK w \in VGA : w = [v EXCEPT !.vga_mem_updated = TRUE] /\ Plain(v, w)
  <2>1. Plain(v, [v EXCEPT !.vga_mem_updated = TRUE])
    BY PlainParts
  <2>. QED BY <2>1 DEF Plain
<1>2. v.tiles \cup (ts \cap Tiles) \in SUBSET Tiles
  BY VgaFields
<1>3. Plain(w, [w EXCEPT !.tiles = v.tiles \cup (ts \cap Tiles)])
  BY <1>1, <1>2, PlainDrawn
<1>4. Mark(v, ts) = [w EXCEPT !.tiles = v.tiles \cup (ts \cap Tiles)]
  BY <1>1 DEF Mark
<1>. QED BY <1>1, <1>3, <1>4, PlainTrans

\* vga_redraw_area makes a plain change.
LEMMA RedrawPlain ==
    ASSUME NEW v \in VGA
    PROVE  Plain(v, vga_redraw_area(v))
<1>1. PICK w \in VGA : w = [v EXCEPT !.vga_mem_updated = TRUE] /\ Plain(v, w)
  <2>1. Plain(v, [v EXCEPT !.vga_mem_updated = TRUE])
    BY PlainParts
  <2>. QED BY <2>1 DEF Plain
<1>2. Plain(w, [w EXCEPT !.text_snapshot = {}])
  BY <1>1, PlainDrawn
<1>3. Plain(v, [w EXCEPT !.text_snapshot = {}])
  BY <1>1, <1>2, PlainTrans
<1>4. Plain(v, [v EXCEPT !.vga_mem_updated = TRUE, !.text_snapshot = {}])
  BY <1>1, <1>3
<1>5. Plain(v, redraw_area(v))
  BY <1>4, MarkPlain DEF redraw_area
<1>6. Plain(v, v)
  BY PlainParts
<1>. QED BY <1>5, <1>6 DEF vga_redraw_area

-----------------------------------------------------------------------------
\* The memory.  The registers are left alone by a write of the guest.
Steady(v, w) ==
    /\ w \in VGA
    /\ w.charmap_address = v.charmap_address
    /\ w.CRTC.reg = v.CRTC.reg /\ w.line_offset = v.line_offset
    /\ w.line_compare = v.line_compare /\ w.vertical_display_end = v.vertical_display_end

\* A steady change keeps the derived values true.
LEMMA SteadyDerived ==
    ASSUME NEW v, NEW w, Steady(v, w)
    PROVE  Derived(v) => Derived(w)
BY DEF Steady, Derived, Height

\* A change of the memory is a steady one.
LEMMA MemoryReplaced ==
    ASSUME NEW v \in VGA, NEW m \in SUBSET CELL
    PROVE  LET w == [v EXCEPT !.memory = m]
           IN  Steady(v, w) /\ w.memory = m
BY VgaMemoryReplaced, VgaDomain DEF Steady

\* Marking tiles is steady and leaves the memory alone.
LEMMA MarkSteady ==
    ASSUME NEW v, NEW w, NEW ts, Steady(v, w)
    PROVE  Steady(v, Mark(w, ts)) /\ Mark(w, ts).memory = w.memory
<1>1. w \in VGA
  BY DEF Steady
<1>2. Plain(w, Mark(w, ts))
  BY <1>1, MarkPlain
<1>. QED BY <1>2 DEF Plain, Steady

\* The size of a plane, and of the memory.
LEMMA PlaneSize ==
    /\ PLANE \in Nat /\ PLANE > 0 /\ 131072 = 2 * PLANE /\ 65536 = PLANE
    /\ 32768 < PLANE
    /\ \A a \in Int : a \in Addresses <=> 0 <= a /\ a < 5 * PLANE
<1>1. PLANE \in Nat /\ PLANE > 0 /\ 131072 = 2 * PLANE /\ 65536 = PLANE
      /\ 32768 < PLANE
  BY SMT DEF PLANE
<1>2. 5 * PLANE \in Int
  BY <1>1, SMT
<1>3. ASSUME NEW a \in Int PROVE a \in Addresses <=> 0 <= a /\ a < 5 * PLANE
  <2>. DEFINE n == 5 * PLANE
  <2>1. n \in Int
    BY <1>2
  <2>2. a \in Addresses <=> a \in 0..(n - 1)
    BY DEF Addresses
  <2>. HIDE DEF n
  <2>3. a \in 0..(n - 1) <=> 0 <= a /\ a < n
    BY <2>1, SMT
  <2>. QED BY <2>2, <2>3 DEF n
<1>. QED BY <1>1, <1>3

\* A byte of the memory, and the bytes of the planes, are rewritten.
LEMMA PokeOK ==
    ASSUME NEW v \in VGA, NEW a \in Addresses, NEW byte \in SUBSET Bits
    PROVE  /\ Steady(v, Poke(v, a, byte))
           /\ Poke(v, a, byte).memory = {p \in v.memory : p[1] # a} \cup ({a} \X byte)
<1>. DEFINE m == {p \in v.memory : p[1] # a} \cup ({a} \X byte)
<1>1. m \in SUBSET CELL
  <2>1. v.memory \in SUBSET CELL
    BY VgaFields
  <2>2. {a} \X byte \subseteq CELL
    BY DEF CELL
  <2>. QED BY <2>1, <2>2
<1>. HIDE DEF m
<1>2. Steady(v, [v EXCEPT !.memory = m]) /\ [v EXCEPT !.memory = m].memory = m
  BY <1>1, MemoryReplaced
<1>. QED BY <1>2 DEF Poke, m

\* Writing to the planes that the map mask selects is steady.
LEMMA PokePlanesOK ==
    ASSUME NEW v \in VGA, NEW offset \in Nat, offset < 2 * PLANE, NEW byte,
           \A q \in Planes : NewValue(v.graphics_ctrl, q, byte) \subseteq Bits
    PROVE  /\ Steady(v, PokePlanes(v, offset, byte))
           /\ PokePlanes(v, offset, byte).memory =
                  {p \in v.memory : p[1] \notin {q * PLANE + offset : q \in v.sequencer.map_mask}}
                  \cup UNION {{q * PLANE + offset} \X NewValue(v.graphics_ctrl, q, byte) :
                              q \in v.sequencer.map_mask}
<1>. DEFINE new(q) == NewValue(v.graphics_ctrl, q, byte)
            kept == {p \in v.memory : p[1] \notin {q * PLANE + offset : q \in v.sequencer.map_mask}}
            m == kept \cup UNION {{q * PLANE + offset} \X new(q) : q \in v.sequencer.map_mask}
<1>1. v.sequencer.map_mask \subseteq Planes
  <2>1. v.sequencer \in SEQUENCER
    BY VgaFields
  <2>. QED BY <2>1 DEF SEQUENCER
<1>2. kept \in SUBSET CELL
  BY VgaFields
<1>3. ASSUME NEW q \in v.sequencer.map_mask PROVE {q * PLANE + offset} \X new(q) \subseteq CELL
  <2>1. q * PLANE + offset \in Addresses
    <3>. HIDE DEF new, kept, m
    <3>1. q = 0 \/ q = 1 \/ q = 2 \/ q = 3
      BY <1>1 DEF Planes
    <3>2. /\ q * PLANE + offset \in Int /\ 0 <= q * PLANE + offset
          /\ q * PLANE + offset < 5 * PLANE
      BY <3>1, PlaneSize, SMT
    <3>. QED BY <3>2, PlaneSize
  <2>2. new(q) \subseteq Bits
    BY <1>1
  <2>. HIDE DEF new
  <2>. QED BY <2>1, <2>2 DEF CELL
<1>4. m \in SUBSET CELL
  <2>. HIDE DEF kept, new
  <2>. QED BY <1>2, <1>3
<1>5. PokePlanes(v, offset, byte) = [v EXCEPT !.memory = m]
  BY DEF PokePlanes
<1>. HIDE DEF m
<1>6. Steady(v, [v EXCEPT !.memory = m]) /\ [v EXCEPT !.memory = m].memory = m
  BY <1>4, MemoryReplaced
<1>. QED BY <1>5, <1>6 DEF m

\* What the ALU makes is a byte.
LEMMA NewValueType ==
    ASSUME NEW g \in GRAPHICS_CTRL, NEW p \in Planes, NEW byte \in Byte
    PROVE  NewValue(g, p, byte) \subseteq Bits
<1>1. g.bitmask \in SUBSET Bits /\ g.latch[p] \in SUBSET Bits /\ byte \in SUBSET Bits
  BY DEF GRAPHICS_CTRL, Byte
<1>2. Rotate(g, byte) \subseteq Bits
  BY DEF Rotate
<1>3. WriteMode0(g, p, byte) \subseteq Bits
  BY <1>1, <1>2 DEF WriteMode0, Xor
<1>4. WriteMode2(g, p, byte) \subseteq Bits
  BY <1>1, <1>2 DEF WriteMode2
<1>5. WriteMode3(g, p, byte) \subseteq Bits
  BY <1>1, <1>2 DEF WriteMode3, Xor
<1>. QED BY <1>1, <1>3, <1>4, <1>5 DEF NewValue

\* Inside of the window.
LEMMA WindowOffset ==
    ASSUME NEW v \in VGA, NEW address \in Nat, InWindow(v, address)
    PROVE  /\ OffsetOf(v, address) \in Nat /\ OffsetOf(v, address) < 2 * PLANE
           /\ WritesCga(v) => OffsetOf(v, address) < 32768
<1>. DEFINE mapping == v.graphics_ctrl.memory_mapping
            base == WindowBase(mapping)
            size == WindowSize(mapping)
            d == address - base
<1>1. mapping \in 0..3
  <2>1. v.graphics_ctrl \in GRAPHICS_CTRL
    BY VgaFields
  <2>. QED BY <2>1 DEF GRAPHICS_CTRL
<1>. HIDE DEF mapping
<1>2. base \in Int
  BY <1>1, SMT DEF WindowBase
<1>3. size \in Int /\ size <= 131072 /\ (mapping = 3 => size = 32768)
  BY <1>1, SMT DEF WindowSize, PLANE
<1>4. OffsetOf(v, address) = d /\ d \in 0..(size - 1)
  BY DEF InWindow, OffsetOf, mapping
<1>5. WritesCga(v) => mapping = 3
  BY DEF WritesCga, mapping
<1>. HIDE DEF base, size
<1>6. d \in Int
  BY <1>2, SMT
<1>. HIDE DEF d
<1>7. 0 <= d /\ d < size
  BY <1>3, <1>4, <1>6, SMT
<1>8. d \in Nat /\ d < 131072 /\ (mapping = 3 => d < 32768)
  BY <1>3, <1>6, <1>7, SMT
<1>. QED BY <1>4, <1>5, <1>8, PlaneSize

-----------------------------------------------------------------------------
\* The font.  A character map is an eighth of plane 2.
FontCells == (0..(FONT - 1)) \X Bits

\* A character map, and the planes made up of eight of them.
LEMMA FontSize ==
    /\ FONT \in Nat /\ 0 < FONT /\ 8192 = FONT /\ PLANE = 8 * FONT
    /\ \A c \in CharMaps : c \in Nat /\ c < PLANE /\ c + FONT <= PLANE
    /\ \A a \in Int : a \in 0..(FONT - 1) <=> 0 <= a /\ a < FONT
<1>1. FONT \in Nat /\ 0 < FONT /\ 8192 = FONT /\ PLANE = 8 * FONT
  BY SMT DEF FONT, PLANE
<1>2. ASSUME NEW c \in CharMaps PROVE c \in Nat /\ c < PLANE /\ c + FONT <= PLANE
  BY SMT DEF CharMaps, PLANE, FONT
<1>3. ASSUME NEW a \in Int PROVE a \in 0..(FONT - 1) <=> 0 <= a /\ a < FONT
  BY <1>1, SMT
<1>. QED BY <1>1, <1>2, <1>3

\* Two fonts with the same bits in them.
Alike(s, t) == \A a \in 0..(FONT - 1), b \in Bits : <<a, b>> \in s <=> <<a, b>> \in t

\* Fonts of the same bits are the same.
LEMMA SameFont ==
    ASSUME NEW s \in SUBSET FontCells, NEW t \in SUBSET FontCells, Alike(s, t)
    PROVE  s = t
BY DEF FontCells, Alike

\* What is in the character map.
LEMMA InCharMap ==
    ASSUME NEW v \in VGA
    PROVE  /\ CharMap(v) \in SUBSET FontCells
           /\ \A a \in 0..(FONT - 1), b \in Bits :
                  <<a, b>> \in CharMap(v) <=>
                      <<2 * PLANE + v.charmap_address + a, b>> \in v.memory
<1>. DEFINE base == 2 * PLANE + v.charmap_address
<1>1. base \in Int
  BY VgaFields, FontSize, PlaneSize, SMT
<1>2. v.memory \in SUBSET CELL
  BY VgaFields
<1>3. \A p \in v.memory : p = <<p[1], p[2]>> /\ p[1] \in Int /\ p[2] \in Bits
  BY <1>2, PlaneSize DEF CELL, Addresses
<1>4. CharMap(v) = {<<p[1] - base, p[2]>> : p \in {q \in v.memory : q[1] - base \in 0..(FONT - 1)}}
  BY DEF CharMap
<1>. HIDE DEF base
<1>5. CharMap(v) \in SUBSET FontCells
  BY <1>3, <1>4 DEF FontCells
<1>6. ASSUME NEW a \in 0..(FONT - 1), NEW b \in Bits, <<a, b>> \in CharMap(v)
      PROVE  <<base + a, b>> \in v.memory
  <2>1. PICK p \in v.memory : p[1] - base \in 0..(FONT - 1) /\ <<a, b>> = <<p[1] - base, p[2]>>
    BY <1>4, <1>6
  <2>2. p[1] = base + a /\ p[2] = b
    BY <1>1, <1>3, <2>1
  <2>. QED BY <1>3, <2>1, <2>2
<1>7. ASSUME NEW a \in 0..(FONT - 1), NEW b \in Bits, <<base + a, b>> \in v.memory
      PROVE  <<a, b>> \in CharMap(v)
  <2>1. PICK p \in v.memory : p = <<base + a, b>>
    BY <1>7
  <2>2. a \in Int
    BY FontSize
  <2>3. p[1] - base = a /\ p[2] = b
    BY <1>1, <2>1, <2>2
  <2>. QED BY <1>4, <2>1, <2>3
<1>. QED BY <1>5, <1>6, <1>7 DEF base

\* The font stays as long as the memory and the selection do.
LEMMA FontKept ==
    ASSUME NEW v, NEW w, w.memory = v.memory, w.charmap_address = v.charmap_address
    PROVE  CharMap(w) = CharMap(v)
BY DEF CharMap

\* Whether a byte of plane 2 is one of the character map.
LEMMA FontByte ==
    ASSUME NEW c \in CharMaps, NEW offset \in Nat, offset < PLANE
    PROVE  LET a == offset % 8192
           IN  /\ 8192 * ((offset % PLANE) \div 8192) = c => offset = c + a
               /\ \A d \in Int : 0 <= d /\ d < FONT /\ offset = c + d =>
                      d = a /\ 8192 * ((offset % PLANE) \div 8192) = c
               /\ a \in 0..(FONT - 1)
<1>. DEFINE a == offset % 8192
            k == offset \div 8192
<1>1. /\ a \in Nat /\ a < 8192 /\ k \in Nat /\ offset = 8192 * k + a
  BY SMT
<1>2. offset % PLANE = offset
  BY PlaneSize, SMT
<1>3. PICK n \in Nat : n < 8 /\ c = 8192 * n
  BY SMT DEF CharMaps
<1>. HIDE DEF a, k
<1>4. a \in 0..(FONT - 1)
  BY <1>1, FontSize
<1>5. 8192 * k = c => offset = c + a
  BY <1>1, <1>3, SMT
<1>6. ASSUME NEW d \in Int, 0 <= d, d < FONT, offset = c + d
      PROVE  d = a /\ 8192 * k = c
  <2>1. d < 8192
    BY <1>6, FontSize
  <2>2. 8192 * k + a = 8192 * n + d
    BY <1>1, <1>3, <1>6, SMT
  <2>3. k = n
    BY <1>1, <1>3, <1>6, <2>1, <2>2, SMT
  <2>. QED BY <1>1, <1>3, <1>6, <2>2, <2>3, SMT
<1>. QED BY <1>2, <1>4, <1>5, <1>6 DEF a, k

-----------------------------------------------------------------------------
\* A byte of the character map is one of plane 2.
LEMMA FontCell ==
    ASSUME NEW c \in CharMaps, NEW a \in 0..(FONT - 1), NEW offset \in Nat
    PROVE  /\ offset < PLANE =>
                  \A q \in Planes : 2 * PLANE + c + a = q * PLANE + offset <=> q = 2 /\ offset = c + a
           /\ offset < 32768 => 2 * PLANE + c + a # offset
<1>1. c \in Nat /\ a \in Int /\ 0 <= a /\ c + a < PLANE /\ c + a \in Nat
  BY FontSize, SMT
<1>2. PICK d \in Nat : d = c + a /\ d < PLANE
  BY <1>1
<1>3. 2 * PLANE + c + a = 2 * PLANE + d
  BY <1>1, <1>2, PlaneSize, SMT
<1>4. ASSUME offset < PLANE, NEW q \in Planes
      PROVE  2 * PLANE + d = q * PLANE + offset <=> q = 2 /\ offset = d
  <2>1. q = 0 \/ q = 1 \/ q = 2 \/ q = 3
    BY DEF Planes
  <2>2. PLANE \in Nat
    BY PlaneSize
  <2>. QED BY <1>2, <1>4, <2>1, <2>2, SMT
<1>5. offset < 32768 => 2 * PLANE + d # offset
  BY <1>2, PlaneSize, SMT
<1>. QED BY <1>2, <1>3, <1>4, <1>5

\* A write to the planes changes the font in one byte of plane 2 at most.
LEMMA PlanarFont ==
    ASSUME NEW v \in VGA, NEW w \in VGA, NEW offset \in Nat, offset < PLANE, NEW byte,
           \A q \in Planes : NewValue(v.graphics_ctrl, q, byte) \subseteq Bits,
           w.charmap_address = v.charmap_address,
           w.memory =
               {p \in v.memory : p[1] \notin {q * PLANE + offset : q \in v.sequencer.map_mask}}
               \cup UNION {{q * PLANE + offset} \X NewValue(v.graphics_ctrl, q, byte) :
                           q \in v.sequencer.map_mask}
    PROVE  \A a \in 0..(FONT - 1), b \in Bits :
               <<a, b>> \in CharMap(w) <=>
                   IF 2 \in v.sequencer.map_mask /\ offset = v.charmap_address + a
                   THEN b \in NewValue(v.graphics_ctrl, 2, byte) ELSE <<a, b>> \in CharMap(v)
<1>. DEFINE new(q) == NewValue(v.graphics_ctrl, q, byte)
            mask == v.sequencer.map_mask
            c == v.charmap_address
            at(q) == q * PLANE + offset
<1>1. mask \subseteq Planes /\ c \in CharMaps
  <2>1. v.sequencer \in SEQUENCER /\ v.charmap_address \in CharMaps
    BY VgaFields
  <2>. QED BY <2>1 DEF SEQUENCER
<1>2. ASSUME NEW a \in 0..(FONT - 1), NEW b \in Bits
      PROVE  <<a, b>> \in CharMap(w) <=>
                 IF 2 \in mask /\ offset = c + a THEN b \in new(2) ELSE <<a, b>> \in CharMap(v)
  <2>. DEFINE x == 2 * PLANE + c + a
  <2>1. \A q \in mask : x = at(q) <=> q = 2 /\ offset = c + a
    BY <1>1, FontCell
  <2>2. <<a, b>> \in CharMap(w) <=> <<x, b>> \in w.memory
    BY InCharMap
  <2>3. <<a, b>> \in CharMap(v) <=> <<x, b>> \in v.memory
    BY InCharMap
  <2>. HIDE DEF x, at, new
  <2>4. w.memory = {p \in v.memory : p[1] \notin {at(q) : q \in mask}}
                       \cup UNION {{at(q)} \X new(q) : q \in mask}
    BY DEF at, new
  <2>. HIDE DEF mask, c
  <2>5. <<x, b>> \in w.memory <=>
            \/ <<x, b>> \in v.memory /\ \A q \in mask : x # at(q)
            \/ \E q \in mask : x = at(q) /\ b \in new(q)
    BY <2>4
  <2>6. CASE 2 \in mask /\ offset = c + a
    BY <2>1, <2>2, <2>5, <2>6
  <2>7. CASE ~(2 \in mask /\ offset = c + a)
    BY <2>1, <2>2, <2>3, <2>5, <2>7
  <2>. QED BY <2>6, <2>7
<1>. QED BY <1>2

\* A write of the guest leaves the registers alone, and changes the font in the
\* byte that it names to the copy of the font.
LEMMA WriteSteady ==
    ASSUME NEW v \in VGA, NEW address \in Nat, NEW byte \in Byte
    PROVE  Steady(v, _VgaCoreMMIOWriteHandler(v, address, byte))
<1>. DEFINE offset == OffsetOf(v, address)
<1>1. Steady(v, v)
  BY DEF Steady
<1>2. byte \in SUBSET Bits
  BY DEF Byte
<1>3. ASSUME InWindow(v, address) PROVE offset \in Nat /\ offset < 2 * PLANE
  BY <1>3, WindowOffset
<1>. HIDE DEF offset
<1>4. ASSUME InWindow(v, address) PROVE Steady(v, CgaWrite(v, offset, byte))
  <2>1. offset \in Addresses
    BY <1>3, <1>4, PlaneSize
  <2>2. Steady(v, Poke(v, offset, byte))
    BY <1>2, <2>1, PokeOK
  <2>. QED BY <2>2, MarkSteady DEF CgaWrite
<1>5. ASSUME InWindow(v, address) PROVE Steady(v, ChainFourWrite(v, offset, byte))
  <2>1. Chained(offset) \in Addresses
    <3>1. PICK r \in 0..3 : r = offset % 4
      BY <1>3, <1>5, SMT
    <3>2. /\ 4 * (offset \div 4) \in Nat
          /\ 4 * (offset \div 4) < 2 * PLANE
      BY <1>3, <1>5, PlaneSize, SMT
    <3>3. PICK d \in Nat : d = 4 * (offset \div 4) /\ d < 2 * PLANE
      BY <3>2
    <3>4. d + r * PLANE \in Nat /\ d + r * PLANE < 5 * PLANE
      <4>1. r = 0 \/ r = 1 \/ r = 2 \/ r = 3
        BY <3>1
      <4>. QED BY <3>3, <4>1, PlaneSize, SMT
    <3>5. Chained(offset) = d + r * PLANE
      BY <3>1, <3>3 DEF Chained
    <3>. QED BY <3>4, <3>5, PlaneSize
  <2>2. Steady(v, Poke(v, Chained(offset), byte))
    BY <1>2, <2>1, PokeOK
  <2>. QED BY <2>2, MarkSteady DEF ChainFourWrite
<1>6. ASSUME InWindow(v, address) PROVE Steady(v, PlanarWrite(v, offset, byte))
  <2>1. v.graphics_ctrl \in GRAPHICS_CTRL
    BY VgaFields
  <2>2. \A q \in Planes : NewValue(v.graphics_ctrl, q, byte) \subseteq Bits
    BY <2>1, NewValueType
  <2>3. Steady(v, PokePlanes(v, offset, byte))
    BY <1>3, <1>6, <2>2, PokePlanesOK
  <2>. QED BY <1>1, <2>3, MarkSteady DEF PlanarWrite
<1>. QED BY <1>1, <1>4, <1>5, <1>6 DEF _VgaCoreMMIOWriteHandler, offset

\* Which write it is.
LEMMA WriteCases ==
    ASSUME NEW v, NEW address, NEW byte
    PROVE  LET w == _VgaCoreMMIOWriteHandler(v, address, byte)
               offset == OffsetOf(v, address)
           IN  /\ ~InWindow(v, address) => w = v
               /\ InWindow(v, address) /\ WritesCga(v) => w = CgaWrite(v, offset, byte)
               /\ InWindow(v, address) /\ WritesChained(v) => w = ChainFourWrite(v, offset, byte)
               /\ InWindow(v, address) /\ ~WritesCga(v) /\ ~WritesChained(v) =>
                      w = PlanarWrite(v, offset, byte)
BY DEF _VgaCoreMMIOWriteHandler, WritesChained

\* A write to the memory of the CGA, all of it in plane 0, does not
\* reach the font.
LEMMA CgaFont ==
    ASSUME NEW v \in VGA, NEW address \in Nat, NEW byte \in Byte,
           InWindow(v, address), WritesCga(v)
    PROVE  CharMap(_VgaCoreMMIOWriteHandler(v, address, byte)) = CharMap(v)
<1>. DEFINE offset == OffsetOf(v, address)
            w == Poke(v, offset, byte)
            u == Mark(w, CgaTiles(v, offset))
<1>1. offset \in Nat /\ offset < 32768 /\ offset < 2 * PLANE
  BY WindowOffset
<1>. HIDE DEF offset
<1>2. offset \in Addresses
  BY <1>1, PlaneSize
<1>3. byte \in SUBSET Bits
  BY DEF Byte
<1>4. Steady(v, w) /\ w.memory = {p \in v.memory : p[1] # offset} \cup ({offset} \X byte)
  BY <1>2, <1>3, PokeOK
<1>. HIDE DEF w
<1>5. Steady(v, u) /\ u.memory = w.memory
  BY <1>4, MarkSteady
<1>6. _VgaCoreMMIOWriteHandler(v, address, byte) = u
  BY WriteCases DEF CgaWrite, offset, w
<1>. HIDE DEF u
<1>7. u \in VGA /\ u.charmap_address = v.charmap_address /\ v.charmap_address \in CharMaps
  BY <1>5, VgaFields DEF Steady
<1>8. ASSUME NEW a \in 0..(FONT - 1), NEW b \in Bits
      PROVE  <<a, b>> \in CharMap(u) <=> <<a, b>> \in CharMap(v)
  <2>. DEFINE x == 2 * PLANE + v.charmap_address + a
  <2>1. x # offset
    BY <1>1, <1>7, FontCell
  <2>2. /\ <<a, b>> \in CharMap(u) <=> <<x, b>> \in u.memory
        /\ <<a, b>> \in CharMap(v) <=> <<x, b>> \in v.memory
    BY <1>7, InCharMap
  <2>. HIDE DEF x
  <2>3. <<x, b>> \in u.memory <=> <<x, b>> \in v.memory
    BY <1>4, <1>5, <2>1
  <2>. QED BY <2>2, <2>3
<1>9. CharMap(u) = CharMap(v)
  <2>1. CharMap(u) \in SUBSET FontCells /\ CharMap(v) \in SUBSET FontCells
    BY <1>7, InCharMap
  <2>2. Alike(CharMap(u), CharMap(v))
    BY <1>8 DEF Alike
  <2>. QED BY <2>1, <2>2, SameFont
<1>. QED BY <1>6, <1>9

\* The byte of the character map that a write changes.
LEMMA CharByteOne ==
    ASSUME NEW v \in VGA, NEW address \in Nat, CharByte(v, address) # {}
    PROVE  \E a \in 0..(FONT - 1) :
               a = OffsetOf(v, address) % 8192 /\ CharByte(v, address) = {a}
<1>. DEFINE offset == OffsetOf(v, address)
            a == offset % 8192
<1>1. InWindow(v, address) /\ CharByte(v, address) = {a}
  BY DEF CharByte
<1>2. offset \in Nat
  BY <1>1, WindowOffset
<1>. HIDE DEF offset
<1>3. a \in Nat /\ a < 8192
  BY <1>2, SMT
<1>4. a \in 0..(FONT - 1)
  BY <1>3, FontSize
<1>. HIDE DEF a
<1>. QED BY <1>1, <1>4 DEF a, offset

\* What any write that does not bypass the copy makes of the font: the byte that
\* set_text_charbyte is given, or nothing.
LEMMA WriteFont ==
    ASSUME NEW v \in VGA, NEW address \in Nat, NEW byte \in Byte, ~Bypasses(v, address)
    PROVE  LET a == CHOOSE x \in CharByte(v, address) : TRUE
           IN  CharMap(_VgaCoreMMIOWriteHandler(v, address, byte)) =
                   IF CharByte(v, address) = {} THEN CharMap(v)
                   ELSE {p \in CharMap(v) : p[1] # a} \cup
                        ({a} \X NewValue(v.graphics_ctrl, 2, byte))
<1>. DEFINE H == _VgaCoreMMIOWriteHandler(v, address, byte)
            chosen == CHOOSE x \in CharByte(v, address) : TRUE
            offset == OffsetOf(v, address)
            new == NewValue(v.graphics_ctrl, 2, byte)
            c == v.charmap_address
            mask == v.sequencer.map_mask
            patched == {p \in CharMap(v) : p[1] # chosen} \cup ({chosen} \X new)
<1>1. CASE ~InWindow(v, address)
  <2>1. H = v
    BY <1>1, WriteCases
  <2>2. CharByte(v, address) = {}
    BY <1>1 DEF CharByte
  <2>. QED BY <2>1, <2>2
<1>2. CASE InWindow(v, address) /\ WritesCga(v)
  <2>1. CharMap(H) = CharMap(v)
    BY <1>2, CgaFont
  <2>2. CharByte(v, address) = {}
    BY <1>2 DEF CharByte
  <2>. QED BY <2>1, <2>2
<1>3. CASE InWindow(v, address) /\ ~WritesCga(v)
  <2>1. ~WritesChained(v) /\ ~(offset >= PLANE)
    BY <1>3 DEF Bypasses
  <2>2. offset \in Nat
    BY <1>3, WindowOffset
  <2>3. offset < PLANE
    BY <2>1, <2>2, PlaneSize
  <2>4. H = PlanarWrite(v, offset, byte)
    BY <1>3, <2>1, WriteCases
  <2>5. c \in CharMaps /\ mask \subseteq Planes
    <3>1. v.sequencer \in SEQUENCER /\ v.charmap_address \in CharMaps
      BY VgaFields
    <3>. QED BY <3>1 DEF SEQUENCER
  <2>6. \A q \in Planes : NewValue(v.graphics_ctrl, q, byte) \subseteq Bits
    <3>1. v.graphics_ctrl \in GRAPHICS_CTRL
      BY VgaFields
    <3>. QED BY <3>1, NewValueType
  <2>7. new \subseteq Bits
    BY <2>6 DEF Planes
  <2>8. CharByte(v, address) # {} <=> 2 \in mask /\ 8192 * ((offset % PLANE) \div 8192) = c
    BY <1>3, <2>1 DEF CharByte
  <2>9. CharByte(v, address) # {} => chosen = offset % 8192 /\ chosen \in 0..(FONT - 1)
    <3>1. SUFFICES ASSUME CharByte(v, address) # {}
                   PROVE  chosen = offset % 8192 /\ chosen \in 0..(FONT - 1)
      OBVIOUS
    <3>2. PICK a \in 0..(FONT - 1) : a = offset % 8192 /\ CharByte(v, address) = {a}
      BY <3>1, CharByteOne
    <3>3. chosen = a
      BY <3>2
    <3>. HIDE DEF chosen, offset
    <3>. QED BY <3>2, <3>3
  <2>10. CASE mask = {}
    <3>1. H = v
      BY <2>4, <2>10 DEF PlanarWrite
    <3>2. CharByte(v, address) = {}
      BY <2>8, <2>10
    <3>. QED BY <3>1, <3>2
  <2>11. CASE mask # {}
    <3>. DEFINE w == PokePlanes(v, offset, byte)
                ts == IF v.graphics_ctrl.shift_reg = 2 THEN PackedTiles(v, offset)
                      ELSE PlanarTiles(v, offset)
    <3>. HIDE DEF offset, chosen, H
    <3>1. H = Mark(w, ts)
      BY <2>4, <2>11 DEF PlanarWrite
    <3>2. 0 <= offset /\ offset < 2 * PLANE
      BY <2>2, <2>3, PlaneSize
    <3>3. /\ Steady(v, w)
          /\ w.memory =
                 {p \in v.memory : p[1] \notin {q * PLANE + offset : q \in mask}}
                 \cup UNION {{q * PLANE + offset} \X NewValue(v.graphics_ctrl, q, byte) : q \in mask}
      BY <2>2, <2>6, <3>2, PokePlanesOK
    <3>. HIDE DEF w, ts
    <3>4. H \in VGA /\ H.charmap_address = c /\ H.memory = w.memory
      BY <3>1, <3>3, MarkSteady DEF Steady
    <3>5. \A a \in 0..(FONT - 1), b \in Bits :
              <<a, b>> \in CharMap(H) <=>
                  IF 2 \in mask /\ offset = c + a THEN b \in new ELSE <<a, b>> \in CharMap(v)
      BY <2>2, <2>3, <2>6, <3>3, <3>4, PlanarFont
    <3>. HIDE DEF new, mask, c
    <3>6. ASSUME NEW a \in 0..(FONT - 1)
          PROVE  2 \in mask /\ offset = c + a <=> CharByte(v, address) # {} /\ a = chosen
      <4>1. a \in Int /\ 0 <= a /\ a < FONT
        BY FontSize
      <4>. DEFINE aligned == 8192 * ((offset % PLANE) \div 8192) = c
                  low == offset % 8192
      <4>2. aligned => offset = c + low
        BY <2>2, <2>3, <2>5, FontByte
      <4>3. offset = c + a => a = low /\ aligned
        BY <2>2, <2>3, <2>5, <4>1, FontByte
      <4>. HIDE DEF aligned, low
      <4>4. CharByte(v, address) # {} <=> 2 \in mask /\ aligned
        BY <2>8 DEF aligned
      <4>5. CharByte(v, address) # {} => chosen = low
        BY <2>9 DEF low
      <4>. QED BY <4>2, <4>3, <4>4, <4>5
    <3>7. CharMap(v) \in SUBSET FontCells /\ CharMap(H) \in SUBSET FontCells
      BY <3>4, InCharMap
    <3>8. ASSUME CharByte(v, address) = {} PROVE CharMap(H) = CharMap(v)
      <4>1. Alike(CharMap(H), CharMap(v))
        BY <3>5, <3>6, <3>8 DEF Alike
      <4>. QED BY <3>7, <4>1, SameFont
    <3>9. ASSUME CharByte(v, address) # {} PROVE CharMap(H) = patched
      <4>1. patched \in SUBSET FontCells
        BY <2>7, <2>9, <3>7, <3>9 DEF FontCells
      <4>2. ASSUME NEW a \in 0..(FONT - 1), NEW b \in Bits
            PROVE  <<a, b>> \in patched <=>
                       IF a = chosen THEN b \in new ELSE <<a, b>> \in CharMap(v)
        OBVIOUS
      <4>3. Alike(CharMap(H), patched)
        <5>. HIDE DEF patched
        <5>. QED BY <3>5, <3>6, <3>9, <4>2 DEF Alike
      <4>. HIDE DEF patched
      <4>. QED BY <3>7, <4>1, <4>3, SameFont
    <3>. QED BY <3>8, <3>9 DEF H, chosen, new
  <2>. QED BY <2>10, <2>11
<1>. QED BY <1>1, <1>2, <1>3

-----------------------------------------------------------------------------
\* The window.  What its bitmaps and the rectangles kept for them are, and that
\* nothing that is drawn is forgotten.  Before there is a bitmap nothing is drawn.
GuiFields ==
    {"bitmap", "window", "updated_area", "invalid", "cmap", "vga_charmap",
     "char_changed", "charmap_updated", "vgafont", "dimension", "stretch_factor", "guest",
     "tm_info", "thread", "stretched", "bypassed"}
Pending(g) == AreaPixels(g.updated_area) \cup g.invalid
Covers(g) == \A q \in Pixels \ g.stretched : g.window[q] # g.bitmap[q] => q \in Pending(g)
GuiOK(g) ==
    /\ DOMAIN g = GuiFields /\ GuiTypeOK(g)
    /\ Covers(g) /\ (g.thread = "window" => g.bitmap = g.window)
SameCopy(g, h) == h.vga_charmap = g.vga_charmap /\ h.bypassed = g.bypassed

AREA == Int \X Int \X Int \X Int
\* A rectangle, one inside of another, and a pixel inside of one.
Rectangle(a) == a # NoArea /\ a \in AREA
Within(a, b) == b[1] <= a[1] /\ b[2] <= a[2] /\ a[3] <= b[3] /\ a[4] <= b[4]
Holds(a, q) == a[1] <= q[1] /\ q[1] <= a[3] /\ a[2] <= q[2] /\ q[2] <= a[4]

\* A pixel has two whole coordinates.
LEMMA PixelType == \A q \in Pixels : q[1] \in Nat /\ q[2] \in Nat
BY GuiAssumption

\* The pixels of a rectangle are those inside of it.
LEMMA AreaHolds ==
    ASSUME NEW a, Rectangle(a), NEW q \in Pixels
    PROVE  q \in AreaPixels(a) <=> Holds(a, q)
<1>1. a # NoArea /\ a[1] \in Int /\ a[2] \in Int /\ a[3] \in Int /\ a[4] \in Int
  BY DEF Rectangle, AREA
<1>2. q[1] \in Nat /\ q[2] \in Nat
  BY PixelType
<1>3. q \in AreaPixels(a) <=> /\ a[1] <= q[1] /\ q[1] < a[3] + 1
                              /\ a[2] <= q[2] /\ q[2] < a[4] + 1
  BY <1>1 DEF AreaPixels
<1>. QED BY <1>1, <1>2, <1>3 DEF Holds

\* A rectangle has the pixels of those inside of it.
LEMMA AreaGrows ==
    ASSUME NEW a, NEW b, Rectangle(a), Rectangle(b), Within(a, b)
    PROVE  AreaPixels(a) \subseteq AreaPixels(b)
<1>1. /\ a[1] \in Int /\ a[2] \in Int /\ a[3] \in Int /\ a[4] \in Int
      /\ b[1] \in Int /\ b[2] \in Int /\ b[3] \in Int /\ b[4] \in Int
  BY DEF Rectangle, AREA
<1>2. ASSUME NEW q \in Pixels, Holds(a, q) PROVE Holds(b, q)
  BY <1>1, <1>2, PixelType DEF Holds, Within
<1>3. AreaPixels(a) \subseteq Pixels
  BY DEF AreaPixels
<1>. QED BY <1>2, <1>3, AreaHolds

\* The rectangle that updateUpdated is given, as it is kept.
Scaled(g, x1, y1, x2, y2) ==
    <<x1 * g.stretch_factor, y1 * g.stretch_factor, x2 * g.stretch_factor, y2 * g.stretch_factor>>

\* updateUpdated leaves a rectangle around the old and the new one.
LEMMA AreaUpdated ==
    ASSUME NEW g, "updated_area" \in DOMAIN g, g.stretch_factor \in {1, 2},
           g.updated_area = NoArea \/ Rectangle(g.updated_area),
           NEW x1 \in Int, NEW y1 \in Int, NEW x2 \in Int, NEW y2 \in Int
    PROVE  \E area :
               /\ updateUpdated(g, x1, y1, x2, y2) = [g EXCEPT !.updated_area = area]
               /\ Rectangle(area)
               /\ AreaPixels(g.updated_area) \subseteq AreaPixels(area)
               /\ g.stretch_factor = 1 => Within(<<x1, y1, x2, y2>>, area)
<1>. DEFINE new == Scaled(g, x1, y1, x2, y2)
            old == g.updated_area
            merged == <<Lesser(old[1], new[1]), Lesser(old[2], new[2]),
                        Greater(old[3], new[3]), Greater(old[4], new[4])>>
            area == IF old = NoArea THEN new ELSE merged
<1>1. /\ new[1] = x1 * g.stretch_factor /\ new[2] = y1 * g.stretch_factor
      /\ new[3] = x2 * g.stretch_factor /\ new[4] = y2 * g.stretch_factor
  BY DEF Scaled
<1>2. Rectangle(new)
  <2>1. new # NoArea
    BY DEF Scaled, NoArea
  <2>2. new \in AREA
    BY DEF AREA, Scaled
  <2>. QED BY <2>1, <2>2 DEF Rectangle
<1>3. g.stretch_factor = 1 => new = <<x1, y1, x2, y2>>
  BY DEF Scaled
<1>4. Within(new, new)
  BY <1>2 DEF Within, Rectangle, AREA
<1>5. updateUpdated(g, x1, y1, x2, y2) = [g EXCEPT !.updated_area = area]
  BY DEF updateUpdated, Scaled
<1>. HIDE DEF new
<1>6. CASE old = NoArea
  BY <1>2, <1>3, <1>4, <1>5, <1>6 DEF AreaPixels
<1>7. CASE old # NoArea
  <2>1. Rectangle(old)
    BY <1>7
  <2>2. /\ old[1] \in Int /\ old[2] \in Int /\ old[3] \in Int /\ old[4] \in Int
        /\ new[1] \in Int /\ new[2] \in Int /\ new[3] \in Int /\ new[4] \in Int
    BY <1>2, <2>1 DEF Rectangle, AREA
  <2>. HIDE DEF old
  <2>3. Rectangle(merged) /\ Within(old, merged) /\ Within(new, merged)
    <3>1. merged # NoArea
      BY DEF NoArea
    <3>2. merged \in AREA /\ Within(old, merged) /\ Within(new, merged)
      BY <2>2 DEF AREA, Within, Lesser, Greater
    <3>. QED BY <3>1, <3>2 DEF Rectangle
  <2>4. area = merged
    BY <1>7
  <2>. HIDE DEF merged
  <2>5. AreaPixels(old) \subseteq AreaPixels(merged)
    BY <2>1, <2>3, AreaGrows
  <2>. QED BY <1>3, <1>5, <2>3, <2>4, <2>5 DEF old
<1>. QED BY <1>6, <1>7

-----------------------------------------------------------------------------
\* What a rectangle that is added to the ones kept does.
LEMMA AreaOf ==
    ASSUME NEW g, GuiOK(g)
    PROVE  g.updated_area = NoArea \/ Rectangle(g.updated_area)
BY DEF GuiOK, GuiTypeOK, Rectangle, AREA

\* A field that is replaced: which ones there are does not change.
LEMMA GuiAreaOK ==
    ASSUME NEW g, GuiOK(g), NEW area, Rectangle(area),
           AreaPixels(g.updated_area) \subseteq AreaPixels(area)
    PROVE  LET h == [g EXCEPT !.updated_area = area]
           IN  GuiOK(h) /\ SameCopy(g, h)
<1>. DEFINE h == [g EXCEPT !.updated_area = area]
<1>1. DOMAIN g = GuiFields
  BY DEF GuiOK
<1>2. /\ DOMAIN h = GuiFields /\ h.updated_area = area
      /\ \A k \in GuiFields \ {"updated_area"} : h[k] = g[k]
  BY <1>1 DEF GuiFields
<1>. HIDE DEF h
<1>3. /\ h.bitmap = g.bitmap /\ h.window = g.window /\ h.invalid = g.invalid /\ h.cmap = g.cmap
      /\ h.vga_charmap = g.vga_charmap /\ h.char_changed = g.char_changed
      /\ h.charmap_updated = g.charmap_updated /\ h.vgafont = g.vgafont
      /\ h.dimension = g.dimension /\ h.stretch_factor = g.stretch_factor
      /\ h.guest = g.guest /\ h.thread = g.thread /\ h.stretched = g.stretched
      /\ h.bypassed = g.bypassed
  BY <1>2 DEF GuiFields
<1>4. GuiTypeOK(h)
  BY <1>2, <1>3 DEF GuiOK, GuiTypeOK, Rectangle, AREA
<1>5. Covers(h)
  BY <1>2, <1>3 DEF GuiOK, Covers, Pending
<1>. QED BY <1>2, <1>3, <1>4, <1>5 DEF GuiOK, SameCopy, h

\* flush hands the rectangle on to be painted.
LEMMA FlushOK ==
    ASSUME NEW g, GuiOK(g)
    PROVE  GuiOK(flush(g)) /\ SameCopy(g, flush(g))
<1>. DEFINE h == flush(g)
            invalid == IF g.thread = "window" THEN g.invalid
                       ELSE g.invalid \cup AreaPixels(g.updated_area)
<1>1. DOMAIN g = GuiFields
  BY DEF GuiOK
<1>2. h = [g EXCEPT !.invalid = invalid, !.updated_area = NoArea]
  BY <1>1 DEF flush, GuiFields
<1>3. invalid \subseteq Pixels
  <2>1. AreaPixels(g.updated_area) \subseteq Pixels
    BY DEF AreaPixels
  <2>. QED BY <2>1 DEF GuiOK, GuiTypeOK
<1>4. g.thread # "window" => invalid = g.invalid \cup AreaPixels(g.updated_area)
  OBVIOUS
<1>. HIDE DEF h, invalid
<1>5. /\ DOMAIN h = GuiFields /\ h.updated_area = NoArea /\ h.invalid = invalid
      /\ h.bitmap = g.bitmap /\ h.window = g.window /\ h.cmap = g.cmap
      /\ h.vga_charmap = g.vga_charmap /\ h.char_changed = g.char_changed
      /\ h.charmap_updated = g.charmap_updated /\ h.vgafont = g.vgafont
      /\ h.dimension = g.dimension /\ h.stretch_factor = g.stretch_factor
      /\ h.guest = g.guest /\ h.thread = g.thread /\ h.stretched = g.stretched
      /\ h.bypassed = g.bypassed
  BY <1>1, <1>2 DEF GuiFields
<1>6. GuiTypeOK(h)
  BY <1>3, <1>5 DEF GuiOK, GuiTypeOK
<1>7. Covers(h)
  <2>1. CASE g.thread = "window"
    BY <1>5, <2>1 DEF GuiOK, Covers
  <2>2. CASE g.thread # "window"
    BY <1>4, <1>5, <2>2 DEF GuiOK, Covers, Pending
  <2>. QED BY <2>1, <2>2
<1>. QED BY <1>5, <1>6, <1>7 DEF GuiOK, SameCopy, h

\* WM_PAINT, once there is a bitmap, paints what was invalidated.
LEMMA PaintOK ==
    ASSUME NEW g, GuiOK(g), g.thread # "window"
    PROVE  GuiOK(WM_PAINT(g)) /\ SameCopy(g, WM_PAINT(g))
<1>. DEFINE h == WM_PAINT(g)
            shown == [q \in Pixels |-> IF q \in g.invalid THEN g.bitmap[q] ELSE g.window[q]]
<1>1. DOMAIN g = GuiFields
  BY DEF GuiOK
<1>2. h = [g EXCEPT !.window = shown, !.invalid = {}]
  BY <1>1 DEF WM_PAINT, GuiFields
<1>3. DOMAIN shown = Pixels
  OBVIOUS
<1>4. \A q \in Pixels : q \notin g.invalid => shown[q] = g.window[q]
  OBVIOUS
<1>5. \A q \in g.invalid \cap Pixels : shown[q] = g.bitmap[q]
  OBVIOUS
<1>. HIDE DEF h, shown
<1>6. /\ DOMAIN h = GuiFields /\ h.updated_area = g.updated_area
      /\ h.invalid = {} /\ h.window = shown
      /\ h.bitmap = g.bitmap /\ h.cmap = g.cmap
      /\ h.vga_charmap = g.vga_charmap /\ h.char_changed = g.char_changed
      /\ h.charmap_updated = g.charmap_updated /\ h.vgafont = g.vgafont
      /\ h.dimension = g.dimension /\ h.stretch_factor = g.stretch_factor
      /\ h.guest = g.guest /\ h.thread = g.thread /\ h.stretched = g.stretched
      /\ h.bypassed = g.bypassed
  BY <1>1, <1>2 DEF GuiFields
<1>7. GuiTypeOK(h)
  BY <1>3, <1>6 DEF GuiOK, GuiTypeOK
<1>8. Covers(h)
  BY <1>4, <1>5, <1>6 DEF GuiOK, Covers, Pending
<1>. QED BY <1>6, <1>7, <1>8 DEF GuiOK, SameCopy, h

\* What has nothing to do with the bitmaps.
LEMMA SameBitmaps ==
    ASSUME NEW g, GuiOK(g), NEW h,
           /\ DOMAIN h = GuiFields /\ h.updated_area = g.updated_area
           /\ h.invalid = g.invalid /\ h.bitmap = g.bitmap /\ h.window = g.window
           /\ h.stretched = g.stretched,
           h.dimension \in (Nat \ {0}) \X (Nat \ {0}) /\ h.stretch_factor \in {1, 2},
           h.guest \in [xres: Nat, yres: Nat, fwidth: Nat, fheight: Nat],
           h.thread \in UIThreads /\ (h.thread = "window" => g.thread = "window"),
           /\ h.cmap \in [0..(DacSize - 1) -> RGB]
           /\ h.vga_charmap \in SUBSET FontCells /\ h.vgafont \in SUBSET FontCells
           /\ h.char_changed \subseteq Glyphs /\ h.charmap_updated \in BOOLEAN
           /\ h.bypassed \in BOOLEAN
    PROVE  GuiOK(h)
<1>1. GuiTypeOK(h)
  BY DEF GuiOK, GuiTypeOK, FontCells
<1>2. Covers(h)
  BY DEF GuiOK, Covers, Pending
<1>. QED BY <1>1, <1>2 DEF GuiOK

\* The types of the fields of the window, one by one.
LEMMA GuiParts ==
    ASSUME NEW g, GuiOK(g)
    PROVE  /\ DOMAIN g = GuiFields
           /\ g.cmap \in [0..(DacSize - 1) -> RGB]
           /\ g.vga_charmap \in SUBSET FontCells /\ g.vgafont \in SUBSET FontCells
           /\ g.char_changed \subseteq Glyphs /\ g.charmap_updated \in BOOLEAN
           /\ g.dimension \in (Nat \ {0}) \X (Nat \ {0}) /\ g.stretch_factor \in {1, 2}
           /\ g.guest \in [xres: Nat, yres: Nat, fwidth: Nat, fheight: Nat]
           /\ g.thread \in UIThreads
           /\ g.bypassed \in BOOLEAN
BY DEF GuiOK, GuiTypeOK, FontCells

\* palette_change leaves the pictures alone.
LEMMA PaletteOK ==
    ASSUME NEW g, GuiOK(g), NEW index \in 0..(DacSize - 1), NEW colour \in RGB
    PROVE  GuiOK(palette_change(g, index, colour)) /\ SameCopy(g, palette_change(g, index, colour))
<1>. DEFINE h == palette_change(g, index, colour)
            map == [g.cmap EXCEPT ![index] = colour]
<1>1. DOMAIN g = GuiFields
  BY GuiParts
<1>2. h = [g EXCEPT !.cmap = map]
  BY DEF palette_change
<1>3. map \in [0..(DacSize - 1) -> RGB]
  BY GuiParts
<1>. HIDE DEF h, map
<1>4. /\ DOMAIN h = GuiFields /\ h.updated_area = g.updated_area
      /\ h.invalid = g.invalid /\ h.bitmap = g.bitmap /\ h.window = g.window
      /\ h.dimension = g.dimension /\ h.stretch_factor = g.stretch_factor
      /\ h.guest = g.guest /\ h.thread = g.thread /\ h.stretched = g.stretched
      /\ h.cmap = map /\ h.vga_charmap = g.vga_charmap /\ h.vgafont = g.vgafont
      /\ h.char_changed = g.char_changed /\ h.charmap_updated = g.charmap_updated
      /\ h.bypassed = g.bypassed
  BY <1>1, <1>2 DEF GuiFields
<1>5. GuiOK(h)
  BY <1>3, <1>4, GuiParts, SameBitmaps
<1>. QED BY <1>4, <1>5 DEF SameCopy, h

\* set_text_charmap copies the selected map.
LEMMA CharmapOK ==
    ASSUME NEW g, GuiOK(g), NEW v \in VGA
    PROVE  /\ GuiOK(set_text_charmap(g, v))
           /\ set_text_charmap(g, v).vga_charmap = CharMap(v)
<1>. DEFINE h == set_text_charmap(g, v)
            font == CharMap(v)
<1>1. DOMAIN g = GuiFields
  BY GuiParts
<1>2. h = [g EXCEPT !.vga_charmap = font, !.char_changed = Glyphs, !.charmap_updated = TRUE,
                    !.bypassed = FALSE]
  BY DEF set_text_charmap
<1>3. font \in SUBSET FontCells
  BY InCharMap
<1>. HIDE DEF h, font
<1>4. /\ DOMAIN h = GuiFields /\ h.updated_area = g.updated_area
      /\ h.invalid = g.invalid /\ h.bitmap = g.bitmap /\ h.window = g.window
      /\ h.dimension = g.dimension /\ h.stretch_factor = g.stretch_factor
      /\ h.guest = g.guest /\ h.thread = g.thread /\ h.stretched = g.stretched
      /\ h.cmap = g.cmap /\ h.vga_charmap = font /\ h.vgafont = g.vgafont
      /\ h.char_changed = Glyphs /\ h.charmap_updated = TRUE
      /\ h.bypassed = FALSE
  BY <1>1, <1>2 DEF GuiFields
<1>5. GuiOK(h)
  BY <1>3, <1>4, GuiParts, SameBitmaps
<1>. QED BY <1>4, <1>5 DEF h, font

\* set_text_charbyte replaces one byte of the copy.
LEMMA CharbyteOK ==
    ASSUME NEW g, GuiOK(g), NEW v, NEW a \in 0..(FONT - 1), NEW byte \in SUBSET Bits
    PROVE  LET h == set_text_charbyte(g, v, a, byte)
           IN  /\ GuiOK(h) /\ h.bypassed = g.bypassed
               /\ h.vga_charmap = {p \in g.vga_charmap : p[1] # a} \cup ({a} \X byte)
<1>. DEFINE h == set_text_charbyte(g, v, a, byte)
            font == {p \in g.vga_charmap : p[1] # a} \cup ({a} \X byte)
            changed == g.char_changed \cup ({a \div 32} \cap Glyphs)
<1>1. DOMAIN g = GuiFields
  BY GuiParts
<1>2. h = [g EXCEPT !.vga_charmap = font, !.char_changed = changed, !.charmap_updated = TRUE]
  BY <1>1 DEF set_text_charbyte, GuiFields
<1>3. font \in SUBSET FontCells
  BY GuiParts DEF FontCells
<1>4. changed \subseteq Glyphs
  BY GuiParts
<1>. HIDE DEF h, font, changed
<1>5. /\ DOMAIN h = GuiFields /\ h.updated_area = g.updated_area
      /\ h.invalid = g.invalid /\ h.bitmap = g.bitmap /\ h.window = g.window
      /\ h.dimension = g.dimension /\ h.stretch_factor = g.stretch_factor
      /\ h.guest = g.guest /\ h.thread = g.thread /\ h.stretched = g.stretched
      /\ h.cmap = g.cmap /\ h.vga_charmap = font /\ h.vgafont = g.vgafont
      /\ h.char_changed = changed /\ h.charmap_updated = TRUE
      /\ h.bypassed = g.bypassed
  BY <1>1, <1>2 DEF GuiFields
<1>6. GuiOK(h)
  <2>1. /\ h.vga_charmap \in SUBSET FontCells /\ h.vgafont \in SUBSET FontCells
        /\ h.char_changed \subseteq Glyphs /\ h.charmap_updated \in BOOLEAN
        /\ h.bypassed \in BOOLEAN /\ h.cmap \in [0..(DacSize - 1) -> RGB]
    BY <1>3, <1>4, <1>5, GuiParts
  <2>2. /\ h.dimension \in (Nat \ {0}) \X (Nat \ {0}) /\ h.stretch_factor \in {1, 2}
        /\ h.guest \in [xres: Nat, yres: Nat, fwidth: Nat, fheight: Nat]
        /\ h.thread \in UIThreads
    BY <1>5, GuiParts
  <2>. QED BY <1>5, <2>1, <2>2, SameBitmaps
<1>. QED BY <1>5, <1>6 DEF h, font

\* set_font makes bitmaps of the copy and leaves it alone.
LEMMA SetFontOK ==
    ASSUME NEW g, GuiOK(g)
    PROVE  GuiOK(set_font(g)) /\ SameCopy(g, set_font(g)) /\ set_font(g).guest = g.guest
<1>. DEFINE h == set_font(g)
            font == {p \in g.vgafont : p[1] \div 32 \notin g.char_changed} \cup
                    {p \in g.vga_charmap : /\ p[1] \div 32 \in g.char_changed
                                           /\ p[1] % 32 < g.guest.fheight}
<1>1. DOMAIN g = GuiFields
  BY GuiParts
<1>2. h = [g EXCEPT !.vgafont = font, !.char_changed = {}, !.charmap_updated = FALSE]
  BY <1>1 DEF set_font, GuiFields
<1>3. font \in SUBSET FontCells
  BY GuiParts
<1>. HIDE DEF h, font
<1>4. /\ DOMAIN h = GuiFields /\ h.updated_area = g.updated_area
      /\ h.invalid = g.invalid /\ h.bitmap = g.bitmap /\ h.window = g.window
      /\ h.dimension = g.dimension /\ h.stretch_factor = g.stretch_factor
      /\ h.guest = g.guest /\ h.thread = g.thread /\ h.stretched = g.stretched
      /\ h.cmap = g.cmap /\ h.vga_charmap = g.vga_charmap /\ h.vgafont = font
      /\ h.char_changed = {} /\ h.charmap_updated = FALSE
      /\ h.bypassed = g.bypassed
  BY <1>1, <1>2 DEF GuiFields
<1>5. GuiOK(h)
  <2>1. {} \subseteq Glyphs
    OBVIOUS
  <2>. QED BY <1>3, <1>4, <2>1, GuiParts, SameBitmaps
<1>. QED BY <1>4, <1>5 DEF SameCopy, h

\* A new size leaves the pictures alone.
LEMMA DimensionOK ==
    ASSUME NEW g, GuiOK(g), NEW x \in Nat \ {0}, NEW y \in Nat \ {0}, NEW fh \in Nat, NEW fw \in Nat
    PROVE  LET h == dimension_update(g, x, y, fh, fw)
           IN  GuiOK(h) /\ SameCopy(g, h)
<1>. DEFINE h == dimension_update(g, x, y, fh, fw)
            stretch == IF <<x, y>> = g.dimension THEN g.stretch_factor
                       ELSE IF x < Narrow THEN 2 ELSE 1
            size == [xres |-> x, yres |-> y, fwidth |-> fw, fheight |-> fh]
            dimension == <<x, y>>
<1>1. DOMAIN g = GuiFields
  BY GuiParts
<1>2. h = [g EXCEPT !.guest = size, !.dimension = dimension, !.stretch_factor = stretch]
  BY <1>1 DEF dimension_update, GuiFields
<1>3. stretch \in {1, 2} /\ dimension \in (Nat \ {0}) \X (Nat \ {0})
  BY GuiParts
<1>4. size \in [xres: Nat, yres: Nat, fwidth: Nat, fheight: Nat]
  OBVIOUS
<1>. HIDE DEF h, stretch, size, dimension
<1>5. /\ DOMAIN h = GuiFields /\ h.updated_area = g.updated_area
      /\ h.invalid = g.invalid /\ h.bitmap = g.bitmap /\ h.window = g.window
      /\ h.dimension = dimension /\ h.stretch_factor = stretch
      /\ h.guest = size /\ h.thread = g.thread /\ h.stretched = g.stretched
      /\ h.cmap = g.cmap /\ h.vga_charmap = g.vga_charmap /\ h.vgafont = g.vgafont
      /\ h.char_changed = g.char_changed /\ h.charmap_updated = g.charmap_updated
      /\ h.bypassed = g.bypassed
  BY <1>1, <1>2 DEF GuiFields
<1>6. GuiOK(h)
  BY <1>3, <1>4, <1>5, GuiParts, SameBitmaps
<1>. QED BY <1>5, <1>6 DEF SameCopy, h

\* The panning of the text is noted.
LEMMA PanningOK ==
    ASSUME NEW g, GuiOK(g), NEW info
    PROVE  LET h == [g EXCEPT !.tm_info = info]
           IN  GuiOK(h) /\ SameCopy(g, h) /\ h.guest = g.guest
<1>. DEFINE h == [g EXCEPT !.tm_info = info]
<1>1. DOMAIN g = GuiFields
  BY GuiParts
<1>2. /\ DOMAIN h = GuiFields /\ h.updated_area = g.updated_area
      /\ h.invalid = g.invalid /\ h.bitmap = g.bitmap /\ h.window = g.window
      /\ h.dimension = g.dimension /\ h.stretch_factor = g.stretch_factor
      /\ h.guest = g.guest /\ h.thread = g.thread /\ h.stretched = g.stretched
      /\ h.cmap = g.cmap /\ h.vga_charmap = g.vga_charmap /\ h.vgafont = g.vgafont
      /\ h.char_changed = g.char_changed /\ h.charmap_updated = g.charmap_updated
      /\ h.bypassed = g.bypassed
  BY <1>1 DEF GuiFields
<1>. HIDE DEF h
<1>3. GuiOK(h)
  BY <1>2, GuiParts, SameBitmaps
<1>. QED BY <1>2, <1>3 DEF SameCopy, h

\* UIThread goes on, behind the making of the window.
LEMMA ReachOK ==
    ASSUME NEW g, GuiOK(g), NEW stage \in UIThreads \ {"window"}
    PROVE  GuiOK([g EXCEPT !.thread = stage]) /\ SameCopy(g, [g EXCEPT !.thread = stage])
<1>. DEFINE h == [g EXCEPT !.thread = stage]
<1>1. DOMAIN g = GuiFields
  BY GuiParts
<1>2. /\ DOMAIN h = GuiFields /\ h.updated_area = g.updated_area
      /\ h.invalid = g.invalid /\ h.bitmap = g.bitmap /\ h.window = g.window
      /\ h.dimension = g.dimension /\ h.stretch_factor = g.stretch_factor
      /\ h.guest = g.guest /\ h.thread = stage /\ h.stretched = g.stretched
      /\ h.cmap = g.cmap /\ h.vga_charmap = g.vga_charmap /\ h.vgafont = g.vgafont
      /\ h.char_changed = g.char_changed /\ h.charmap_updated = g.charmap_updated
      /\ h.bypassed = g.bypassed
  BY <1>1 DEF GuiFields
<1>. HIDE DEF h
<1>3. GuiOK(h)
  <2>1. stage \in UIThreads /\ stage # "window"
    OBVIOUS
  <2>. QED BY <1>2, <2>1, GuiParts, SameBitmaps
<1>. QED BY <1>2, <1>3 DEF SameCopy, h

\* The font was written past its copy.
LEMMA BypassedOK ==
    ASSUME NEW g, GuiOK(g), NEW b \in BOOLEAN
    PROVE  LET h == [g EXCEPT !.bypassed = b]
           IN  GuiOK(h) /\ h.bypassed = b /\ h.vga_charmap = g.vga_charmap
<1>. DEFINE h == [g EXCEPT !.bypassed = b]
<1>1. DOMAIN g = GuiFields
  BY GuiParts
<1>2. /\ DOMAIN h = GuiFields /\ h.updated_area = g.updated_area
      /\ h.invalid = g.invalid /\ h.bitmap = g.bitmap /\ h.window = g.window
      /\ h.dimension = g.dimension /\ h.stretch_factor = g.stretch_factor
      /\ h.guest = g.guest /\ h.thread = g.thread /\ h.stretched = g.stretched
      /\ h.cmap = g.cmap /\ h.vga_charmap = g.vga_charmap /\ h.vgafont = g.vgafont
      /\ h.char_changed = g.char_changed /\ h.charmap_updated = g.charmap_updated
      /\ h.bypassed = b
  BY <1>1 DEF GuiFields
<1>. HIDE DEF h
<1>3. GuiOK(h)
  BY <1>2, GuiParts, SameBitmaps
<1>. QED BY <1>2, <1>3 DEF h

\* A part of the window has come out.
LEMMA ExposedOK ==
    ASSUME NEW g, GuiOK(g), NEW t
    PROVE  LET h == [g EXCEPT !.invalid = g.invalid \cup TilePixels(t)]
           IN  GuiOK(h) /\ SameCopy(g, h)
<1>. DEFINE invalid == g.invalid \cup TilePixels(t)
            h == [g EXCEPT !.invalid = invalid]
<1>1. DOMAIN g = GuiFields
  BY GuiParts
<1>2. invalid \subseteq Pixels /\ g.invalid \subseteq invalid
  BY DEF TilePixels, GuiOK, GuiTypeOK
<1>. HIDE DEF invalid
<1>3. /\ DOMAIN h = GuiFields /\ h.updated_area = g.updated_area
      /\ h.invalid = invalid /\ h.bitmap = g.bitmap /\ h.window = g.window
      /\ h.dimension = g.dimension /\ h.stretch_factor = g.stretch_factor
      /\ h.guest = g.guest /\ h.thread = g.thread /\ h.stretched = g.stretched
      /\ h.cmap = g.cmap /\ h.vga_charmap = g.vga_charmap /\ h.vgafont = g.vgafont
      /\ h.char_changed = g.char_changed /\ h.charmap_updated = g.charmap_updated
      /\ h.bypassed = g.bypassed
  BY <1>1 DEF GuiFields
<1>. HIDE DEF h
<1>4. GuiTypeOK(h)
  BY <1>2, <1>3 DEF GuiOK, GuiTypeOK
<1>5. Covers(h)
  BY <1>2, <1>3 DEF GuiOK, Covers, Pending
<1>. QED BY <1>3, <1>4, <1>5 DEF GuiOK, SameCopy, h, invalid

-----------------------------------------------------------------------------
\* What is drawn has to be in the rectangle, unless it is stretched.
LEMMA BlitOK ==
    ASSUME NEW g, GuiOK(g), g.thread # "window", NEW ink, NEW area, Rectangle(area),
           AreaPixels(g.updated_area) \subseteq AreaPixels(area),
           g.stretch_factor = 1 => \A q \in DOMAIN ink \cap Pixels : q \in AreaPixels(area)
    PROVE  LET h == [Blit(g, ink) EXCEPT !.updated_area = area]
           IN  GuiOK(h) /\ SameCopy(g, h)
<1>. DEFINE bitmap == [q \in Pixels |-> IF q \in DOMAIN ink THEN ink[q] ELSE g.bitmap[q]]
            stretched == IF g.stretch_factor = 1 THEN g.stretched \ DOMAIN ink
                         ELSE g.stretched \cup (DOMAIN ink \cap Pixels)
            h == [Blit(g, ink) EXCEPT !.updated_area = area]
<1>1. DOMAIN g = GuiFields
  BY GuiParts
<1>2. h = [g EXCEPT !.bitmap = bitmap, !.stretched = stretched, !.updated_area = area]
  BY <1>1 DEF Blit, GuiFields
<1>3. DOMAIN bitmap = Pixels /\ \A q \in Pixels \ DOMAIN ink : bitmap[q] = g.bitmap[q]
  OBVIOUS
<1>4. stretched \subseteq Pixels
  BY DEF GuiOK, GuiTypeOK
<1>5. ASSUME NEW q \in Pixels \ stretched
      PROVE  q \in AreaPixels(area) \/ (q \notin g.stretched /\ q \notin DOMAIN ink)
  <2>1. CASE g.stretch_factor = 1
    BY <1>5, <2>1
  <2>2. CASE g.stretch_factor # 1
    BY <1>5, <2>2
  <2>. QED BY <2>1, <2>2
<1>. HIDE DEF bitmap, stretched, h
<1>6. /\ DOMAIN h = GuiFields /\ h.updated_area = area
      /\ h.invalid = g.invalid /\ h.bitmap = bitmap /\ h.window = g.window
      /\ h.dimension = g.dimension /\ h.stretch_factor = g.stretch_factor
      /\ h.guest = g.guest /\ h.thread = g.thread /\ h.stretched = stretched
      /\ h.cmap = g.cmap /\ h.vga_charmap = g.vga_charmap /\ h.vgafont = g.vgafont
      /\ h.char_changed = g.char_changed /\ h.charmap_updated = g.charmap_updated
      /\ h.bypassed = g.bypassed
  BY <1>1, <1>2 DEF GuiFields
<1>7. GuiTypeOK(h)
  BY <1>3, <1>4, <1>6 DEF GuiOK, GuiTypeOK, Rectangle, AREA
<1>8. Covers(h)
  <2>1. ASSUME NEW q \in Pixels \ stretched, g.window[q] # bitmap[q]
        PROVE  q \in AreaPixels(area) \cup g.invalid
    BY <1>3, <1>5, <2>1 DEF GuiOK, Covers, Pending
  <2>. QED BY <1>6, <2>1 DEF Covers, Pending
<1>. QED BY <1>6, <1>7, <1>8 DEF GuiOK, SameCopy, h

\* Drawing followed by updateUpdated for a rectangle around it.
LEMMA DrawnOK ==
    ASSUME NEW g, GuiOK(g), g.thread # "window", NEW ink,
           NEW x1 \in Int, NEW y1 \in Int, NEW x2 \in Int, NEW y2 \in Int,
           g.stretch_factor = 1 =>
               \A q \in DOMAIN ink \cap Pixels : Holds(<<x1, y1, x2, y2>>, q)
    PROVE  LET h == updateUpdated(Blit(g, ink), x1, y1, x2, y2)
           IN  GuiOK(h) /\ SameCopy(g, h) /\ h.guest = g.guest
<1>. DEFINE b == Blit(g, ink)
            h == updateUpdated(b, x1, y1, x2, y2)
            new == <<x1, y1, x2, y2>>
<1>1. DOMAIN g = GuiFields
  BY GuiParts
<1>2. /\ DOMAIN b = GuiFields /\ b.stretch_factor = g.stretch_factor
      /\ b.updated_area = g.updated_area /\ b.guest = g.guest
  BY <1>1 DEF Blit, GuiFields
<1>. HIDE DEF b, h
<1>3. "updated_area" \in DOMAIN b /\ b.stretch_factor \in {1, 2}
      /\ (b.updated_area = NoArea \/ Rectangle(b.updated_area))
  <2>1. g.updated_area = NoArea \/ Rectangle(g.updated_area)
    BY AreaOf
  <2>. QED BY <1>2, <2>1, GuiParts DEF GuiFields
<1>4. PICK area : /\ h = [b EXCEPT !.updated_area = area]
                  /\ Rectangle(area)
                  /\ AreaPixels(b.updated_area) \subseteq AreaPixels(area)
                  /\ b.stretch_factor = 1 => Within(new, area)
  BY <1>3, AreaUpdated DEF h
<1>5. Rectangle(new)
  <2>1. new # NoArea
    BY DEF NoArea
  <2>2. new \in AREA
    BY DEF AREA
  <2>. QED BY <2>1, <2>2 DEF Rectangle
<1>. HIDE DEF new
<1>6. ASSUME g.stretch_factor = 1, NEW q \in DOMAIN ink \cap Pixels PROVE q \in AreaPixels(area)
  <2>1. Holds(new, q) /\ q \in Pixels
    BY <1>6 DEF new
  <2>2. AreaPixels(new) \subseteq AreaPixels(area)
    BY <1>2, <1>4, <1>5, <1>6, AreaGrows
  <2>. QED BY <1>5, <2>1, <2>2, AreaHolds
<1>7. LET i == [Blit(g, ink) EXCEPT !.updated_area = area] IN GuiOK(i) /\ SameCopy(g, i)
  BY <1>2, <1>4, <1>6, BlitOK
<1>8. h.guest = b.guest
  BY <1>2, <1>4 DEF GuiFields
<1>. QED BY <1>2, <1>4, <1>7, <1>8 DEF h, b

\* The rectangle grows while there is no bitmap.
LEMMA OnlyUpdatedOK ==
    ASSUME NEW g, GuiOK(g), NEW x1 \in Int, NEW y1 \in Int, NEW x2 \in Int, NEW y2 \in Int
    PROVE  LET h == updateUpdated(g, x1, y1, x2, y2)
           IN  GuiOK(h) /\ SameCopy(g, h)
<1>. DEFINE h == updateUpdated(g, x1, y1, x2, y2)
<1>. HIDE DEF h
<1>1. "updated_area" \in DOMAIN g /\ g.stretch_factor \in {1, 2}
  BY GuiParts DEF GuiFields
<1>2. g.updated_area = NoArea \/ Rectangle(g.updated_area)
  BY AreaOf
<1>3. PICK area : /\ h = [g EXCEPT !.updated_area = area]
                  /\ Rectangle(area)
                  /\ AreaPixels(g.updated_area) \subseteq AreaPixels(area)
                  /\ g.stretch_factor = 1 => Within(<<x1, y1, x2, y2>>, area)
  BY <1>1, <1>2, AreaUpdated DEF h
<1>. QED BY <1>3, GuiAreaOK DEF h

\* clear_screen marks what it wipes.
LEMMA ClearOK ==
    ASSUME NEW g, GuiOK(g)
    PROVE  /\ GuiOK(clear_screen(g)) /\ SameCopy(g, clear_screen(g))
           /\ clear_screen(g).guest = g.guest
<1>. DEFINE ink == [q \in ScreenPixels(g) |-> Black]
            x2 == g.dimension[1] - 1
            y2 == g.dimension[2] - 1
<1>1. CASE ~UIinited(g)
  BY <1>1 DEF clear_screen, SameCopy
<1>2. CASE UIinited(g)
  <2>1. g.thread # "window"
    BY <1>2 DEF UIinited
  <2>2. x2 \in Int /\ y2 \in Int /\ x2 + 1 = g.dimension[1] /\ y2 + 1 = g.dimension[2]
    BY GuiParts
  <2>3. ASSUME g.stretch_factor = 1, NEW q \in DOMAIN ink \cap Pixels
        PROVE  Holds(<<0, 0, x2, y2>>, q)
    <3>1. q \in Pixels /\ q[1] < g.dimension[1] /\ q[2] < g.dimension[2]
      BY <2>2, <2>3 DEF ScreenPixels
    <3>2. q[1] \in Nat /\ q[2] \in Nat
      BY <3>1, PixelType
    <3>. HIDE DEF x2, y2
    <3>. QED BY <2>2, <3>1, <3>2 DEF Holds
  <2>4. clear_screen(g) = updateUpdated(Blit(g, ink), 0, 0, x2, y2)
    BY <1>2 DEF clear_screen
  <2>. HIDE DEF ink, x2, y2
  <2>. QED BY <2>1, <2>2, <2>3, <2>4, DrawnOK
<1>. QED BY <1>1, <1>2

\* graphics_tile_update marks the tile it draws.
LEMMA TileOK ==
    ASSUME NEW g, GuiOK(g), NEW v, NEW tile \in Tiles
    PROVE  LET h == graphics_tile_update(g, v, tile)
           IN  GuiOK(h) /\ SameCopy(g, h)
<1>. DEFINE ink == [q \in TilePixels(tile) |-> Picture(v, g.cmap, q)]
            x1 == X_TILESIZE * tile[1]
            y1 == Y_TILESIZE * tile[2]
            x2 == x1 + X_TILESIZE - 1
            y2 == y1 + Y_TILESIZE - 1
            h == graphics_tile_update(g, v, tile)
<1>1. /\ x1 \in Int /\ y1 \in Int /\ x2 \in Int /\ y2 \in Int
      /\ x2 + 1 = x1 + X_TILESIZE /\ y2 + 1 = y1 + Y_TILESIZE
  <2>1. tile[1] \in Nat /\ tile[2] \in Nat
    BY VgaAssumption DEF Tiles
  <2>2. X_TILESIZE \in Nat /\ Y_TILESIZE \in Nat
    BY VgaAssumption DEF X_TILESIZE
  <2>3. x1 \in Int /\ y1 \in Int
    BY <2>1, <2>2, SMT
  <2>. HIDE DEF x1, y1
  <2>. QED BY <2>2, <2>3
<1>2. h = updateUpdated(IF g.thread = "window" THEN g ELSE Blit(g, ink), x1, y1, x2, y2)
  BY DEF graphics_tile_update
<1>3. \A q \in DOMAIN ink \cap Pixels : /\ x1 <= q[1] /\ q[1] < x1 + X_TILESIZE
                                        /\ y1 <= q[2] /\ q[2] < y1 + Y_TILESIZE
  BY DEF TilePixels
<1>. HIDE DEF ink, x1, y1, x2, y2, h
<1>4. CASE g.thread = "window"
  BY <1>1, <1>2, <1>4, OnlyUpdatedOK DEF h
<1>5. CASE g.thread # "window"
  <2>1. ASSUME NEW q \in DOMAIN ink \cap Pixels PROVE Holds(<<x1, y1, x2, y2>>, q)
    <3>1. q[1] \in Nat /\ q[2] \in Nat
      BY PixelType
    <3>. QED BY <1>1, <1>3, <3>1 DEF Holds
  <2>. QED BY <1>1, <1>2, <1>5, <2>1, DrawnOK DEF h
<1>. QED BY <1>4, <1>5

-----------------------------------------------------------------------------
\* The loops over the tiles.
TileAt(i) == <<i % NumX, i \div NumX>>
DrawRound(g, v, due, i) ==
    IF TileAt(i) \in due THEN graphics_tile_update(g, v, TileAt(i)) ELSE g
DrawTo(f, n, g, v, due) ==
    f = [i \in 0..n |-> IF i = 0 THEN g ELSE DrawRound(f[i - 1], v, due, i - 1)]

\* The rounds of the loop exist.
LEMMA DrawRounds ==
    ASSUME NEW g, NEW v, NEW due, NEW n \in Nat
    PROVE  \E f : DrawTo(f, n, g, v, due)
<1>. DEFINE S == {i \in Nat : \E f : DrawTo(f, i, g, v, due)}
<1>1. 0 \in S
  <2>. DEFINE f == [i \in 0..0 |-> g]
  <2>1. DrawTo(f, 0, g, v, due)
    BY DEF DrawTo
  <2>. QED BY <2>1
<1>2. ASSUME NEW k \in 0..n, k \in S, k < n PROVE k + 1 \in S
  <2>1. PICK f : DrawTo(f, k, g, v, due)
    BY <1>2
  <2>. DEFINE h == [i \in 0..(k + 1) |-> IF i = k + 1 THEN DrawRound(f[k], v, due, k) ELSE f[i]]
              r == [i \in 0..(k + 1) |-> IF i = 0 THEN g ELSE DrawRound(h[i - 1], v, due, i - 1)]
  <2>2. ASSUME NEW i \in 0..(k + 1) PROVE h[i] = r[i]
    <3>1. CASE i = 0
      <4>1. h[i] = f[0] /\ 0 \in 0..k
        BY <3>1
      <4>2. f[0] = g
        BY <2>1, <4>1 DEF DrawTo
      <4>. QED BY <3>1, <4>1, <4>2
    <3>2. CASE i = k + 1
      <4>1. i # 0 /\ i - 1 = k /\ h[i - 1] = f[k]
        BY <3>2
      <4>. QED BY <3>2, <4>1
    <3>3. CASE i # 0 /\ i # k + 1
      <4>1. i \in 0..k /\ i - 1 \in 0..k /\ i # k + 1 /\ i - 1 # k + 1
        BY <3>3
      <4>2. h[i] = f[i] /\ h[i - 1] = f[i - 1]
        BY <4>1
      <4>3. f[i] = DrawRound(f[i - 1], v, due, i - 1)
        BY <2>1, <3>3, <4>1 DEF DrawTo
      <4>. QED BY <3>3, <4>2, <4>3
    <3>. QED BY <3>1, <3>2, <3>3
  <2>3. h = r
    BY <2>2
  <2>4. DrawTo(h, k + 1, g, v, due)
    BY <2>3 DEF DrawTo
  <2>. QED BY <2>4
<1>. HIDE DEF S
<1>3. n \in S
  BY <1>1, <1>2, UpTo
<1>. QED BY <1>3 DEF S

\* The loop over the tiles that are due, of any number.
LEMMA DrawTilesOK ==
    ASSUME NEW g, GuiOK(g), NEW v, NEW due \in SUBSET Tiles
    PROVE  GuiOK(DrawTiles(v, g, due)) /\ SameCopy(g, DrawTiles(v, g, due))
<1>. DEFINE n == NumX * NumY
            drawn[i \in 0..n] ==
              IF i = 0 THEN g
              ELSE IF TileAt(i - 1) \in due
                   THEN graphics_tile_update(drawn[i - 1], v, TileAt(i - 1))
              ELSE drawn[i - 1]
            S == {i \in Nat : GuiOK(drawn[i]) /\ SameCopy(g, drawn[i])}
<1>1. n \in Nat
  BY VgaAssumption
<1>2. DrawTiles(v, g, due) = drawn[n]
  BY DEF DrawTiles, TileAt
<1>. HIDE DEF n
<1>3. PICK f : DrawTo(f, n, g, v, due)
  BY <1>1, DrawRounds
<1>4. DrawTo(drawn, n, g, v, due)
  BY <1>3 DEF DrawTo, DrawRound
<1>. HIDE DEF drawn
<1>5. drawn[0] = g
  BY <1>1, <1>4 DEF DrawTo
<1>6. ASSUME NEW i \in 0..n, i < n PROVE drawn[i + 1] = DrawRound(drawn[i], v, due, i)
  <2>1. i + 1 \in 0..n /\ i + 1 # 0 /\ (i + 1) - 1 = i
    BY <1>1, <1>6
  <2>. QED BY <1>4, <2>1 DEF DrawTo
<1>7. 0 \in S
  BY <1>5 DEF SameCopy
<1>8. ASSUME NEW i \in 0..n, i \in S, i < n PROVE i + 1 \in S
  <2>1. drawn[i + 1] = DrawRound(drawn[i], v, due, i)
    BY <1>6, <1>8
  <2>2. GuiOK(drawn[i]) /\ SameCopy(g, drawn[i])
    BY <1>8
  <2>3. PICK d : d = drawn[i]
    OBVIOUS
  <2>4. GuiOK(DrawRound(d, v, due, i)) /\ SameCopy(d, DrawRound(d, v, due, i))
    <3>1. SameCopy(d, d)
      BY DEF SameCopy
    <3>2. ASSUME TileAt(i) \in due
          PROVE  LET h == graphics_tile_update(d, v, TileAt(i)) IN GuiOK(h) /\ SameCopy(d, h)
      <4>1. PICK t \in Tiles : t = TileAt(i)
        BY <3>2
      <4>. QED BY <2>2, <2>3, <4>1, TileOK
    <3>. QED BY <2>2, <2>3, <3>1, <3>2 DEF DrawRound
  <2>. QED BY <2>1, <2>2, <2>3, <2>4 DEF SameCopy
<1>9. n \in S
  <2>. HIDE DEF S
  <2>. QED BY <1>1, <1>7, <1>8, UpTo
<1>. QED BY <1>2, <1>9

-----------------------------------------------------------------------------
\* The sizes that an update arrives at.
LEMMA GraphicsSizes ==
    ASSUME NEW v \in VGA
    PROVE  Width(v) \in ScreenWidths /\ Height(v) \in ScreenHeights
<1>. DEFINE r == v.CRTC.reg
            z == Number(v.x_dotclockdiv2)
            b == Number(Bit(r[7], 1))
            c == Number(Bit(r[7], 6))
            n == r[1]
            m == r[18]
<1>1. r \in REGS
  BY RegsType
<1>2. n \in 0..255 /\ m \in 0..255
  BY <1>1, RegRange
<1>3. z \in {0, 1} /\ b \in {0, 1} /\ c \in {0, 1}
  BY BitTypes, Zenon
<1>4. Width(v) = (n + 1) * 8 * (1 + z) /\ Height(v) = m + 256 * b + 512 * c + 1
  BY DEF Width, Height
<1>. HIDE DEF z, b, c, n, m
<1>5. (n + 1) * 8 * (1 + z) \in ScreenWidths
  <2>. DEFINE wide == (n + 1) * 8 * (1 + z)
  <2>1. z = 0 \/ z = 1
    BY <1>3
  <2>2. wide \in Int /\ 0 <= wide /\ wide <= 4608
    BY <1>2, <2>1, SMT
  <2>. HIDE DEF wide
  <2>3. wide \in ScreenWidths
    BY <2>2, SMT DEF ScreenWidths
  <2>. QED BY <2>3 DEF wide
<1>6. m + 256 * b + 512 * c + 1 \in ScreenHeights
  <2>1. (b = 0 \/ b = 1) /\ (c = 0 \/ c = 1)
    BY <1>3
  <2>. QED BY <1>2, <2>1, SMT DEF ScreenHeights
<1>. QED BY <1>4, <1>5, <1>6

\* The sizes of a text screen that an update arrives at.
LEMMA TextSizes ==
    ASSUME NEW v \in VGA
    PROVE  /\ CharWidth(v) \in CharWidths /\ CharHeight(v) \in CharHeights
           /\ CharHeight(v) \in Nat \ {0}
           /\ CharWidth(v) * Columns(v) \in ScreenWidths
           /\ CharWidth(v) * Columns(v) \in Nat \ {0}
           /\ v.vertical_display_end + 1 \in ScreenHeights
           /\ v.vertical_display_end + 1 \in Nat \ {0}
<1>. DEFINE r == v.CRTC.reg
            z == Number(v.x_dotclockdiv2)
            w == IF Bit(v.sequencer.reg1, 0) THEN 8 ELSE 9
            n == r[1]
            m == r[9] % 32
            columns == IF n = 0 \/ m = 0 THEN 80 ELSE n + 1
            end == v.vertical_display_end
<1>1. r \in REGS
  BY RegsType
<1>2. n \in 0..255 /\ r[9] \in 0..255
  BY <1>1, RegRange
<1>3. m \in 0..31
  BY <1>2
<1>4. z \in {0, 1}
  BY BitTypes, Zenon
<1>5. w \in {8, 9}
  OBVIOUS
<1>6. /\ CharWidth(v) = w * (1 + z) /\ Columns(v) = columns
      /\ CharHeight(v) = CASE n = 0 \/ m = 0 -> 16 [] n # 0 /\ m = 1 /\ end = 399 -> 4
                           [] OTHER -> m + 1
  BY DEF CharWidth, Columns, CharHeight
<1>7. end \in Lines
  BY VgaFields
<1>. HIDE DEF z, w, n, m, end
<1>8. columns \in Nat /\ 0 < columns /\ columns <= 256
  BY <1>2
<1>. HIDE DEF columns
<1>9. w * (1 + z) \in CharWidths /\ w * (1 + z) \in {8, 9, 16, 18}
  <2>1. (w = 8 \/ w = 9) /\ (z = 0 \/ z = 1)
    BY <1>4, <1>5
  <2>. QED BY <2>1 DEF CharWidths
<1>10. w * (1 + z) * columns \in ScreenWidths /\ w * (1 + z) * columns \in Nat \ {0}
  <2>1. PICK k \in {8, 9, 16, 18} : k = w * (1 + z)
    BY <1>9
  <2>2. k = 8 \/ k = 9 \/ k = 16 \/ k = 18
    BY <2>1
  <2>3. k * columns \in Int /\ 0 < k * columns /\ k * columns <= 4608
    BY <1>8, <2>2, SMT
  <2>4. PICK d \in Int : d = k * columns
    BY <2>3
  <2>5. d \in Int /\ 0 < d /\ d <= 4608
    BY <2>3, <2>4
  <2>6. d \in ScreenWidths
    BY <2>5, SMTT(40) DEF ScreenWidths
  <2>. QED BY <2>1, <2>4, <2>5, <2>6
<1>11. CharHeight(v) \in CharHeights /\ CharHeight(v) \in Nat \ {0}
  BY <1>3, <1>6 DEF CharHeights
<1>12. end + 1 \in ScreenHeights /\ end + 1 \in Nat \ {0}
  <2>1. end \in Int /\ 0 <= end /\ end <= 1023
    BY <1>7 DEF Lines
  <2>. QED BY <2>1, SMT DEF ScreenHeights
<1>. QED BY <1>6, <1>9, <1>10, <1>11, <1>12 DEF end

-----------------------------------------------------------------------------
\* The update of the screen.
UpdateOK(v, g, m) ==
    /\ DOMAIN m = {"vga", "gui"}
    /\ Plain(v, m.vga) /\ GuiOK(m.gui) /\ SameCopy(g, m.gui)

\* An update behind changes that are plain and leave the copy alone.
LEMMA UpdateTrans ==
    ASSUME NEW u, NEW v, NEW f, NEW g, NEW m, Plain(u, v), SameCopy(f, g), UpdateOK(v, g, m)
    PROVE  UpdateOK(u, f, m)
<1>1. Plain(u, m.vga)
  BY PlainTrans DEF UpdateOK
<1>. QED BY <1>1 DEF UpdateOK, SameCopy

\* An update that clears the screen first.
LEMMA ClearedOK ==
    ASSUME NEW v \in VGA, NEW g, GuiOK(g)
    PROVE  UpdateOK(v, g, Cleared(v, g))
<1>1. PICK s \in SEQUENCER : s = [v.sequencer EXCEPT !.clear_screen = FALSE]
  <2>1. v.sequencer \in SEQUENCER
    BY VgaFields
  <2>2. PICK f \in SEQUENCER : f = v.sequencer
    BY <2>1
  <2>3. ASSUME NEW b \in BOOLEAN PROVE [f EXCEPT !.clear_screen = b] \in SEQUENCER
    BY DEF SEQUENCER
  <2>. QED BY <2>2, <2>3
<1>2. Plain(v, [v EXCEPT !.sequencer = s])
  BY PlainParts
<1>3. [v EXCEPT !.sequencer = s] = [v EXCEPT !.sequencer.clear_screen = FALSE]
  BY <1>1
<1>4. SameCopy(g, g)
  BY DEF SameCopy
<1>. QED BY <1>2, <1>3, <1>4, ClearOK DEF Cleared, UpdateOK

\* An update of the screen in graphics.
LEMMA GraphicsUpdateOK ==
    ASSUME NEW v \in VGA, NEW g, GuiOK(g), NEW toggle
    PROVE  UpdateOK(v, g, GraphicsUpdate(v, g, toggle))
<1>. DEFINE x == Width(v)
            y == Height(v)
            sized == [v EXCEPT !.last_xres = x, !.last_yres = y]
            c == Cleared(sized, g)
            planar == v.graphics_ctrl.shift_reg = 0 /\ ~Cga2(v)
            due == IF planar /\ toggle THEN OnScreen(v) ELSE OnScreen(v) \cap v.tiles
            left == c.vga.tiles \ due
            drawn == [c.vga EXCEPT !.tiles = @ \ due, !.vga_mem_updated = FALSE]
            shown == DrawTiles(v, c.gui, due)
<1>1. x \in ScreenWidths /\ y \in ScreenHeights
  BY GraphicsSizes
<1>2. GraphicsUpdate(v, g, toggle) =
          IF VgaCoreSkipUpdate(v) THEN c ELSE [vga |-> drawn, gui |-> shown]
  BY DEF GraphicsUpdate
<1>3. due \in SUBSET Tiles
  BY DEF OnScreen
<1>. HIDE DEF x, y, due
<1>4. Plain(v, sized)
  <2>1. PICK w \in VGA : w = [v EXCEPT !.last_xres = x] /\ Plain(v, w)
    <3>1. Plain(v, [v EXCEPT !.last_xres = x])
      BY <1>1, PlainDrawn
    <3>. QED BY <3>1 DEF Plain
  <2>2. Plain(w, [w EXCEPT !.last_yres = y])
    BY <1>1, PlainDrawn
  <2>3. sized = [w EXCEPT !.last_yres = y]
    BY <2>1
  <2>. HIDE DEF sized
  <2>. QED BY <2>1, <2>2, <2>3, PlainTrans
<1>. HIDE DEF sized
<1>5. sized \in VGA
  BY <1>4 DEF Plain
<1>6. UpdateOK(sized, g, c)
  BY <1>5, ClearedOK
<1>. HIDE DEF c
<1>7. SameCopy(g, g)
  BY DEF SameCopy
<1>8. UpdateOK(v, g, c)
  BY <1>4, <1>6, <1>7, UpdateTrans
<1>9. c.vga \in VGA /\ Plain(v, c.vga) /\ GuiOK(c.gui) /\ SameCopy(g, c.gui)
  BY <1>8 DEF UpdateOK, Plain
<1>10. Plain(v, drawn)
  <2>1. left \in SUBSET Tiles
    BY <1>9, VgaFields
  <2>2. PICK w \in VGA : w = [c.vga EXCEPT !.tiles = left] /\ Plain(c.vga, w)
    <3>1. Plain(c.vga, [c.vga EXCEPT !.tiles = left])
      BY <1>9, <2>1, PlainDrawn
    <3>. QED BY <3>1 DEF Plain
  <2>3. Plain(w, [w EXCEPT !.vga_mem_updated = FALSE])
    BY PlainParts
  <2>4. drawn = [w EXCEPT !.vga_mem_updated = FALSE]
    BY <2>2
  <2>. HIDE DEF drawn
  <2>. QED BY <1>9, <2>2, <2>3, <2>4, PlainTrans
<1>11. GuiOK(shown) /\ SameCopy(g, shown)
  <2>1. GuiOK(shown) /\ SameCopy(c.gui, shown)
    BY <1>3, <1>9, DrawTilesOK
  <2>. QED BY <1>9, <2>1 DEF SameCopy
<1>. HIDE DEF drawn, shown
<1>12. UpdateOK(v, g, [vga |-> drawn, gui |-> shown])
  BY <1>10, <1>11 DEF UpdateOK
<1>. QED BY <1>2, <1>8, <1>12

\* An update of the text that finds another size.
LEMMA ResizedOK ==
    ASSUME NEW v \in VGA, NEW g, GuiOK(g)
    PROVE  UpdateOK(v, g, TextResized(v, g))
<1>. DEFINE x == CharWidth(v) * Columns(v)
            y == v.vertical_display_end + 1
            fw == CharWidth(v)
            fh == CharHeight(v)
            sized == [v EXCEPT !.last_xres = x, !.last_yres = y, !.last_fw = fw, !.last_fh = fh]
            h == dimension_update(g, x, y, fh, fw)
<1>1. /\ x \in ScreenWidths /\ y \in ScreenHeights /\ fw \in CharWidths /\ fh \in CharHeights
      /\ x \in Nat \ {0} /\ y \in Nat \ {0} /\ fw \in Nat /\ fh \in Nat
  BY TextSizes DEF CharWidths
<1>2. TextResized(v, g) =
          IF <<v.last_xres, v.last_yres, v.last_fw, v.last_fh>> = <<x, y, fw, fh>>
          THEN [vga |-> v, gui |-> g] ELSE [vga |-> sized, gui |-> h]
  BY DEF TextResized
<1>. HIDE DEF x, y, fw, fh
<1>3. Plain(v, sized)
  <2>1. PICK w1 \in VGA : w1 = [v EXCEPT !.last_xres = x] /\ Plain(v, w1)
    <3>1. Plain(v, [v EXCEPT !.last_xres = x])
      BY <1>1, PlainDrawn
    <3>. QED BY <3>1 DEF Plain
  <2>2. PICK w2 \in VGA : w2 = [w1 EXCEPT !.last_yres = y] /\ Plain(w1, w2)
    <3>1. Plain(w1, [w1 EXCEPT !.last_yres = y])
      BY <1>1, PlainDrawn
    <3>. QED BY <3>1 DEF Plain
  <2>3. PICK w3 \in VGA : w3 = [w2 EXCEPT !.last_fw = fw] /\ Plain(w2, w3)
    <3>1. Plain(w2, [w2 EXCEPT !.last_fw = fw])
      BY <1>1, PlainDrawn
    <3>. QED BY <3>1 DEF Plain
  <2>4. Plain(w3, [w3 EXCEPT !.last_fh = fh])
    BY <1>1, PlainDrawn
  <2>5. sized = [w3 EXCEPT !.last_fh = fh]
    BY <2>1, <2>2, <2>3
  <2>. HIDE DEF sized
  <2>6. Plain(v, w2)
    BY <2>1, <2>2, PlainTrans
  <2>7. Plain(v, w3)
    BY <2>3, <2>6, PlainTrans
  <2>. QED BY <2>4, <2>5, <2>7, PlainTrans
<1>4. GuiOK(h) /\ SameCopy(g, h)
  BY <1>1, DimensionOK
<1>5. Plain(v, v) /\ SameCopy(g, g)
  BY DEF Plain, SameCopy
<1>. HIDE DEF sized, h
<1>. QED BY <1>2, <1>3, <1>4, <1>5 DEF UpdateOK

\* The snapshot of the text, as the cursor changes it and as it is taken over.
LEMMA CursorSnapshot ==
    ASSUME NEW v \in VGA, NEW rows
    PROVE  AtCursor(v, v.text_snapshot, CursorAddress(v, rows)) \in SUBSET CELL
<1>. DEFINE high == v.CRTC.reg[14]
            low == v.CRTC.reg[15]
            address == (2 * (256 * high + low)) % PLANE
            a == CursorAddress(v, rows)
            s == v.text_snapshot
            byte == Bits \ Peek(v, a)
<1>1. s \in SUBSET CELL
  BY VgaFields
<1>2. high \in 0..255 /\ low \in 0..255
  BY RegsType, RegRange
<1>3. a = 65535 \/ a = address
  BY DEF CursorAddress
<1>. HIDE DEF high, low
<1>4. address \in Int /\ 0 <= address /\ address < 5 * PLANE
  <2>1. 2 * (256 * high + low) \in Int
    BY <1>2
  <2>2. PICK d \in Int : d = 2 * (256 * high + low)
    BY <2>1
  <2>3. d % PLANE \in Int /\ 0 <= d % PLANE /\ d % PLANE < PLANE
    BY PlaneSize, SMT
  <2>. QED BY <2>2, <2>3, PlaneSize
<1>5. address \in Addresses
  BY <1>4, PlaneSize
<1>6. byte \in SUBSET Bits
  OBVIOUS
<1>. HIDE DEF address, a, s, byte
<1>7. AtCursor(v, s, a) = IF a = 65535 THEN s ELSE {p \in s : p[1] # a} \cup ({a} \X byte)
  BY DEF AtCursor, byte
<1>8. CASE a = 65535
  BY <1>1, <1>7, <1>8 DEF s, a
<1>9. CASE a # 65535
  <2>1. a \in Addresses
    BY <1>3, <1>5, <1>9
  <2>2. {a} \X byte \subseteq CELL
    BY <1>6, <2>1 DEF CELL
  <2>3. {p \in s : p[1] # a} \subseteq CELL
    BY <1>1
  <2>. QED BY <1>7, <1>9, <2>2, <2>3 DEF s, a
<1>. QED BY <1>8, <1>9

-----------------------------------------------------------------------------
\* The numbers of a finite set lie between two bounds.
LEMMA Bounded ==
    ASSUME NEW S, IsFiniteSet(S), S \subseteq Int
    PROVE  \E b \in Nat : \A s \in S : -b <= s /\ s <= b
<1>. DEFINE n == Cardinality(S)
<1>1. n \in Nat /\ ExistsBijection(1..n, S)
  BY FS_CardinalityType
<1>. HIDE DEF n
<1>2. PICK f \in Bijection(1..n, S) : TRUE
  BY <1>1 DEF ExistsBijection
<1>3. f \in [1..n -> S] /\ \A s \in S : \E i \in 1..n : f[i] = s
  BY <1>2 DEF Bijection, Surjection
<1>. DEFINE T == {k \in 0..n : \E b \in Nat : \A i \in 1..k : -b <= f[i] /\ f[i] <= b}
<1>4. 0 \in T
  <2>1. \A i \in 1..0 : -0 <= f[i] /\ f[i] <= 0
    OBVIOUS
  <2>. QED BY <1>1, <2>1
<1>5. ASSUME NEW k \in 0..n, k \in T, k < n PROVE k + 1 \in T
  <2>1. PICK b \in Nat : \A i \in 1..k : -b <= f[i] /\ f[i] <= b
    BY <1>5
  <2>2. k + 1 \in 1..n /\ k + 1 \in 0..n
    BY <1>1, <1>5
  <2>3. PICK x \in Int : x = f[k + 1]
    BY <1>3, <2>2
  <2>4. PICK c \in Nat : -c <= x /\ x <= c /\ b <= c
    <3>1. CASE x >= 0
      BY <3>1
    <3>2. CASE x < 0
      <4>1. b - x \in Nat /\ -(b - x) <= x /\ x <= b - x /\ b <= b - x
        BY <3>2
      <4>. QED BY <4>1
    <3>. QED BY <3>1, <3>2
  <2>5. ASSUME NEW i \in 1..(k + 1) PROVE -c <= f[i] /\ f[i] <= c
    <3>1. CASE i = k + 1
      BY <2>3, <2>4, <3>1
    <3>2. CASE i # k + 1
      <4>1. i \in 1..k /\ i \in 1..n
        BY <1>1, <3>2
      <4>2. f[i] \in Int
        BY <1>3, <4>1
      <4>3. -b <= f[i] /\ f[i] <= b
        BY <2>1, <4>1
      <4>. QED BY <2>4, <4>2, <4>3
    <3>. QED BY <3>1, <3>2
  <2>. QED BY <2>2, <2>5
<1>6. n \in T
  <2>. HIDE DEF T
  <2>. QED BY <1>1, <1>4, <1>5, UpTo
<1>. QED BY <1>3, <1>6

\* The least and the greatest number of a finite set.
LEMMA Extremes ==
    ASSUME NEW S, IsFiniteSet(S), S \subseteq Int, S # {}
    PROVE  /\ Min(S) \in S /\ \A s \in S : Min(S) <= s
           /\ Max(S) \in S /\ \A s \in S : s <= Max(S)
<1>1. PICK b \in Nat : \A s \in S : -b <= s /\ s <= b
  BY Bounded
<1>2. \E x \in S : \A y \in S : x <= y
  <2>. DEFINE T == {s + b : s \in S}
  <2>1. T \subseteq Nat /\ T # {}
    <3>1. ASSUME NEW s \in S PROVE s + b \in Nat
      <4>1. s \in Int /\ -b <= s
        BY <1>1
      <4>. QED BY <4>1
    <3>. QED BY <3>1
  <2>2. PICK t \in T : \A u \in T : t <= u
    <3>. HIDE DEF T
    <3>. QED BY <2>1, LeastNumber
  <2>3. PICK x \in S : t = x + b
    OBVIOUS
  <2>4. ASSUME NEW y \in S PROVE x <= y
    <3>1. y + b \in T /\ y \in Int /\ x \in Int
      OBVIOUS
    <3>2. x + b <= y + b
      BY <2>2, <2>3, <3>1
    <3>. QED BY <3>1, <3>2
  <2>. QED BY <2>4
<1>3. \E x \in S : \A y \in S : x >= y
  <2>. DEFINE T == {b - s : s \in S}
  <2>1. T \subseteq Nat /\ T # {}
    <3>1. ASSUME NEW s \in S PROVE b - s \in Nat
      <4>1. s \in Int /\ s <= b
        BY <1>1
      <4>. QED BY <4>1
    <3>. QED BY <3>1
  <2>2. PICK t \in T : \A u \in T : t <= u
    <3>. HIDE DEF T
    <3>. QED BY <2>1, LeastNumber
  <2>3. PICK x \in S : t = b - x
    OBVIOUS
  <2>4. ASSUME NEW y \in S PROVE x >= y
    <3>1. b - y \in T /\ y \in Int /\ x \in Int
      OBVIOUS
    <3>2. b - x <= b - y
      BY <2>2, <2>3, <3>1
    <3>. QED BY <3>1, <3>2
  <2>. QED BY <2>4
<1>4. Min(S) \in S /\ \A s \in S : Min(S) <= s
  BY <1>2 DEF Min
<1>5. Max(S) \in S /\ \A s \in S : Max(S) >= s
  BY <1>3 DEF Max
<1>6. \A s \in S : s <= Max(S)
  BY <1>5
<1>. QED BY <1>4, <1>5, <1>6

\* The least and the greatest of the numbers that the members of a finite set have.
LEMMA ImageExtremes ==
    ASSUME NEW D, IsFiniteSet(D), D # {}, NEW f \in [D -> Int], NEW S, S = {f[d] : d \in D}
    PROVE  /\ Min(S) \in Int /\ Max(S) \in Int
           /\ \A d \in D : Min(S) <= f[d] /\ f[d] <= Max(S)
<1>1. f \in Surjection(D, S)
  BY DEF Surjection
<1>2. IsFiniteSet(S)
  BY <1>1, FS_Surjection
<1>3. S \subseteq Int /\ S # {} /\ \A d \in D : f[d] \in S
  OBVIOUS
<1>. QED BY <1>2, <1>3, Extremes

-----------------------------------------------------------------------------
\* Text: its font has a size, so that the numbers of its rows and columns and
\* the places of its characters are known.
Sized(g) == g.guest.fwidth > 0 /\ g.guest.fheight > 0

\* The sizes of the text.
LEMMA GuestType ==
    ASSUME NEW g, GuiOK(g)
    PROVE  /\ g.guest.xres \in Int /\ g.guest.yres \in Int
           /\ g.guest.fwidth \in Nat /\ g.guest.fheight \in Nat
BY GuiParts

\* How far the text is panned, and the row that the split of the screen cuts.
LEMMA PanningType ==
    ASSUME NEW v \in VGA
    PROVE  /\ Panning(v).h_panning \in Int /\ Panning(v).v_panning \in 0..31
           /\ v.line_compare \in Int
<1>1. v.attribute_ctrl.horiz_pel_panning \in 0..15
  <2>1. v.attribute_ctrl \in ATTRIBUTE_CTRL
    BY VgaFields
  <2>. QED BY <2>1 DEF ATTRIBUTE_CTRL
<1>2. v.CRTC.reg[8] \in 0..255
  BY RegsType, RegRange
<1>3. v.line_compare \in Int
  <2>1. v.line_compare \in Lines
    BY VgaFields
  <2>. QED BY <2>1 DEF Lines
<1>4. PICK h \in 0..15 : h = v.attribute_ctrl.horiz_pel_panning
  BY <1>1
<1>5. Panning(v).h_panning = IF Bit(v.sequencer.reg1, 0) THEN h % 8
                             ELSE IF h >= 8 THEN 0 ELSE h + 1
  BY <1>4 DEF Panning
<1>6. Panning(v).v_panning = v.CRTC.reg[8] % 32
  BY DEF Panning
<1>. QED BY <1>2, <1>3, <1>4, <1>5, <1>6
LEMMA SplitType ==
    ASSUME NEW v \in VGA, NEW g, GuiOK(g), Sized(g)
    PROVE  SplitRow(v, g) \in Int
<1>. DEFINE lc == v.line_compare
            vp == Panning(v).v_panning
            fh == g.guest.fheight
<1>1. lc \in Int /\ vp \in Int /\ fh \in Int /\ fh > 0
  BY PanningType, GuestType DEF Sized
<1>2. SplitRow(v, g) = IF lc < 1023 THEN ((lc + vp) \div fh) % 256 ELSE 255
  BY DEF SplitRow
<1>. HIDE DEF lc, vp, fh
<1>3. (lc + vp) \div fh \in Int
  BY <1>1
<1>. QED BY <1>2, <1>3

\* How many rows and columns there are.
LEMMA RowsType ==
    ASSUME NEW v \in VGA, NEW g, GuiOK(g), Sized(g)
    PROVE  TextRows(v, g) \in Int
<1>. DEFINE lc == v.line_compare
            k == Number(Panning(v).v_panning > 0)
            fh == g.guest.fheight
            yres == g.guest.yres
            split == SplitRow(v, g)
<1>1. lc \in Int /\ k \in Int /\ fh \in Int /\ fh > 0 /\ yres \in Int /\ split \in Int
  <2>1. k \in {0, 1}
    BY BitTypes, Zenon
  <2>. QED BY <2>1, PanningType, GuestType, SplitType DEF Sized
<1>2. WholeRows(v, g) = yres \div fh + k
  BY DEF WholeRows
<1>3. TextRows(v, g) = IF split < WholeRows(v, g)
                       THEN split + 1 + (yres - lc + fh - 2) \div fh ELSE WholeRows(v, g)
  BY DEF TextRows
<1>. HIDE DEF lc, k, fh, yres, split
<1>4. yres \div fh \in Int /\ (yres - lc + fh - 2) \div fh \in Int
  BY <1>1
<1>. QED BY <1>1, <1>2, <1>3, <1>4
LEMMA ColsType ==
    ASSUME NEW v \in VGA, NEW g, GuiOK(g), Sized(g), NEW y
    PROVE  RowPanning(v, g, y) \in Int /\ TextCols(v, g, y) \in Int
<1>. DEFINE pan == RowPanning(v, g, y)
            k == Number(pan > 0)
            fw == g.guest.fwidth
            xres == g.guest.xres
<1>1. pan \in Int
  BY PanningType DEF RowPanning
<1>2. k \in {0, 1}
  BY BitTypes, Zenon
<1>3. fw \in Int /\ fw > 0 /\ xres \in Int
  BY GuestType DEF Sized
<1>4. TextCols(v, g, y) = xres \div fw + k
  BY DEF TextCols
<1>. HIDE DEF k, fw, xres
<1>5. xres \div fw \in Int
  BY <1>3
<1>. QED BY <1>1, <1>2, <1>4, <1>5

\* Where a row begins, and how high it is.
LEMMA RowType ==
    ASSUME NEW v \in VGA, NEW g, GuiOK(g), Sized(g), NEW y \in Int
    PROVE  RowTop(v, g, y) \in Int /\ RowHeight(v, g, y) \in Int
<1>. DEFINE fh == g.guest.fheight
            yres == g.guest.yres
            vp == Panning(v).v_panning
            lc == v.line_compare
            split == SplitRow(v, g)
            above(n) == IF n = 0 THEN 0 ELSE ((fh - vp) % 256) + (n - 1) * fh
            cut == IF split = 0 THEN lc + 1 ELSE ((lc + vp) % fh) + 1
            last == y = TextRows(v, g) - 1
            rest == (yres - lc - 1) % fh
<1>1. fh \in Int /\ fh > 0 /\ yres \in Int /\ vp \in Int /\ lc \in Int /\ split \in Int
  BY PanningType, GuestType, SplitType DEF Sized
<1>2. \A z : RowTop(v, g, z) = IF z <= split THEN above(z)
                               ELSE above(split) + cut + (z - split - 1) * fh
  BY DEF RowTop
<1>3. RowHeight(v, g, y) =
          CASE y = split -> RowTop(v, g, y + 1) - RowTop(v, g, y)
            [] y > split -> IF last /\ rest > 0 THEN rest ELSE fh
            [] y < split /\ vp > 0 /\ y = 0 -> (fh - vp) % 256
            [] y < split /\ vp > 0 /\ y > 0 /\ last -> vp
            [] OTHER -> fh
  BY DEF RowHeight
<1>. HIDE DEF fh, yres, vp, lc, split, last
<1>4. \A n \in Int : above(n) \in Int
  <2>1. (fh - vp) % 256 \in Int
    BY <1>1
  <2>. QED BY <1>1, <2>1
<1>5. cut \in Int /\ rest \in Int /\ (fh - vp) % 256 \in Int
  BY <1>1
<1>. HIDE DEF above, cut, rest
<1>6. \A z \in Int : RowTop(v, g, z) \in Int
  <2>1. \A z \in Int : (z - split - 1) * fh \in Int
    BY <1>1
  <2>. QED BY <1>1, <1>2, <1>4, <1>5, <2>1
<1>7. RowTop(v, g, y) \in Int /\ RowTop(v, g, y + 1) \in Int
  BY <1>6
<1>8. RowTop(v, g, y + 1) - RowTop(v, g, y) \in Int
  BY <1>7
<1>9. RowHeight(v, g, y) \in Int
  <2>1. CASE y = split
    BY <1>3, <1>8, <2>1
  <2>2. CASE y # split
    <3>1. RowHeight(v, g, y) \in {rest, fh, (fh - vp) % 256, vp}
      BY <1>1, <1>3, <2>2
    <3>. QED BY <1>1, <1>5, <3>1
  <2>. QED BY <2>1, <2>2
<1>. QED BY <1>7, <1>9

\* The place of a character on the screen.
LEMMA PlaceType ==
    ASSUME NEW v \in VGA, NEW g, GuiOK(g), Sized(g), NEW c \in Int \X Int
    PROVE  LET p == Place(v, g, c)
           IN  p.x \in Int /\ p.width \in Int /\ p.y \in Int /\ p.height \in Int
<1>. DEFINE fw == g.guest.fwidth
            pan == RowPanning(v, g, c[2])
            last == c[1] = TextCols(v, g, c[2]) - 1
            x == IF c[1] = 0 THEN 0 ELSE c[1] * fw - pan
            width == CASE c[1] = 0 -> fw - pan [] c[1] > 0 /\ pan > 0 /\ last -> pan
                       [] OTHER -> fw
<1>1. fw \in Int /\ pan \in Int /\ c[1] \in Int /\ c[2] \in Int
  BY GuestType, ColsType
<1>2. /\ Place(v, g, c).x = x /\ Place(v, g, c).width = width
      /\ Place(v, g, c).y = RowTop(v, g, c[2]) /\ Place(v, g, c).height = RowHeight(v, g, c[2])
  BY DEF Place
<1>. HIDE DEF fw, pan, last
<1>3. x \in Int
  BY <1>1
<1>4. width \in Int
  <2>1. CASE c[1] = 0
    BY <1>1, <2>1
  <2>2. CASE c[1] # 0
    <3>1. width \in {pan, fw}
      BY <1>1, <2>2
    <3>. QED BY <1>1, <3>1
  <2>. QED BY <2>1, <2>2
<1>. HIDE DEF x, width
<1>. QED BY <1>1, <1>2, <1>3, <1>4, RowType

\* There are finitely many characters.
LEMMA CharactersFinite ==
    ASSUME NEW v \in VGA, NEW g, GuiOK(g), Sized(g)
    PROVE  IsFiniteSet(Characters(v, g)) /\ Characters(v, g) \subseteq Int \X Int
<1>. DEFINE R == 0..(TextRows(v, g) - 1)
            row == [y \in R |-> (0..(TextCols(v, g, y) - 1)) \X {y}]
            rows == {(0..(TextCols(v, g, y) - 1)) \X {y} : y \in R}
<1>1. IsFiniteSet(R) /\ R \subseteq Int
  <2>1. TextRows(v, g) - 1 \in Int
    BY RowsType
  <2>. QED BY <2>1, FS_Interval
<1>2. Characters(v, g) = UNION rows
  BY DEF Characters
<1>. HIDE DEF R
<1>3. row \in Surjection(R, rows)
  BY DEF Surjection
<1>4. IsFiniteSet(rows)
  <2>. HIDE DEF row, rows
  <2>. QED BY <1>1, <1>3, FS_Surjection
<1>5. ASSUME NEW y \in R
      PROVE  /\ IsFiniteSet((0..(TextCols(v, g, y) - 1)) \X {y})
             /\ (0..(TextCols(v, g, y) - 1)) \X {y} \subseteq Int \X Int
  <2>1. TextCols(v, g, y) - 1 \in Int
    BY ColsType
  <2>2. IsFiniteSet(0..(TextCols(v, g, y) - 1)) /\ 0..(TextCols(v, g, y) - 1) \subseteq Int
    BY <2>1, FS_Interval
  <2>3. IsFiniteSet({y})
    BY FS_Singleton
  <2>4. y \in Int
    BY <1>1
  <2>. QED BY <2>2, <2>3, <2>4, FS_Product
<1>6. \A T \in rows : IsFiniteSet(T) /\ T \subseteq Int \X Int
  BY <1>5
<1>. HIDE DEF rows
<1>. QED BY <1>2, <1>4, <1>6, FS_UNION

\* The characters that are drawn are in the rectangle around them.
LEMMA DrawCharactersOK ==
    ASSUME NEW v \in VGA, NEW g, GuiOK(g), Sized(g),
           NEW drawn, IsFiniteSet(drawn), drawn \subseteq Int \X Int, NEW cursor
    PROVE  LET h == DrawCharacters(v, g, drawn, cursor)
           IN  GuiOK(h) /\ SameCopy(g, h)
<1>. DEFINE over(q) == CharactersAt(v, g, q) \cap drawn
            ink == [q \in {p \in Pixels : over(p) # {}} |->
                       LET c == CHOOSE x \in over(q) : TRUE
                       IN  draw_char(v, g, c, q, TextAddress(v, g, c) % PLANE = cursor)]
            places == {Place(v, g, c) : c \in drawn}
            X1 == {p.x : p \in places}
            Y1 == {p.y : p \in places}
            X2 == {p.x + p.width - 1 : p \in places}
            Y2 == {p.y + p.height - 1 : p \in places}
            h == DrawCharacters(v, g, drawn, cursor)
<1>1. h = IF ~UIinited(g) \/ drawn = {} THEN g
          ELSE updateUpdated(Blit(g, ink), Min(X1), Min(Y1), Max(X2), Max(Y2))
  BY DEF DrawCharacters
<1>2. CASE ~UIinited(g) \/ drawn = {}
  BY <1>1, <1>2 DEF SameCopy
<1>3. CASE UIinited(g) /\ drawn # {}
  <2>1. g.thread # "window"
    BY <1>3 DEF UIinited
  <2>2. ASSUME NEW c \in drawn
        PROVE  /\ Place(v, g, c).x \in Int /\ Place(v, g, c).width \in Int
               /\ Place(v, g, c).y \in Int /\ Place(v, g, c).height \in Int
    <3>1. c \in Int \X Int
      BY <2>2
    <3>. QED BY <3>1, PlaceType
  <2>. DEFINE fx1 == [c \in drawn |-> Place(v, g, c).x]
              fy1 == [c \in drawn |-> Place(v, g, c).y]
              fx2 == [c \in drawn |-> Place(v, g, c).x + Place(v, g, c).width - 1]
              fy2 == [c \in drawn |-> Place(v, g, c).y + Place(v, g, c).height - 1]
  <2>3. /\ fx1 \in [drawn -> Int] /\ fy1 \in [drawn -> Int]
        /\ fx2 \in [drawn -> Int] /\ fy2 \in [drawn -> Int]
    BY <2>2
  <2>4. /\ X1 = {fx1[c] : c \in drawn} /\ Y1 = {fy1[c] : c \in drawn}
        /\ X2 = {fx2[c] : c \in drawn} /\ Y2 = {fy2[c] : c \in drawn}
    <3>1. X1 = {Place(v, g, c).x : c \in drawn} /\ Y1 = {Place(v, g, c).y : c \in drawn}
      OBVIOUS
    <3>2. /\ X2 = {Place(v, g, c).x + Place(v, g, c).width - 1 : c \in drawn}
          /\ Y2 = {Place(v, g, c).y + Place(v, g, c).height - 1 : c \in drawn}
      OBVIOUS
    <3>. QED BY <3>1, <3>2
  <2>5. \A c \in drawn : /\ fx1[c] = Place(v, g, c).x /\ fy1[c] = Place(v, g, c).y
                         /\ fx2[c] = Place(v, g, c).x + Place(v, g, c).width - 1
                         /\ fy2[c] = Place(v, g, c).y + Place(v, g, c).height - 1
    OBVIOUS
  <2>6. ASSUME NEW q \in DOMAIN ink \cap Pixels
        PROVE  \E c \in drawn : InPlace(Place(v, g, c), q)
    <3>1. PICK c \in drawn : c \in CharactersAt(v, g, q)
      OBVIOUS
    <3>. QED BY <3>1 DEF CharactersAt
  <2>. HIDE DEF over, ink, places, X1, Y1, X2, Y2, fx1, fx2, fy1, fy2
  <2>7. /\ Min(X1) \in Int /\ Max(X2) \in Int
        /\ \A c \in drawn : Min(X1) <= fx1[c] /\ fx2[c] <= Max(X2)
    BY <1>3, <2>3, <2>4, ImageExtremes
  <2>8. /\ Min(Y1) \in Int /\ Max(Y2) \in Int
        /\ \A c \in drawn : Min(Y1) <= fy1[c] /\ fy2[c] <= Max(Y2)
    BY <1>3, <2>3, <2>4, ImageExtremes
  <2>9. ASSUME NEW q \in DOMAIN ink \cap Pixels
        PROVE  Holds(<<Min(X1), Min(Y1), Max(X2), Max(Y2)>>, q)
    <3>1. PICK c \in drawn : InPlace(Place(v, g, c), q)
      BY <2>6
    <3>2. PICK p : p = Place(v, g, c)
      OBVIOUS
    <3>3. p.x \in Int /\ p.width \in Int /\ p.y \in Int /\ p.height \in Int
      BY <2>2, <3>2
    <3>4. q[1] \in Nat /\ q[2] \in Nat
      BY PixelType
    <3>5. /\ p.x <= q[1] /\ q[1] <= p.x + p.width - 1
          /\ p.y <= q[2] /\ q[2] <= p.y + p.height - 1
      BY <3>1, <3>2, <3>3, <3>4 DEF InPlace
    <3>6. /\ Min(X1) <= p.x /\ p.x + p.width - 1 <= Max(X2)
          /\ Min(Y1) <= p.y /\ p.y + p.height - 1 <= Max(Y2)
      BY <2>5, <2>7, <2>8, <3>2
    <3>. QED BY <2>7, <2>8, <3>3, <3>4, <3>5, <3>6 DEF Holds
  <2>10. h = updateUpdated(Blit(g, ink), Min(X1), Min(Y1), Max(X2), Max(Y2))
    BY <1>1, <1>3
  <2>. HIDE DEF h
  <2>11. LET i == updateUpdated(Blit(g, ink), Min(X1), Min(Y1), Max(X2), Max(Y2))
         IN  GuiOK(i) /\ SameCopy(g, i)
    BY <2>1, <2>7, <2>8, <2>9, DrawnOK
  <2>. QED BY <2>10, <2>11 DEF h
<1>. QED BY <1>2, <1>3

\* The drawing of the characters.
LEMMA TextCommonOK ==
    ASSUME NEW v \in VGA, NEW g, GuiOK(g), Sized(g), NEW rows, NEW toggle
    PROVE  UpdateOK(v, g, text_update_common(v, g, rows, toggle))
<1>. DEFINE address == CursorAddress(v, rows)
            snapshot == AtCursor(v, v.text_snapshot, address)
            fonts == IF g.charmap_updated THEN set_font(g) ELSE g
            force == \/ v.attribute_ctrl.blink_intensity /\ toggle
                     \/ g.charmap_updated
                     \/ g.tm_info # Panning(v)
            changed(c) ==
                \/ force
                \/ c[2] > SplitRow(v, g)
                \/ SnapPair(snapshot, TextAddress(v, g, c)) #
                       SnapPair(v.memory, TextAddress(v, g, c))
            due == {c \in Characters(v, g) : changed(c)}
            panned == [fonts EXCEPT !.tm_info = Panning(v)]
            cursor == IF CursorVisible(v, g) THEN address ELSE 65535
            h == DrawCharacters(v, panned, due, cursor)
            w == [v EXCEPT !.text_snapshot = snapshot]
<1>1. GuiOK(fonts) /\ SameCopy(g, fonts) /\ fonts.guest = g.guest
  BY SetFontOK DEF SameCopy
<1>2. snapshot \in SUBSET CELL
  BY CursorSnapshot
<1>3. text_update_common(v, g, rows, toggle) = [vga |-> w, gui |-> h]
  BY DEF text_update_common
<1>4. IsFiniteSet(due) /\ due \subseteq Int \X Int
  <2>1. due \subseteq Characters(v, g)
    OBVIOUS
  <2>. HIDE DEF due
  <2>. QED BY <2>1, CharactersFinite, FS_Subset
<1>. HIDE DEF snapshot, fonts, due, cursor
<1>5. GuiOK(panned) /\ SameCopy(fonts, panned) /\ panned.guest = fonts.guest
  BY <1>1, PanningOK
<1>6. Sized(panned)
  BY <1>1, <1>5 DEF Sized
<1>. HIDE DEF panned
<1>7. GuiOK(h) /\ SameCopy(panned, h)
  BY <1>4, <1>5, <1>6, DrawCharactersOK
<1>8. Plain(v, w)
  BY <1>2, PlainDrawn
<1>. HIDE DEF h, w
<1>. QED BY <1>1, <1>3, <1>5, <1>7, <1>8 DEF UpdateOK, SameCopy

\* Taking the snapshot of the text.
LEMMA SnapshotOK ==
    ASSUME NEW v \in VGA, NEW g, NEW m, UpdateOK(v, g, m), NEW u \in VGA, NEW rows
    PROVE  UpdateOK(v, g, Snapshot(m, u, rows))
<1>. DEFINE end == u.line_offset * rows + TextStart(u)
            s == {p \in m.vga.text_snapshot : p[1] >= end} \cup {p \in u.memory : p[1] < end}
            drawn == [m.vga EXCEPT !.vga_mem_updated = FALSE, !.text_snapshot = s]
            h == [m EXCEPT !.vga = drawn]
<1>1. m.vga \in VGA /\ DOMAIN m = {"vga", "gui"}
  BY DEF UpdateOK, Plain
<1>2. s \in SUBSET CELL
  <2>1. m.vga.text_snapshot \in SUBSET CELL /\ u.memory \in SUBSET CELL
    BY <1>1, VgaFields
  <2>. QED BY <2>1
<1>3. Snapshot(m, u, rows) = IF ~u.vga_mem_updated THEN m ELSE h
  BY <1>1, VgaDomain DEF Snapshot
<1>. HIDE DEF end, s
<1>4. Plain(m.vga, drawn)
  <2>1. PICK w \in VGA : w = [m.vga EXCEPT !.vga_mem_updated = FALSE] /\ Plain(m.vga, w)
    <3>1. Plain(m.vga, [m.vga EXCEPT !.vga_mem_updated = FALSE])
      BY <1>1, PlainParts
    <3>. QED BY <3>1 DEF Plain
  <2>2. Plain(w, [w EXCEPT !.text_snapshot = s])
    BY <1>2, PlainDrawn
  <2>3. drawn = [w EXCEPT !.text_snapshot = s]
    BY <2>1
  <2>. HIDE DEF drawn
  <2>. QED BY <2>1, <2>2, <2>3, PlainTrans
<1>. HIDE DEF drawn
<1>5. Plain(v, drawn)
  BY <1>4, PlainTrans DEF UpdateOK
<1>6. h.vga = drawn /\ h.gui = m.gui /\ DOMAIN h = {"vga", "gui"}
  BY <1>1
<1>. HIDE DEF h
<1>. QED BY <1>3, <1>5, <1>6 DEF UpdateOK

\* An update of the screen in text, one that comes to an end.
LEMMA TextUpdateOK ==
    ASSUME NEW v \in VGA, NEW g, GuiOK(g), NEW toggle,
           \/ ((v.vertical_display_end + 1) \div CharHeight(v)) * v.line_offset > 131072
           \/ VgaCoreSkipUpdate(v)
           \/ Sized(TextResized(v, g).gui)
    PROVE  UpdateOK(v, g, TextUpdate(v, g, toggle))
<1>. DEFINE rows == (v.vertical_display_end + 1) \div CharHeight(v)
            sized == TextResized(v, g)
            c == Cleared(sized.vga, sized.gui)
            m == text_update_common(c.vga, c.gui, rows, toggle)
            same == [vga |-> v, gui |-> g]
            huge == rows * v.line_offset > 131072
<1>0. huge \/ VgaCoreSkipUpdate(v) \/ Sized(sized.gui)
  OBVIOUS
<1>. HIDE DEF rows, sized, c, m, same, huge
<1>1. TextUpdate(v, g, toggle) =
          IF huge THEN same ELSE IF VgaCoreSkipUpdate(v) THEN c ELSE Snapshot(m, v, rows)
  BY SMT DEF TextUpdate, rows, sized, c, m, same, huge
<1>2. UpdateOK(v, g, same)
  BY DEF UpdateOK, Plain, SameCopy, same
<1>3. UpdateOK(v, g, sized)
  BY ResizedOK DEF sized
<1>4. Plain(v, sized.vga) /\ sized.vga \in VGA /\ GuiOK(sized.gui) /\ SameCopy(g, sized.gui)
  BY <1>3 DEF UpdateOK, Plain
<1>5. UpdateOK(v, g, c)
  <2>1. UpdateOK(sized.vga, sized.gui, c)
    BY <1>4, ClearedOK DEF c
  <2>. QED BY <1>4, <2>1, UpdateTrans
<1>6. Plain(v, c.vga) /\ c.vga \in VGA /\ GuiOK(c.gui) /\ SameCopy(g, c.gui)
  BY <1>5 DEF UpdateOK, Plain
<1>7. Sized(sized.gui) => Sized(c.gui)
  <2>1. c.gui.guest = sized.gui.guest
    BY <1>4, ClearOK DEF c, Cleared
  <2>. QED BY <2>1 DEF Sized
<1>8. Sized(sized.gui) => UpdateOK(v, g, Snapshot(m, v, rows))
  <2>. SUFFICES ASSUME Sized(sized.gui) PROVE UpdateOK(v, g, Snapshot(m, v, rows))
    OBVIOUS
  <2>1. UpdateOK(c.vga, c.gui, m)
    BY <1>6, <1>7, TextCommonOK DEF m
  <2>2. UpdateOK(v, g, m)
    BY <1>6, <2>1, UpdateTrans
  <2>. QED BY <2>2, SnapshotOK
<1>. DEFINE shown == TextUpdate(v, g, toggle)
<1>. HIDE DEF shown
<1>9. CASE huge
  <2>1. shown = same
    BY <1>1, <1>9 DEF shown
  <2>. QED BY <1>2, <2>1 DEF shown
<1>10. CASE ~huge /\ VgaCoreSkipUpdate(v)
  <2>1. shown = c
    BY <1>1, <1>10 DEF shown
  <2>. QED BY <1>5, <2>1 DEF shown
<1>11. CASE ~huge /\ ~VgaCoreSkipUpdate(v)
  <2>1. shown = Snapshot(m, v, rows)
    BY <1>1, <1>11 DEF shown
  <2>2. UpdateOK(v, g, Snapshot(m, v, rows))
    BY <1>0, <1>8, <1>11
  <2>. QED BY <2>1, <2>2 DEF shown
<1>. QED BY <1>9, <1>10, <1>11

\* That the cursor blinks has nothing to do with the size of the text.
LEMMA SameSize ==
    ASSUME NEW v \in VGA, NEW b \in BOOLEAN, NEW g
    PROVE  LET w == [v EXCEPT !.cs_visible = b]
           IN  /\ VgaCoreSkipUpdate(w) = VgaCoreSkipUpdate(v) /\ IsGraphics(w) = IsGraphics(v)
               /\ CharHeight(w) = CharHeight(v) /\ w.line_offset = v.line_offset
               /\ w.vertical_display_end = v.vertical_display_end
               /\ TextResized(w, g).gui = TextResized(v, g).gui
<1>. DEFINE w == [v EXCEPT !.cs_visible = b]
<1>1. /\ w.CRTC = v.CRTC /\ w.sequencer = v.sequencer /\ w.attribute_ctrl = v.attribute_ctrl
      /\ w.graphics_ctrl = v.graphics_ctrl /\ w.vga_enabled = v.vga_enabled
      /\ w.x_dotclockdiv2 = v.x_dotclockdiv2 /\ w.line_offset = v.line_offset
      /\ w.vertical_display_end = v.vertical_display_end
      /\ w.last_xres = v.last_xres /\ w.last_yres = v.last_yres
      /\ w.last_fw = v.last_fw /\ w.last_fh = v.last_fh
  BY VgaDomain
<1>. HIDE DEF w
<1>2. CharHeight(w) = CharHeight(v)
  BY <1>1, Zenon DEF CharHeight
<1>3. CharWidth(w) = CharWidth(v)
  BY <1>1 DEF CharWidth
<1>4. Columns(w) = Columns(v)
  BY <1>1 DEF Columns
<1>5. VgaCoreSkipUpdate(w) = VgaCoreSkipUpdate(v)
  BY <1>1 DEF VgaCoreSkipUpdate
<1>6. IsGraphics(w) = IsGraphics(v)
  BY <1>1 DEF IsGraphics
<1>7. ASSUME NEW u
      PROVE  TextResized(u, g).gui =
                 IF <<u.last_xres, u.last_yres, u.last_fw, u.last_fh>> =
                        <<CharWidth(u) * Columns(u), u.vertical_display_end + 1,
                          CharWidth(u), CharHeight(u)>>
                 THEN g
                 ELSE dimension_update(g, CharWidth(u) * Columns(u), u.vertical_display_end + 1,
                                       CharHeight(u), CharWidth(u))
  BY DEF TextResized
<1>8. TextResized(w, g).gui = TextResized(v, g).gui
  BY <1>1, <1>2, <1>3, <1>4, <1>7
<1>. QED BY <1>1, <1>2, <1>5, <1>6, <1>8 DEF w

\* The timer.
LEMMA TimerOK ==
    ASSUME NEW v \in VGA, NEW g, GuiOK(g), ~Endless(v, g)
    PROVE  UpdateOK(v, g, VgaCoreTimerHandler(v, g))
<1>. DEFINE toggle == ~IsGraphics(v) \/ v.attribute_ctrl.blink_intensity
            visible == toggle /\ ~v.cs_visible
            w == [v EXCEPT !.cs_visible = visible]
            same == [vga |-> v, gui |-> g]
            m == VgaCoreUpdate(v, g)
            rows == (v.vertical_display_end + 1) \div CharHeight(v)
<1>. HIDE DEF toggle, visible, w, same, m, rows
<1>1. m = IF ~toggle /\ ~v.vga_mem_updated THEN same
          ELSE IF IsGraphics(v) THEN GraphicsUpdate(w, g, toggle)
          ELSE TextUpdate(w, g, toggle)
  BY VgaDomain DEF VgaCoreUpdate, toggle, visible, w, same, m
<1>2. UpdateOK(v, g, same)
  BY DEF UpdateOK, Plain, SameCopy, same
<1>3. PICK b \in BOOLEAN : b = visible
  BY DEF visible
<1>4. w = [v EXCEPT !.cs_visible = b]
  BY <1>3 DEF w
<1>5. Plain(v, w)
  BY <1>4, PlainParts
<1>6. w \in VGA /\ SameCopy(g, g)
  BY <1>5 DEF Plain, SameCopy
<1>7. UpdateOK(v, g, GraphicsUpdate(w, g, toggle))
  <2>1. UpdateOK(w, g, GraphicsUpdate(w, g, toggle))
    BY <1>6, GraphicsUpdateOK
  <2>. QED BY <1>5, <1>6, <2>1, UpdateTrans
<1>8. ~IsGraphics(v) => UpdateOK(v, g, TextUpdate(w, g, toggle))
  <2>. SUFFICES ASSUME ~IsGraphics(v) PROVE UpdateOK(v, g, TextUpdate(w, g, toggle))
    OBVIOUS
  <2>1. /\ VgaCoreSkipUpdate(w) = VgaCoreSkipUpdate(v)
        /\ CharHeight(w) = CharHeight(v) /\ w.line_offset = v.line_offset
        /\ w.vertical_display_end = v.vertical_display_end
        /\ TextResized(w, g).gui = TextResized(v, g).gui
    BY <1>4, SameSize
  <2>2. \/ ~(rows * v.line_offset <= 131072) \/ VgaCoreSkipUpdate(v)
        \/ /\ TextResized(v, g).gui.guest.fwidth \in 1..TextResized(v, g).gui.guest.xres
           /\ TextResized(v, g).gui.guest.fheight > 0
    BY DEF Endless, rows
  <2>3. rows \in Int /\ v.line_offset \in Int
    <3>1. CharHeight(v) \in Nat \ {0} /\ v.vertical_display_end \in Lines
      BY TextSizes, VgaFields
    <3>2. v.line_offset \in LineOffsets
      BY VgaFields
    <3>3. v.vertical_display_end \in Int
      BY <3>1 DEF Lines
    <3>4. PICK height \in Nat \ {0} : height = CharHeight(v)
      BY <3>1
    <3>5. (v.vertical_display_end + 1) \div height \in Int
      BY <3>3, <3>4
    <3>6. v.line_offset \in Int
      <4>1. PICK o \in LineOffsets : o = v.line_offset
        BY <3>2
      <4>2. o \in Int
        BY SMT DEF LineOffsets
      <4>. QED BY <4>1, <4>2
    <3>. QED BY <3>4, <3>5, <3>6 DEF rows
  <2>4. rows * v.line_offset > 131072 \/ VgaCoreSkipUpdate(v) \/ Sized(TextResized(v, g).gui)
    <3>1. CASE ~(rows * v.line_offset <= 131072)
      <4>1. rows * v.line_offset \in Int
        BY <2>3
      <4>. QED BY <3>1, <4>1
    <3>2. CASE /\ TextResized(v, g).gui.guest.fwidth \in 1..TextResized(v, g).gui.guest.xres
               /\ TextResized(v, g).gui.guest.fheight > 0
      <4>1. GuiOK(TextResized(v, g).gui)
        BY ResizedOK DEF UpdateOK
      <4>2. TextResized(v, g).gui.guest.xres \in Int
        BY <4>1, GuestType
      <4>. QED BY <3>2, <4>2 DEF Sized
    <3>. QED BY <2>2, <3>1, <3>2
  <2>5. \/ ((w.vertical_display_end + 1) \div CharHeight(w)) * w.line_offset > 131072
        \/ VgaCoreSkipUpdate(w) \/ Sized(TextResized(w, g).gui)
    BY <2>1, <2>4 DEF rows
  <2>6. UpdateOK(w, g, TextUpdate(w, g, toggle))
    BY <1>6, <2>5, TextUpdateOK
  <2>. QED BY <1>5, <1>6, <2>6, UpdateTrans
<1>9. UpdateOK(v, g, m)
  BY <1>1, <1>2, <1>7, <1>8
<1>10. GuiOK(flush(m.gui)) /\ SameCopy(m.gui, flush(m.gui))
  BY <1>9, FlushOK DEF UpdateOK
<1>11. VgaCoreTimerHandler(v, g) = [vga |-> m.vga, gui |-> flush(m.gui)]
  BY DEF VgaCoreTimerHandler, m
<1>. QED BY <1>9, <1>10, <1>11 DEF UpdateOK, SameCopy

-----------------------------------------------------------------------------
\* The VGA and the window keep the same font, and the derived values.
Follows(v, g) == ~g.bypassed => g.vga_charmap = CharMap(v)
ScreenOK(v, g) == v \in VGA /\ GuiOK(g) /\ Follows(v, g)

\* An update keeps the copies in agreement.
LEMMA UpdateFollows ==
    ASSUME NEW v, NEW g, ScreenOK(v, g), NEW m, UpdateOK(v, g, m)
    PROVE  ScreenOK(m.vga, m.gui) /\ (Derived(v) => Derived(m.vga))
<1>1. Plain(v, m.vga)
  BY DEF UpdateOK
<1>2. CharMap(m.vga) = CharMap(v)
  BY <1>1, FontKept DEF Plain
<1>3. Derived(v) => Derived(m.vga)
  BY <1>1, PlainDerived
<1>. QED BY <1>2, <1>3 DEF ScreenOK, Follows, UpdateOK, SameCopy, Plain

\* What is left to be done after a byte was written to a port.
LEMMA AppliedFollows ==
    ASSUME NEW v, NEW g, ScreenOK(v, g), NEW r, PortOK(v, r)
    PROVE  LET n == Applied(r, g, v.pel.write_data_register)
           IN  ScreenOK(n.vga, n.gui) /\ (Derived(v) => Derived(n.vga))
<1>. DEFINE u == r.vga
            e == r.effect
            entry == v.pel.write_data_register
            g1 == IF e.palette THEN palette_change(g, entry, u.pel.data[entry]) ELSE g
            g2 == IF e.clear THEN clear_screen(g1) ELSE g1
            g3 == IF e.charmap THEN set_text_charmap(g2, u) ELSE g2
            u3 == IF e.charmap THEN [u EXCEPT !.vga_mem_updated = TRUE] ELSE u
            u4 == IF e.redraw THEN vga_redraw_area(u3) ELSE u3
            n == Applied(r, g, entry)
<1>. HIDE DEF u, e, entry, g1, g2, g3, u3, u4, n
<1>1. v \in VGA /\ GuiOK(g) /\ Follows(v, g)
  BY DEF ScreenOK
<1>2. n.vga = u4 /\ n.gui = g3
  BY DEF Applied, n, u4, u3, g3, g2, g1, u, e
<1>3. /\ u \in VGA /\ e \in EFFECT /\ u.memory = v.memory
      /\ e.charmap \/ u.charmap_address = v.charmap_address
      /\ Derived(v) => Derived(u)
      /\ e.palette => entry \in 0..(DacSize - 1)
  BY DEF PortOK, entry, u, e
<1>4. GuiOK(g1) /\ SameCopy(g, g1)
  <2>1. SameCopy(g, g)
    BY DEF SameCopy
  <2>2. ASSUME e.palette
        PROVE  LET h == palette_change(g, entry, u.pel.data[entry])
               IN  GuiOK(h) /\ SameCopy(g, h)
    <3>1. entry \in 0..(DacSize - 1)
      BY <1>3, <2>2
    <3>2. u.pel.data[entry] \in RGB
      <4>1. u.pel \in PEL
        BY <1>3, VgaFields
      <4>. QED BY <3>1, <4>1 DEF PEL
    <3>. QED BY <1>1, <3>1, <3>2, PaletteOK
  <2>. QED BY <1>1, <2>1, <2>2 DEF g1
<1>5. GuiOK(g2) /\ SameCopy(g, g2)
  <2>1. GuiOK(clear_screen(g1)) /\ SameCopy(g1, clear_screen(g1))
    BY <1>4, ClearOK
  <2>. QED BY <1>4, <2>1 DEF SameCopy, g2
<1>6. Plain(u, u3)
  BY <1>3, PlainParts DEF u3
<1>7. Plain(u, u4)
  <2>1. u3 \in VGA
    BY <1>6 DEF Plain
  <2>2. Plain(u3, vga_redraw_area(u3))
    BY <2>1, RedrawPlain
  <2>3. Plain(u, vga_redraw_area(u3))
    BY <1>6, <2>2, PlainTrans
  <2>. QED BY <1>6, <2>3 DEF u4
<1>8. u4 \in VGA /\ CharMap(u4) = CharMap(u) /\ (Derived(u) => Derived(u4))
  BY <1>7, PlainDerived, FontKept DEF Plain
<1>9. ScreenOK(u4, g3)
  <2>1. CASE e.charmap
    <3>1. GuiOK(set_text_charmap(g2, u)) /\ set_text_charmap(g2, u).vga_charmap = CharMap(u)
      BY <1>3, <1>5, CharmapOK
    <3>. QED BY <1>8, <2>1, <3>1 DEF ScreenOK, Follows, g3
  <2>2. CASE ~e.charmap
    <3>1. CharMap(u) = CharMap(v)
      BY <1>3, <2>2, FontKept
    <3>2. Follows(u4, g2)
      BY <1>1, <1>5, <1>8, <3>1 DEF Follows, SameCopy
    <3>. QED BY <1>5, <1>8, <2>2, <3>2 DEF ScreenOK, g3
  <2>. QED BY <2>1, <2>2
<1>. QED BY <1>2, <1>3, <1>8, <1>9 DEF n, entry

\* A byte written to a port.
LEMMA PortWriteFollows ==
    ASSUME NEW m, ScreenOK(m.vga, m.gui), NEW port, NEW value \in 0..255
    PROVE  LET n == VgaPortIoWriteHandler(m, port, value)
           IN  ScreenOK(n.vga, n.gui) /\ (Derived(m.vga) => Derived(n.vga))
<1>. DEFINE r == VgaCorePortIoWrite(m.vga, port, value)
            a == Applied(r, m.gui, m.vga.pel.write_data_register)
            n == VgaPortIoWriteHandler(m, port, value)
<1>. HIDE DEF r, a, n
<1>1. PortOK(m.vga, r)
  BY PortWriteOK DEF ScreenOK, r
<1>2. n.vga = a.vga /\ n.gui = a.gui
  BY DEF VgaPortIoWriteHandler, n, a, r
<1>3. ScreenOK(a.vga, a.gui) /\ (Derived(m.vga) => Derived(a.vga))
  BY <1>1, AppliedFollows DEF a
<1>. QED BY <1>2, <1>3 DEF n

\* A byte written to the memory: the copy of the font follows plane 2, or the
\* write is known to have bypassed it.
LEMMA WriteFollows ==
    ASSUME NEW v, NEW g, ScreenOK(v, g), NEW address \in Nat, NEW byte \in Byte
    PROVE  LET w == _VgaCoreMMIOWriteHandler(v, address, byte)
               a == CharByte(v, address)
               new == NewValue(v.graphics_ctrl, 2, byte)
               g1 == IF a = {} THEN g
                     ELSE set_text_charbyte(g, v, CHOOSE x \in a : TRUE, new)
           IN  /\ ScreenOK(w, [g1 EXCEPT !.bypassed = @ \/ Bypasses(v, address)])
               /\ Derived(v) => Derived(w)
<1>. DEFINE w == _VgaCoreMMIOWriteHandler(v, address, byte)
            a == CharByte(v, address)
            one == CHOOSE x \in a : TRUE
            new == NewValue(v.graphics_ctrl, 2, byte)
            g1 == IF a = {} THEN g ELSE set_text_charbyte(g, v, one, new)
            by == Bypasses(v, address)
            h == [g1 EXCEPT !.bypassed = @ \/ by]
<1>. HIDE DEF w, a, one, new, g1, by, h
<1>1. v \in VGA /\ GuiOK(g) /\ Follows(v, g)
  BY DEF ScreenOK
<1>2. w \in VGA /\ (Derived(v) => Derived(w))
  BY <1>1, WriteSteady, SteadyDerived DEF Steady, w
<1>3. new \in SUBSET Bits
  <2>1. v.graphics_ctrl \in GRAPHICS_CTRL /\ 2 \in Planes
    BY <1>1, VgaFields DEF Planes
  <2>. QED BY <2>1, NewValueType DEF new
<1>4. a # {} => one \in 0..(FONT - 1)
  <2>. SUFFICES ASSUME a # {} PROVE one \in 0..(FONT - 1)
    OBVIOUS
  <2>1. PICK o \in 0..(FONT - 1) : a = {o}
    BY <1>1, CharByteOne DEF a
  <2>. QED BY <2>1 DEF one
<1>5. /\ GuiOK(g1) /\ g1.bypassed = g.bypassed
      /\ g1.vga_charmap = IF a = {} THEN g.vga_charmap
                          ELSE {p \in g.vga_charmap : p[1] # one} \cup ({one} \X new)
  <2>1. CASE a = {}
    BY <1>1, <2>1 DEF g1
  <2>2. CASE a # {}
    <3>1. g1 = set_text_charbyte(g, v, one, new)
      BY <2>2 DEF g1
    <3>2. one \in 0..(FONT - 1)
      BY <1>4, <2>2
    <3>3. LET h1 == set_text_charbyte(g, v, one, new)
          IN  /\ GuiOK(h1) /\ h1.bypassed = g.bypassed
              /\ h1.vga_charmap = {p \in g.vga_charmap : p[1] # one} \cup ({one} \X new)
      BY <1>1, <1>3, <3>2, CharbyteOK
    <3>. QED BY <2>2, <3>1, <3>3, Zenon
  <2>. QED BY <2>1, <2>2
<1>6. ~by => CharMap(w) = IF a = {} THEN CharMap(v)
                          ELSE {p \in CharMap(v) : p[1] # one} \cup ({one} \X new)
  BY <1>1, WriteFont DEF w, a, one, new, by
<1>7. PICK b \in BOOLEAN : b = (g1.bypassed \/ by)
  OBVIOUS
<1>8. h = [g1 EXCEPT !.bypassed = b]
  BY <1>7 DEF h
<1>9. GuiOK(h) /\ h.bypassed = b /\ h.vga_charmap = g1.vga_charmap
  BY <1>5, <1>7, <1>8, BypassedOK
<1>10. Follows(w, h)
  <2>. SUFFICES ASSUME ~h.bypassed PROVE h.vga_charmap = CharMap(w)
    BY DEF Follows
  <2>1. ~by /\ ~g.bypassed
    BY <1>5, <1>7, <1>9
  <2>2. g.vga_charmap = CharMap(v)
    BY <1>1, <2>1 DEF Follows
  <2>. QED BY <1>5, <1>6, <1>9, <2>1, <2>2
<1>. QED BY <1>2, <1>9, <1>10 DEF ScreenOK, w, h, g1, by, one, new, a

\* A byte read from the memory.
LEMMA MemoryReadPlain ==
    ASSUME NEW v \in VGA, NEW address
    PROVE  Plain(v, _VgaCoreMMIOReadHandler(v, address))
<1>1. Plain(v, v)
  BY PlainParts
<1>2. ASSUME NEW offset PROVE Plain(v, LoadLatch(v, offset))
  <2>. DEFINE latch == [p \in Planes |-> Peek(v, p * PLANE + offset)]
  <2>1. latch \in [Planes -> Byte]
    BY DEF Peek, Byte
  <2>. HIDE DEF latch
  <2>2. v.graphics_ctrl \in GRAPHICS_CTRL
    BY VgaFields
  <2>3. PICK g \in GRAPHICS_CTRL : g = [v.graphics_ctrl EXCEPT !.latch = latch]
    BY <2>1, <2>2, ZenonT(60) DEF GRAPHICS_CTRL
  <2>4. LoadLatch(v, offset) = [v EXCEPT !.graphics_ctrl = g]
    BY <2>3 DEF LoadLatch, latch
  <2>. QED BY <2>4, PlainParts
<1>. QED BY <1>1, <1>2 DEF _VgaCoreMMIOReadHandler

\* A change of the VGA that leaves memory, font and CRT controller alone.
LEMMA PlainFollows ==
    ASSUME NEW v, NEW g, ScreenOK(v, g), NEW w, Plain(v, w)
    PROVE  ScreenOK(w, g) /\ (Derived(v) => Derived(w))
<1>1. CharMap(w) = CharMap(v)
  BY FontKept DEF Plain
<1>2. Derived(v) => Derived(w)
  BY PlainDerived
<1>. QED BY <1>1, <1>2 DEF ScreenOK, Follows, Plain

\* A change of the window that leaves the copy of the font alone.
LEMMA CopyFollows ==
    ASSUME NEW v, NEW g, ScreenOK(v, g), NEW h, GuiOK(h), SameCopy(g, h)
    PROVE  ScreenOK(v, h)
BY DEF ScreenOK, Follows, SameCopy

-----------------------------------------------------------------------------
\* The write of a byte as a raster operation, for any setting of the graphics
\* controller.
LEMMA RasterOpOfWrite ==
    ASSUME NEW g \in GRAPHICS_CTRL, NEW p \in Planes, NEW byte \in Byte, NEW b \in Bits
    PROVE  LET masked == b \notin g.bitmask \/ (g.write_mode = 3 /\ b \notin byte)
               keeps == g.write_mode = 1 \/ masked
           IN  (b \in NewValue(g, p, byte)) =
                   IF keeps THEN b \in g.latch[p]
                   ELSE RasterOp(g.raster_op, Source(g, p, byte, b), b \in g.latch[p])
<1>. DEFINE masked == b \notin g.bitmask \/ (g.write_mode = 3 /\ b \notin byte)
            keeps == g.write_mode = 1 \/ masked
            op == g.raster_op
            old == b \in g.latch[p]
            value == Rotate(g, byte)
            rotated == (b + g.data_rotate) % Cardinality(Bits) \in byte
            Goal == (b \in NewValue(g, p, byte)) =
                        IF keeps THEN old ELSE RasterOp(op, Source(g, p, byte, b), old)
<1>. SUFFICES Goal
  OBVIOUS
<1>1. /\ g.write_mode \in 0..3 /\ op \in 0..3
      /\ b \in value <=> rotated
  <2>1. g.write_mode \in 0..3 /\ op \in 0..3
    BY DEF GRAPHICS_CTRL
  <2>2. b \in value <=> rotated
    BY DEF Rotate
  <2>. QED BY <2>1, <2>2
<1>2. op = 0 \/ op = 1 \/ op = 2 \/ op = 3
  BY <1>1
<1>. HIDE DEF masked, keeps, old, value, rotated, op, Goal
<1>3. CASE g.write_mode = 0
  <2>1. NewValue(g, p, byte) = WriteMode0(g, p, byte)
    BY <1>3 DEF NewValue
  <2>2. Source(g, p, byte, b) =
            IF p \in g.enable_set_reset THEN p \in g.set_reset ELSE rotated
    BY <1>3 DEF Source, rotated
  <2>3. keeps = (b \notin g.bitmask)
    BY <1>3 DEF keeps, masked
  <2>. DEFINE Rule == (b \in WriteMode0(g, p, byte)) =
            IF b \notin g.bitmask THEN old
            ELSE RasterOp(op, IF p \in g.enable_set_reset THEN p \in g.set_reset ELSE rotated, old)
  <2>. HIDE DEF Rule
  <2>4. Rule
    <3>1. CASE op = 0
      <4>1. CASE p \in g.enable_set_reset
        BY <3>1, <4>1 DEF WriteMode0, RasterOp, Rule, old, op
      <4>2. CASE p \notin g.enable_set_reset
        <5>1. WriteMode0(g, p, byte) = (g.latch[p] \ g.bitmask) \cup (value \cap g.bitmask)
          BY <3>1, <4>2 DEF WriteMode0, op, value
        <5>2. RasterOp(op, IF p \in g.enable_set_reset THEN p \in g.set_reset ELSE rotated, old)
                  = (rotated)
          BY <3>1, <4>2 DEF RasterOp
        <5>. QED BY <1>1, <5>1, <5>2 DEF Rule, old, rotated
      <4>. QED BY <4>1, <4>2
    <3>2. CASE op = 1
      BY <1>1, <3>2 DEF WriteMode0, RasterOp, Rule, old, op, value
    <3>3. CASE op = 2
      BY <1>1, <3>3 DEF WriteMode0, RasterOp, Rule, old, op, value
    <3>4. CASE op = 3
      <4>1. CASE p \in g.enable_set_reset
        BY <3>4, <4>1 DEF WriteMode0, RasterOp, Rule, old, op, Xor
      <4>2. CASE p \notin g.enable_set_reset
        <5>1. WriteMode0(g, p, byte) = (g.latch[p] \ g.bitmask) \cup (Xor(value, g.latch[p]) \cap g.bitmask)
          BY <3>4, <4>2 DEF WriteMode0, op, value
        <5>2. RasterOp(op, IF p \in g.enable_set_reset THEN p \in g.set_reset ELSE rotated, old)
                  = (rotated # old)
          BY <3>4, <4>2 DEF RasterOp
        <5>. QED BY <1>1, <5>1, <5>2 DEF Rule, old, rotated, Xor
      <4>. QED BY <4>1, <4>2
    <3>. QED BY <1>2, <3>1, <3>2, <3>3, <3>4
  <2>. QED BY <2>1, <2>2, <2>3, <2>4, Zenon DEF Goal, Rule, op
<1>4. CASE g.write_mode = 1
  BY <1>4 DEF NewValue, Goal, keeps, old
<1>5. CASE g.write_mode = 2
  <2>1. NewValue(g, p, byte) = WriteMode2(g, p, byte)
    BY <1>5 DEF NewValue
  <2>2. Source(g, p, byte, b) = (p \in byte)
    BY <1>5 DEF Source
  <2>3. keeps = (b \notin g.bitmask)
    BY <1>5 DEF keeps, masked
  <2>. DEFINE Rule == (b \in WriteMode2(g, p, byte)) =
            IF b \notin g.bitmask THEN old ELSE RasterOp(op, p \in byte, old)
  <2>. HIDE DEF Rule
  <2>4. Rule
    <3>1. CASE op = 0
      BY <3>1 DEF WriteMode2, RasterOp, Rule, old, op
    <3>2. CASE op = 1
      BY <3>2 DEF WriteMode2, RasterOp, Rule, old, op
    <3>3. CASE op = 2
      BY <3>3 DEF WriteMode2, RasterOp, Rule, old, op
    <3>4. CASE op = 3
      BY <3>4 DEF WriteMode2, RasterOp, Rule, old, op
    <3>. QED BY <1>2, <3>1, <3>2, <3>3, <3>4
  <2>. QED BY <2>1, <2>2, <2>3, <2>4, Zenon DEF Goal, Rule, op
<1>6. CASE g.write_mode = 3
  <2>1. NewValue(g, p, byte) = WriteMode3(g, p, byte)
    BY <1>6 DEF NewValue
  <2>2. Source(g, p, byte, b) = (p \in g.set_reset /\ rotated)
    BY <1>6 DEF Source, rotated
  <2>3. keeps = (b \notin g.bitmask \/ b \notin byte)
    BY <1>6 DEF keeps, masked
  <2>. DEFINE Rule == (b \in WriteMode3(g, p, byte)) =
            IF b \notin g.bitmask \/ b \notin byte THEN old
            ELSE RasterOp(op, p \in g.set_reset /\ rotated, old)
  <2>. HIDE DEF Rule
  <2>4. Rule
    <3>1. CASE op = 0
      BY <1>1, <3>1 DEF WriteMode3, RasterOp, Rule, old, op, value
    <3>2. CASE op = 1
      BY <1>1, <3>2 DEF WriteMode3, RasterOp, Rule, old, op, value
    <3>3. CASE op = 2
      BY <1>1, <3>3 DEF WriteMode3, RasterOp, Rule, old, op, value
    <3>4. CASE op = 3
      BY <1>1, <3>4 DEF WriteMode3, RasterOp, Rule, old, op, value, Xor
    <3>. QED BY <1>2, <3>1, <3>2, <3>3, <3>4
  <2>. QED BY <2>1, <2>2, <2>3, <2>4, Zenon DEF Goal, Rule, op
<1>7. g.write_mode = 0 \/ g.write_mode = 1 \/ g.write_mode = 2 \/ g.write_mode = 3
  BY <1>1
<1>. QED BY <1>3, <1>4, <1>5, <1>6, <1>7

-----------------------------------------------------------------------------
(***************************************************************************)
(* The inductive invariant of the screen.                                  *)
(***************************************************************************)

ScreenInv ==
    /\ ScreenOK(vga, gui)
    /\ Derived(session.vga) => Derived(vga)
    /\ missed \in BOOLEAN
    /\ session \in Sessions

\* The window as the monitor sets it up.
LEMMA GuiInit ==
    ASSUME NEW stage \in UIThreads, NEW b \in BOOLEAN
    PROVE  LET g == [GuiInitialize EXCEPT !.thread = stage, !.bypassed = b]
           IN  GuiOK(g) /\ g.bypassed = b /\ g.vga_charmap = {}
<1>. DEFINE i == GuiInitialize
            g == [i EXCEPT !.thread = stage, !.bypassed = b]
            black == [q \in Pixels |-> Black]
            colour == [red |-> 0, green |-> 0, blue |-> 0]
            cmap == [n \in 0..(DacSize - 1) |-> colour]
            size == [xres |-> 0, yres |-> 0, fwidth |-> 0, fheight |-> 0]
<1>. HIDE DEF i, g, black, colour, cmap, size
<1>1. /\ DOMAIN i = GuiFields
      /\ i.bitmap = black /\ i.window = black /\ i.updated_area = NoArea /\ i.invalid = {}
      /\ i.cmap = cmap /\ i.vga_charmap = {} /\ i.char_changed = {}
      /\ i.charmap_updated = FALSE /\ i.vgafont = {} /\ i.dimension = <<640, 480>>
      /\ i.stretch_factor = 1 /\ i.guest = size /\ i.stretched = {}
  BY DEF GuiInitialize, GuiFields, i, black, cmap, colour, size
<1>2. /\ DOMAIN g = GuiFields
      /\ g.bitmap = black /\ g.window = black /\ g.updated_area = NoArea /\ g.invalid = {}
      /\ g.cmap = cmap /\ g.vga_charmap = {} /\ g.char_changed = {}
      /\ g.charmap_updated = FALSE /\ g.vgafont = {} /\ g.dimension = <<640, 480>>
      /\ g.stretch_factor = 1 /\ g.guest = size /\ g.stretched = {}
      /\ g.thread = stage /\ g.bypassed = b
  BY <1>1 DEF g, GuiFields
<1>3. DOMAIN black = Pixels
  BY DEF black
<1>4. cmap \in [0..(DacSize - 1) -> RGB]
  BY DEF cmap, colour, RGB
<1>5. <<640, 480>> \in (Nat \ {0}) \X (Nat \ {0})
  BY SMT
<1>6. size \in [xres: Nat, yres: Nat, fwidth: Nat, fheight: Nat]
  BY DEF size
<1>7. GuiTypeOK(g)
  <2>1. DOMAIN g.bitmap = Pixels /\ DOMAIN g.window = Pixels /\ ~(g.updated_area # NoArea)
    BY <1>2, <1>3
  <2>2. /\ g.cmap \in [0..(DacSize - 1) -> RGB] /\ g.dimension \in (Nat \ {0}) \X (Nat \ {0})
        /\ g.guest \in [xres: Nat, yres: Nat, fwidth: Nat, fheight: Nat]
    BY <1>2, <1>4, <1>5, <1>6
  <2>3. /\ g.invalid \subseteq Pixels /\ g.stretched \subseteq Pixels
        /\ g.char_changed \subseteq Glyphs
        /\ g.vga_charmap \cup g.vgafont \subseteq (0..(FONT - 1)) \X Bits
    BY <1>2
  <2>4. /\ g.charmap_updated \in BOOLEAN /\ g.thread \in UIThreads /\ g.bypassed \in BOOLEAN
        /\ g.stretch_factor \in {1, 2}
    BY <1>2
  <2>. QED BY <2>1, <2>2, <2>3, <2>4 DEF GuiTypeOK
<1>8. Covers(g)
  BY <1>2 DEF Covers
<1>9. GuiOK(g)
  BY <1>2, <1>7, <1>8 DEF GuiOK
<1>. QED BY <1>2, <1>9 DEF g, i

\* The invariant of the screen holds at first.
LEMMA ScreenInit == Init => ScreenInv
<1>. SUFFICES ASSUME Init PROVE ScreenInv
  OBVIOUS
<1>. DEFINE stage == IF session.ready THEN "messages" ELSE "window"
            b == CharMap(session.vga) # {}
<1>1. session \in Sessions /\ vga = session.vga /\ missed = FALSE
  BY DEF Init
<1>2. vga \in VGA
  BY <1>1, DisplayAssumption DEF VgaTypeOK
<1>3. stage \in UIThreads
  BY DEF UIThreads
<1>4. gui = [GuiInitialize EXCEPT !.thread = stage, !.bypassed = b]
  BY DEF Init
<1>5. b \in BOOLEAN
  OBVIOUS
<1>. HIDE DEF stage
<1>6. PICK c \in BOOLEAN : c = b
  BY <1>5
<1>. HIDE DEF b
<1>7. GuiOK(gui) /\ gui.bypassed = b /\ gui.vga_charmap = {}
  BY <1>3, <1>4, <1>6, GuiInit
<1>8. Follows(vga, gui)
  BY <1>1, <1>7 DEF Follows, b
<1>. QED BY <1>1, <1>2, <1>7, <1>8 DEF ScreenInv, ScreenOK

\* What the two halves of the invariant say of the next state's VGA and copy is
\* what they say in the next state.
LEMMA PrimedScreen ==
    ASSUME ScreenOK(vga', gui'), Derived(session.vga) => Derived(vga')
    PROVE  ScreenOK(vga, gui)' /\ (Derived(session.vga) => Derived(vga'))
  BY SMTT(60) DEF ScreenOK, GuiOK, GuiTypeOK, Covers, Pending, AreaPixels, Follows, Derived,
                  Height, CharMap, StartAddr

\* What becomes of the screen in one step of the main thread.
LEMMA BecomeKeeps ==
    ASSUME ScreenInv, NEW m, Become(m), ScreenOK(m.vga, m.gui),
           Derived(vga) => Derived(m.vga), m.missed \in BOOLEAN
    PROVE  ScreenInv'
<1>1. vga' = m.vga /\ gui' = m.gui /\ missed' = m.missed /\ session' = session
  BY DEF Become
<1>2. ScreenOK(vga', gui') /\ (Derived(session.vga) => Derived(vga'))
  BY <1>1 DEF ScreenInv
<1>3. ScreenOK(vga, gui)' /\ (Derived(session.vga) => Derived(vga'))
  BY <1>2, PrimedScreen
<1>. QED BY <1>1, <1>3 DEF ScreenInv

\* Whether something was missed is known.
LEMMA MissedType ==
    ASSUME NEW m, m.missed \in BOOLEAN, NEW port, NEW value
    PROVE  VgaPortIoWriteHandler(m, port, value).missed \in BOOLEAN
<1>. DEFINE r == VgaCorePortIoWrite(m.vga, port, value)
<1>. HIDE DEF r
<1>1. VgaPortIoWriteHandler(m, port, value).missed =
          IF r.effect.redraw THEN ~Redrawn(r.vga) ELSE m.missed \/ Silent(m.vga, r.vga)
  BY DEF VgaPortIoWriteHandler, r
<1>. QED BY <1>1

\* The state of the screen as one record.
LEMMA ScreenParts ==
    /\ Screen.vga = vga /\ Screen.gui = gui /\ Screen.missed = missed
    /\ DOMAIN Screen = {"vga", "gui", "missed"}
BY DEF Screen

\* A step of the guest.
LEMMA GuestKeeps ==
    ASSUME ScreenInv
    PROVE  /\ \A o \in session.bytes : OutByte(o[1], o[2]) => ScreenInv'
           /\ \A o \in session.words : OutWord(o[1], o[2], o[3], o[4]) => ScreenInv'
           /\ \A port \in session.reads : InByte(port) => ScreenInv'
           /\ \A address \in session.pokes, byte \in session.values :
                  VgaCoreMMIOWriteHandler(address, byte) => ScreenInv'
           /\ \A address \in session.peeks : VgaCoreMMIOReadHandler(address) => ScreenInv'
<1>1. /\ ScreenOK(vga, gui) /\ missed \in BOOLEAN /\ session \in Sessions /\ vga \in VGA
      /\ ScreenOK(Screen.vga, Screen.gui) /\ Screen.missed \in BOOLEAN
  BY ScreenParts DEF ScreenInv, ScreenOK
<1>2. ASSUME NEW o \in session.bytes, OutByte(o[1], o[2]) PROVE ScreenInv'
  <2>. DEFINE n == VgaPortIoWriteHandler(Screen, o[1], o[2])
  <2>1. o[2] \in 0..255
    BY <1>1, DisplayAssumption
  <2>. HIDE DEF n
  <2>2. ScreenOK(n.vga, n.gui) /\ (Derived(Screen.vga) => Derived(n.vga)) /\ n.missed \in BOOLEAN
    <3>1. ScreenOK(n.vga, n.gui) /\ (Derived(Screen.vga) => Derived(n.vga))
      BY <1>1, <2>1, PortWriteFollows, Zenon DEF n
    <3>2. n.missed \in BOOLEAN
      BY <1>1, <2>1, MissedType DEF n
    <3>. QED BY <3>1, <3>2
  <2>3. Become(n)
    BY <1>2 DEF OutByte, n
  <2>. QED BY <2>2, <2>3, ScreenParts, BecomeKeeps
<1>3. ASSUME NEW o \in session.words, OutWord(o[1], o[2], o[3], o[4]) PROVE ScreenInv'
  <2>. DEFINE m == VgaPortIoWriteHandler(Screen, o[1], o[3])
              n == VgaPortIoWriteHandler(m, o[2], o[4])
  <2>1. o[3] \in 0..255 /\ o[4] \in 0..255
    BY <1>1, DisplayAssumption
  <2>2. Become(n)
    BY <1>3 DEF OutWord
  <2>. HIDE DEF m, n
  <2>3. ScreenOK(m.vga, m.gui) /\ (Derived(Screen.vga) => Derived(m.vga)) /\ m.missed \in BOOLEAN
    <3>1. ScreenOK(m.vga, m.gui) /\ (Derived(Screen.vga) => Derived(m.vga))
      BY <1>1, <2>1, PortWriteFollows, Zenon DEF m
    <3>2. m.missed \in BOOLEAN
      BY <1>1, <2>1, MissedType DEF m
    <3>. QED BY <3>1, <3>2
  <2>4. ScreenOK(n.vga, n.gui) /\ (Derived(m.vga) => Derived(n.vga)) /\ n.missed \in BOOLEAN
    <3>1. ScreenOK(n.vga, n.gui) /\ (Derived(m.vga) => Derived(n.vga))
      BY <2>1, <2>3, PortWriteFollows, Zenon DEF n
    <3>2. n.missed \in BOOLEAN
      BY <2>1, <2>3, MissedType DEF n
    <3>. QED BY <3>1, <3>2
  <2>. QED BY <2>2, <2>3, <2>4, ScreenParts, BecomeKeeps
<1>4. ASSUME NEW port \in session.reads, InByte(port) PROVE ScreenInv'
  <2>. DEFINE w == VgaCorePortIoRead(vga, port)
              n == [Screen EXCEPT !.vga = w]
  <2>1. ScreenOK(w, gui) /\ (Derived(vga) => Derived(w))
    BY <1>1, PortReadPlain, PlainFollows
  <2>2. Become(n)
    BY <1>4 DEF InByte
  <2>. HIDE DEF w
  <2>3. n.vga = w /\ n.gui = gui /\ n.missed = missed
    BY ScreenParts
  <2>. HIDE DEF n
  <2>. QED BY <1>1, <2>1, <2>2, <2>3, BecomeKeeps
<1>5. ASSUME NEW address \in session.pokes, NEW byte \in session.values,
             VgaCoreMMIOWriteHandler(address, byte)
      PROVE  ScreenInv'
  <2>. DEFINE w == _VgaCoreMMIOWriteHandler(vga, address, byte)
              a == CharByte(vga, address)
              new == NewValue(vga.graphics_ctrl, 2, byte)
              g1 == IF a = {} THEN gui
                    ELSE set_text_charbyte(gui, vga, CHOOSE x \in a : TRUE, new)
              h == [g1 EXCEPT !.bypassed = @ \/ Bypasses(vga, address)]
              lost == missed \/ Unmarked(vga, address)
              n == [Screen EXCEPT !.vga = w, !.gui = h, !.missed = lost]
  <2>1. address \in Nat /\ byte \in Byte
    BY <1>1, DisplayAssumption
  <2>2. ScreenOK(w, h) /\ (Derived(vga) => Derived(w))
    BY <1>1, <2>1, WriteFollows
  <2>3. Become(n)
    BY <1>5, ScreenParts DEF VgaCoreMMIOWriteHandler
  <2>4. lost \in BOOLEAN
    OBVIOUS
  <2>. HIDE DEF w, h, lost
  <2>5. n.vga = w /\ n.gui = h /\ n.missed = lost
    BY ScreenParts
  <2>. HIDE DEF n
  <2>. QED BY <1>1, <2>2, <2>3, <2>4, <2>5, BecomeKeeps
<1>6. ASSUME NEW address \in session.peeks, VgaCoreMMIOReadHandler(address) PROVE ScreenInv'
  <2>. DEFINE w == _VgaCoreMMIOReadHandler(vga, address)
              n == [Screen EXCEPT !.vga = w]
  <2>1. ScreenOK(w, gui) /\ (Derived(vga) => Derived(w))
    BY <1>1, MemoryReadPlain, PlainFollows
  <2>2. Become(n)
    BY <1>6 DEF VgaCoreMMIOReadHandler
  <2>. HIDE DEF w
  <2>3. n.vga = w /\ n.gui = gui /\ n.missed = missed
    BY ScreenParts
  <2>. HIDE DEF n
  <2>. QED BY <1>1, <2>1, <2>2, <2>3, BecomeKeeps
<1>. QED BY <1>2, <1>3, <1>4, <1>5, <1>6

\* A step of the timer, or of the thread of the window.
LEMMA WindowKeeps ==
    ASSUME ScreenInv
    PROVE  /\ Tick => ScreenInv'
           /\ UIThread => ScreenInv'
           /\ Paint => ScreenInv'
           /\ \A t \in Tiles : Expose(t) => ScreenInv'
<1>1. /\ ScreenOK(vga, gui) /\ missed \in BOOLEAN /\ session \in Sessions /\ vga \in VGA
      /\ GuiOK(gui)
  BY DEF ScreenInv, ScreenOK
<1>2. ASSUME NEW h, GuiOK(h), SameCopy(gui, h), NEW n, Become(n),
             n.vga = vga, n.gui = h, n.missed = missed
      PROVE  ScreenInv'
  <2>1. ScreenOK(n.vga, n.gui)
    BY <1>1, <1>2, CopyFollows
  <2>. QED BY <1>1, <1>2, <2>1, BecomeKeeps
<1>3. ASSUME Tick PROVE ScreenInv'
  <2>. DEFINE m == VgaCoreTimerHandler(vga, gui)
              lost == missed \/ (~Running /\ ~VgaCoreSkipUpdate(vga))
              n == [vga |-> m.vga, gui |-> m.gui, missed |-> lost]
  <2>1. ~Endless(vga, gui) /\ Become(n)
    BY <1>3, Zenon DEF Tick
  <2>2. ScreenOK(m.vga, m.gui) /\ (Derived(vga) => Derived(m.vga))
    BY <1>1, <2>1, TimerOK, UpdateFollows
  <2>3. lost \in BOOLEAN
    OBVIOUS
  <2>. HIDE DEF m, lost
  <2>4. n.vga = m.vga /\ n.gui = m.gui /\ n.missed = lost
    OBVIOUS
  <2>. HIDE DEF n
  <2>. QED BY <2>1, <2>2, <2>3, <2>4, BecomeKeeps
<1>4. ASSUME NEW stage \in UIThreads \ {"window"}, Reach(stage) PROVE ScreenInv'
  <2>. DEFINE h == [gui EXCEPT !.thread = stage]
              n == [Screen EXCEPT !.gui.thread = stage]
  <2>1. n.vga = vga /\ n.gui = h /\ n.missed = missed
    BY ScreenParts
  <2>2. Become(n)
    BY <1>4 DEF Reach
  <2>3. GuiOK(h) /\ SameCopy(gui, h)
    BY <1>1, ReachOK
  <2>. HIDE DEF h, n
  <2>. QED BY <1>2, <2>1, <2>2, <2>3
<1>5. ASSUME ClearFirst PROVE ScreenInv'
  <2>. DEFINE c == clear_screen(gui)
              h == [c EXCEPT !.thread = "messages"]
              n == [Screen EXCEPT !.gui = [clear_screen(gui) EXCEPT !.thread = "messages"]]
  <2>1. n.vga = vga /\ n.gui = h /\ n.missed = missed
    BY ScreenParts
  <2>2. Become(n)
    BY <1>5 DEF ClearFirst
  <2>3. GuiOK(c) /\ SameCopy(gui, c)
    BY <1>1, ClearOK
  <2>. HIDE DEF c
  <2>4. PICK stage \in UIThreads \ {"window"} : stage = "messages"
    BY DEF UIThreads
  <2>5. GuiOK(h) /\ SameCopy(c, h)
    BY <2>3, <2>4, ReachOK
  <2>6. SameCopy(gui, h)
    BY <2>3, <2>5 DEF SameCopy
  <2>. HIDE DEF h, n
  <2>. QED BY <1>2, <2>1, <2>2, <2>5, <2>6
<1>6. UIThread => ScreenInv'
  <2>1. "bitmap" \in UIThreads \ {"window"} /\ "inited" \in UIThreads \ {"window"}
    BY DEF UIThreads
  <2>. QED BY <1>4, <1>5, <2>1 DEF UIThread, CreateBitmap, SetUIinited
<1>7. ASSUME Paint PROVE ScreenInv'
  <2>. DEFINE h == WM_PAINT(gui)
              n == [Screen EXCEPT !.gui = WM_PAINT(gui)]
  <2>1. n.vga = vga /\ n.gui = h /\ n.missed = missed
    BY ScreenParts
  <2>2. Become(n) /\ gui.thread # "window"
    BY <1>7 DEF Paint, Running
  <2>3. GuiOK(h) /\ SameCopy(gui, h)
    BY <1>1, <2>2, PaintOK
  <2>. HIDE DEF h, n
  <2>. QED BY <1>2, <2>1, <2>2, <2>3
<1>8. ASSUME NEW t \in Tiles, Expose(t) PROVE ScreenInv'
  <2>. DEFINE h == [gui EXCEPT !.invalid = gui.invalid \cup TilePixels(t)]
              n == [Screen EXCEPT !.gui.invalid = @ \cup TilePixels(t)]
  <2>1. n.vga = vga /\ n.gui = h /\ n.missed = missed
    BY ScreenParts
  <2>2. Become(n)
    BY <1>8 DEF Expose
  <2>3. GuiOK(h) /\ SameCopy(gui, h)
    BY <1>1, ExposedOK
  <2>. HIDE DEF h, n
  <2>. QED BY <1>2, <2>1, <2>2, <2>3
<1>. QED BY <1>3, <1>6, <1>7, <1>8

\* The keyboard and the mouse leave the screen alone.
LEMMA InputKeepsScreen ==
    ASSUME ScreenInv, UNCHANGED <<vga, gui, missed, session>>
    PROVE  ScreenInv'
<1>1. vga' = vga /\ gui' = gui /\ missed' = missed /\ session' = session
  OBVIOUS
<1>2. ScreenOK(vga', gui') /\ (Derived(session.vga) => Derived(vga'))
  BY <1>1 DEF ScreenInv
<1>3. ScreenOK(vga, gui)' /\ (Derived(session.vga) => Derived(vga'))
  BY <1>2, PrimedScreen
<1>. QED BY <1>1, <1>3 DEF ScreenInv

\* Every step keeps the invariant of the screen.
LEMMA ScreenNext == ScreenInv /\ [Next]_vars => ScreenInv'
<1>. SUFFICES ASSUME ScreenInv, [Next]_vars PROVE ScreenInv'
  OBVIOUS
<1>. DEFINE Rest == UNCHANGED <<vga, gui, missed, session>>
<1>1. CASE \E o \in session.bytes : OutByte(o[1], o[2])
  BY <1>1, GuestKeeps
<1>2. CASE \E o \in session.words : OutWord(o[1], o[2], o[3], o[4])
  BY <1>2, GuestKeeps
<1>3. CASE \E port \in session.reads : InByte(port)
  BY <1>3, GuestKeeps
<1>4. CASE \E address \in session.pokes, byte \in session.values :
               VgaCoreMMIOWriteHandler(address, byte)
  BY <1>4, GuestKeeps
<1>5. CASE \E address \in session.peeks : VgaCoreMMIOReadHandler(address)
  BY <1>5, GuestKeeps
<1>6. CASE Tick \/ UIThread \/ Paint \/ \E t \in Tiles : Expose(t)
  BY <1>6, WindowKeeps
<1>7. Message => Rest
  BY DEF Message, KeyDown, KeyUp, Button, Move, Click, KillFocus, AltEnter, Input
<1>8. Enqueue \/ Fullscreen \/ EnqueueMain \/ HandleEvents \/ Take \/ Deliver \/ HandledEvents
          => Rest
  BY DEF Enqueue, Fullscreen, EnqueueMain, HandleEvents, Take, Deliver, HandledEvents, Input
<1>9. UNCHANGED vars => Rest
  BY DEF vars
<1>10. Rest => ScreenInv'
  BY InputKeepsScreen
<1>. HIDE DEF Rest
<1>. QED BY <1>1, <1>2, <1>3, <1>4, <1>5, <1>6, <1>7, <1>8, <1>9, <1>10 DEF Next

\* The invariant of the screen holds throughout, whatever the guest does to the
\* ports and the memory and however its steps fall between those of the timer
\* and of the thread of the window.
THEOREM ScreenInvariant == Spec => []ScreenInv
BY ScreenInit, ScreenNext, PTL DEF Spec

\* What the VGA and the window keep twice agrees, and the state stays in the
\* ranges of the code's structures: the copy of the font is the selected part
\* of plane 2 unless a write bypassed it, and the values derived from the CRT
\* controller's registers are those of the registers once they have been.
THEOREM DisplayConsistentHolds == Spec => []DisplayConsistent
<1>1. ScreenInv /\ WinOK /\ session \in Sessions => DisplayConsistent
  <2>. SUFFICES ASSUME ScreenInv, WinOK PROVE DisplayConsistent
    OBVIOUS
  <2>1. TypeOK
    BY WinTyped DEF TypeOK, ScreenInv, ScreenOK, VgaTypeOK, GuiOK
  <2>2. CharmapFollows
    BY DEF CharmapFollows, ScreenInv, ScreenOK, Follows
  <2>3. DerivedFollow
    BY DEF DerivedFollow, ScreenInv
  <2>. QED BY <2>1, <2>2, <2>3 DEF DisplayConsistent
<1>. QED BY <1>1, ScreenInvariant, InputInvariant, PTL

\* Whatever MemoryBitmap and the window differ in, be it of a tile, a character or
\* a screen that was cleared, will be painted (updateUpdated, DrawBitmap, flush and
\* WM_PAINT), for screens and fonts of any size, unless it was drawn stretched.
THEOREM PaintCoversHolds == Spec => []PaintCovers
<1>1. ScreenInv => PaintCovers
  BY DEF ScreenInv, ScreenOK, GuiOK, Covers, Pending, PaintCovers
<1>. QED BY <1>1, ScreenInvariant, PTL

\* A write of the guest does to every bit of a plane what the graphics
\* controller's registers say of it (_VgaCoreMMIOWriteHandler), for bytes of up
\* to eight bits.
THEOREM AluIsRasterOpHolds == Spec => []AluIsRasterOp
<1>1. ScreenInv => AluIsRasterOp
  <2>. SUFFICES ASSUME ScreenInv PROVE AluIsRasterOp
    OBVIOUS
  <2>1. vga.graphics_ctrl \in GRAPHICS_CTRL
    BY VgaFields DEF ScreenInv, ScreenOK
  <2>. QED BY <2>1, RasterOpOfWrite DEF AluIsRasterOp
<1>. QED BY <1>1, ScreenInvariant, PTL
=============================================================================
