------------------------------ MODULE Win32Gui ------------------------------
(***************************************************************************)
(* Keyboard and mouse on their way to the guest (win32gui.c).  The thread  *)
(* of the window puts events into the ring keyevents, the main thread      *)
(* takes them out.  keyCS keeps the two apart, but not everywhere: the     *)
(* loss of the focus and the way into full screen mode put an event into   *)
(* the ring without it, the latter on whichever thread resizes the window. *)
(***************************************************************************)
EXTENDS Integers, Sequences, FiniteSets

CONSTANTS SCANCODE_BUFSIZE

ASSUME RingAssumption == SCANCODE_BUFSIZE \in Nat /\ SCANCODE_BUFSIZE > 1

Slots == 0..(SCANCODE_BUFSIZE - 1)
After(i) == (i + 1) % SCANCODE_BUFSIZE
Nothing == -1

\* The keys that Windows repeats while they are held.
Modifiers == {"CTRL_L", "CTRL_R", "SHIFT_L", "SHIFT_R", "ALT_L", "ALT_R"}
ModifierOf(key) ==
    CASE key \in {"CTRL_L", "CTRL_R"} -> "CTRL"
      [] key \in {"SHIFT_L", "SHIFT_R"} -> "SHIFT"
      [] key \in {"ALT_L", "ALT_R"} -> "ALT"
      [] key = "CAPS" -> "CAPS"
      [] OTHER -> "NONE"

MouseButtons == {"LBUTTON", "MBUTTON", "RBUTTON"}

Pressed(key) == [type |-> "PRESSED", key |-> key, buttons |-> {}]
Released(key) == [type |-> "RELEASED", key |-> key, buttons |-> {}]
FOCUS_CHANGED == [type |-> "FOCUS", key |-> "NONE", buttons |-> {}]
MOUSE_PRESSED(buttons) == [type |-> "MOUSE", key |-> "NONE", buttons |-> buttons]
TOOLBAR_CLICKED == [type |-> "TOOLBAR", key |-> "NONE", buttons |-> {}]

\* Where a thread is in enq_key_event.
Steps == {"idle", "check", "store", "advance"}

\* pressed holds the flags of enq_key_event, todo the events the thread of the
\* window still has to enqueue; taken is the slot that the main thread has
\* taken and not read.  The last five record what has been put into the ring and
\* not been handled, the modifiers of which a press was the last event that
\* handle_events has passed on, those the keyboard has been given a make code of,
\* those an event of which was dropped since, and that two threads were in
\* enq_key_event at once.
Win32GuiSpecificInit ==
    [keyevents |-> [i \in Slots |-> Pressed("NONE")], head |-> 0, tail |-> 0,
     keyCS |-> "free", pressed |-> {}, todo |-> <<>>, ui |-> "idle", main |-> "idle",
     taken |-> Nothing, keymodstate |-> {}, toggle_keystate |-> {},
     mouseCaptureMode |-> FALSE, mouseModeChange |-> FALSE, mouse_button_state |-> {},
     queryFullScreen |-> FALSE,
     owed |-> <<>>, handed |-> {}, guest |-> {}, lost |-> {}, raced |-> FALSE]

WinTypeOK(w) ==
    /\ w.head \in Slots /\ w.tail \in Slots /\ w.taken \in Slots \cup {Nothing}
    /\ w.keyCS \in {"free", "ui", "main"}
    /\ w.ui \in Steps /\ w.main \in Steps
    /\ (w.ui = "idle") = (w.todo = <<>>)
    /\ w.pressed \subseteq Modifiers /\ w.handed \cup w.guest \subseteq Modifiers
    /\ w.keymodstate \subseteq {"CTRL", "SHIFT", "ALT", "CAPS"}

-----------------------------------------------------------------------------
(***************************************************************************)
(* enq_key_event: first the flags, which swallow repeated presses, then    *)
(* the ring, one event at a time and step by step.                         *)
(***************************************************************************)

\* Mutant: AltGr takes the left control key for released without saying so.
KeyEventsQuiet(w, e) ==
    CASE e.type = "PRESSED" /\ e.key \in w.pressed -> <<>>
      [] e.type = "RELEASED" /\ e.key = "CTRL_L" /\ "CTRL_L" \notin w.pressed -> <<>>
      [] OTHER -> <<e>>
KeyEvents(w, e) ==
    CASE e.type = "PRESSED" /\ e.key \in w.pressed -> <<>>
      [] e.type = "PRESSED" /\ e.key = "ALT_R" /\ e.key \notin w.pressed
             /\ "CTRL_L" \in w.pressed -> <<Released("CTRL_L"), e>>
      [] e.type = "RELEASED" /\ e.key = "CTRL_L" /\ "CTRL_L" \notin w.pressed -> <<>>
      [] OTHER -> <<e>>
Flags(w, e) ==
    CASE e.type = "FOCUS" -> {}
      [] e.type = "PRESSED" /\ e.key = "ALT_R" /\ "ALT_R" \notin w.pressed ->
             (w.pressed \ {"CTRL_L"}) \cup {"ALT_R"}
      [] e.type = "PRESSED" /\ e.key \in Modifiers \ {"ALT_R"} -> w.pressed \cup {e.key}
      [] e.type = "RELEASED" -> w.pressed \ {e.key}
      [] OTHER -> w.pressed

\* A loss of the focus releases all keys, without an event for any of them.
enq_key_event(w, e) ==
    LET todo == KeyEvents(w, e)
    IN  [w EXCEPT !.pressed = Flags(w, e), !.todo = todo,
                  !.ui = IF todo = <<>> THEN "idle" ELSE "check",
                  !.lost = IF e.type = "FOCUS" THEN @ \cup w.pressed ELSE @]
Locked(w, e) ==
    LET n == enq_key_event(w, e)
    IN  IF n.todo = <<>> THEN n ELSE [n EXCEPT !.keyCS = "ui"]

\* Mutant: the last slot is used as well.
FullNever(w) == FALSE
Full(w) == After(w.tail) = w.head

Finish(w) ==
    LET rest == Tail(w.todo)
    IN  [w EXCEPT !.todo = rest, !.ui = IF rest = <<>> THEN "idle" ELSE "check",
                  !.keyCS = IF rest = <<>> /\ @ = "ui" THEN "free" ELSE @]
Check(w) ==
    IF Full(w) THEN [Finish(w) EXCEPT !.lost = @ \cup ({Head(w.todo).key} \cap Modifiers)]
    ELSE [w EXCEPT !.ui = "store"]
Store(w) == [w EXCEPT !.keyevents[w.tail] = Head(w.todo), !.ui = "advance"]
Advance(w) ==
    [Finish(w) EXCEPT !.tail = After(@), !.owed = Append(@, Head(w.todo)),
                      !.lost = @ \ {Head(w.todo).key}]
UiStep(w) ==
    CASE w.ui = "check" -> Check(w) [] w.ui = "store" -> Store(w) [] OTHER -> Advance(w)

-----------------------------------------------------------------------------
(***************************************************************************)
(* The messages of the window.                                             *)
(***************************************************************************)

Toggled(s, t) == (s \ t) \cup (t \ s)
set_modifier_keys(w, m, down) ==
    [w EXCEPT !.keymodstate =
        CASE m = "CAPS" -> IF down THEN Toggled(@, {m}) ELSE @
          [] m # "CAPS" /\ down -> @ \cup {m}
          [] OTHER -> @ \ {m}]

\* With toggle_method left at BX_MOUSE_TOGGLE_CTRL_MB.
Toggles(w, key) ==
    LET new == w.toggle_keystate \cup {key}
    IN  /\ key \notin w.toggle_keystate
        /\ \/ {"CTRL", "MBUTTON"} \subseteq new
           \/ {"CTRL", "LBUTTON", "RBUTTON"} \subseteq new
mouse_toggle_check(w, key, down) ==
    [w EXCEPT !.toggle_keystate = IF down THEN @ \cup {key} ELSE @ \ {key}]

ToggleKey(w, key) ==
    LET m == ModifierOf(key)
        changed == m # "NONE" /\ set_modifier_keys(w, m, TRUE).keymodstate # w.keymodstate
    IN  IF m \in {"CTRL", "ALT"} /\ changed THEN {m}
        ELSE IF key \in {"F10", "F12"} THEN {key} ELSE {}
ReleaseKey(w, key) ==
    IF key \in {"F10", "F12"} THEN {key}
    ELSE {ModifierOf(key)} \cap {"CTRL", "ALT"} \cap w.keymodstate

\* A key that turns the capture of the mouse on or off is not handed on.
WM_KEYDOWN(w, key) ==
    LET m == ModifierOf(key)
        t == ToggleKey(w, key)
        w1 == IF m = "NONE" THEN w ELSE set_modifier_keys(w, m, TRUE)
        w2 == IF t = {} THEN w1 ELSE mouse_toggle_check(w1, CHOOSE k \in t : TRUE, TRUE)
    IN  IF \E k \in t : Toggles(w, k) THEN [w2 EXCEPT !.mouseCaptureMode = ~@]
        ELSE Locked(w2, Pressed(key))
WM_KEYUP(w, key) ==
    LET m == ModifierOf(key)
        t == ReleaseKey(w, key)
        w1 == IF m = "NONE" THEN w ELSE set_modifier_keys(w, m, FALSE)
        w2 == IF t = {} THEN w1 ELSE mouse_toggle_check(w1, CHOOSE k \in t : TRUE, FALSE)
    IN  Locked(w2, Released(key))

\* A button that changed without a message is made up for first; the two
\* critical sections are one here.
processMouseXY(w, buttons, implied) ==
    LET old == Toggled(buttons, implied)
        todo == (IF old # w.mouse_button_state THEN <<MOUSE_PRESSED(old)>> ELSE <<>>) \o
                (IF buttons # old THEN <<MOUSE_PRESSED(buttons)>> ELSE <<>>)
    IN  [w EXCEPT !.mouse_button_state = buttons, !.todo = todo,
                  !.ui = IF todo = <<>> THEN "idle" ELSE "check",
                  !.keyCS = IF todo = <<>> THEN @ ELSE "ui"]
WM_MOUSEMOVE(w, buttons) ==
    IF w.mouseModeChange THEN w ELSE processMouseXY(w, buttons, {})
\* The middle button turns the capture on and off together with the control
\* key; the guest is told of it only when it goes up.
WM_MBUTTON(w, buttons, down) ==
    IF "MBUTTON" \in buttons
    THEN LET n == mouse_toggle_check(w, "MBUTTON", TRUE)
         IN  IF Toggles(w, "MBUTTON")
             THEN [n EXCEPT !.mouseCaptureMode = ~@, !.mouseModeChange = TRUE]
             ELSE n
    ELSE IF w.mouseModeChange /\ ~down
    THEN [mouse_toggle_check(w, "MBUTTON", FALSE) EXCEPT !.mouseModeChange = FALSE]
    ELSE processMouseXY(w, buttons, {"MBUTTON"})
WM_LBUTTON(w, buttons) == processMouseXY(w, buttons, {"LBUTTON"})
WM_RBUTTON(w, buttons) == processMouseXY(w, buttons, {"RBUTTON"})

WM_COMMAND(w) == Locked(w, TOOLBAR_CLICKED)
WM_KILLFOCUS(w) == enq_key_event(w, FOCUS_CHANGED)

\* Alt-Enter: the lost release of the Alt key is sent the first time.
set_fullscreen_mode(w) ==
    IF w.queryFullScreen THEN w
    ELSE enq_key_event([w EXCEPT !.queryFullScreen = TRUE], Released("ALT_L"))

-----------------------------------------------------------------------------
(***************************************************************************)
(* The main thread.                                                        *)
(***************************************************************************)

\* resize_main_window on the main thread, for a guest's screen as high as the
\* desktop: the same event, by the same steps, without keyCS.
MainFullscreen(w) ==
    [w EXCEPT !.queryFullScreen = TRUE, !.pressed = @ \ {"ALT_L"}, !.main = "check"]
MainStep(w) ==
    CASE w.main = "check" ->
             IF Full(w) THEN [w EXCEPT !.main = "idle", !.lost = @ \cup {"ALT_L"}]
             ELSE [w EXCEPT !.main = "store"]
      [] w.main = "store" ->
             [w EXCEPT !.keyevents[w.tail] = Released("ALT_L"), !.main = "advance"]
      [] OTHER ->
             [w EXCEPT !.tail = After(@), !.owed = Append(@, Released("ALT_L")),
                       !.lost = @ \ {"ALT_L"}, !.main = "idle"]

deq_key_event(w) == [w EXCEPT !.taken = w.head, !.head = After(w.head)]

\* Keys are passed on to the keyboard; buttons and the loss of the focus are not.
Told(handed, e) ==
    CASE e.type = "PRESSED" /\ e.key \in Modifiers -> handed \cup {e.key}
      [] e.type = "RELEASED" -> handed \ {e.key}
      [] OTHER -> handed
\* What the keyboard makes of it: a released key is above all the keys it knows
\* (ps2.c:416), so only make codes get into its memory for the guest.
Ps2GenerateScancode(guest, e) ==
    IF e.type = "PRESSED" THEN guest \cup ({e.key} \cap Modifiers) ELSE guest
handle_event(w) ==
    LET e == w.keyevents[w.taken]
    IN  [w EXCEPT !.handed = Told(@, e), !.guest = Ps2GenerateScancode(@, e),
                  !.taken = Nothing, !.owed = IF @ = <<>> THEN @ ELSE Tail(@)]

Ring(w) ==
    LET n == (w.tail - w.head + SCANCODE_BUFSIZE) % SCANCODE_BUFSIZE
    IN  [i \in 1..n |-> w.keyevents[(w.head + i - 1) % SCANCODE_BUFSIZE]]
Underway(w) == (IF w.taken = Nothing THEN <<>> ELSE <<w.keyevents[w.taken]>>) \o Ring(w)
=============================================================================
