------------------------------ MODULE Display ------------------------------
(***************************************************************************)
(* The VGA, the window that shows its screen and the way of the keyboard   *)
(* and the mouse to the guest.  Port and memory accesses of the guest and  *)
(* the timer handlers run on the main thread, one at a time; the window    *)
(* procedures run on a thread of their own.                                *)
(***************************************************************************)
EXTENDS Gui, Win32Gui

CONSTANTS
    Sessions    \* what the guest and the user are at, and the mode to start with

ASSUME DisplayAssumption ==
    \A s \in Sessions :
        /\ VgaTypeOK(s.vga)
        /\ \A o \in s.bytes : o[2] \in 0..255
        /\ \A o \in s.words : o[3] \in 0..255 /\ o[4] \in 0..255
        /\ s.ready \in BOOLEAN
        /\ s.pokes \subseteq Nat /\ s.peeks \subseteq Nat /\ s.values \subseteq Byte
        /\ s.buttons \subseteq MouseButtons

VARIABLES
    vga, gui, win,
    buttons,    \* of the mouse that are held
    missed,     \* the screen has changed in a way the VGA does not redraw
    session

vars == <<vga, gui, win, buttons, missed, session>>

Init ==
    /\ session \in Sessions
    /\ vga = session.vga
    /\ gui = [GuiInitialize EXCEPT
                  !.thread = IF session.ready THEN "messages" ELSE "window",
                  !.bypassed = CharMap(session.vga) # {}]
    /\ win = Win32GuiSpecificInit
    /\ buttons = {}
    /\ missed = FALSE

-----------------------------------------------------------------------------
(***************************************************************************)
(* The guest.                                                              *)
(***************************************************************************)

\* What a port write leaves to be done, in the order in which it is done.
Applied(r, g, entry) ==
    LET v == r.vga
        g1 == IF r.effect.palette THEN palette_change(g, entry, v.pel.data[entry]) ELSE g
        g2 == IF r.effect.clear THEN clear_screen(g1) ELSE g1
        g3 == IF r.effect.charmap THEN set_text_charmap(g2, v) ELSE g2
        v3 == IF r.effect.charmap THEN [v EXCEPT !.vga_mem_updated = TRUE] ELSE v
    IN  [vga |-> IF r.effect.redraw THEN vga_redraw_area(v3) ELSE v3, gui |-> g3]

\* The modes in which a write marks the tile its byte is shown in: CGA graphics
\* of four and of two colours, four planes, 256 colours chained and unchained, with
\* lines that do not overlap.
ConsistentMode(v) ==
    LET g == v.graphics_ctrl
    IN  \/ g.memory_mapping = 3 /\ g.shift_reg = 1
        \/ g.memory_mapping = 3 /\ Cga2(v) /\ ~v.x_dotclockdiv2
        \/ /\ g.memory_mapping # 3 /\ g.shift_reg = 0 /\ ~Cga2(v)
           /\ ~v.sequencer.chain_four /\ Width(v) <= 8 * v.line_offset
           /\ v.y_doublescan => v.line_compare % 2 = 1
        \/ /\ g.memory_mapping # 3 /\ g.shift_reg = 2 /\ v.sequencer.chain_four
           /\ DoubleWord(v) /\ Width(v) <= 2 * v.line_offset
        \/ /\ g.memory_mapping # 3 /\ g.shift_reg = 2 /\ ~v.sequencer.chain_four
           /\ ~DoubleWord(v) /\ ByteMode(v) /\ Width(v) <= 8 * v.line_offset
\* The writes that need not mark the tiles they change: in other modes, and past
\* the end of a plane, which changes the next one.
Unmarked(v, address) ==
    /\ InWindow(v, address) /\ IsGraphics(v)
    /\ ~ConsistentMode(v) \/ OffsetOf(v, address) >= PLANE

\* The changes of the screen for which nothing is redrawn.
Silent(v, w) ==
    \/ v.graphics_ctrl.shift_reg # w.graphics_ctrl.shift_reg
    \/ Width(v) # Width(w) \/ Height(v) # Height(w)
    \/ v.attribute_ctrl.blink_intensity # w.attribute_ctrl.blink_intensity
    \/ ~IsGraphics(w) /\ StartAddr(v) # StartAddr(w)
\* The size that is redrawn is that of the last update.
Redrawn(v) ==
    /\ Redraws(v)
    /\ IsGraphics(v) => v.last_xres = Width(v) /\ v.last_yres = Height(v)

VgaPortIoWriteHandler(m, port, value) ==
    LET r == VgaCorePortIoWrite(m.vga, port, value)
        n == Applied(r, m.gui, m.vga.pel.write_data_register)
    IN  [vga |-> n.vga, gui |-> n.gui,
         missed |-> IF r.effect.redraw THEN ~Redrawn(r.vga)
                    ELSE m.missed \/ Silent(m.vga, r.vga)]

Screen == [vga |-> vga, gui |-> gui, missed |-> missed]
Become(m) ==
    /\ vga' = m.vga
    /\ gui' = m.gui
    /\ missed' = m.missed
    /\ UNCHANGED <<win, buttons, session>>

\* A byte, and a word that reaches an index port and the data port behind it.
OutByte(port, value) == Become(VgaPortIoWriteHandler(Screen, port, value))
OutWord(index, data, i, value) ==
    Become(VgaPortIoWriteHandler(VgaPortIoWriteHandler(Screen, index, i), data, value))
InByte(port) ==
    Become([Screen EXCEPT !.vga = VgaCorePortIoRead(vga, port)])

\* With a line offset of zero the write of a byte can divide by it, which ends
\* the monitor.
VgaCoreMMIOWriteHandler(address, byte) ==
    LET w == _VgaCoreMMIOWriteHandler(vga, address, byte)
        a == CharByte(vga, address)
        new == NewValue(vga.graphics_ctrl, 2, byte)
        g == IF a = {} THEN gui
             ELSE set_text_charbyte(gui, vga, CHOOSE x \in a : TRUE, new)
    IN  /\ ~(/\ InWindow(vga, address) /\ ~WritesCga(vga) /\ ~WritesChained(vga)
             /\ Divides(vga))
        /\ Become([Screen EXCEPT !.vga = w,
                     !.gui = [g EXCEPT !.bypassed = @ \/ Bypasses(vga, address)],
                     !.missed = @ \/ Unmarked(vga, address)])
VgaCoreMMIOReadHandler(address) ==
    Become([Screen EXCEPT !.vga = _VgaCoreMMIOReadHandler(vga, address)])

-----------------------------------------------------------------------------
(***************************************************************************)
(* The timer and the thread of the window.                                 *)
(***************************************************************************)

\* What is drawn before the thread of the window has cleared the screen is lost.
Running == gui.thread = "messages"
Tick ==
    LET m == VgaCoreTimerHandler(vga, gui)
    IN  /\ ~Endless(vga, gui)
        /\ Become([vga |-> m.vga, gui |-> m.gui,
                   missed |-> missed \/ (~Running /\ ~VgaCoreSkipUpdate(vga))])

\* UIThread makes the window and MemoryBitmap, sets UIinited, for which the main
\* thread has waited half a second at most, clears the screen and goes on to
\* handle messages.
Reach(stage) == Become([Screen EXCEPT !.gui.thread = stage])
CreateBitmap == gui.thread = "window" /\ Reach("bitmap")
SetUIinited == gui.thread = "bitmap" /\ Reach("inited")
ClearFirst ==
    /\ gui.thread = "inited"
    /\ Become([Screen EXCEPT !.gui = [clear_screen(gui) EXCEPT !.thread = "messages"]])
UIThread == CreateBitmap \/ SetUIinited \/ ClearFirst

Paint ==
    /\ session.paints /\ Running /\ gui.invalid # {}
    /\ Become([Screen EXCEPT !.gui = WM_PAINT(gui)])
\* A part of the window comes out from under another one.
Expose(t) ==
    /\ session.paints /\ Running
    /\ Become([Screen EXCEPT !.gui.invalid = @ \cup TilePixels(t)])

-----------------------------------------------------------------------------
(***************************************************************************)
(* Keyboard and mouse.                                                     *)
(***************************************************************************)

Overlap(w) == [w EXCEPT !.raced = @ \/ (w.ui # "idle" /\ w.main # "idle")]
Input(w) == win' = Overlap(w) /\ UNCHANGED <<vga, gui, missed, session>>

\* The thread of the window handles one message at a time, and waits for keyCS
\* where it needs it.
Idle == win.ui = "idle"
Free == win.keyCS = "free"
KeyDown(key) == Idle /\ Free /\ Input(WM_KEYDOWN(win, key)) /\ UNCHANGED buttons
KeyUp(key) == Idle /\ Free /\ Input(WM_KEYUP(win, key)) /\ UNCHANGED buttons
Button(b) ==
    LET held == Toggled(buttons, {b})
    IN  /\ Idle /\ Free
        /\ buttons' = held
        /\ Input(CASE b = "MBUTTON" -> WM_MBUTTON(win, held, b \in held)
                   [] b = "LBUTTON" -> WM_LBUTTON(win, held)
                   [] OTHER -> WM_RBUTTON(win, held))
\* The buttons may have changed while the window did not get the messages.
Move(held) ==
    /\ Idle /\ Free
    /\ buttons' = held
    /\ Input(WM_MOUSEMOVE(win, held))
Click == Idle /\ Free /\ Input(WM_COMMAND(win)) /\ UNCHANGED buttons
KillFocus == Idle /\ Input(WM_KILLFOCUS(win)) /\ UNCHANGED buttons
AltEnter == Idle /\ Input(set_fullscreen_mode(win)) /\ UNCHANGED buttons
Enqueue == ~Idle /\ Input(UiStep(win)) /\ UNCHANGED buttons

Fullscreen ==
    /\ session.tall /\ win.keyCS # "main" /\ win.main = "idle" /\ ~win.queryFullScreen
    /\ Input(MainFullscreen(win)) /\ UNCHANGED buttons
EnqueueMain == win.main # "idle" /\ Input(MainStep(win)) /\ UNCHANGED buttons

\* handle_events: keyCS is held until the ring is empty.
HandleEvents ==
    /\ Free /\ win.main = "idle" /\ win.head # win.tail
    /\ Input([win EXCEPT !.keyCS = "main"]) /\ UNCHANGED buttons
Take ==
    /\ win.keyCS = "main" /\ win.taken = Nothing /\ win.head # win.tail
    /\ Input(deq_key_event(win)) /\ UNCHANGED buttons
Deliver ==
    /\ win.taken # Nothing
    /\ Input(handle_event(win)) /\ UNCHANGED buttons
HandledEvents ==
    /\ win.keyCS = "main" /\ win.taken = Nothing /\ win.head = win.tail
    /\ Input([win EXCEPT !.keyCS = "free"]) /\ UNCHANGED buttons

Message ==
    \/ \E key \in session.keys : KeyDown(key) \/ KeyUp(key)
    \/ \E b \in session.buttons : Button(b)
    \/ \E held \in SUBSET session.buttons : session.moves /\ Move(held)
    \/ session.toolbar /\ Click
    \/ session.focus /\ (KillFocus \/ AltEnter)
Next ==
    \/ \E o \in session.bytes : OutByte(o[1], o[2])
    \/ \E o \in session.words : OutWord(o[1], o[2], o[3], o[4])
    \/ \E port \in session.reads : InByte(port)
    \/ \E address \in session.pokes, byte \in session.values :
           VgaCoreMMIOWriteHandler(address, byte)
    \/ \E address \in session.peeks : VgaCoreMMIOReadHandler(address)
    \/ Tick
    \/ UIThread
    \/ Paint
    \/ \E t \in Tiles : Expose(t)
    \/ Running /\ Message
    \/ Enqueue
    \/ Fullscreen
    \/ EnqueueMain
    \/ HandleEvents
    \/ Take
    \/ Deliver
    \/ HandledEvents
Spec == Init /\ [][Next]_vars

-----------------------------------------------------------------------------
\* The state stays in the ranges of the code's structures.
TypeOK ==
    /\ VgaTypeOK(vga) /\ GuiTypeOK(gui) /\ WinTypeOK(win)
    /\ missed \in BOOLEAN /\ session \in Sessions

\* The offset of a pixel in the planes.
PixelOffset(v, q) ==
    LET y == Halved(q[2], v.y_doublescan)
    IN  CASE Cga2(v) -> CgaAddress(v, q[1] \div 8, y)
          [] v.graphics_ctrl.shift_reg = 0 /\ ~Cga2(v) -> PlanarOffset(v, q[1], y)
          [] v.graphics_ctrl.shift_reg = 1 ->
                 CgaAddress(v, Halved(q[1], v.x_dotclockdiv2) \div 4, y)
          [] OTHER -> PackedOffset(v, q[1], y) - ((q[1] \div 2) % 4) * PLANE

\* No change of the memory is lost to the screen: a tile of which MemoryBitmap
\* shows anything else than what the planes, the start address, the split of the
\* screen and the palette make of it is marked for the next update, in the modes
\* of ConsistentMode (SET_TILE_UPDATED in _VgaCoreMMIOWriteHandler, redraw_area).
\* It is claimed as long as the screen lies inside of the planes and none of this
\* has happened since the last redraw (missed): a register change of Silent, a
\* write of Unmarked, a tile drawn before UIThread has cleared the screen.  Planes
\* that blink are drawn anew every time and marked by nothing.
StaleIsMarked ==
    LET steady == vga.graphics_ctrl.shift_reg > 0 \/ Cga2(vga)
                     \/ ~vga.attribute_ctrl.blink_intensity
        shows == /\ IsGraphics(vga) /\ ConsistentMode(vga) /\ steady
                 /\ ~VgaCoreSkipUpdate(vga) /\ ~vga.sequencer.clear_screen /\ ~missed
                 /\ Redraws(vga)
                 /\ \A t \in OnScreen(vga) : \A q \in TilePixels(t) : PixelOffset(vga, q) < PLANE
    IN  shows => \A t \in OnScreen(vga) :
                     (\E q \in TilePixels(t) : gui.bitmap[q] # Picture(vga, gui.cmap, q)) =>
                         t \in vga.tiles /\ vga.vga_mem_updated

\* What MemoryBitmap and the window differ in will be painted: it is inside of
\* the rectangle flush will invalidate, or of what WM_PAINT will be asked for
\* (updateUpdated, flush and WM_PAINT on two threads), for every pixel of a tile,
\* of a character or of a screen that is cleared, unless the screen was stretched
\* when it was drawn: the rectangle is stretched, the drawing is not.
PaintCovers ==
    \A q \in Pixels \ gui.stretched :
        gui.window[q] # gui.bitmap[q] => q \in AreaPixels(gui.updated_area) \cup gui.invalid

\* MemoryBitmap shows the text in memory, in the present font and palette, once
\* the changes have been taken note of: the snapshot that text_update_common
\* compares with does not run ahead of what was drawn.  A character of value 0 in
\* colour 0 is not redrawn after redraw_area, and one past the end of what is
\* copied to the snapshot is compared with what was there once.  The pixels may
\* have the colours of the cursor, which are left behind where it was (gui.c:1271),
\* and be those of the complement, with which the snapshot is marked there.
TextShown ==
    LET shows == /\ ~IsGraphics(vga) /\ ~VgaCoreSkipUpdate(vga) /\ ~missed
                 /\ ~vga.vga_mem_updated /\ ~gui.charmap_updated /\ Redraws(vga)
                 /\ ~vga.attribute_ctrl.blink_intensity /\ Running
        rows == (vga.vertical_display_end + 1) \div CharHeight(vga)
        end == vga.line_offset * rows + TextStart(vga)
        drawn(c, q, code, ink) ==
            LET p == Place(vga, gui, c)
                pixel(row, swapped) ==
                    CharPixel(vga, gui, code, Peek(vga, TextAddress(vga, gui, c) + 1),
                              Column(gui, p, q), row, swapped)
            IN  \/ ink = pixel(p.fy + q[2] - p.y, FALSE)
                \/ \E row \in 0..31 : ink = pixel(row, TRUE)
    IN  shows =>
            \A q \in Pixels : \A c \in CharactersAt(vga, gui, q) :
                LET a == TextAddress(vga, gui, c)
                IN  SnapPair(vga.memory, a) # <<{}, {}>> /\ a + 1 < end =>
                        \/ drawn(c, q, Peek(vga, a), gui.bitmap[q])
                        \/ drawn(c, q, Bits \ Peek(vga, a), gui.bitmap[q])

\* The copy of the font is the part of plane 2 that the character map select
\* register names, through every change of either (set_text_charmap,
\* set_text_charbyte), unless the planes have been written chained, or past the
\* end of a plane, since the copy was made.
CharmapFollows == ~gui.bypassed => gui.vga_charmap = CharMap(vga)

\* What a function select makes of a bit, and the bit a write mode names.
RasterOp(op, new, old) ==
    CASE op = 0 -> new [] op = 1 -> new /\ old [] op = 2 -> new \/ old [] OTHER -> new # old
Source(g, p, byte, b) ==
    LET rotated == (b + g.data_rotate) % Cardinality(Bits) \in byte
    IN  CASE g.write_mode = 0 ->
                 IF p \in g.enable_set_reset THEN p \in g.set_reset ELSE rotated
          [] g.write_mode = 2 -> p \in byte
          [] OTHER -> p \in g.set_reset /\ rotated

\* A bit of a plane after a write of the guest: that of the latch where the mask
\* is clear, and elsewhere the bit the write mode names, combined with that of
\* the latch as the function select says (_VgaCoreMMIOWriteHandler).
AluIsRasterOp ==
    LET g == vga.graphics_ctrl
    IN  \A p \in Planes, byte \in Byte, b \in Bits :
            LET masked == b \notin g.bitmask \/ (g.write_mode = 3 /\ b \notin byte)
                keeps == g.write_mode = 1 \/ masked
            IN  (b \in NewValue(g, p, byte)) =
                    IF keeps THEN b \in g.latch[p]
                    ELSE RasterOp(g.raster_op, Source(g, p, byte, b), b \in g.latch[p])

\* The values derived from the CRT controller's registers keep up with them,
\* through protected writes and writes of single bits as well, once a mode has
\* been set; those of VgaCoreInitialize do not come from the registers.
Derived(v) ==
    LET r == v.CRTC.reg
    IN  /\ v.line_offset = LineOffset(r)
        /\ v.line_compare =
               r[24] + 256 * Number(Bit(r[7], 4)) + 512 * Number(Bit(r[9], 6))
        /\ v.vertical_display_end = Height(v) - 1
DerivedFollow == Derived(session.vga) => Derived(vga)

\* What the VGA and the window keep twice agrees: the font with plane 2
\* (set_text_charmap, set_text_charbyte) and the derived values with the
\* registers they come from.
DisplayConsistent == TypeOK /\ CharmapFollows /\ DerivedFollow

\* Every event that got into the ring comes out of it once and in order,
\* although the main thread gives a slot back before it has read it and the loss
\* of the focus is enqueued without keyCS: one slot always stays free.  Two
\* threads in enq_key_event at once are the exception.
EventsInOrder == ~win.raced => win.owed = Underway(win)

\* The last event of a modifier key is a press, once the events have been passed
\* on as well, one after the other (Told).
DownAfter(k, handed, events) ==
    \/ k \in handed /\ \A i \in DOMAIN events : events[i] # Released(k)
    \/ \E i \in DOMAIN events :
           /\ events[i] = Pressed(k)
           /\ \A j \in DOMAIN events : j > i => events[j] # Released(k)

\* A modifier key that enq_key_event has as pressed is one whose last event that
\* got through to Ps2GenerateScancode, or is in the ring, is a press, and the other
\* way round, unless its event was dropped because the ring was full or the focus
\* was lost; the next event of the key that gets in makes up for that.  In
\* particular no press is swallowed as a repetition of one that the guest never
\* got: of every key that is held the keyboard has been given a make code for it, or
\* will be.  Of no key is the guest told that it is up (ps2.c:416).
ModifiersInStep ==
    win.ui = "idle" /\ win.main = "idle" /\ ~win.raced =>
        \A k \in Modifiers \ win.lost :
            /\ (k \in win.pressed) = DownAfter(k, win.handed, win.owed)
            /\ k \in win.pressed =>
                   k \in win.guest \/ \E i \in DOMAIN win.owed : win.owed[i] = Pressed(k)
=============================================================================
