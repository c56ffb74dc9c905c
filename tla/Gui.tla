-------------------------------- MODULE Gui --------------------------------
(***************************************************************************)
(* The window of the guest's screen (gui.c and the drawing half of         *)
(* win32gui.c), and VgaCoreUpdate, which brings it up to date.  Tiles and  *)
(* characters are drawn into MemoryBitmap, from which the thread of the    *)
(* window paints what has been invalidated.                                *)
(***************************************************************************)
EXTENDS VgaPorts

CONSTANTS
    Pixels,     \* of the screen that are kept track of
    Narrow      \* a narrower screen is taken to be stretched

ASSUME GuiAssumption == Pixels \subseteq Nat \X Nat /\ Narrow \in Nat \ {0}

NoArea == <<>>
FONT == 8192

Value(byte) == MapThenSumSet(LAMBDA b : 2^b, byte)
Glyphs == {Value(b) : b \in Byte}

\* How far UIThread is: the window is being made, MemoryBitmap is there, UIinited
\* is set, messages are handled.
UIThreads == {"window", "bitmap", "inited", "messages"}
UIinited(g) == g.thread \in {"inited", "messages"}

\* MemoryBitmap and the window, updated_area, what Windows has to have painted,
\* the colour map, the copy of the font and the bitmaps made of it, and the
\* sizes: dimension, guest and tm_info.  The last two record the pixels that were
\* drawn last while the screen was stretched, and that the font may have been
\* written past the copy of it.
GuiTypeOK(g) ==
    /\ DOMAIN g.bitmap = Pixels /\ DOMAIN g.window = Pixels
    /\ g.updated_area # NoArea => g.updated_area \in Int \X Int \X Int \X Int
    /\ g.invalid \subseteq Pixels
    /\ g.cmap \in [0..(DacSize - 1) -> RGB]
    /\ g.vga_charmap \cup g.vgafont \subseteq (0..(FONT - 1)) \X Bits
    /\ g.char_changed \subseteq Glyphs
    /\ g.charmap_updated \in BOOLEAN
    /\ g.dimension \in (Nat \ {0}) \X (Nat \ {0})
    /\ g.guest \in [xres: Nat, yres: Nat, fwidth: Nat, fheight: Nat]
    /\ g.stretch_factor \in {1, 2}
    /\ g.thread \in UIThreads
    /\ g.stretched \subseteq Pixels /\ g.bypassed \in BOOLEAN

GuiInitialize ==
    [bitmap |-> [q \in Pixels |-> Black], window |-> [q \in Pixels |-> Black],
     updated_area |-> NoArea, invalid |-> {},
     cmap |-> [i \in 0..(DacSize - 1) |-> [red |-> 0, green |-> 0, blue |-> 0]],
     vga_charmap |-> {}, char_changed |-> {}, charmap_updated |-> FALSE, vgafont |-> {},
     dimension |-> <<640, 480>>, stretch_factor |-> 1,
     guest |-> [xres |-> 0, yres |-> 0, fwidth |-> 0, fheight |-> 0],
     tm_info |-> [h_panning |-> 0, v_panning |-> 0, line_compare |-> 0],
     thread |-> "window", stretched |-> {}, bypassed |-> FALSE]

-----------------------------------------------------------------------------
(***************************************************************************)
(* MemoryBitmap and its way to the window.                                 *)
(***************************************************************************)

Lesser(a, b) == IF a < b THEN a ELSE b
Greater(a, b) == IF a > b THEN a ELSE b

\* Mutant: the new rectangle takes the place of the old one.
updateUpdatedLast(g, x1, y1, x2, y2) ==
    [g EXCEPT !.updated_area =
        <<x1 * g.stretch_factor, y1 * g.stretch_factor,
          x2 * g.stretch_factor, y2 * g.stretch_factor>>]
updateUpdated(g, x1, y1, x2, y2) ==
    LET new == <<x1 * g.stretch_factor, y1 * g.stretch_factor,
                 x2 * g.stretch_factor, y2 * g.stretch_factor>>
        old == g.updated_area
    IN  [g EXCEPT !.updated_area =
            IF old = NoArea THEN new
            ELSE <<Lesser(old[1], new[1]), Lesser(old[2], new[2]),
                   Greater(old[3], new[3]), Greater(old[4], new[4])>>]

\* The rectangle that InvalidateRect is given ends before its right and its
\* lower edge, which flush moves on for that.  Before there is a window it is lost.
AreaPixels(area) ==
    IF area = NoArea THEN {}
    ELSE {q \in Pixels : /\ area[1] <= q[1] /\ q[1] < area[3] + 1
                         /\ area[2] <= q[2] /\ q[2] < area[4] + 1}
flush(g) ==
    [g EXCEPT !.invalid = IF g.thread = "window" THEN @ ELSE @ \cup AreaPixels(g.updated_area),
              !.updated_area = NoArea]

\* Drawing into MemoryBitmap is not stretched.
Blit(g, ink) ==
    [g EXCEPT !.bitmap = [q \in Pixels |-> IF q \in DOMAIN ink THEN ink[q] ELSE @[q]],
              !.stretched = IF g.stretch_factor = 1 THEN @ \ DOMAIN ink
                            ELSE @ \cup (DOMAIN ink \cap Pixels)]

\* As large as stretched_x and stretched_y.
ScreenPixels(g) ==
    {q \in Pixels : /\ q[1] < g.stretch_factor * g.dimension[1]
                    /\ q[2] < g.stretch_factor * g.dimension[2]}
clear_screen(g) ==
    IF ~UIinited(g) THEN g
    ELSE updateUpdated(Blit(g, [q \in ScreenPixels(g) |-> Black]),
                       0, 0, g.dimension[1] - 1, g.dimension[2] - 1)

\* Whether UIinited is set is not asked here, and the rectangle grows even while
\* there is no bitmap to draw into.
TilePixels(t) ==
    {q \in Pixels : /\ X_TILESIZE * t[1] <= q[1] /\ q[1] < X_TILESIZE * t[1] + X_TILESIZE
                    /\ Y_TILESIZE * t[2] <= q[2] /\ q[2] < Y_TILESIZE * t[2] + Y_TILESIZE}
graphics_tile_update(g, v, t) ==
    updateUpdated(IF g.thread = "window" THEN g
                  ELSE Blit(g, [q \in TilePixels(t) |-> Picture(v, g.cmap, q)]),
                  X_TILESIZE * t[1], Y_TILESIZE * t[2],
                  X_TILESIZE * t[1] + X_TILESIZE - 1, Y_TILESIZE * t[2] + Y_TILESIZE - 1)

WM_PAINT(g) ==
    [g EXCEPT !.window = [q \in Pixels |-> IF q \in g.invalid THEN g.bitmap[q] ELSE @[q]],
              !.invalid = {}]

palette_change(g, index, colour) == [g EXCEPT !.cmap[index] = colour]

-----------------------------------------------------------------------------
(***************************************************************************)
(* The font: the copy of plane 2 that set_text_charmap and                 *)
(* set_text_charbyte make, and the bitmaps that set_font makes of it.      *)
(***************************************************************************)

CharMap(v) ==
    LET base == 2 * PLANE + v.charmap_address
    IN  {<<p[1] - base, p[2]>> : p \in {q \in v.memory : q[1] - base \in 0..(FONT - 1)}}
set_text_charmap(g, v) ==
    [g EXCEPT !.vga_charmap = CharMap(v), !.char_changed = Glyphs, !.charmap_updated = TRUE,
              !.bypassed = FALSE]
set_text_charbyte(g, v, a, byte) ==
    [g EXCEPT !.vga_charmap = {p \in @ : p[1] # a} \cup ({a} \X byte),
              !.char_changed = @ \cup ({a \div 32} \cap Glyphs), !.charmap_updated = TRUE]

\* Only as many rows of a character as it is high.
set_font(g) ==
    [g EXCEPT !.vgafont =
        {p \in @ : p[1] \div 32 \notin g.char_changed} \cup
        {p \in g.vga_charmap : /\ p[1] \div 32 \in g.char_changed
                               /\ p[1] % 32 < g.guest.fheight},
        !.char_changed = {}, !.charmap_updated = FALSE]

-----------------------------------------------------------------------------
(***************************************************************************)
(* Text.                                                                   *)
(***************************************************************************)

dimension_update(g, x, y, fheight, fwidth) ==
    LET stretch == IF <<x, y>> = g.dimension THEN g.stretch_factor
                   ELSE IF x < Narrow THEN 2 ELSE 1
    IN  [g EXCEPT !.guest = [xres |-> x, yres |-> y, fwidth |-> fwidth, fheight |-> fheight],
                  !.dimension = <<x, y>>, !.stretch_factor = stretch]

Panning(v) ==
    LET h == v.attribute_ctrl.horiz_pel_panning
    IN  [h_panning |-> IF Bit(v.sequencer.reg1, 0) THEN h % 8
                       ELSE IF h >= 8 THEN 0 ELSE h + 1,
         v_panning |-> v.CRTC.reg[8] % 32, line_compare |-> v.line_compare]
\* The row that line_compare cuts; what follows starts anew at address 0.
SplitRow(v, g) ==
    IF v.line_compare < 1023
    THEN ((v.line_compare + Panning(v).v_panning) \div g.guest.fheight) % 256
    ELSE 255
\* One row and one character more where panning cuts the first one.
WholeRows(v, g) == g.guest.yres \div g.guest.fheight + Number(Panning(v).v_panning > 0)
TextRows(v, g) ==
    IF SplitRow(v, g) < WholeRows(v, g)
    THEN SplitRow(v, g) + 1 +
         (g.guest.yres - v.line_compare + g.guest.fheight - 2) \div g.guest.fheight
    ELSE WholeRows(v, g)
RowPanning(v, g, y) ==
    IF y > SplitRow(v, g) /\ v.attribute_ctrl.pixel_panning_compat THEN 0
    ELSE Panning(v).h_panning
TextCols(v, g, y) ==
    g.guest.xres \div g.guest.fwidth + Number(RowPanning(v, g, y) > 0)
Characters(v, g) ==
    UNION {(0..(TextCols(v, g, y) - 1)) \X {y} : y \in 0..(TextRows(v, g) - 1)}

\* Where a row begins and how high it is, in bytes as the code counts.  The first
\* one starts in the middle of its characters.
RowTop(v, g, y) ==
    LET fh == g.guest.fheight
        above(n) == IF n = 0 THEN 0 ELSE ((fh - Panning(v).v_panning) % 256) + (n - 1) * fh
        split == SplitRow(v, g)
        cut == IF split = 0 THEN v.line_compare + 1
               ELSE ((v.line_compare + Panning(v).v_panning) % fh) + 1
    IN  IF y <= split THEN above(y) ELSE above(split) + cut + (y - split - 1) * fh
RowHeight(v, g, y) ==
    LET fh == g.guest.fheight
        pan == Panning(v).v_panning
        last == y = TextRows(v, g) - 1
        rest == (g.guest.yres - v.line_compare - 1) % fh
    IN  CASE y = SplitRow(v, g) -> RowTop(v, g, y + 1) - RowTop(v, g, y)
          [] y > SplitRow(v, g) -> IF last /\ rest > 0 THEN rest ELSE fh
          [] y < SplitRow(v, g) /\ pan > 0 /\ y = 0 -> (fh - pan) % 256
          [] y < SplitRow(v, g) /\ pan > 0 /\ y > 0 /\ last -> pan
          [] OTHER -> fh
Place(v, g, c) ==
    LET fw == g.guest.fwidth
        pan == RowPanning(v, g, c[2])
        last == c[1] = TextCols(v, g, c[2]) - 1
    IN  [x |-> IF c[1] = 0 THEN 0 ELSE c[1] * fw - pan,
         width |-> CASE c[1] = 0 -> fw - pan [] c[1] > 0 /\ pan > 0 /\ last -> pan
                     [] OTHER -> fw,
         y |-> RowTop(v, g, c[2]), height |-> RowHeight(v, g, c[2]),
         fx |-> IF c[1] = 0 THEN pan ELSE 0,
         fy |-> IF c[2] = 0 THEN Panning(v).v_panning ELSE 0]
InPlace(p, q) == q[1] - p.x \in 0..(p.width - 1) /\ q[2] - p.y \in 0..(p.height - 1)
CharactersAt(v, g, q) ==
    {c \in UNION {(0..(TextCols(v, g, y) - 1)) \X {y} :
                  y \in {r \in 0..(TextRows(v, g) - 1) :
                             q[2] - RowTop(v, g, r) \in 0..(RowHeight(v, g, r) - 1)}} :
        InPlace(Place(v, g, c), q)}

TextStart(v) == (2 * StartAddr(v)) % PLANE
TextAddress(v, g, c) ==
    IF c[2] > SplitRow(v, g) THEN (c[2] - SplitRow(v, g) - 1) * v.line_offset + 2 * c[1]
    ELSE TextStart(v) + c[2] * v.line_offset + 2 * c[1]

\* The top bit of an attribute makes the character blink.
Hidden(v, attribute) ==
    /\ v.attribute_ctrl.blink_intensity /\ ~v.cs_visible
    /\ Cardinality(Bits) - 1 \in attribute
\* A pixel of a character, given by the column and the row of its font.
CharPixel(v, g, code, attribute, column, row, swapped) ==
    [glyph |-> <<code, attribute, {p \in g.vgafont : p[1] \div 32 = Value(code)}>>,
     at |-> <<column, row>>, swapped |-> swapped,
     colours |-> <<g.cmap, v.attribute_ctrl.palette_reg, v.pel.mask,
                   v.attribute_ctrl.blink_intensity, Hidden(v, attribute)>>]
\* DrawBitmap draws a wide character from every column twice.
Column(g, p, q) ==
    p.fx + (IF g.guest.fwidth > 9 THEN (q[1] - p.x) \div 2 ELSE q[1] - p.x)
\* The cursor is drawn over the rows cs to ce of its character, with the colours
\* swapped, and starts with the row of the font that the character starts with.
draw_char(v, g, c, q, curs) ==
    LET a == TextAddress(v, g, c)
        p == Place(v, g, c)
        cs == v.CRTC.reg[10] % 64
        ce == v.CRTC.reg[11] % 32
        first == Greater(cs - p.fy, 0)
        rows == Lesser(ce - cs + 1, p.height - first)
        under == /\ curs /\ ce >= p.fy /\ cs < p.height + p.fy
                 /\ q[2] - p.y - first \in 0..(rows - 1)
    IN  CharPixel(v, g, Peek(v, a), Peek(v, a + 1), Column(g, p, q),
                  p.fy + q[2] - p.y - (IF under THEN first ELSE 0), under)

SnapPair(s, a) == <<{b \in Bits : <<a, b>> \in s}, {b \in Bits : <<a + 1, b>> \in s}>>
CursorAddress(v, rows) ==
    LET a == (2 * (256 * v.CRTC.reg[14] + v.CRTC.reg[15])) % PLANE
    IN  IF a < TextStart(v) \/ a > TextStart(v) + v.line_offset * rows THEN 65535 ELSE a
CursorVisible(v, g) ==
    /\ v.CRTC.reg[10] % 64 <= v.CRTC.reg[11] % 32 /\ v.CRTC.reg[10] % 64 < g.guest.fheight
    /\ v.attribute_ctrl.blink_intensity => v.cs_visible
\* The character at the cursor is made to look changed.
AtCursor(v, s, a) ==
    IF a = 65535 THEN s ELSE {p \in s : p[1] # a} \cup ({a} \X (Bits \ Peek(v, a)))

\* draw_char for every character of a set.  That DrawBitmap calls updateUpdated
\* for each of them comes to one call for the rectangle around them all.
DrawCharacters(v, g, drawn, cursor) ==
    LET over(q) == CharactersAt(v, g, q) \cap drawn
        ink == [q \in {p \in Pixels : over(p) # {}} |->
                   LET c == CHOOSE x \in over(q) : TRUE
                   IN  draw_char(v, g, c, q, TextAddress(v, g, c) % PLANE = cursor)]
        places == {Place(v, g, c) : c \in drawn}
    IN  IF ~UIinited(g) \/ drawn = {} THEN g
        ELSE updateUpdated(Blit(g, ink),
                 Min({p.x : p \in places}), Min({p.y : p \in places}),
                 Max({p.x + p.width - 1 : p \in places}),
                 Max({p.y + p.height - 1 : p \in places}))

text_update_common(v, g, rows, toggle) ==
    LET cursor == CursorAddress(v, rows)
        snapshot == AtCursor(v, v.text_snapshot, cursor)
        fonts == IF g.charmap_updated THEN set_font(g) ELSE g
        force == \/ v.attribute_ctrl.blink_intensity /\ toggle
                 \/ g.charmap_updated
                 \/ g.tm_info # Panning(v)
        changed(c) ==
            \/ force
            \/ c[2] > SplitRow(v, g)
            \/ SnapPair(snapshot, TextAddress(v, g, c)) #
                   SnapPair(v.memory, TextAddress(v, g, c))
    IN  [vga |-> [v EXCEPT !.text_snapshot = snapshot],
         gui |-> DrawCharacters(v, [fonts EXCEPT !.tm_info = Panning(v)],
                                {c \in Characters(v, g) : changed(c)},
                                IF CursorVisible(v, g) THEN cursor ELSE 65535)]

-----------------------------------------------------------------------------
(***************************************************************************)
(* VgaCoreUpdate.  The cursor counter starts over with every call, so that *)
(* every call is one that lets the cursor blink.                           *)
(***************************************************************************)

\* The request of the sequencer to clear the screen is served even when the
\* rest is skipped.
Cleared(v, g) ==
    [vga |-> [v EXCEPT !.sequencer.clear_screen = FALSE],
     gui |-> IF v.sequencer.clear_screen THEN clear_screen(g) ELSE g]

\* The loops over the tiles, line by line.
DrawTiles(v, g, due) ==
    LET tile(i) == <<i % NumX, i \div NumX>>
        drawn[n \in 0..(NumX * NumY)] ==
            IF n = 0 THEN g
            ELSE IF tile(n - 1) \in due THEN graphics_tile_update(drawn[n - 1], v, tile(n - 1))
            ELSE drawn[n - 1]
    IN  drawn[NumX * NumY]

GraphicsUpdate(v, g, toggle) ==
    LET sized == [v EXCEPT !.last_xres = Width(v), !.last_yres = Height(v)]
        c == Cleared(sized, g)
        planar == v.graphics_ctrl.shift_reg = 0 /\ ~Cga2(v)
        due == IF planar /\ toggle THEN OnScreen(v) ELSE OnScreen(v) \cap v.tiles
    IN  IF VgaCoreSkipUpdate(v) THEN c
        ELSE [vga |-> [c.vga EXCEPT !.tiles = @ \ due, !.vga_mem_updated = FALSE],
              gui |-> DrawTiles(v, c.gui, due)]

CharHeight(v) ==
    LET MSL == v.CRTC.reg[9] % 32
    IN  CASE v.CRTC.reg[1] = 0 \/ MSL = 0 -> 16
          [] v.CRTC.reg[1] # 0 /\ MSL = 1 /\ v.vertical_display_end = 399 -> 4
          [] OTHER -> MSL + 1
CharWidth(v) ==
    (IF Bit(v.sequencer.reg1, 0) THEN 8 ELSE 9) * (1 + Number(v.x_dotclockdiv2))
Columns(v) ==
    IF v.CRTC.reg[1] = 0 \/ v.CRTC.reg[9] % 32 = 0 THEN 80 ELSE v.CRTC.reg[1] + 1

TextResized(v, g) ==
    LET x == CharWidth(v) * Columns(v)
        y == v.vertical_display_end + 1
    IN  IF <<v.last_xres, v.last_yres, v.last_fw, v.last_fh>> =
               <<x, y, CharWidth(v), CharHeight(v)>>
        THEN [vga |-> v, gui |-> g]
        ELSE [vga |-> [v EXCEPT !.last_xres = x, !.last_yres = y,
                                !.last_fw = CharWidth(v), !.last_fh = CharHeight(v)],
              gui |-> dimension_update(g, x, y, CharHeight(v), CharWidth(v))]

Snapshot(m, v, rows) ==
    LET end == v.line_offset * rows + TextStart(v)
    IN  IF ~v.vga_mem_updated THEN m
        ELSE [m EXCEPT !.vga.vga_mem_updated = FALSE,
                       !.vga.text_snapshot = {p \in @ : p[1] >= end} \cup
                                             {p \in v.memory : p[1] < end}]

\* Mutant: the snapshot is taken over although the update is skipped.
TextUpdateSkipped(v, g, toggle) ==
    LET rows == (v.vertical_display_end + 1) \div CharHeight(v)
        sized == TextResized(v, g)
        c == Cleared(sized.vga, sized.gui)
    IN  IF rows * v.line_offset > 131072 THEN [vga |-> v, gui |-> g]
        ELSE IF VgaCoreSkipUpdate(v) THEN Snapshot(c, v, rows)
        ELSE Snapshot(text_update_common(c.vga, c.gui, rows, toggle), v, rows)
TextUpdate(v, g, toggle) ==
    LET rows == (v.vertical_display_end + 1) \div CharHeight(v)
        sized == TextResized(v, g)
        c == Cleared(sized.vga, sized.gui)
    IN  IF rows * v.line_offset > 131072 THEN [vga |-> v, gui |-> g]
        ELSE IF VgaCoreSkipUpdate(v) THEN c
        ELSE Snapshot(text_update_common(c.vga, c.gui, rows, toggle), v, rows)

\* The loops over the rows and the characters of a text count down to zero: with
\* no whole row they start by counting below it, and run off the memory.
Endless(v, g) ==
    LET rows == (v.vertical_display_end + 1) \div CharHeight(v)
        guest == TextResized(v, g).gui.guest
    IN  /\ ~IsGraphics(v) /\ rows * v.line_offset <= 131072 /\ ~VgaCoreSkipUpdate(v)
        /\ ~(/\ guest.fwidth \in 1..guest.xres /\ guest.fheight > 0
             /\ WholeRows(v, TextResized(v, g).gui) > 0)

VgaCoreUpdate(v, g) ==
    LET toggle == ~IsGraphics(v) \/ v.attribute_ctrl.blink_intensity
        w == [v EXCEPT !.cs_visible = toggle /\ ~@]
    IN  IF ~toggle /\ ~v.vga_mem_updated THEN [vga |-> v, gui |-> g]
        ELSE IF IsGraphics(v) THEN GraphicsUpdate(w, g, toggle)
        ELSE TextUpdate(w, g, toggle)

VgaCoreTimerHandler(v, g) ==
    LET m == VgaCoreUpdate(v, g)
    IN  [vga |-> m.vga, gui |-> flush(m.gui)]
=============================================================================
