------------------------------ MODULE VgaCore ------------------------------
(***************************************************************************)
(* The video memory of the VGA (vgacore.c): how the guest reads and writes *)
(* it, which tiles of the screen a write marks for the next update, and    *)
(* where the update finds the pixels of a tile.                            *)
(*                                                                         *)
(* A byte is the set of its bits, and a byte of pixels is compared whole:  *)
(* which of its bits a pixel is does not matter to what has to be drawn.   *)
(* Registers keep their numbers and their eight bits.                      *)
(***************************************************************************)
EXTENDS Integers, FiniteSets, FiniteSetsExt, Sequences

CONSTANTS
    Bits,           \* of a byte, numbered from 0
    Y_TILESIZE,     \* lines of a tile
    NumX, NumY,     \* num_x_tiles and num_y_tiles
    DacSize         \* of the palette

ASSUME VgaAssumption ==
    /\ \E n \in 1..8 : Bits = 0..(n - 1)
    /\ Y_TILESIZE \in Nat /\ Y_TILESIZE % 2 = 0 /\ Y_TILESIZE > 0
    /\ NumX \in Nat \ {0} /\ NumY \in Nat \ {0} /\ DacSize \in Nat \ {0}

X_TILESIZE == 16
PLANE == 65536
Planes == 0..3
Tiles == (0..(NumX - 1)) \X (0..(NumY - 1))
Byte == SUBSET Bits

Bit(v, n) == (v \div 2^n) % 2 = 1
ByteOf(v) == {b \in Bits : Bit(v, b)}
PlanesOf(v) == {p \in Planes : Bit(v, p)}
Number(b) == IF b THEN 1 ELSE 0
Black == [look |-> <<>>, px |-> <<>>]

-----------------------------------------------------------------------------
(***************************************************************************)
(* The registers.  VGA is what struct VgaCore holds; its memory is the set *)
(* of the bits that are set, and so is the text snapshot.                  *)
(***************************************************************************)

GRAPHICS_CTRL ==
    [index: 0..255, set_reset: SUBSET Planes, enable_set_reset: SUBSET Planes,
     color_compare: SUBSET Planes, data_rotate: 0..7, raster_op: 0..3,
     read_map_select: Planes, write_mode: 0..3, read_mode: 0..1, shift_reg: 0..3,
     graphics_alpha: BOOLEAN, memory_mapping: 0..3, color_dont_care: SUBSET Planes,
     bitmask: Byte, latch: [Planes -> Byte]]
SEQUENCER ==
    [index: 0..255, map_mask: SUBSET Planes, reset1: BOOLEAN, reset2: BOOLEAN,
     reg1: 0..255, char_map_select: 0..63, chain_four: BOOLEAN, clear_screen: BOOLEAN]
ATTRIBUTE_CTRL ==
    [flip_flop: BOOLEAN, address: 0..31, video_enabled: BOOLEAN, palette_reg: 0..255,
     color_plane_enable: SUBSET Planes, horiz_pel_panning: 0..15, color_select: 0..15,
     graphics_alpha: BOOLEAN, enable_line_graphics: BOOLEAN, blink_intensity: BOOLEAN,
     pixel_panning_compat: BOOLEAN, internal_palette_size: BOOLEAN]
RGB == [red: 0..255, green: 0..255, blue: 0..255]
PEL ==
    [write_data_register: 0..(DacSize - 1), write_data_cycle: 0..2,
     read_data_register: 0..(DacSize - 1), read_data_cycle: 0..2,
     dac_state: {0, 1, 3}, data: [0..(DacSize - 1) -> RGB], mask: 0..255]
CRTC == [address: 0..63, reg: [0..24 -> 0..255], write_protect: BOOLEAN]

\* A bit of the memory.  The upper half of the window of 128K is a plane further
\* on than the plane it is written to, which for plane 3 is behind the end of
\* what is allocated; what is read there is taken to be what was written.
Addresses == 0..(5 * PLANE - 1)
CELL == Addresses \X Bits
Lines == 0..1023
LineOffsets == 0..2040
ScreenWidths == 0..4608
ScreenHeights == 0..1024
CharWidths == {0, 8, 9, 16, 18}
CharHeights == 0..32
CharMaps == {0, 8192, 16384, 24576, 32768, 40960, 49152, 57344}
VGA ==
    [graphics_ctrl: GRAPHICS_CTRL, sequencer: SEQUENCER, attribute_ctrl: ATTRIBUTE_CTRL,
     pel: PEL, CRTC: CRTC, color_emulation: BOOLEAN, vga_enabled: BOOLEAN,
     vga_mem_updated: BOOLEAN, cs_visible: BOOLEAN, tiles: SUBSET Tiles,
     memory: SUBSET CELL, text_snapshot: SUBSET CELL,
     line_offset: LineOffsets, line_compare: Lines, vertical_display_end: Lines,
     x_dotclockdiv2: BOOLEAN, y_doublescan: BOOLEAN,
     last_xres: ScreenWidths, last_yres: ScreenHeights,
     last_fw: CharWidths, last_fh: CharHeights, charmap_address: CharMaps]
VgaTypeOK(v) == v \in VGA

Peek(v, a) == {b \in Bits : <<a, b>> \in v.memory}
Poke(v, a, byte) ==
    [v EXCEPT !.memory = {p \in @ : p[1] # a} \cup ({a} \X byte)]

StartAddr(v) == 256 * v.CRTC.reg[12] + v.CRTC.reg[13]
IsGraphics(v) == v.graphics_ctrl.graphics_alpha
DoubleWord(v) == Bit(v.CRTC.reg[20], 6)
ByteMode(v) == Bit(v.CRTC.reg[23], 6)
Cga2(v) == v.graphics_ctrl.shift_reg = 0 /\ ~Bit(v.CRTC.reg[23], 0)

Width(v) == (v.CRTC.reg[1] + 1) * 8 * (1 + Number(v.x_dotclockdiv2))
Height(v) ==
    v.CRTC.reg[18] + 256 * Number(Bit(v.CRTC.reg[7], 1))
                   + 512 * Number(Bit(v.CRTC.reg[7], 6)) + 1

-----------------------------------------------------------------------------
(***************************************************************************)
(* Where a pixel comes from.                                               *)
(***************************************************************************)

Halved(n, b) == IF b THEN n \div 2 ELSE n
CgaAddress(v, x, y) == StartAddr(v) + 8192 * (y % 2) + 80 * (y \div 2) + x

PlanarOffset(v, x, y) ==
    LET lc == Halved(v.line_compare, v.y_doublescan)
        byte == Halved(x, v.x_dotclockdiv2) \div 8
    IN  IF y > lc THEN byte + (y - lc - 1) * v.line_offset
        ELSE StartAddr(v) + byte + y * v.line_offset

PackedOffset(v, x, y) ==
    LET pixel == x \div 2
        byte == CASE DoubleWord(v) -> 4 * (pixel \div 4)
                  [] ~DoubleWord(v) /\ ByteMode(v) -> pixel \div 4
                  [] OTHER -> 2 * (pixel \div 4)
    IN  StartAddr(v) + (pixel % 4) * PLANE + y * v.line_offset + byte

\* The bytes a pixel is made of.
VgaCoreGetVgaPixel(v, x, y) ==
    [p \in Planes |-> IF p \in v.attribute_ctrl.color_plane_enable
                      THEN Peek(v, p * PLANE + PlanarOffset(v, x, y)) ELSE {}]
Pixel(v, x, line) ==
    LET y == Halved(line, v.y_doublescan)
    IN  CASE Cga2(v) -> <<Peek(v, CgaAddress(v, x \div 8, y))>>
          [] v.graphics_ctrl.shift_reg = 0 /\ ~Cga2(v) -> VgaCoreGetVgaPixel(v, x, y)
          [] v.graphics_ctrl.shift_reg = 1 ->
                 <<Peek(v, CgaAddress(v, Halved(x, v.x_dotclockdiv2) \div 4, y))>>
          [] OTHER -> <<Peek(v, PackedOffset(v, x, y))>>

\* What the colours of the whole screen depend on besides.
Look(v, cmap) ==
    CASE v.graphics_ctrl.shift_reg = 0 /\ ~Cga2(v) ->
             <<cmap, v.attribute_ctrl.palette_reg, v.pel.mask,
               v.attribute_ctrl.internal_palette_size, v.attribute_ctrl.color_select,
               v.attribute_ctrl.blink_intensity,
               v.attribute_ctrl.blink_intensity /\ v.cs_visible>>
      [] v.graphics_ctrl.shift_reg > 1 -> <<cmap>>
      [] OTHER -> <<cmap, v.attribute_ctrl.palette_reg>>

Picture(v, cmap, q) == [look |-> Look(v, cmap), px |-> Pixel(v, q[1], q[2])]

OnScreen(v) ==
    {t \in Tiles : X_TILESIZE * t[1] < Width(v) /\ Y_TILESIZE * t[2] < Height(v)}

-----------------------------------------------------------------------------
(***************************************************************************)
(* The memory as the guest sees it.                                        *)
(***************************************************************************)

WindowBase(mapping) == CASE mapping = 2 -> 720896 [] mapping = 3 -> 753664 [] OTHER -> 655360
WindowSize(mapping) == CASE mapping = 0 -> 131072 [] mapping = 1 -> PLANE [] OTHER -> 32768
InWindow(v, address) ==
    address - WindowBase(v.graphics_ctrl.memory_mapping)
        \in 0..(WindowSize(v.graphics_ctrl.memory_mapping) - 1)
OffsetOf(v, address) == address - WindowBase(v.graphics_ctrl.memory_mapping)
Chained(offset) == 4 * (offset \div 4) + (offset % 4) * PLANE

LoadLatch(v, offset) ==
    [v EXCEPT !.graphics_ctrl.latch = [p \in Planes |-> Peek(v, p * PLANE + offset)]]

\* Reading loads the latches, unless the planes are chained or the address is
\* outside of the window.  The byte that is read changes nothing.
_VgaCoreMMIOReadHandler(v, address) ==
    IF ~InWindow(v, address) \/ v.sequencer.chain_four THEN v
    ELSE LoadLatch(v, OffsetOf(v, address))

Xor(s, t) == (s \ t) \cup (t \ s)
Rotate(g, byte) == {b \in Bits : (b + g.data_rotate) % Cardinality(Bits) \in byte}

WriteMode0(g, p, byte) ==
    LET mask == g.bitmask
        latch == g.latch[p]
        set == p \in g.set_reset
        value == Rotate(g, byte)
    IN  (latch \ mask) \cup
        (IF p \in g.enable_set_reset
         THEN CASE g.raster_op = 0 -> IF set THEN mask ELSE {}
                [] g.raster_op = 1 -> IF set THEN latch \cap mask ELSE {}
                [] g.raster_op = 2 -> IF set THEN mask ELSE latch \cap mask
                [] OTHER -> IF set THEN mask \ latch ELSE latch \cap mask
         ELSE CASE g.raster_op = 0 -> value \cap mask
                [] g.raster_op = 1 -> value \cap latch \cap mask
                [] g.raster_op = 2 -> (value \cup latch) \cap mask
                [] OTHER -> Xor(value, latch) \cap mask)

WriteMode2(g, p, byte) ==
    LET mask == g.bitmask
        latch == g.latch[p]
        set == p \in byte
    IN  (latch \ mask) \cup
        (CASE g.raster_op = 0 -> IF set THEN mask ELSE {}
           [] g.raster_op = 1 -> IF set THEN latch \cap mask ELSE {}
           [] g.raster_op = 2 -> IF set THEN mask ELSE latch \cap mask
           [] OTHER -> IF set THEN mask \ latch ELSE latch \cap mask)

\* Mutant: the mask register does not narrow the value that is set.
WriteMode3Wide(g, p, byte) ==
    LET value == IF p \in g.set_reset THEN Rotate(g, byte) \cap byte ELSE {}
    IN  (g.latch[p] \ (g.bitmask \cap byte)) \cup
        (CASE g.raster_op = 0 -> value
           [] g.raster_op = 1 -> value \cap g.latch[p]
           [] g.raster_op = 2 -> value \cup g.latch[p]
           [] OTHER -> Xor(value, g.latch[p]))

\* The mask is taken from the value before it is rotated.
WriteMode3(g, p, byte) ==
    LET mask == g.bitmask \cap byte
        value == IF p \in g.set_reset THEN Rotate(g, byte) \cap mask ELSE {}
    IN  (g.latch[p] \ mask) \cup
        (CASE g.raster_op = 0 -> value
           [] g.raster_op = 1 -> value \cap g.latch[p]
           [] g.raster_op = 2 -> value \cup g.latch[p]
           [] OTHER -> Xor(value, g.latch[p]))

NewValue(g, p, byte) ==
    CASE g.write_mode = 0 -> WriteMode0(g, p, byte)
      [] g.write_mode = 1 -> g.latch[p]
      [] g.write_mode = 2 -> WriteMode2(g, p, byte)
      [] OTHER -> WriteMode3(g, p, byte)

-----------------------------------------------------------------------------
(***************************************************************************)
(* The tiles a write marks.  A tile off the screen is not recorded, which  *)
(* is also where an offset below the start address ends up, taken as an    *)
(* unsigned number.                                                        *)
(***************************************************************************)

Mark(v, ts) == [v EXCEPT !.vga_mem_updated = TRUE, !.tiles = @ \cup (ts \cap Tiles)]
YTile(v, line) == line \div (IF v.y_doublescan THEN Y_TILESIZE \div 2 ELSE Y_TILESIZE)

CgaTiles(v, offset) ==
    LET d == offset - StartAddr(v)
        line == IF d >= 8192 THEN 2 * ((d - 8192) \div 80) + 1 ELSE 2 * (d \div 80)
        x == 4 * ((IF d >= 8192 THEN d - 8192 ELSE d) % 80)
        first == IF v.graphics_ctrl.shift_reg = 0 THEN 2 * x ELSE x
        last == IF v.graphics_ctrl.shift_reg = 0 THEN x + 7 ELSE x + 3
        size == Halved(X_TILESIZE, v.x_dotclockdiv2)
    IN  IF d < 0 THEN {}
        ELSE {<<first \div size, YTile(v, line)>>, <<last \div size, YTile(v, line)>>}

ChainedTiles(v, offset) ==
    LET d == offset - StartAddr(v)
    IN  IF d < 0 THEN {}
        ELSE {<<(d % v.line_offset) \div (X_TILESIZE \div 2), YTile(v, d \div v.line_offset)>>}

\* Bytes of four pixels that are drawn twice as wide.
PackedTiles(v, offset) ==
    LET d == offset - StartAddr(v)
    IN  IF d < 0 THEN {}
        ELSE {<<(4 * (d % v.line_offset)) \div (X_TILESIZE \div 2),
                YTile(v, d \div v.line_offset)>>}

PlanarColumn(v, offset) ==
    (offset % v.line_offset) \div (X_TILESIZE \div (IF v.x_dotclockdiv2 THEN 16 ELSE 8))
\* Below line_compare the screen starts anew at offset 0.
SplitTiles(v, offset) ==
    {<<PlanarColumn(v, offset),
       ((offset \div v.line_offset) * (1 + Number(v.y_doublescan)) + v.line_compare + 1)
           \div Y_TILESIZE>>}
MainTiles(v, offset) ==
    LET d == offset - StartAddr(v)
    IN  {<<PlanarColumn(v, d), YTile(v, d \div v.line_offset)>>}

\* Mutant: only the part above the split is marked.
PlanarTilesAbove(v, offset) ==
    IF v.line_offset > 0 /\ offset >= StartAddr(v) THEN MainTiles(v, offset) ELSE {}
PlanarTiles(v, offset) ==
    (IF v.line_offset > 0 /\ v.line_compare < v.vertical_display_end
     THEN SplitTiles(v, offset) ELSE {})
    \cup (IF v.line_offset > 0 /\ offset >= StartAddr(v) THEN MainTiles(v, offset) ELSE {})

CgaWrite(v, offset, byte) == Mark(Poke(v, offset, byte), CgaTiles(v, offset))
ChainFourWrite(v, offset, byte) ==
    LET w == Poke(v, Chained(offset), byte)
    IN  IF v.line_offset > 0 THEN Mark(w, ChainedTiles(v, offset)) ELSE w

PokePlanes(v, offset, byte) ==
    [v EXCEPT !.memory =
        {p \in @ : p[1] \notin {q * PLANE + offset : q \in v.sequencer.map_mask}} \cup
        UNION {{q * PLANE + offset} \X NewValue(v.graphics_ctrl, q, byte) :
               q \in v.sequencer.map_mask}]
\* Whether the write divides by a line offset of zero.
Divides(v) ==
    v.graphics_ctrl.shift_reg = 2 /\ v.line_offset = 0 /\ v.sequencer.map_mask # {}
PlanarWrite(v, offset, byte) ==
    IF v.sequencer.map_mask = {} THEN v
    ELSE Mark(PokePlanes(v, offset, byte),
              IF v.graphics_ctrl.shift_reg = 2 THEN PackedTiles(v, offset)
              ELSE PlanarTiles(v, offset))

WritesCga(v) == IsGraphics(v) /\ v.graphics_ctrl.memory_mapping = 3
WritesChained(v) == IsGraphics(v) /\ ~WritesCga(v) /\ v.sequencer.chain_four
_VgaCoreMMIOWriteHandler(v, address, byte) ==
    LET offset == OffsetOf(v, address)
    IN  CASE ~InWindow(v, address) -> v
          [] InWindow(v, address) /\ WritesCga(v) -> CgaWrite(v, offset, byte)
          [] InWindow(v, address) /\ WritesChained(v) -> ChainFourWrite(v, offset, byte)
          [] OTHER -> PlanarWrite(v, offset, byte)

\* A write that can change the font without telling the copy of it: chained, or
\* to the plane behind the one it is meant for.
Bypasses(v, address) ==
    /\ InWindow(v, address) /\ ~WritesCga(v)
    /\ WritesChained(v) \/ OffsetOf(v, address) >= PLANE

\* Mutant: whichever character map is selected.
CharByteAny(v, address) ==
    LET offset == OffsetOf(v, address)
    IN  IF /\ InWindow(v, address) /\ ~WritesCga(v) /\ ~WritesChained(v)
           /\ 2 \in v.sequencer.map_mask
        THEN {offset % 8192} ELSE {}
\* The byte of the character map that the write changes as well, if any.
CharByte(v, address) ==
    LET offset == OffsetOf(v, address)
    IN  IF /\ InWindow(v, address) /\ ~WritesCga(v) /\ ~WritesChained(v)
           /\ 2 \in v.sequencer.map_mask
           /\ 8192 * ((offset % PLANE) \div 8192) = v.charmap_address
        THEN {offset % 8192} ELSE {}

-----------------------------------------------------------------------------
(***************************************************************************)
(* Marking the whole screen.                                               *)
(***************************************************************************)

redraw_area(v) ==
    IF IsGraphics(v)
    THEN Mark(v, (0..((v.last_xres - 1) \div X_TILESIZE)) \X
                 (0..((v.last_yres - 1) \div Y_TILESIZE)))
    ELSE [v EXCEPT !.vga_mem_updated = TRUE, !.text_snapshot = {}]
Redraws(v) == v.last_xres # 0 /\ v.last_yres # 0
vga_redraw_area(v) == IF Redraws(v) THEN redraw_area(v) ELSE v

VgaCoreSkipUpdate(v) ==
    \/ ~v.vga_enabled
    \/ ~v.attribute_ctrl.video_enabled
    \/ v.attribute_ctrl.graphics_alpha # v.graphics_ctrl.graphics_alpha
    \/ ~v.sequencer.reset1
    \/ ~v.sequencer.reset2
    \/ Bit(v.sequencer.reg1, 5)
=============================================================================
