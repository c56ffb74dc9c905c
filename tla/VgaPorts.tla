------------------------------ MODULE VgaPorts ------------------------------
(***************************************************************************)
(* The ports of the VGA (VgaCorePortIoWriteHandler behind the filter of    *)
(* vga.c, VgaCorePortIoReadHandler).  A write that changes what is on the  *)
(* screen asks for a redraw, one that changes the font for a copy of it.   *)
(***************************************************************************)
EXTENDS VgaCore

\* What a write leaves behind besides the registers: needs_update,
\* charmap_update, and a call of clear_screen or palette_change_common.
None == [redraw |-> FALSE, charmap |-> FALSE, clear |-> FALSE, palette |-> FALSE]
Quiet(v) == [vga |-> v, effect |-> None]
Redraw(v) == [vga |-> v, effect |-> [None EXCEPT !.redraw = TRUE]]
RedrawIf(v, c) == IF c THEN Redraw(v) ELSE Quiet(v)

-----------------------------------------------------------------------------
(***************************************************************************)
(* Port 3C0: index and data in turn.                                       *)
(***************************************************************************)

WriteAttributeIndex(v, value) ==
    LET on == Bit(value, 5)
        w == [v EXCEPT !.attribute_ctrl.video_enabled = on,
                       !.attribute_ctrl.address = value % 32]
    IN  [vga |-> w,
         effect |-> [None EXCEPT !.clear = ~on,
                                 !.redraw = on /\ ~v.attribute_ctrl.video_enabled]]

WriteModeControl(v, value) ==
    LET a == v.attribute_ctrl
        w == [v EXCEPT !.attribute_ctrl =
                  [@ EXCEPT !.graphics_alpha = Bit(value, 0),
                            !.enable_line_graphics = Bit(value, 2),
                            !.blink_intensity = Bit(value, 3),
                            !.pixel_panning_compat = Bit(value, 5),
                            !.internal_palette_size = Bit(value, 7)]]
    IN  [vga |-> w,
         effect |-> [None EXCEPT !.charmap = Bit(value, 2) # a.enable_line_graphics,
                                 !.redraw = Bit(value, 7) # a.internal_palette_size]]

\* The sixteen palette registers are one.
WriteAttributeData(v, value) ==
    LET r == v.attribute_ctrl.address
    IN  CASE r < 16 -> RedrawIf([v EXCEPT !.attribute_ctrl.palette_reg = value],
                                value # v.attribute_ctrl.palette_reg)
          [] r = 16 -> WriteModeControl(v, value)
          [] r = 18 -> Redraw([v EXCEPT !.attribute_ctrl.color_plane_enable = PlanesOf(value)])
          [] r = 19 -> Redraw([v EXCEPT !.attribute_ctrl.horiz_pel_panning = value % 16])
          [] r = 20 -> Redraw([v EXCEPT !.attribute_ctrl.color_select = value % 16])
          [] OTHER -> Quiet(v)

Flip(v) == [v EXCEPT !.attribute_ctrl.flip_flop = ~@]
WriteAttribute(v, value) ==
    IF v.attribute_ctrl.flip_flop THEN WriteAttributeData(Flip(v), value)
    ELSE WriteAttributeIndex(Flip(v), value)

-----------------------------------------------------------------------------
(***************************************************************************)
(* The sequencer.                                                          *)
(***************************************************************************)

WriteSequencerReset(v, value) ==
    LET resets == v.sequencer.reset1 /\ ~Bit(value, 0)
        s == [v.sequencer EXCEPT !.reset1 = Bit(value, 0), !.reset2 = Bit(value, 1)]
        w == [v EXCEPT !.sequencer = s]
    IN  IF resets
        THEN [vga |-> [w EXCEPT !.sequencer.char_map_select = 0, !.charmap_address = 0],
              effect |-> [None EXCEPT !.charmap = TRUE]]
        ELSE Quiet(w)

\* Bits 0, 3 and 5: character width, dot clock and screen off.
WriteClocking(v, value) ==
    LET changed == \E b \in {0, 3, 5} : Bit(value, b) # Bit(v.sequencer.reg1, b)
        kept == (value % 2) + 4 * ((value \div 4) % 16)
        w == [v EXCEPT !.sequencer.reg1 = kept]
    IN  IF changed
        THEN Redraw([w EXCEPT !.x_dotclockdiv2 = Bit(value, 3),
                              !.sequencer.clear_screen = Bit(value, 5)])
        ELSE Quiet(w)

charmap_offset ==
    <<0, 16384, 32768, 49152, 8192, 24576, 40960, 57344>>
WriteCharMapSelect(v, value) ==
    LET map == (value % 4) + 4 * Number(Bit(value, 4))
        w == [v EXCEPT !.sequencer.char_map_select = value % 64]
    IN  IF v.CRTC.reg[9] > 0
        THEN [vga |-> [w EXCEPT !.charmap_address = charmap_offset[map + 1]],
              effect |-> [None EXCEPT !.charmap = TRUE]]
        ELSE Quiet(w)

WriteSequencer(v, value) ==
    CASE v.sequencer.index = 0 -> WriteSequencerReset(v, value)
      [] v.sequencer.index = 1 -> WriteClocking(v, value)
      [] v.sequencer.index = 2 -> Quiet([v EXCEPT !.sequencer.map_mask = PlanesOf(value)])
      [] v.sequencer.index = 3 -> WriteCharMapSelect(v, value)
      [] v.sequencer.index = 4 -> Quiet([v EXCEPT !.sequencer.chain_four = Bit(value, 3)])
      [] OTHER -> Quiet(v)

-----------------------------------------------------------------------------
(***************************************************************************)
(* The palette: three bytes to an entry, which takes effect with the last. *)
(***************************************************************************)

WritePelMask(v, value) == RedrawIf([v EXCEPT !.pel.mask = value], value # v.pel.mask)
WritePelRead(v, value) ==
    Quiet([v EXCEPT !.pel = [@ EXCEPT !.read_data_register = value % DacSize,
                                      !.read_data_cycle = 0, !.dac_state = 3]])
WritePelWrite(v, value) ==
    Quiet([v EXCEPT !.pel = [@ EXCEPT !.write_data_register = value % DacSize,
                                      !.write_data_cycle = 0, !.dac_state = 0]])

WritePelData(v, value) ==
    LET p == v.pel
        r == p.write_data_register
        colour == CASE p.write_data_cycle = 0 -> [p.data[r] EXCEPT !.red = value]
                    [] p.write_data_cycle = 1 -> [p.data[r] EXCEPT !.green = value]
                    [] OTHER -> [p.data[r] EXCEPT !.blue = value]
        last == p.write_data_cycle = 2
    IN  [vga |-> [v EXCEPT !.pel =
                    [@ EXCEPT !.data[r] = colour,
                              !.write_data_cycle = (p.write_data_cycle + 1) % 3,
                              !.write_data_register = IF last THEN (r + 1) % DacSize ELSE r]],
         effect |-> [None EXCEPT !.palette = last, !.redraw = last]]

ReadPelData(v) ==
    LET p == v.pel
        r == p.read_data_register
        last == p.read_data_cycle = 2
    IN  IF p.dac_state # 3 THEN v
        ELSE [v EXCEPT !.pel =
                 [@ EXCEPT !.read_data_cycle = (p.read_data_cycle + 1) % 3,
                           !.read_data_register = IF last THEN (r + 1) % DacSize ELSE r]]

-----------------------------------------------------------------------------
(***************************************************************************)
(* The graphics controller.                                                *)
(***************************************************************************)

WriteGraphicsMode(v, value) ==
    Quiet([v EXCEPT !.graphics_ctrl =
              [@ EXCEPT !.write_mode = value % 4, !.read_mode = (value \div 8) % 2,
                        !.shift_reg = (value \div 32) % 4]])

\* With the kind of mode the height that was drawn is forgotten, so that the
\* redraw asked for here does nothing.
WriteMiscellaneous(v, value) ==
    LET g == v.graphics_ctrl
        w == [v EXCEPT !.graphics_ctrl =
                 [@ EXCEPT !.graphics_alpha = Bit(value, 0),
                           !.memory_mapping = (value \div 4) % 4]]
    IN  IF Bit(value, 0) # g.graphics_alpha THEN Redraw([w EXCEPT !.last_yres = 0])
        ELSE RedrawIf(w, (value \div 4) % 4 # g.memory_mapping)

WriteGraphics(v, value) ==
    LET planes == PlanesOf(value)
        i == v.graphics_ctrl.index
    IN  CASE i = 0 -> Quiet([v EXCEPT !.graphics_ctrl.set_reset = planes])
          [] i = 1 -> Quiet([v EXCEPT !.graphics_ctrl.enable_set_reset = planes])
          [] i = 2 -> Quiet([v EXCEPT !.graphics_ctrl.color_compare = planes])
          [] i = 3 -> Quiet([v EXCEPT !.graphics_ctrl.data_rotate = value % 8,
                                      !.graphics_ctrl.raster_op = (value \div 8) % 4])
          [] i = 4 -> Quiet([v EXCEPT !.graphics_ctrl.read_map_select = value % 4])
          [] i = 5 -> WriteGraphicsMode(v, value)
          [] i = 6 -> WriteMiscellaneous(v, value)
          [] i = 7 -> Quiet([v EXCEPT !.graphics_ctrl.color_dont_care = planes])
          [] i = 8 -> Quiet([v EXCEPT !.graphics_ctrl.bitmask = ByteOf(value)])
          [] OTHER -> Quiet(v)

-----------------------------------------------------------------------------
(***************************************************************************)
(* The CRT controller.  Three of its registers carry the high bits of      *)
(* line_compare and vertical_display_end.                                  *)
(***************************************************************************)

LowByte(n, byte) == 256 * (n \div 256) + byte
Bit8(n, b) == (n % 256) + 512 * (n \div 512) + 256 * Number(b)
Bit9(n, b) == (n % 512) + 512 * Number(b)

LineOffset(reg) ==
    2 * reg[19] * (CASE Bit(reg[20], 6) -> 4
                     [] ~Bit(reg[20], 6) /\ ~Bit(reg[23], 6) -> 2
                     [] OTHER -> 1)

WriteProtected(v, value) ==
    IF v.CRTC.address = 7
    THEN Redraw([v EXCEPT !.CRTC.reg[7] =
                              @ - 16 * Number(Bit(@, 4)) + 16 * Number(Bit(value, 4)),
                          !.line_compare = Bit8(@, Bit(value, 4))])
    ELSE Quiet(v)

\* Registers 00, 02, 03, 05, 06 and 10 only retime the retrace, 04, 15 and 16
\* nothing; the screen is not redrawn when 01 or 12 resize it.
WriteCrtcRegister(v, value) ==
    LET r == v.CRTC.address
        w == [v EXCEPT !.CRTC.reg[r] = value]
    IN  CASE r = 7 ->
                 Redraw([w EXCEPT !.vertical_display_end =
                                      (@ % 256) + 256 * Number(Bit(value, 1))
                                              + 512 * Number(Bit(value, 6)),
                                  !.line_compare = Bit8(@, Bit(value, 4))])
          [] r = 8 -> Redraw(w)
          [] r = 9 ->
                 [vga |-> [w EXCEPT !.y_doublescan = (value % 32) + 128 * (value \div 128) > 0,
                                    !.line_compare = Bit9(@, Bit(value, 6))],
                  effect |-> [None EXCEPT !.redraw = TRUE, !.charmap = TRUE]]
          [] r \in {10, 11, 14, 15} -> Quiet([w EXCEPT !.vga_mem_updated = TRUE])
          [] r \in {12, 13} ->
                 IF IsGraphics(v) THEN Redraw(w)
                 ELSE Quiet([w EXCEPT !.vga_mem_updated = TRUE])
          [] r = 17 -> Quiet([w EXCEPT !.CRTC.write_protect = Bit(value, 7)])
          [] r = 18 -> Quiet([w EXCEPT !.vertical_display_end = LowByte(@, value)])
          [] r \in {19, 20, 23} -> Redraw([w EXCEPT !.line_offset = LineOffset(w.CRTC.reg)])
          [] r = 24 -> Redraw([w EXCEPT !.line_compare = LowByte(@, value)])
          [] OTHER -> Quiet(w)

\* VgaPortIoWriteHandler hands on what changes the register, and nothing else.
WriteCrtc(v, value) ==
    IF v.CRTC.address > 24 THEN Quiet(v)
    ELSE IF value = v.CRTC.reg[v.CRTC.address] THEN Quiet(v)
    ELSE IF v.CRTC.write_protect /\ v.CRTC.address < 8 THEN WriteProtected(v, value)
    ELSE WriteCrtcRegister(v, value)

-----------------------------------------------------------------------------
(***************************************************************************)
(* The ports.  Those of the CRT controller and of the status have one      *)
(* address for a colour screen and one for a monochrome screen.            *)
(***************************************************************************)

VgaCorePortIoWrite(v, port, value) ==
    CASE port = "ATTRIBUTE" -> WriteAttribute(v, value)
      [] port = "MISC" -> Quiet([v EXCEPT !.color_emulation = Bit(value, 0)])
      [] port = "ENABLE" -> Quiet([v EXCEPT !.vga_enabled = Bit(value, 0)])
      [] port = "SEQUENCER_INDEX" -> Quiet([v EXCEPT !.sequencer.index = value])
      [] port = "SEQUENCER" -> WriteSequencer(v, value)
      [] port = "PEL_MASK" -> WritePelMask(v, value)
      [] port = "PEL_READ" -> WritePelRead(v, value)
      [] port = "PEL_WRITE" -> WritePelWrite(v, value)
      [] port = "PEL_DATA" -> WritePelData(v, value)
      [] port = "GRAPHICS_INDEX" -> Quiet([v EXCEPT !.graphics_ctrl.index = value])
      [] port = "GRAPHICS" -> WriteGraphics(v, value)
      [] port = "CRTC_INDEX" /\ v.color_emulation ->
             Quiet([v EXCEPT !.CRTC.address = value % 64])
      [] port = "CRTC" /\ v.color_emulation -> WriteCrtc(v, value)
      [] port = "CRTC_INDEX_MONO" /\ ~v.color_emulation ->
             Quiet([v EXCEPT !.CRTC.address = value % 64])
      [] port = "CRTC_MONO" /\ ~v.color_emulation -> WriteCrtc(v, value)
      [] OTHER -> Quiet(v)

\* Reading the status returns the flip-flop of port 3C0 to the index, reading
\* the palette moves on; the other ports are read without effect.
VgaCorePortIoRead(v, port) ==
    CASE port = "STATUS" /\ v.color_emulation -> [v EXCEPT !.attribute_ctrl.flip_flop = FALSE]
      [] port = "STATUS_MONO" /\ ~v.color_emulation ->
             [v EXCEPT !.attribute_ctrl.flip_flop = FALSE]
      [] port = "FEATURE" -> [v EXCEPT !.attribute_ctrl.flip_flop = FALSE]
      [] port = "PEL_DATA" -> ReadPelData(v)
      [] OTHER -> v

-----------------------------------------------------------------------------
VgaCoreInitialize ==
    [graphics_ctrl |->
         [index |-> 0, set_reset |-> {}, enable_set_reset |-> {}, color_compare |-> {},
          data_rotate |-> 0, raster_op |-> 0, read_map_select |-> 0, write_mode |-> 0,
          read_mode |-> 0, shift_reg |-> 0, graphics_alpha |-> FALSE, memory_mapping |-> 2,
          color_dont_care |-> {}, bitmask |-> {}, latch |-> [p \in Planes |-> {}]],
     sequencer |->
         [index |-> 0, map_mask |-> {}, reset1 |-> TRUE, reset2 |-> TRUE, reg1 |-> 0,
          char_map_select |-> 0, chain_four |-> FALSE, clear_screen |-> FALSE],
     attribute_ctrl |->
         [flip_flop |-> FALSE, address |-> 0, video_enabled |-> TRUE, palette_reg |-> 0,
          color_plane_enable |-> Planes, horiz_pel_panning |-> 0, color_select |-> 0,
          graphics_alpha |-> FALSE, enable_line_graphics |-> TRUE, blink_intensity |-> FALSE,
          pixel_panning_compat |-> FALSE, internal_palette_size |-> FALSE],
     pel |->
         [write_data_register |-> 0, write_data_cycle |-> 0, read_data_register |-> 0,
          read_data_cycle |-> 0, dac_state |-> 1, mask |-> 255,
          data |-> [i \in 0..(DacSize - 1) |-> [red |-> 0, green |-> 0, blue |-> 0]]],
     CRTC |-> [address |-> 0, reg |-> [r \in 0..24 |-> 0], write_protect |-> FALSE],
     color_emulation |-> TRUE, vga_enabled |-> TRUE, vga_mem_updated |-> FALSE,
     cs_visible |-> FALSE, tiles |-> {}, memory |-> {}, text_snapshot |-> {},
     line_offset |-> 80, line_compare |-> 1023, vertical_display_end |-> 399,
     x_dotclockdiv2 |-> FALSE, y_doublescan |-> FALSE, last_xres |-> 0, last_yres |-> 0,
     last_fw |-> 0, last_fh |-> 0, charmap_address |-> 0]
=============================================================================
