----------------------------- MODULE MCDisplay -----------------------------
(***************************************************************************)
(* A screen of two by two tiles of sixteen pixels by two lines, bytes of   *)
(* two bits, a palette of two colours, text of two by two characters, and  *)
(* a ring of three events.  A session starts as the firmware leaves the    *)
(* VGA after setting a mode; what the guest and the user do differs.       *)
(***************************************************************************)
EXTENDS Display

\* A graphics mode of 32 by 4 pixels in four planes, split nowhere.
Planar ==
    [VgaCoreInitialize EXCEPT
        !.graphics_ctrl = [@ EXCEPT !.graphics_alpha = TRUE, !.memory_mapping = 1,
                                    !.bitmask = Bits],
        !.attribute_ctrl.graphics_alpha = TRUE,
        !.sequencer = [@ EXCEPT !.map_mask = Planes, !.reg1 = 1],
        !.CRTC.reg = [@ EXCEPT ![1] = 3, ![18] = 3, ![19] = 2, ![23] = 65, ![24] = 255],
        !.line_offset = 4, !.line_compare = 255, !.vertical_display_end = 3,
        !.last_xres = 32, !.last_yres = 4, !.tiles = Tiles, !.vga_mem_updated = TRUE]
Doubled ==
    [Planar EXCEPT !.CRTC.reg[9] = 1, !.y_doublescan = TRUE]
Cga(shift, mode) ==
    [Planar EXCEPT !.graphics_ctrl = [@ EXCEPT !.memory_mapping = 3, !.shift_reg = shift],
                   !.CRTC.reg[23] = mode]
Chain4 ==
    [Planar EXCEPT !.graphics_ctrl.shift_reg = 2, !.sequencer.chain_four = TRUE,
                   !.CRTC.reg[20] = 64, !.line_offset = 16]
Unchained == [Planar EXCEPT !.graphics_ctrl.shift_reg = 2]
\* Two by two characters of eight pixels by two lines.
Text ==
    [VgaCoreInitialize EXCEPT
        !.graphics_ctrl = [@ EXCEPT !.memory_mapping = 3, !.bitmask = Bits],
        !.sequencer = [@ EXCEPT !.map_mask = {0, 1}, !.reg1 = 1],
        !.CRTC.reg = [@ EXCEPT ![1] = 1, ![9] = 1, ![18] = 3, ![19] = 1, ![24] = 255],
        !.line_offset = 4, !.line_compare = 255, !.vertical_display_end = 3,
        !.y_doublescan = TRUE, !.vga_mem_updated = TRUE]

\* Of each tile pixels of two neighbouring bytes in every mode, its edges and those
\* of the characters.
MCPixels == {0, 2, 6, 8, 14, 16, 18, 24, 30} \X (0..3)

Idly ==
    [vga |-> Planar, ready |-> TRUE, bytes |-> {}, words |-> {},
     reads |-> {}, pokes |-> {}, values |-> {{}, {0}}, peeks |-> {}, paints |-> FALSE,
     keys |-> {}, buttons |-> {}, moves |-> FALSE, toolbar |-> FALSE, focus |-> FALSE,
     tall |-> FALSE]
CrtcWord(i, v) == <<"CRTC_INDEX", "CRTC", i, v>>
GraphicsWord(i, v) == <<"GRAPHICS_INDEX", "GRAPHICS", i, v>>
SequencerWord(i, v) == <<"SEQUENCER_INDEX", "SEQUENCER", i, v>>
At(base, offsets) == {base + o : o \in offsets}

\* The screen is off, and only keyboard and mouse do something.
Still ==
    [Idly EXCEPT !.vga = [Planar EXCEPT !.vga_enabled = FALSE, !.tiles = {},
                                        !.vga_mem_updated = FALSE]]

MCSessions ==
    {[Idly EXCEPT !.pokes = At(655360, {1, 6, 13}), !.paints = TRUE],
     [Idly EXCEPT !.pokes = At(655360, {1, 6, 13}),
                  !.words = {CrtcWord(24, 1), CrtcWord(24, 255), CrtcWord(13, 4)}],
     [Idly EXCEPT !.vga = [Planar EXCEPT !.graphics_ctrl.memory_mapping = 0],
                  !.pokes = At(655360, {1, PLANE + 1}), !.words = {CrtcWord(13, 1)}],
     [Idly EXCEPT !.pokes = At(655360, {1, PLANE - 3}), !.values = {{0}},
                  !.words = {CrtcWord(12, 255), CrtcWord(13, 240), CrtcWord(13, 248)}],
     [Idly EXCEPT !.vga = Doubled, !.pokes = At(655360, {1, 6}),
                  !.words = {CrtcWord(24, 1), CrtcWord(9, 0), CrtcWord(9, 128)}],
     [Idly EXCEPT !.vga = Cga(1, 65), !.pokes = At(753664, {1, 86, 8192 + 5}),
                  !.words = {CrtcWord(13, 1), SequencerWord(1, 9)}],
     [Idly EXCEPT !.vga = Cga(1, 65), !.pokes = At(753664, {1}), !.paints = TRUE,
                  !.words = {SequencerWord(1, 33), SequencerWord(1, 1)}],
     [Idly EXCEPT !.vga = Cga(0, 64), !.pokes = At(753664, {1, 82, 8192 + 3})],
     [Idly EXCEPT !.vga = Chain4, !.pokes = At(655360, {1, 14, 19, 41}),
                  !.peeks = At(655360, {1})],
     [Idly EXCEPT !.vga = Unchained, !.pokes = At(655360, {6}), !.values = {{0}},
                  !.words = {SequencerWord(2, 1), SequencerWord(2, 8), SequencerWord(4, 8),
                             GraphicsWord(5, 0), GraphicsWord(5, 64)}],
     [Idly EXCEPT !.bytes = {<<"PEL_WRITE", 0>>, <<"PEL_DATA", 1>>, <<"PEL_MASK", 3>>,
                             <<"PEL_READ", 1>>},
                  !.reads = {"PEL_DATA"}],
     [Idly EXCEPT !.pokes = At(655360, {1}), !.values = {{0}},
                  !.bytes = {<<"ATTRIBUTE", 0>>, <<"ATTRIBUTE", 48>>, <<"ATTRIBUTE", 50>>},
                  !.reads = {"STATUS", "STATUS_MONO", "FEATURE"}],
     [Idly EXCEPT !.pokes = At(753664, {2}), !.values = {{0}},
                  !.bytes = {<<"MISC", 0>>, <<"MISC", 1>>, <<"CRTC_INDEX_MONO", 12>>,
                             <<"CRTC_MONO", 0>>},
                  !.words = {GraphicsWord(6, 5), GraphicsWord(6, 13)}],
     [Idly EXCEPT !.bytes = {<<"ENABLE", 0>>, <<"ENABLE", 1>>},
                  !.words = {GraphicsWord(6, 5), GraphicsWord(6, 4)}],
     [Idly EXCEPT !.ready = FALSE, !.pokes = At(655360, {1}), !.values = {{0}},
                  !.bytes = {<<"PEL_MASK", 3>>}],
     [Idly EXCEPT !.vga = Text, !.ready = FALSE, !.pokes = At(753664, {0}),
                  !.values = {{0}}, !.bytes = {<<"PEL_MASK", 1>>}],
     [Idly EXCEPT !.vga = Text, !.pokes = At(753664, {0, 5}),
                  !.words = {CrtcWord(15, 1), CrtcWord(24, 1)}],
     [Idly EXCEPT !.vga = Text, !.pokes = At(753664, {0, 7}),
                  !.words = {CrtcWord(13, 1), SequencerWord(0, 1), SequencerWord(0, 3)}],
     [Idly EXCEPT !.vga = Text, !.pokes = At(753664, {0}), !.paints = TRUE,
                  !.words = {SequencerWord(1, 33), SequencerWord(1, 1)}],
     [Idly EXCEPT !.vga = [Text EXCEPT !.sequencer.map_mask = {2}],
                  !.pokes = At(753664, {32, 33, 8192 + 32}),
                  !.words = {SequencerWord(3, 4), SequencerWord(3, 16), SequencerWord(0, 2),
                             SequencerWord(0, 3)}],
     [Idly EXCEPT !.vga = [Text EXCEPT !.memory = {<<0, 0>>, <<5, 1>>}],
                  !.words = {CrtcWord(9, 3), CrtcWord(8, 1), CrtcWord(10, 1)}],
     [Idly EXCEPT !.vga = [Text EXCEPT !.memory = {<<0, 0>>, <<5, 1>>}],
                  !.bytes = {<<"ATTRIBUTE", 48>>, <<"ATTRIBUTE", 40>>}],
     [Idly EXCEPT !.vga = [Text EXCEPT !.memory = {<<0, 0>>, <<5, 1>>}],
                  !.bytes = {<<"ATTRIBUTE", 51>>, <<"ATTRIBUTE", 48>>}],
     [Idly EXCEPT !.pokes = At(655360, {1}), !.peeks = At(655360, {1}), !.values = {{0}},
                  !.vga = [Planar EXCEPT !.vga_enabled = FALSE],
                  !.words = {GraphicsWord(0, 1), GraphicsWord(1, 1), GraphicsWord(3, 8),
                             GraphicsWord(3, 17), GraphicsWord(3, 24), GraphicsWord(5, 1),
                             GraphicsWord(5, 2), GraphicsWord(5, 3), GraphicsWord(8, 1)}],
     [Idly EXCEPT !.peeks = At(655360, {1}),
                  !.words = {GraphicsWord(2, 1), GraphicsWord(4, 2), GraphicsWord(5, 8),
                             GraphicsWord(7, 3)}],
     [Idly EXCEPT !.words = {CrtcWord(7, 16), CrtcWord(7, 66), CrtcWord(9, 64),
                             CrtcWord(17, 128), CrtcWord(17, 0), CrtcWord(18, 1),
                             CrtcWord(20, 64), CrtcWord(23, 1), CrtcWord(33, 1)}],
     [Idly EXCEPT !.vga = VgaCoreInitialize,
                  !.words = {CrtcWord(1, 1), CrtcWord(18, 3), CrtcWord(19, 1)}],
     [Still EXCEPT !.keys = {"CTRL_L", "ALT_R"}],
     [Still EXCEPT !.keys = {"CTRL_L"}, !.focus = TRUE],
     [Still EXCEPT !.keys = {"CTRL_L"}, !.buttons = {"MBUTTON"}],
     [Still EXCEPT !.buttons = {"LBUTTON", "RBUTTON"}, !.moves = TRUE, !.toolbar = TRUE],
     [Still EXCEPT !.keys = {"CAPS", "F10"}],
     [Still EXCEPT !.keys = {"ALT_L"}, !.tall = TRUE]}
=============================================================================
