CONSTANTS
    Bits = {0, 1}
    Y_TILESIZE = 2
    NumX = 2
    NumY = 2
    DacSize = 2
    Pixels <- MCPixels
    Narrow = 16
    SCANCODE_BUFSIZE = 3
    Sessions <- MCSessions
SPECIFICATION Spec
INVARIANTS DisplayConsistent StaleIsMarked PaintCovers TextShown AluIsRasterOp EventsInOrder ModifiersInStep
