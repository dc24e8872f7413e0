SPECIFICATION Spec
CONSTANTS
    Width = 3
    Height = 2
    TITLEBAR_HEIGHT = 1
    CURSOR_SIZE = 2
    RedrawTicks = 1
    TITLE_X = 1
    TITLE_Y = 0
    GLYPH = 1
    BlinkTicks = 2
    BlinkRight = 2
    BlinkSize = 1
    MessageX = 1
    MessageY = 1
    Messages <- MC_Messages
    InitialWindows <- MC_Windows
    U32 = 16
INVARIANTS
    WindowsKept
    GrabHeld
    DrawnInside
