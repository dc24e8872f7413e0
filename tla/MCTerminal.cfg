SPECIFICATION TerminalSpec
CONSTANTS
    KB_BUF_SIZE = 3
    NoChar = "none"
    Make <- MC_Make
    Chars <- MC_Chars
    scancode_ascii <- MC_ascii
    scancode_ascii_shift <- MC_shift
    VGA_COLS = 4
    VGA_ROWS = 2
    TAB = 2
    Blank = " "
    BootText <- MC_BootText
    MaxKeys = 5
INVARIANT ScreenShowsTail
PROPERTIES ImplementsFifo Delivers
