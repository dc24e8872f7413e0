SPECIFICATION InputSpec
CONSTANTS
    QUEUE_SIZE = 2
    U16 = 4
    Events <- MC_Events
    NoEvent = NoEvent
    KeyEvents <- MC_KeyEvents
    MouseEvents <- MC_MouseEvents
    KB_BUF_SIZE = 3
    plain <- MC_plain
    shifted <- MC_shifted
    Shifts = {"shift"}
    Width = 3
    Height = 2
    MaxEvents = 4
INVARIANTS
    BuffersOwned
    TextExact
    FalseMeansNothingNew
PROPERTIES
    ImplementsFifo
    Delivers
