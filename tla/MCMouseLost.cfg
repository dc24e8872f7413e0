SPECIFICATION Spec
CONSTANTS
    Width = 3
    Height = 3
    Far = 300
    Bytes <- MC_Bytes
INVARIANT FalseMeansNothingNew
