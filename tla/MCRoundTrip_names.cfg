SPECIFICATION RoundTripSpec
CONSTANTS
    a = a
    b = b
    Unit = {a, b}
    MaxLength = 3
    TagSize = 2
    BufferSize = 2
    BlockSize = 2
    Unknown = Unknown
    Dash = Dash
    StdioName = StdioName
    Report = Report
    Bytes = Bytes
    Replaced = Replaced
    Stem <- Stems
    StdioStem <- Stdios
    Displayed <- Displays
    Request <- Requests
    Nothing = Nothing
    Part = Part
    Junk = Junk
INVARIANTS
    AppendsEnc
