\* Additions in the middle and at the end of the text, rejected together.
SPECIFICATION Spec
CONSTANTS
    Formats = {bold, red}
    None = None
    InitText = 2
    MaxText = 4
    MaxLevel = 1
    MaxCommands = 4
SYMMETRY FormatSymmetry
INVARIANTS EveryVersionRestores
CHECK_DEADLOCK FALSE
