\* A selection that starts inside a fragment the same revision has added.
SPECIFICATION Spec
CONSTANTS
    Formats = {bold, red}
    None = None
    InitText = 2
    MaxText = 4
    MaxLevel = 1
    MaxCommands = 4
SYMMETRY FormatSymmetry
INVARIANTS MarkingKeepsText
CHECK_DEADLOCK FALSE
