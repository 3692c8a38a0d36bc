\* A paragraph of two characters, two more typed, three revisions.
SPECIFICATION Spec
CONSTANTS
    Formats = {bold, red}
    None = None
    InitText = 2
    MaxText = 4
    MaxLevel = 3
    MaxCommands = 5
SYMMETRY FormatSymmetry
INVARIANTS TypeOK ShownAsEdited NothingLost VersionsRestore RejectUndoes AcceptKeepsText
CHECK_DEADLOCK FALSE
