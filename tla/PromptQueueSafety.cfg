\* No call to the agent throws.  Rows are combined, ids are used again.
CONSTANTS
    NumPrompts = 3
    Ids = {p, q}
    Images <- MCImages
    CombineQueued = TRUE
    Faults = {}
    MaxWakes = 0
    Wake = Wake
    None = None
SPECIFICATION Spec
SYMMETRY MCSymmetry
CHECK_DEADLOCK FALSE
INVARIANTS
    Ownership
    NotStranded
PROPERTIES
    AdmissionIsSound
    ClientFollows
    StartsWhatIsFree
