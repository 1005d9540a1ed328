SPECIFICATION Spec
CONSTANTS
    Kinds = {"inline", "photo", "sign", "batch"}
    Entries = {e1, e2, e3}
    Fetches = {f1, f2, f3}
SYMMETRY ResultSymmetry
INVARIANTS StatusMatchesStore NoArtifactOfFailedOperation FdsClosed
PROPERTY ServedStaysAvailable
CHECK_DEADLOCK FALSE
