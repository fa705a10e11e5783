CONSTANTS
    Uploads = {u1, u2}
    Downloads = {d1, d2}
    None = None
    Contents <- MCContents
SYMMETRY Symmetry
SPECIFICATION Spec
INVARIANT RowHasFile
CHECK_DEADLOCK FALSE
