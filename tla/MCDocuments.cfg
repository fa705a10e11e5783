CONSTANTS
    Uploads = {u1, u2}
    Downloads = {d1, d2}
    None = None
    Contents <- MCContents
SYMMETRY Symmetry
SPECIFICATION Spec
INVARIANTS
    TypeOK
    NoPartialFile
    AcknowledgedServed
    OrphansExplained
PROPERTY RowAfterFile
CHECK_DEADLOCK FALSE
