CONSTANTS
    Finance = Finance
    Works = Works
    root = root
    chief = chief
    ann = ann
    bob = bob
    Users = {root, chief, ann, bob}
    Departments = {Finance, Works}
    Classifications = {c1, c2}
    Letters = {1, 2, 3}
    Queries = {q}
    PageSize = 2
    Pages = {1, 2}
    None = None
    Profile <- MCProfile
    Registry <- MCRegistry
SYMMETRY Symmetry
SPECIFICATION Spec
INVARIANTS
    TypeOK
    ListMatchesCheck
    AggregatesMatchCheck
    PagesPartition
