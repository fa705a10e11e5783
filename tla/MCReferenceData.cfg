CONSTANTS
    finance = finance
    FINANCE = FINANCE
    works = works
    c1 = c1
    c2 = c2
    fin = fin
    wks = wks
    clerk = clerk
    r1 = r1
    r2 = r2
    r3 = r3
    Names = {finance, FINANCE, works}
    Details = {c1, c2}
    Requests = {r1, r2, r3}
    Seeds = {fin, wks, clerk}
    None = None
    Folded <- MCFolded
    SeedRow <- MCSeedRow
    Payloads <- MCPayloads
SPECIFICATION FairSpec
INVARIANTS
    TypeOK
    NamesUnique
    TrailEndsAtStatus
PROPERTIES
    ChangesAudited
    EveryRequestEnds
CHECK_DEADLOCK FALSE
