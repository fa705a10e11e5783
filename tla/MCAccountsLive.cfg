CONSTANTS
    Finance = Finance
    Works = Works
    ann = ann
    bob = bob
    root = root
    admin = admin
    Addresses = {ann, bob, root, admin}
    Departments = {Finance, Works}
    Founders = {root, admin}
    Requests = {r1, r2, r3}
    None = None
    FounderRow <- MCFounderRow
    Payloads <- BothRolesPayloads
SPECIFICATION FairSpec
PROPERTY EveryRequestEnds
