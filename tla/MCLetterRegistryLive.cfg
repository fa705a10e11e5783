CONSTANTS
    Finance = Finance
    Works = Works
    Departments = {Finance, Works}
    Requests = {r1, r2, r3}
    None = None
    Payloads <- LivePayloads
SPECIFICATION FairSpec
PROPERTY EveryRequestAnswered
