CONSTANTS
    Finance = Finance
    Works = Works
    Departments = {Finance, Works}
    Requests = {r1, r2, r3}
    None = None
    Payloads <- MCPayloads
SYMMETRY Symmetry
SPECIFICATION Spec
PROPERTY RecordNeverErrs
