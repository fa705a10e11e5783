CONSTANTS
    Requests = {r1, r2, r3}
    Categories = {bills}
    general = general
    secret = secret
    clerk = clerk
    chief = chief
    Classifications = {general, secret}
    Designations = {clerk, chief}
    Texts = {"Clerk", "Chief", "Acting Clerk"}
    None = None
    NameOf <- MCNameOf
    Created <- MCCreated
    Payloads <- MCPayloads
SYMMETRY Symmetry
SPECIFICATION Spec
INVARIANTS
    TypeOK
    TrailExplainsRow
    OldValuesReal
PROPERTY ArchivedForever
