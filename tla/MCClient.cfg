CONSTANTS
    ann = ann
    bob = bob
    annsToken = annsToken
    bobsToken = bobsToken
    n1 = n1
    n2 = n2
    Accounts = {ann, bob}
    Tokens = {annsToken, bobsToken}
    Owner <- MCOwner
    all = all
    drafts = drafts
    Filters = {all, drafts}
    MaxPage = 2
    InitialPages <- MCPages
    Notices = {n1, n2}
    Earlier = {n1}
    Recipient <- MCRecipient
    MaxCalls = 2
    MaxEvents = 3
    None = None
SPECIFICATION FairSpec
INVARIANTS
    TypeOK
    IdentityMatchesToken
    PanelTruthful
    ListAtRest
PROPERTIES
    BootEnds
    BadgeConverges
    DeadSessionEnds
CHECK_DEADLOCK FALSE
