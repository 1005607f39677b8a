CONSTANTS
    ada = ada
    bola = bola
    c1 = c1
    c2 = c2
    Nobody = Nobody
    People = {ada, bola}
    NBatches = 1
    Calls = {c1, c2}
    Sources <- Both
    AutoApprove = {TRUE, FALSE}
    MaxCalls = 4
    MaxFaults = 1
SPECIFICATION FairSpec
INVARIANTS OnlyApprovalSends OncePerApproval SentWasDelivered
PROPERTY ApprovedIsSettled
CHECK_DEADLOCK FALSE
