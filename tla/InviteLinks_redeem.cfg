SPECIFICATION FairSpec
CONSTANTS
    Link = {l1, l2}
    Request = {r1, r2}
    Name = {n1, n2}
    Email = {e1, e2}
    MaxCap = 2
    Unlimited = Unlimited
    NoRequest = NoRequest
INVARIANTS
    SlotsMatchUsers
PROPERTIES
    NobodyJoinsRevoked
    EveryRedeemAnswered
CHECK_DEADLOCK FALSE
