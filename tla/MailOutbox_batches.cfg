SPECIFICATION FairSpec
CONSTANTS
    Mail = {m1, m2, m3, bad}
    Worker = {w1, w2}
    bad = bad
    Bad = {bad}
    Batch = 2
    LastAttempt = 3
INVARIANTS
    OneClaimant
    NoKnownDuplicate
PROPERTIES
    MailsSettleUnlessLost
CHECK_DEADLOCK FALSE
