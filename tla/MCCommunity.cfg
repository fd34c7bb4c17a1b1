SPECIFICATION CommunitySpec
CONSTANTS
    t1 = t1
    t2 = t2
    t3 = t3
    l1 = l1
    l2 = l2
    h1 = h1
    h2 = h2
    k1 = k1
    k2 = k2
    Tokens = {t1, t2, t3}
    Links = {l1, l2}
    Flows = {"flow"}
    MaxResets = 1
    Handlers = {h1, h2}
    Users = {"applicant", "other"}
    Applicant = "applicant"
    Workers = {"other"}
    Keys = {k1, k2}
    Rewards = {0, 1}
    MaxAttempts = 1
SYMMETRY Symmetry
INVARIANTS
    CommunityTypeOK
    ResetEndsTheOldPassword
    SuspendedIsSignedOut
    OneSessionForEach
    ActiveCommunityIsRun
    PaidIsVerified
    AttemptsAreLimited
\* Once every link and token is used up, nothing may be left to happen.
CHECK_DEADLOCK FALSE
