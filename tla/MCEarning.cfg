SPECIFICATION EarningSpec
CONSTANTS
    p1 = p1
    p2 = p2
    p3 = p3
    m = m
    b = b
    r = r
    s1 = s1
    s2 = s2
    Participants = {p1, p2, p3}
    Capacities = {1}
    Sessions = {s1, s2}
    Required = {"qr", "peer"}
    Peers = {p1, p2, p3}
    ConfirmationsRequired = 2
    Geofenced = TRUE
    MaxNet = 1
    Items = {p1, p2, p3}
    Capped = {p1, p2, p3}
    Worth = 1
    Cap = 1
    Ceilings = {0, 1}
    Milestones = {m}
    Badges = {b}
    Rules = {r}
    RuleBadge <- BadgeOf
    Reward <- OnePoint
    Threshold <- DueAt
    Ranks = {1, 3}
    Adjustments <- OneDeduction
SYMMETRY Symmetry
INVARIANTS
    AwardIsPaid
    CapOverrunIsBounded
    EarnedIsVerified
    ConfirmationsAreNoticed
    DecisionStands
    OverrunsAreBounded
    DecisionIsTheActivitys
PROPERTY
    CeilingIsKept
\* Once everything is reviewed and awarded, nothing happens.
CHECK_DEADLOCK FALSE
