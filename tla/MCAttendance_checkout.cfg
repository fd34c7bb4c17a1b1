SPECIFICATION Spec
CONSTANTS
    p1 = p1
    p2 = p2
    p3 = p3
    s1 = s1
    s2 = s2
    Peers <- MCPeers
    Sessions <- MCSessions
    Required <- MCRequired
    ConfirmationsRequired = 2
    MaxNet = 0
    Geofenced = TRUE
SYMMETRY Symmetry
INVARIANT ApprovedIsVerified
CHECK_DEADLOCK FALSE
