SPECIFICATION DoorSpec
CONSTANTS
    t1 = t1
    t2 = t2
    buyer = buyer
    friend = friend
    l1 = l1
    l2 = l2
    s1 = s1
    s2 = s2
    c1 = c1
    c2 = c2
    c3 = c3
    Tickets = {t1, t2}
    Users = {buyer, friend}
    Links = {l1, l2}
    Sessions = {s1, s2}
    Buyer = buyer
    MaxPerUser = 1
    Entitled = {"ticket"}
    Codes = {c1, c2, c3}
    MaxRedemptions = 2
SYMMETRY Symmetry
INVARIANTS
    OneLinkPerTicket
    SelfAdmissionIsOnce
    EveryGiftIsCounted
    OneLiveCredential
PROPERTIES
    ChangesHandsByOneLink
    KeepsPossession
    NothingGivenOnceRevoked
\* Once nobody is left to admit and no benefit left to give, nothing happens.
CHECK_DEADLOCK FALSE
