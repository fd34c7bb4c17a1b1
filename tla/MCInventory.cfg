CONSTANTS
  y1 = y1
  t1 = t1
  t2 = t2
  t3 = t3
  b1 = b1
  b2 = b2
  k1 = k1
  k2 = k2
  s1 = s1
  s2 = s2
  o1 = o1
  o2 = o2
  cheap = cheap
  Free = Free
  NoSession = NoSession
  NoKey = NoKey
  NoType = NoType
  NoBuyer = NoBuyer
  Type <- OneType
  Ticket <- ThreeTickets
  Buyer <- TwoBuyers
  Key <- TwoKeys
  Session <- TwoSessions
  Price <- TwoPrices
  MaxQuantity = 2
  MaxPerOrder = 2
  Candidates = {"verifier"}
  Objects = {o1, o2}
SPECIFICATION VenueSpec
SYMMETRY Interchangeable
INVARIANTS
  CapacityIsKept PriceIsKept OneReservationPerBuyer CoverIsStored
PROPERTY
  RevocationStands
