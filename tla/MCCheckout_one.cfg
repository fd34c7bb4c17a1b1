CONSTANTS
  o1 = o1
  t1 = t1
  t2 = t2
  r1 = r1
  r2 = r2
  w = w
  NoSession = NoSession
  NoOrder = NoOrder
  Worker = w
  Order <- OneOrder
  Ticket <- TwoTickets
  OrderOf <- OneOrderOf
  Request <- TwoRequests
  Scope <- OneScope
SPECIFICATION FairSpec
INVARIANTS
  TicketsFollowOrder
  SaleIsPaid
  NoWaitCycle
PROPERTIES
  ConclusionsAreFinal
  OverdueIsConcluded
  PaidChargeIsRecorded
  KeepsPromise
\* Once the only order is concluded and nothing is left to ask, nothing happens.
CHECK_DEADLOCK FALSE
