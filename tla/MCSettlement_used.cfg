CONSTANTS
  o1 = o1
  t1 = t1
  t2 = t2
  r1 = r1
  w = w
  d1 = d1
  d2 = d2
  NoSession = NoSession
  NoOrder = NoOrder
  NoTicket = NoTicket
  Worker = w
  Order = {o1}
  Ticket = {t1, t2}
  OrderOf <- OneOrderOf
  Request = {r1}
  Scope <- OneScope
  Desk = {d1, d2}
  Service = {"refund_ticket", "scan"}
  MaxAsked = 1
SPECIFICATION DesksSpec
SYMMETRY Interchangeable
PROPERTY UsedTicketIsNotRefunded
\* Once everything has ended and nothing is left to ask, nothing happens.
CHECK_DEADLOCK FALSE
