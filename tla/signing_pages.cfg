SPECIFICATION HostSpec
CONSTANTS
  Pages = {p1, p2}
  Tickets = {t1, t2}
  NoPage = NoPage
  NoTicket = NoTicket
INVARIANTS
  CompleteIsTrue
  EntersAndViewsOnce
CHECK_DEADLOCK FALSE
