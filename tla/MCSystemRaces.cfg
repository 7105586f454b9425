SPECIFICATION SysSpec
CONSTANTS
  u1 = u1
  u2 = u2
  u3 = u3
  t1 = t1
  t2 = t2
  Users = {u1, u2, u3}
  Contracts = {house}
  House = house
  Tickets = {t1, t2}
  Admin = backend
  Backend = backend
  Addresses = {a1}
  NULL = NULL
  Order <- MCSameOrder
  Bets = {200, 300}
  Unreliable = FALSE
  MaxRequests = 4
SYMMETRY MCExchange
INVARIANTS
  StartsAlternate
  TermsFromRequests
