SPECIFICATION FairSysSpec
CONSTANTS
  u1 = u1
  u2 = u2
  u3 = u3
  t1 = t1
  t2 = t2
  Users = {u1, u2}
  Contracts = {house}
  House = house
  Tickets = {t1, t2}
  Admin = backend
  Backend = backend
  Addresses = {a1}
  NULL = NULL
  Order <- MCOrder
  Bets = {100, 200}
  Unreliable = TRUE
  MaxRequests = 2
PROPERTIES
  WaitingEnds
  ServerReturns
