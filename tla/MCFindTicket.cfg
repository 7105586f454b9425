SPECIFICATION SysSpec
CONSTANTS
  u1 = u1
  u2 = u2
  u3 = u3
  t1 = t1
  t2 = t2
  Users = {u1, u2}
  Contracts = {house}
  House = house
  Tickets = {t1, t2}
  Admin = backend
  Backend = backend
  Addresses = {a1}
  NULL = NULL
  Order <- MCOrder
  Bets = {200, 300}
  Unreliable = FALSE
  MaxRequests = 3
PROPERTIES
  TicketIsFree
