SPECIFICATION Spec
CONSTANTS
  n1 = n1
  n2 = n2
  Users = {u1}
  Tickets = {t1}
  Bets <- MCBets
  TicketContracts = {n1, n2}
  House = house
  Committee = committee
  MaxTime = 1
  MaxLease = 2
  MaxSupply = 4
  MaxRecords = 3
  NULL = NULL
SYMMETRY MCExchange
CHECK_DEADLOCK FALSE
INVARIANTS
  DeploymentTypeOK
  SaleStaysNamed
  AlwaysRedeployable
PROPERTIES
  HouseClosesWithTLD
  DeployTakesOver
  DeleteLosesNothing
