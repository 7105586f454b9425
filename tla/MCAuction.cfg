SPECIFICATION HSpec
CONSTANTS
  u1 = u1
  u2 = u2
  Users <- MCUsers
  Contracts = {house, c1}
  House = house
  Tickets = {t1, t2}
  Admin = admin
  Addresses = {a1, a2}
  NULL = NULL
  Bets <- MCBets
INVARIANTS
  NFTTypeOK
  LedgerAgrees
  AuctionTypeOK
  NoLeftovers
  LeaderPaysMore
  CanBeFinished
  LeaderIsHighest
PROPERTIES
  TicketsPersist
  BidsRise
  EnglishAuctionSpec
