SPECIFICATION NNSSpec
CONSTANTS
  c = c
  u = u
  Holders <- MCHolders
  Signers <- MCSigners
  Committee = c
  Labels = {"auc", "nft", "a"}
  Names <- MCNames
  Texts = {}
  Aliases <- MCAliases
  Year = 1
  Lifetimes = {1}
  MaxTime = 1
  MaxLease = 2
  MaxSupply = 3
  MaxRecords = 1
  NULL = NULL
CHECK_DEADLOCK FALSE
INVARIANTS
  NNSTypeOK
  ZonesConsistent
  BalanceNeverShort
  DeletedLeavesNothing
PROPERTIES
  ExpiredZoneFrozen
  OnlyWithConsent
