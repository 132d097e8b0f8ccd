SPECIFICATION Spec
CONSTANTS
  F64Max = 536870912
  F64Exact = 2097152
  Texts <- MCTexts
  Requests <- MCRequests
  Probes <- MCProbes
  MaxOps = 2
INVARIANTS
  TypeOK
  VerdictIsRight
  RulesCanFire
  FaultsFollowRates
  LatencyInBounds
  StreamsApart
  FieldChangeSeparates
  SeedsSeparate
  SavedIsKept
