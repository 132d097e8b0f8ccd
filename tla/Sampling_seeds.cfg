SPECIFICATION Spec
CONSTANTS
  F64Max = 536870912
  F64Exact = 2097152
  Texts <- PlainTexts
  Requests <- SequentialReads
  Probes <- MCProbes
  MaxOps = 3
INVARIANT SeedsDiffer
