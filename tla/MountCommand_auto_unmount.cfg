SPECIFICATION Spec
CONSTANTS
  F64Max = 536870912
  F64Exact = 2097152
  BufCapacity = 3
  MaxFailures = 2
  Workers = {w1, w2}
  Ops = {"read"}
  Configs <- MCConfigs
  NoRequest = NoRequest
  MaxEvents = 1
  MaxRuns = 1
  MaxKills = 1
PROPERTY AutoUnmounts
