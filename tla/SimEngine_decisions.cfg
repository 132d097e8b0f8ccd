SPECIFICATION SafeSpec
CONSTANTS
  Threads = {t1, t2, t3}
  Ops = {"read", "getattr"}
  DataOps = {"read"}
  Policy <- MCPolicy
  Contexts <- MCContexts
  BodyErrnos = {"none", "ENOENT"}
  Waits = {"zero", "finite", "max"}
  NoCall = NoCall
  MaxOps = 3
INVARIANT DecisionsAreSampled
