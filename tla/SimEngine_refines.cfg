SPECIFICATION Spec
CONSTANTS
  Threads = {t1, t2, t3}
  Ops = {"read", "getattr"}
  DataOps = {"read"}
  Policy <- MCPolicy
  Contexts <- MCFewContexts
  BodyErrnos = {"none"}
  Waits = {"finite"}
  NoCall = NoCall
  MaxOps = 3
PROPERTIES
  LimitersRespected
  EveryOpReturns
