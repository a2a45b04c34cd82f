SPECIFICATION HostingSpec
CONSTANTS
  a = a
  b = b
  saved = saved
  s1 = s1
  t1 = t1
  t2 = t2
  Calls <- MCCalls
  NoCall = nocall
  ServerCall = server
  Said <- MCSaid
  MaxUpdates = 3
  MaxDelegated = 1
  Templates <- MCTemplates
  Sessions <- MCSessions
  Traces <- MCTraces
  TraceDepth = 1
  MaxRestarts = 1
INVARIANT DoneIsStored
INVARIANT ReadyKeepsSessions
PROPERTY CallsBracketed
PROPERTY StreamStops
PROPERTY ProcessProgresses
CHECK_DEADLOCK FALSE
