SPECIFICATION ClientSpec
CONSTANTS
  Sessions = {s1, s2}
  Tabs = {orchestrator, specialist}
  Delegates = {specialist}
  NoSession = none
  MaxExchanges = 2
  MaxSwitches = 1
PROPERTY NoMessageVanishes
PROPERTY StreamingEnds
CHECK_DEADLOCK FALSE
