SPECIFICATION FairSpec
CONSTANTS
  Attempts = {a1,a2}
  Requests = {r1}
  Principals = {p1,p2}
  Payloads = {q1}
  None = None
  MaxFaults = 0
  MaxStops = 2
  Allowed = {"lock", "stop"}
CHECK_DEADLOCK FALSE
PROPERTIES SettledIsFinal EveryAttemptReplies EveryTurnSettles
