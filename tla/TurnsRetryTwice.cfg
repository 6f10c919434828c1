SPECIFICATION Spec
CONSTANTS
  Attempts = {a1,a2,a3}
  Requests = {r1,r2,r3}
  Principals = {p1}
  Payloads = {q1}
  None = None
  MaxFaults = 0
  MaxStops = 3
  Allowed = {"retry"}
SYMMETRY Symmetry
CHECK_DEADLOCK FALSE
INVARIANTS AtMostOneAnswer
