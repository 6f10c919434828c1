SPECIFICATION Spec
CONSTANTS
  Attempts = {a1,a2}
  Requests = {r1,r2}
  Principals = {p1,p2}
  Payloads = {q1,q2}
  None = None
  MaxFaults = 1
  MaxStops = 1
  Allowed = {"stop","delete","retry"}
CONSTRAINT Meet
SYMMETRY Symmetry
CHECK_DEADLOCK FALSE
INVARIANTS StoredTurnsAreWhole RepliesAreTrue HolderOwnsLock OneRunIsShown DuplicateIsTheSameQuestion
PROPERTIES SerialSpec SettledBeforeRelease
