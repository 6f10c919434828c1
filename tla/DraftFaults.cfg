SPECIFICATION Spec
CONSTANTS
  Drafts = {d1}
  Seed = g0
  Files = {f1}
  Puts = {p1}
  Documents = {k1, k2}
  SeedDocuments = {k2}
  None = None
  Budget = 1
  MaxFaults = 2
  Faults = {"reply", "step", "request", "send"}
CHECK_DEADLOCK FALSE
INVARIANTS PurgedIsEmpty SealedDraftIsWhole
