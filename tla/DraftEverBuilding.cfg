SPECIFICATION FairSpec
CONSTANTS
  Drafts = {d1}
  Seed = g0
  Files = {f1}
  Puts = {p1}
  Documents = {k1}
  SeedDocuments = {}
  None = None
  Budget = 1
  MaxFaults = 1
  Faults = {"request"}
CHECK_DEADLOCK FALSE
PROPERTY BuildingEnds
