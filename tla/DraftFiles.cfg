SPECIFICATION Spec
CONSTANTS
  Drafts = {d1, d2}
  Seed = g0
  Files = {f1, f2}
  Puts = {p1, p2}
  Documents = {k1}
  SeedDocuments = {k1}
  None = None
  Budget = 1
  MaxFaults = 1
  Faults = {"reply"}
CHECK_DEADLOCK FALSE
CONSTRAINT OneSided
SYMMETRY Symmetry
INVARIANTS SealedDraftIsWhole LiveIsChecked WantedRunsWithinBudget
PROPERTY LiveCorpusIsKept
