SPECIFICATION Spec
CONSTANTS
  Runs = {r1}
  Consumers = {c1,c2}
  NoRun = NoRun
  Window = 1
  MaxNow = 2
  MaxFaults = 1
SYMMETRY Symmetry
INVARIANT ApprovalsAgree
PROPERTY PromiseSpec

