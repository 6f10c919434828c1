SPECIFICATION Spec
CONSTANTS
  Runs = {r1}
  Consumers = {c1}
  NoRun = NoRun
  Window = 1
  MaxNow = 2
  MaxFaults = 0
SYMMETRY Symmetry
INVARIANTS ResumedReadsApproved

