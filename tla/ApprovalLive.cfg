SPECIFICATION FairSpec
CONSTANTS
  Runs = {r1}
  Consumers = {c1}
  NoRun = NoRun
  Window = 1
  MaxNow = 2
  MaxFaults = 1
 

PROPERTIES ApprovedIsNotForgotten WaitEnds
