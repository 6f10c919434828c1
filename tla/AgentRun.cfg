SPECIFICATION Spec
CONSTANTS
  k1 = k1
  k2 = k2
  Chunks = {k1, k2}
  Asked = {k1}
  Ids = {i1, i2}
  Drafts <- MCDrafts
  Extracts <- MCExtracts
  Batches <- MCBatches
  MultiPart = FALSE
  MaxResults = 3
  MaxTurns = 5
  MaxToolCalls = 2
  MaxSearches = 1
SYMMETRY Symmetry
INVARIANTS OutcomeIsBacked FailedSearchIsUnavailable CapKeepsTheDraft ModelCallsWithinBudget
PROPERTY RefusalStands
