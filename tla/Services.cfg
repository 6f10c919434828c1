SPECIFICATION Spec
CONSTANTS
  Emails = {e1}
  MaxAsks = 3
  MaxSessions = 2
  Roles = {r1, r2}
  Calls = {c1, c2}
  Lifetime = 1
  Window = 2
  MaxFailedLogins = 1
  MaxTime = 2
  MaxRows = 3
  Kids = {"k1", "k2"}
  Requests = {"r1", "r2"}
  Ttl = 2
  MinRefetch = 1
  Grace = 3
  Timeout = 1
  MaxNow = 5
  Ledger = {"v"}
  Leftovers = {"o"}
  Strays = {"s"}
  OrphanResolveCap = 1
  MaxRetries = 0
  EffectKeys = {1, 2, 3}
  KeyTool <- OneKeyEach
  RateLimit = 1
  RateWindow = 0
  ApprovalTime = 1
  MaxToolTime = 1
  Admins = {"a1", "a2"}
  People = {"p1"}
  RequestIds = {"i1", "i2"}
  Turns = {"t1", "t2"}
  MaxDrafts = 2
  MaxPagePolls = 2
  Loads = {"l"}
  Docs = {1, 2}
  MaxAnswers = 2
  MaxOpens = 3
  Runs = {"run1", "run2"}
  NoRun = "none"
  Chat = "c"
  MaxTurnPolls = 2
  Names = {"n1", "n2"}
  Readers = {"everyone", "legal"}
  MaxStatusFailures = 2
  MaxBatchPolls = 2
  MaxEntries = 2
  Questions <- EvalQuestions
  MaxBuilds = 2
  MaxEvalGenerations = 2
  MaxEvalRuns = 3
  KbPeople <- UploaderAndOperator
  KbOperators <- OperatorOnly
  KbDocuments = {1, 2}
  KbAccesses <- PublicOrNobodys
  KbUploadsOf <- SecondIsTheUploaders
  Legacy <- FirstIsPublic
  PassagesEach = 2
  Workers = {"w1", "w2"}
  MaxKbGenerations = 3
  MaxKbCalls = 3
  Askers <- Searchers
  Chunks = {1, 2, 3, 4, 5}
  Corpus <- Shelf
  TurnGeneration = "g"
  MaxFilterTerms = 1
  VectorWeight = 7
  KeywordWeight = 3
  OverlapBonus = 5
  KeywordRescue = 1
  CandidateLimit = 1
  RerankCandidates = 2
  TopK = 1
  RelevanceFloor = 1
  MaxScore = 1
  MaxSearches = 2
  Titles = {1, 2}
  Words = {1, 2}
  ResultCap = 1
  ResultLimit = 1
  MaxLibraryCalls = 2
  MaxHistoryTurns = 2
  MaxHistoryChars = 4
  HistoryTailRows = 5
  OldConversations <- AnsweredBeforeParents
  AnswerSizes = {1, 2}
  MaxMessages = 8
CHECK_DEADLOCK FALSE
INVARIANTS
  InvitedAccounts GuessesAreBounded KeysAreCurrent KnowledgeIsServedSafely HistoryIsWhatWasShown PassedIsClean
  SummaryIsOneRun WritesHappenOnce ReleasedIsAudited PollsKeepUp PanelShowsItsDocument
PROPERTY RepliesMeetTheirChat
