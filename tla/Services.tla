------------------------------ MODULE Services ------------------------------
(***************************************************************************)
(* Instances of the modules that model one service, page or job each.      *)
(* They share no state, so a behaviour is of one part, and the variables   *)
(* of its module are held by v1, v2, ... in the order of their             *)
(* declaration; a part that needs fewer leaves the rest at 0.              *)
(*                                                                         *)
(* The parts that have theorems take their parameters from the constants;  *)
(* the others have the values of the one run they are in.                  *)
(***************************************************************************)
EXTENDS Accounts, Integers, Sequences

(* ChatClient *)
CONSTANTS MaxAsks, MaxSessions

ASSUME AChatIsOpened == MaxSessions \in Nat \ {0}

(* AccessKeys *)
CONSTANTS Kids, Requests, Ttl, MinRefetch, Grace, Timeout, MaxNow

ASSUME KeyTimesAreNats == {Ttl, MinRefetch, Grace, Timeout, MaxNow} \subseteq Nat
ASSUME TtlWithinGrace == Ttl <= Grace

(* DraftChecks *)
CONSTANTS Ledger, Leftovers, Strays, OrphanResolveCap, MaxRetries

ASSUME VectorsAreOfOneKind ==
  Ledger \cap Leftovers = {} /\ Ledger \cap Strays = {} /\ Leftovers \cap Strays = {}

(* ConnectorTools; its calls are named like those of Accounts *)
CONSTANTS EffectKeys, KeyTool, RateLimit, RateWindow, ApprovalTime, MaxToolTime

ASSUME KeysAreOfOneTool == KeyTool \in [EffectKeys -> {"mcp_create_ticket", "create_ticket", "action_sink_write"}]

(* ViewAs *)
CONSTANTS Admins, People, RequestIds, Turns

ASSUME NobodyIsNoAdmin == "none" \notin Admins

(* SourcesPage *)
CONSTANTS MaxDrafts, MaxPagePolls, Loads

(* ChatPanel *)
CONSTANTS Docs, MaxAnswers, MaxOpens

(* TurnProgress *)
CONSTANTS Runs, NoRun, Chat, MaxTurnPolls

ASSUME NoRunIsNoRun == NoRun \notin Runs

(* UploadDialog *)
CONSTANTS Names, Readers, MaxStatusFailures, MaxBatchPolls, MaxEntries

ASSUME UploadsAreBounded == IsFiniteSet(Names) /\ MaxEntries \in Nat

(* EvalHarness *)
CONSTANTS Questions, MaxBuilds, MaxEvalGenerations, MaxEvalRuns

ASSUME QuestionsHaveCategories == Questions \in Seq({"answerable", "abstention"})

(* KnowledgeBase; an access is never the mark of a missing row *)
CONSTANTS KbPeople, KbOperators, KbDocuments, KbAccesses, KbUploadsOf, Legacy, PassagesEach, Workers,
          MaxKbGenerations, MaxKbCalls

ASSUME PeopleAreDistinct ==
  /\ \A p \in KbPeople : p = [user |-> p.user, roles |-> p.roles, departments |-> p.departments]
  /\ \A p, q \in KbPeople : p.user = q.user => p = q
  /\ \A p \in KbPeople \ KbOperators : p.user # "operator"
ASSUME DocumentsAreNumbered ==
  /\ KbDocuments \subseteq Nat
  /\ \A p \in KbPeople \ KbOperators : KbUploadsOf[p] \subseteq KbDocuments
ASSUME AccessIsGiven ==
  /\ \A acl \in KbAccesses : acl.scope # "none"
  /\ Legacy \in [KbDocuments -> Seq(KbAccesses)]
ASSUME GenerationsAreNumbered == MaxKbGenerations \in Nat \ {0} /\ PassagesEach \in Nat

(* Retrieval *)
CONSTANTS Askers, Chunks, Corpus, TurnGeneration, MaxFilterTerms, VectorWeight, KeywordWeight, OverlapBonus,
          KeywordRescue, CandidateLimit, RerankCandidates, TopK, RelevanceFloor, MaxScore, MaxSearches

ASSUME SomebodyAsks ==
  Askers # {} /\ \A p \in Askers : p = [user |-> p.user, roles |-> p.roles, departments |-> p.departments]
ASSUME ChunksAreNumbered == IsFiniteSet(Chunks) /\ Chunks \subseteq Nat
ASSUME KeywordsCount == {KeywordWeight, MaxScore} \subseteq Nat \ {0}
ASSUME RescuedFitTheHead ==
  {KeywordRescue, RerankCandidates} \subseteq Nat /\ KeywordRescue <= RerankCandidates

(* GlobalSearch *)
CONSTANTS Titles, Words, ResultCap, ResultLimit, MaxLibraryCalls

ASSUME TitlesAreNumbered == IsFiniteSet(Titles) /\ Titles \subseteq Nat
ASSUME LimitWithinCap == {ResultCap, ResultLimit} \subseteq Nat /\ ResultLimit <= ResultCap

(* Transcript *)
CONSTANTS MaxHistoryTurns, MaxHistoryChars, HistoryTailRows, OldConversations, AnswerSizes, MaxMessages

ASSUME HistoryIsBounded ==
  {MaxHistoryTurns, MaxHistoryChars, HistoryTailRows} \subseteq Nat \ {0} /\ AnswerSizes \subseteq Nat
ASSUME OldRowsAreNumbered ==
  \A rs \in OldConversations :
    /\ rs \in Seq([id : Nat, role : {"user", "assistant"}, parent : {0}, status : {"completed"}, size : Nat])
    /\ \A i \in DOMAIN rs : rs[i].id = i /\ (rs[i].role = "user" => rs[i].size > 0)

OneKeyEach == <<"mcp_create_ticket", "create_ticket", "action_sink_write">>

EvalQuestions == <<"answerable", "abstention">>

Public   == [scope |-> "public", roles |-> {}, departments |-> {}, owner |-> "nobody"]
Operator == [user |-> "op", roles |-> {"admin"}, departments |-> {}]
Uploader == [user |-> "ann", roles |-> {}, departments |-> {}]

UploaderAndOperator  == {Uploader, Operator}
OperatorOnly         == {Operator}
PublicOrNobodys      == {Public, [Public EXCEPT !.scope = "private"]}
SecondIsTheUploaders == [p \in {Uploader} |-> {2}]
FirstIsPublic        == <<<<Public, Public>>, <<>>>>

Searchers ==
  { [user |-> "ann", roles |-> {"admin"}, departments |-> {"legal"}],
    [user |-> "bob", roles |-> {"hr"}, departments |-> {}] }

Shelf ==
  << [document |-> "d1", generation |-> "g", acl |-> Public],
     [document |-> "d1", generation |-> "g", acl |-> [Public EXCEPT !.scope = "department", !.departments = {"legal"}]],
     [document |-> "d2", generation |-> "g", acl |-> [Public EXCEPT !.scope = "role", !.roles = {"hr", "admin"}]],
     [document |-> "d2", generation |-> "g", acl |-> [Public EXCEPT !.scope = "private", !.owner = "ann"]],
     [document |-> "d2", generation |-> "old", acl |-> Public] >>

OldRow(id, role) == [id |-> id, role |-> role, parent |-> 0, status |-> "completed", size |-> 1]

AnsweredBeforeParents ==
  { <<OldRow(1, "user"), OldRow(2, "assistant")>>,
    <<OldRow(1, "user"), OldRow(2, "user"), OldRow(3, "assistant")>> }

VARIABLES part, v1, v2, v3, v4, v5, v6, v7, v8, v9, v10, v11, v12, v13, v14, v15, v16, v17

Tab == INSTANCE ChatClient WITH
  session <- v1, turns <- v2, conversation <- v3, pending <- v4, guard <- v5, stoppedRoute <- v6,
  asks <- v7, stops <- v8, lookups <- v9, url <- v10, asked <- v11, hurried <- v12

KeyCache == INSTANCE AccessKeys WITH
  elapsed <- v1, published <- v2, since <- v3, gone <- v4, keys <- v5, fetchedAt <- v6,
  attemptedAt <- v7, fetch <- v8, verifying <- v9

Find == INSTANCE Retrieval WITH
  Admin <- "admin", Nobody <- "nobody", People <- Askers, Passages <- Chunks,
  searches <- v1, shapes <- v2, embedder <- v3, search <- v4, rows <- v5, vectors <- v6, head <- v7,
  hits <- v8

Kb == INSTANCE KnowledgeBase WITH
  Admin <- "admin", Nobody <- "nobody", People <- KbPeople, Operators <- KbOperators,
  Documents <- KbDocuments, Accesses <- KbAccesses, UploadsOf <- KbUploadsOf, Size <- PassagesEach,
  MaxGenerations <- MaxKbGenerations, MaxCalls <- MaxKbCalls,
  states <- v1, passages <- v2, rows <- v3, bodies <- v4, active <- v5, promoter <- v6, job <- v7,
  calls <- v8

Upload == INSTANCE UploadDialog WITH
  MaxPolls <- MaxBatchPolls,
  entries <- v1, added <- v2, choice <- v3, sends <- v4, uploads <- v5, timer <- v6, poll <- v7,
  polls <- v8, lost <- v9, mounted <- v10

History == INSTANCE Transcript WITH
  messages <- v1

Checks == INSTANCE DraftChecks WITH
  settled <- v1, binding <- v2, listing <- v3, tombstones <- v4, mislabelled <- v5, widened <- v6,
  settings <- v7, plain <- v8, at <- v9, retry <- v10, present <- v11, ids <- v12, rest <- v13,
  restarted <- v14, orphans <- v15, outcome <- v16, decision <- v17

Eval == INSTANCE EvalHarness WITH
  MaxGenerations <- MaxEvalGenerations, MaxRuns <- MaxEvalRuns,
  brain <- v1, checkpoint <- v2, harness <- v3, summary <- v4, runs <- v5, moved <- v6

Tools == INSTANCE ConnectorTools WITH
  Keys <- EffectKeys, ToolOf <- KeyTool, Window <- RateWindow, MaxTime <- MaxToolTime,
  time <- v1, revoked <- v2, log <- v3, calls <- v4, claims <- v5, outside <- v6, effects <- v7

View == INSTANCE ViewAs WITH
  audits <- v1, turns <- v2, executions <- v3

Sources == INSTANCE SourcesPage WITH
  MaxPolls <- MaxPagePolls,
  corpus <- v1, shown <- v2, chain <- v3, loads <- v4, action <- v5, confirm <- v6, error <- v7,
  silent <- v8

Panel == INSTANCE ChatPanel WITH
  MaxTurns <- MaxAnswers,
  url <- v1, written <- v2, handled <- v3, panel <- v4, reader <- v5, seq <- v6, fetches <- v7, turns <- v8

Library == INSTANCE GlobalSearch WITH
  Documents <- Titles, Cap <- ResultCap, Limit <- ResultLimit, MaxCalls <- MaxLibraryCalls,
  catalog <- v1, query <- v2, timer <- v3, calls <- v4, settled <- v5, lost <- v6

Progress == INSTANCE TurnProgress WITH
  MaxPolls <- MaxTurnPolls,
  lock <- v1, turns <- v2, reached <- v3, writing <- v4, pending <- v5, timer <- v6, polls <- v7, line <- v8

slots == <<v1, v2, v3, v4, v5, v6, v7, v8, v9, v10, v11, v12, v13, v14, v15, v16, v17>>
allVars == <<part, accountVars, slots>>

rest12 == <<v13, v14, v15, v16, v17>>
rest10 == <<v11, v12, rest12>>
rest9 == <<v10, rest10>>
rest8 == <<v9, rest9>>
rest7 == <<v8, rest8>>
rest6 == <<v7, rest7>>
rest3 == <<v4, v5, v6, rest6>>
rest1 == <<v2, v3, rest3>>
rest0 == <<v1, rest1>>

Spare12 == v13 = 0 /\ v14 = 0 /\ v15 = 0 /\ v16 = 0 /\ v17 = 0
Spare10 == v11 = 0 /\ v12 = 0 /\ Spare12
Spare9 == v10 = 0 /\ Spare10
Spare8 == v9 = 0 /\ Spare9
Spare7 == v8 = 0 /\ Spare8
Spare6 == v7 = 0 /\ Spare7
Spare3 == v4 = 0 /\ v5 = 0 /\ v6 = 0 /\ Spare6
Spare1 == v2 = 0 /\ v3 = 0 /\ Spare3
Spare0 == v1 = 0 /\ Spare1

Init ==
  /\ AccountsInit
  /\ \/ part = "accounts" /\ Spare0
     \/ part = "chat" /\ Tab!Init /\ Spare12
     \/ part = "keys" /\ KeyCache!AccessInit /\ Spare9
     \/ part = "search" /\ Find!RetrievalInit /\ Spare8
     \/ part = "knowledge" /\ Kb!KbInit /\ Spare8
     \/ part = "upload" /\ Upload!UploadInit /\ Spare10
     \/ part = "history" /\ History!TranscriptInit /\ Spare1
     \/ part = "checks" /\ Checks!ChecksInit
     \/ part = "eval" /\ Eval!HarnessInit /\ Spare6
     \/ part = "tools" /\ Tools!ToolsInit /\ Spare7
     \/ part = "view" /\ View!ViewInit /\ Spare3
     \/ part = "page" /\ Sources!PageInit /\ Spare8
     \/ part = "panel" /\ Panel!PanelInit /\ Spare8
     \/ part = "library" /\ Library!SearchInit /\ Spare6
     \/ part = "progress" /\ Progress!ProgressInit /\ Spare8

Next ==
  /\ UNCHANGED part
  /\ \/ part = "accounts" /\ AccountsNext /\ UNCHANGED slots
     \/ part = "chat" /\ Tab!Next /\ UNCHANGED <<accountVars, rest12>>
     \/ part = "keys" /\ KeyCache!AccessNext /\ UNCHANGED <<accountVars, rest9>>
     \/ part = "search" /\ Find!RetrievalNext /\ UNCHANGED <<accountVars, rest8>>
     \/ part = "knowledge" /\ Kb!KbNext /\ UNCHANGED <<accountVars, rest8>>
     \/ part = "upload" /\ Upload!UploadNext /\ UNCHANGED <<accountVars, rest10>>
     \/ part = "history" /\ History!TranscriptNext /\ UNCHANGED <<accountVars, rest1>>
     \/ part = "checks" /\ Checks!ChecksNext /\ UNCHANGED accountVars
     \/ part = "eval" /\ Eval!HarnessNext /\ UNCHANGED <<accountVars, rest6>>
     \/ part = "tools" /\ Tools!ToolsNext /\ UNCHANGED <<accountVars, rest7>>
     \/ part = "view" /\ View!ViewNext /\ UNCHANGED <<accountVars, rest3>>
     \/ part = "page" /\ Sources!PageNext /\ UNCHANGED <<accountVars, rest8>>
     \/ part = "panel" /\ Panel!PanelNext /\ UNCHANGED <<accountVars, rest8>>
     \/ part = "library" /\ Library!SearchNext /\ UNCHANGED <<accountVars, rest6>>
     \/ part = "progress" /\ Progress!ProgressNext /\ UNCHANGED <<accountVars, rest8>>

Spec == Init /\ [][Next]_allVars

-----------------------------------------------------------------------------
(* Properties; Accounts states its own.                                    *)

(* ChatClient: a reply meets the chat and the transcript it belongs to,    *)
(* unless the member went on before a stop or a retry was under way.       *)
RepliesMeetTheirChat == [][part = "chat" => Tab!KeepsTheChat]_allVars

(* AccessKeys: a withdrawn key is not accepted for longer than the grace,  *)
(* and a key in use is not called unknown for longer than the time to      *)
(* live, whatever fetch is slow, shared or fails.                          *)
KeysAreCurrent ==
  part = "keys" => KeyCache!WithdrawnKeyLapses /\ KeyCache!PublishedKeyIsKnown

(* KnowledgeBase, Retrieval and GlobalSearch: a generation that is served  *)
(* is whole, and was promoted by someone who might; a search returns what  *)
(* the member may read of it and what its best keyword matches demand; and *)
(* late hits of the library are not shown for what was typed after they    *)
(* were asked for.                                                         *)
KnowledgeIsServedSafely ==
  /\ part = "knowledge" => Kb!ServedIsWhole /\ Kb!MembersPromoteTheirOwn
  /\ part = "search" => Find!HitsAreReadable /\ Find!BestKeywordHitsAreScored
  /\ part = "library" => Library!HitsAnswerTheQuery

(* Transcript: the tail of the rows tells the model what all of them would *)
(* have told it, the answers that the member was shown.                    *)
HistoryIsWhatWasShown == part = "history" => History!TailIsTheHistory /\ History!RememberedIsShown

(* DraftChecks: a draft that passes was proved clean, whichever of the     *)
(* index's views was late.                                                 *)
PassedIsClean == part = "checks" => Checks!PassedIsClean

(* EvalHarness: the rows of a summary are of one set-up, whatever died and *)
(* was resumed.                                                            *)
SummaryIsOneRun == part = "eval" => Eval!SummaryIsOneRun

(* ConnectorTools: an approved write is not done twice, whatever is tried  *)
(* again.                                                                  *)
WritesHappenOnce == part = "tools" => Tools!WritesHappenOnce

(* ViewAs: no answer given as somebody else is released without its audit. *)
ReleasedIsAudited == part = "view" => View!ReleasedIsAudited

(* UploadDialog, SourcesPage and TurnProgress: a page that polls goes on   *)
(* while there is something to follow, unless a call of its loop was       *)
(* rejected where nothing catches that, and shows what it was asked about. *)
PollsKeepUp ==
  /\ part = "upload" => Upload!EveryFileIsFollowed /\ Upload!ShownReadersAreUsed
  /\ part = "page" => Sources!PageFollowsTheDraft
  /\ part = "progress" => Progress!LineIsOfTheTurn

(* ChatPanel: a late document is not shown for what was opened after it    *)
(* was asked for.                                                          *)
PanelShowsItsDocument == part = "panel" => Panel!ReaderShowsItsDocument
=============================================================================
