------------------------------ MODULE AgentRun ------------------------------
(***************************************************************************)
(* One run of the knowledge agent: a loop of model calls and tool calls    *)
(* under a host policy and budgets, then the passes of the host over the   *)
(* draft (validation, completion, salvage, repair, recovery, recheck and   *)
(* coverage), and what the turn stores of it.                              *)
(*                                                                         *)
(* A text is a host sentence or a set of paragraphs.  A paragraph makes    *)
(* one claim: it is known by the chunks that state it word for word, the   *)
(* labels it cites and its mood.  Every chunk is a document of its own.    *)
(* The loop itself is pi-agent-core's and is modelled from how run.ts uses *)
(* it: the calls of a message run one after another, and a message whose   *)
(* every call terminated ends the run.                                     *)
(***************************************************************************)
EXTENDS Naturals, Sequences, FiniteSets

CONSTANTS Chunks,         \* chunks the principal may read
          Asked,          \* chunks that hold the identifier the question asks about
          Ids,            \* tool-call ids: the model chooses them and may repeat one
          Drafts,         \* bound: texts the model may write
          Extracts,       \* bound: what the extraction model may return
          Batches,        \* bound: sequences of tools one message may call
          MultiPart,      \* the question asks for several facts
          MaxResults,     \* bound: tool calls the model makes in a run
          MaxTurns, MaxToolCalls, MaxSearches   \* AGENT_BUDGETS

ASSUME AskedIsReadable == Asked \subseteq Chunks
ASSUME PartsAreKnown == MultiPart \in BOOLEAN
ASSUME BudgetsArePositive == {MaxTurns, MaxToolCalls, MaxSearches} \subseteq Nat \ {0}

VARIABLES
  at,          \* where the run is
  pass,        \* the pass of the host that is considered or in flight
  clock,       \* elapsed time against wallTimeMs
  signals,     \* aborted signals: the member's stop and the wall timer
  error,       \* agent.state.errorMessage is set
  turns, toolCalls, searches,   \* BudgetTracker
  tokensSpent, \* the token totals are past their budget
  asked,       \* the tool calls of the last assistant message
  next,        \* the call of it that is decided next
  terminated,  \* how many of its calls a hook terminated
  draft,       \* the text of the last assistant message
  results,     \* the tool results of the run
  ledger,      \* the evidence ledger in memory: label i names ledger[i]
  searchError, \* evidenceLedger.searchError
  softBlocked, \* budgetBlockedCallIds
  hardBlocked, \* hardBudgetBlockMessage is set
  turnLimit,   \* turnLimitStopped
  binding,     \* the result number of pendingApprovalBinding, 0 for none
  budgetError, \* budgetErrorMessage is set
  grounded,    \* the text the run would answer with
  refusal,     \* refusalReason
  cache,       \* repairExtractionCache: at most one response
  modelCalls,  \* history: provider calls started
  answer       \* what the turn stored

hooks   == <<asked, next, terminated, draft, results>>
budgets == <<turns, toolCalls, searches, tokensSpent>>
blocks  == <<softBlocked, hardBlocked, turnLimit>>
evidence == <<ledger, searchError>>
outcome == <<budgetError, grounded, refusal, cache>>
vars == <<at, pass, clock, signals, error, budgets, hooks, blocks, evidence, binding,
          outcome, modelCalls, answer>>

-----------------------------------------------------------------------------
Tools   == {"search", "ticket", "other"}
Moods   == {"asserts", "declines", "narrates"}
Hosts   == {"refusal", "unavailable", "mustRetrieve", "invalid"}
Labels  == Nat \ {0}
Kinds   == {"hits", "none", "caught", "error", "cap", "hard", "blocked", "denied", "pending"}
Passes  == <<"repair", "recover", "recheck", "cover">>
Reasons == {"none", "search_cap_invalid_draft", "model_abstained", "model_abstained_with_evidence"}

Paragraphs == [stated : SUBSET Chunks, mood : Moods, cites : SUBSET Labels]
Texts      == [host : Hosts \cup {"none"}, says : SUBSET Paragraphs]

ASSUME ChoicesAreTyped ==
  /\ Drafts \subseteq Texts
  /\ Extracts \subseteq [readable : BOOLEAN, quotes : SUBSET Paragraphs]
  /\ \A tools \in Batches : tools \in Seq(Tools)

(* The sentences only the host writes, and prose. *)
Host(h)  == [host |-> h, says |-> {}]
Prose(P) == [host |-> "none", says |-> P]

ResultOf(tool, id, kind, pairs) == [tool |-> tool, id |-> id, kind |-> kind, pairs |-> pairs]

(* What a turn stores: cited paragraphs, and the proposal beside them. *)
AnswerOf(kind, says, proposal) == [kind |-> kind, says |-> says, proposal |-> proposal]

NoAnswer == AnswerOf("none", {}, 0)

TypeOK ==
  /\ at \in {"model", "decide", "search", "turnEnd", "settle", "consider", "provider", "close", "done"}
  /\ pass \in 1..Len(Passes)
  /\ clock \in {"within", "edge", "over"}
  /\ signals \in SUBSET {"stop", "wall"}
  /\ {error, tokensSpent, searchError, hardBlocked, turnLimit, budgetError} \subseteq BOOLEAN
  /\ turns \in 0..(MaxTurns + 4)
  /\ {toolCalls, searches, modelCalls} \subseteq Nat
  /\ asked \in Seq(Tools \X Ids)
  /\ next \in 1..(Len(asked) + 1) /\ terminated \in 0..Len(asked)
  /\ {draft, grounded} \subseteq Texts
  /\ results \in Seq([tool : Tools, id : Ids, kind : Kinds, pairs : SUBSET (Labels \X Chunks)])
  /\ ledger \in Seq(Chunks)
  /\ softBlocked \in SUBSET Ids
  /\ binding \in 0..Len(results)
  /\ refusal \in Reasons
  /\ cache \subseteq Extracts /\ Cardinality(cache) <= 1
  /\ answer \in [kind : {"none", "cancelled", "unavailable", "insufficient", "grounded"},
                 says : SUBSET Paragraphs, proposal : 0..Len(results)]

Init ==
  /\ at = "model" /\ pass = 1
  /\ clock = "within" /\ signals = {} /\ error = FALSE
  /\ turns = 0 /\ toolCalls = 0 /\ searches = 0 /\ tokensSpent = FALSE
  /\ asked = <<>> /\ next = 1 /\ terminated = 0 /\ draft = Host("mustRetrieve") /\ results = <<>>
  /\ ledger = <<>> /\ searchError = FALSE
  /\ softBlocked = {} /\ hardBlocked = FALSE /\ turnLimit = FALSE /\ binding = 0
  /\ budgetError = FALSE /\ grounded = Host("mustRetrieve") /\ refusal = "none" /\ cache = {}
  /\ modelCalls = 1 /\ answer = NoAnswer

-----------------------------------------------------------------------------
(* Grounding: what enforceBrainGrounding and its helpers decide. *)

LabelsOf(S) == {i \in DOMAIN ledger : ledger[i] \in S}

EvidenceChunks == {ledger[i] : i \in DOMAIN ledger}

MemoryLedger == {<<i, ledger[i]>> : i \in DOMAIN ledger}

(* A paragraph is supported when a passage it cites states its claim. *)
Supported(p, pairs) == \E n \in p.cites, k \in p.stated : <<n, k>> \in pairs

(* The ledger that is built again from the transcript of the turn: the     *)
(* labels its search payloads carry.                                       *)
TranscriptLedger == UNION {results[i].pairs : i \in {j \in DOMAIN results : results[j].tool = "search"}}

Succeeded == \E i \in DOMAIN results : results[i].kind \in {"hits", "none"}

SearchErrorTold == \E i \in DOMAIN results : results[i].kind = "caught"

LabelConflict ==
  \E p, q \in TranscriptLedger : p # q /\ (p[1] = q[1] \/ p[2] = q[2])

MarkersValid(t) ==
  /\ ~LabelConflict
  /\ \A p \in t.says :
       /\ p.cites # {}
       /\ \A n \in p.cites : \E k \in Chunks : <<n, k>> \in TranscriptLedger
       /\ Supported(p, TranscriptLedger)

AnswerBearing(t) == signals = {} /\ ~error /\ t.host = "none" /\ t.says # {}

Enforce(t) ==
  CASE ~AnswerBearing(t)     -> t
    [] AnswerBearing(t) /\ ~Succeeded -> Host(IF SearchErrorTold THEN "unavailable" ELSE "mustRetrieve")
    [] AnswerBearing(t) /\ Succeeded /\ TranscriptLedger = {} -> Host("refusal")
    [] AnswerBearing(t) /\ Succeeded /\ TranscriptLedger # {} /\ ~MarkersValid(t) -> Host("invalid")
    [] OTHER -> t

Uncited(t) == \A p \in t.says : p.cites = {}

(* A short, uncited refusal in the model's own words. *)
ModelRefuses(t) ==
  \/ t.host # "none"
  \/ /\ Uncited(t)
     /\ \A p \in t.says : p.mood # "narrates"
     /\ \E p \in t.says : p.mood = "declines"

(* Any sentence that refuses, however long the text. *)
SentenceRefuses(t) == t.host # "none" \/ \E p \in t.says : p.mood # "asserts"

(* The label of every passage that states a paragraph is added to it. *)
Complete(t) == [t EXCEPT !.says = {[p EXCEPT !.cites = @ \cup LabelsOf(p.stated)] : p \in @}]

(* The paragraphs that copy evidence are kept and labelled, the rest is dropped. *)
Salvage(t) ==
  Prose({[p EXCEPT !.cites = LabelsOf(p.stated)] :
            p \in {q \in t.says : q.mood = "asserts" /\ LabelsOf(q.stated) # {}}})

-----------------------------------------------------------------------------
(* The loop: model calls, tool calls under the policy, and budgets. *)

Awaiting == {"model", "decide", "search", "turnEnd", "settle", "provider"}

(* The deadline passes, the wall timer fires and the member stops the run  *)
(* while the host waits for something.                                     *)
TimePasses ==
  /\ at \in Awaiting /\ clock # "over"
  /\ clock' = IF clock = "within" THEN "edge" ELSE "over"
  /\ UNCHANGED <<at, pass, signals, error, budgets, hooks, blocks, evidence, binding, outcome,
                 modelCalls, answer>>

Signalled ==
  /\ at \in Awaiting
  /\ \E s \in {"stop", "wall"} \ signals :
       /\ s = "wall" => clock # "within"
       /\ signals' = signals \cup {s}
  /\ UNCHANGED <<at, pass, clock, error, budgets, hooks, blocks, evidence, binding, outcome,
                 modelCalls, answer>>

(* An assistant message arrives and calls tools, or none.  Its text is     *)
(* chosen when it is judged: only that of the last message is ever read.   *)
ModelReplies ==
  /\ at = "model" /\ signals = {}
  /\ \E tools \in {<<>>} \cup Batches : \E ids \in [1..Len(tools) -> Ids] :
       /\ Len(results) + Len(tools) <= MaxResults
       /\ asked' = [i \in 1..Len(tools) |-> <<tools[i], ids[i]>>]
  /\ next' = 1 /\ terminated' = 0
  /\ at' = IF asked' = <<>> THEN "turnEnd" ELSE "decide"
  /\ UNCHANGED <<pass, clock, signals, error, budgets, draft, results, blocks,
                 evidence, binding, outcome, modelCalls, answer>>

(* The provider fails or its call runs into modelTimeoutMs. *)
ModelFails ==
  /\ at = "model" /\ signals = {}
  /\ error' = TRUE /\ asked' = <<>> /\ next' = 1 /\ terminated' = 0
  /\ at' = "settle"
  /\ UNCHANGED <<pass, clock, signals, budgets, draft, results, blocks, evidence, binding, outcome,
                 modelCalls, answer>>

(* An aborted agent ends with an error, wherever it waits. *)
AgentAborts ==
  /\ at \in {"model", "decide", "search"} /\ signals # {}
  /\ error' = TRUE /\ at' = "settle"
  /\ UNCHANGED <<pass, clock, signals, budgets, hooks, blocks, evidence, binding, outcome,
                 modelCalls, answer>>

Tool == asked[next][1]
Id   == asked[next][2]

(* The call that was decided gets its result, and the next one is decided. *)
Conclude(kind, pairs, ends) ==
  /\ results' = Append(results, ResultOf(Tool, Id, kind, pairs))
  /\ terminated' = IF ends THEN terminated + 1 ELSE terminated
  /\ next' = next + 1
  /\ at' = IF next = Len(asked) THEN "turnEnd" ELSE "decide"
  /\ UNCHANGED <<asked, draft>>

Deciding == at = "decide" /\ signals = {}

ToolLimit   == toolCalls + 1 > MaxToolCalls
SearchLimit == Tool = "search" /\ searches + 1 > MaxSearches

Charge ==
  /\ toolCalls' = toolCalls + 1
  /\ searches' = IF Tool = "search" /\ ~ToolLimit THEN searches + 1 ELSE searches
  /\ UNCHANGED <<turns, tokensSpent>>

SearchOnly == \A i \in DOMAIN asked : asked[i][1] = "search"

(* Arguments that do not fit the tool never reach the hook, and a hook     *)
(* past the wall time throws: either way the call has an error for result. *)
CallFails ==
  /\ Deciding
  /\ Conclude("error", {}, FALSE)
  /\ UNCHANGED <<pass, clock, signals, error, budgets, blocks, evidence, binding, outcome,
                 modelCalls, answer>>

InTime == Deciding /\ clock # "over"

SoftBlock ==
  /\ InTime /\ ~ToolLimit /\ SearchLimit /\ SearchOnly
  /\ Charge
  /\ softBlocked' = softBlocked \cup {Id}
  /\ Conclude("cap", {}, FALSE)
  /\ UNCHANGED <<pass, clock, signals, error, hardBlocked, turnLimit, evidence, binding, outcome,
                 modelCalls, answer>>

HardBlock ==
  /\ InTime /\ (ToolLimit \/ (SearchLimit /\ ~SearchOnly))
  /\ Charge
  /\ hardBlocked' = TRUE
  /\ Conclude("hard", {}, TRUE)
  /\ UNCHANGED <<pass, clock, signals, error, softBlocked, turnLimit, evidence, binding, outcome,
                 modelCalls, answer>>

Spendable == InTime /\ ~ToolLimit /\ ~SearchLimit

(* A tool outside the allowed set ends its call; a ticket needs evidence   *)
(* of this turn first, and then becomes a proposal, never an effect: the   *)
(* policy gateway answers a write without an approval with one to wait for.*)
RefuseTool ==
  /\ Spendable /\ Tool = "other"
  /\ Charge /\ Conclude("denied", {}, TRUE)
  /\ UNCHANGED <<pass, clock, signals, error, blocks, evidence, binding, outcome, modelCalls, answer>>

SearchFirst ==
  /\ Spendable /\ Tool = "ticket" /\ ledger = <<>>
  /\ Charge /\ Conclude("blocked", {}, FALSE)
  /\ UNCHANGED <<pass, clock, signals, error, blocks, evidence, binding, outcome, modelCalls, answer>>

Propose ==
  /\ Spendable /\ Tool = "ticket" /\ ledger # <<>>
  /\ Charge /\ Conclude("pending", {}, TRUE)
  /\ binding' = Len(results')
  /\ UNCHANGED <<pass, clock, signals, error, blocks, evidence, outcome, modelCalls, answer>>

SearchStarts ==
  /\ Spendable /\ Tool = "search"
  /\ Charge /\ at' = "search"
  /\ UNCHANGED <<pass, clock, signals, error, hooks, blocks, evidence, binding, outcome,
                 modelCalls, answer>>

(* Chunks of a set, each at most once, in some order of rank. *)
Rankings(S) == {s \in UNION {[1..n -> S] : n \in 0..Cardinality(S)} :
                  \A i, j \in DOMAIN s : s[i] = s[j] => i = j}

(* A search answers within its deadline: new chunks get the next labels in *)
(* their order, known ones keep theirs, and the payload tells the model    *)
(* which is which.                                                         *)
SearchReturns ==
  /\ at = "search" /\ signals = {}
  /\ \E known \in SUBSET EvidenceChunks : \E fresh \in Rankings(Chunks \ EvidenceChunks) :
       /\ ledger' = ledger \o fresh
       /\ Conclude(IF known = {} /\ fresh = <<>> THEN "none" ELSE "hits",
                   {hit \in (DOMAIN ledger') \X Chunks :
                      /\ ledger'[hit[1]] = hit[2]
                      /\ hit[2] \in known \/ hit[1] > Len(ledger)}, FALSE)
  /\ UNCHANGED <<pass, clock, signals, error, budgets, blocks, searchError, binding, outcome,
                 modelCalls, answer>>

(* The backend fails or the deadline of the tool passes: a later answer of *)
(* the search is thrown away.                                              *)
SearchFails ==
  /\ at = "search" /\ signals = {}
  /\ searchError' = TRUE
  /\ Conclude("caught", {}, FALSE)
  /\ UNCHANGED <<pass, clock, signals, error, budgets, blocks, ledger, binding, outcome,
                 modelCalls, answer>>

Note == turns' = turns + 1

(* shouldStopAfterTurn: wall time, turns, tokens; then the loop goes on    *)
(* unless the message called nothing or every call of it terminated.       *)
TurnEnds ==
  /\ at = "turnEnd"
  /\ IF clock = "over" THEN UNCHANGED turns ELSE Note
  /\ turnLimit' = (turnLimit \/ (turns' >= MaxTurns /\ clock # "over"))
  /\ tokensSpent' \in BOOLEAN
  /\ LET over == clock = "over" \/ turns' >= MaxTurns \/ tokensSpent' \/ terminated = Len(asked)
     IN  /\ at' = IF over THEN "settle" ELSE "model"
         /\ modelCalls' = IF over THEN modelCalls ELSE modelCalls + 1
  /\ UNCHANGED <<pass, clock, signals, error, toolCalls, searches, hooks, softBlocked,
                 hardBlocked, evidence, binding, outcome, answer>>

-----------------------------------------------------------------------------
(* After the loop: the draft is judged, then repaired as far as allowed. *)

Capped == softBlocked # {}

(* The turn budget left tool results unanswered that did not end the run   *)
(* by themselves.                                                          *)
CutOff == turnLimit /\ Capped /\ asked # <<>> /\ terminated # Len(asked)

(* Mutant: a cap block is known by its id alone. *)
MutCapBlockById(i) == results[i].id \in softBlocked

(* A cap block is no failed search, if its id names this one result only. *)
CapBlock(i) ==
  /\ results[i].kind = "cap" /\ results[i].id \in softBlocked
  /\ \A j \in DOMAIN results : results[j].id = results[i].id => j = i

SearchFailed ==
  \/ searchError
  \/ \E i \in DOMAIN results :
       results[i].tool = "search" /\ results[i].kind \in {"error", "hard", "cap"} /\ ~CapBlock(i)

(* Mutant: the host rewrites the draft of a capped run. *)
MutRewriteCapped == ledger # <<>>

HostMayRewrite == ledger # <<>> /\ ~Capped

(* Mutant: a completed draft is not validated again. *)
MutCompletedUnchecked(t) ==
  IF Enforce(t) = Host("invalid") /\ HostMayRewrite THEN Complete(t) ELSE Enforce(t)

(* The draft as the deterministic passes leave it. *)
Completed(t) ==
  IF Enforce(t) = Host("invalid") /\ HostMayRewrite THEN Enforce(Complete(t)) ELSE Enforce(t)

MaySalvage(t) ==
  /\ Completed(t) = Host("invalid") /\ HostMayRewrite
  /\ ~ModelRefuses(t) /\ ~(Uncited(t) /\ SentenceRefuses(t))
  /\ Salvage(t).says # {} /\ Enforce(Salvage(t)) = Salvage(t)

Judged(t) == IF MaySalvage(t) THEN Salvage(t) ELSE Completed(t)

(* Neither the draft nor what was made of it may stand. *)
Declined(t) == Judged(t) = Host("invalid") /\ (Capped \/ ModelRefuses(t))

ReasonOf(t) ==
  CASE Declined(t) /\ ~ModelRefuses(t)              -> "search_cap_invalid_draft"
    [] Declined(t) /\ ModelRefuses(t) /\ ledger = <<>> -> "model_abstained"
    [] (Declined(t) /\ ModelRefuses(t) /\ ledger # <<>>)
       \/ (Judged(t) = Host("refusal") /\ ledger # <<>>) -> "model_abstained_with_evidence"
    [] OTHER -> "none"

Settle ==
  /\ at = "settle"
  /\ budgetError' = (clock = "over" \/ tokensSpent \/ (Capped /\ hardBlocked) \/ CutOff)
  /\ draft' \in IF error THEN {Prose({})} ELSE Drafts
  /\ grounded' = IF Declined(draft') THEN Host("refusal") ELSE Judged(draft')
  /\ refusal' = ReasonOf(draft')
  /\ at' = "consider"
  /\ UNCHANGED <<pass, clock, signals, error, budgets, asked, next, terminated, results, blocks,
                 evidence, binding, cache, modelCalls, answer>>

CanRepair == signals = {} /\ ~SearchFailed /\ ~Capped /\ ledger # <<>>

Abstained == grounded = Host("refusal") /\ refusal = "model_abstained_with_evidence"

IsProse(t) == t.host = "none" /\ t.says # {}

(* Documents that the wording of question and evidence may point to. *)
MayBeHinted(t) == {k \in EvidenceChunks : ~\E p \in t.says : p.cites \cap LabelsOf({k}) # {}}

(* What each pass is for: citations of an invalid draft, an asked          *)
(* identifier that the evidence holds, a refusal beside evidence, and the  *)
(* parts an answer left out.                                               *)
Wanted ==
  /\ CanRepair
  /\ CASE Passes[pass] = "repair"  -> grounded = Host("invalid")
       [] Passes[pass] = "recover" -> /\ Abstained \/ grounded = Host("invalid")
                                      /\ Asked \cap EvidenceChunks # {}
       [] Passes[pass] = "recheck" -> Abstained
       [] Passes[pass] = "cover"   -> /\ IsProse(grounded) /\ Cardinality(EvidenceChunks) >= 2
                                      /\ MultiPart \/ MayBeHinted(grounded) # {}

Onward ==
  /\ pass' = IF pass = Len(Passes) THEN pass ELSE pass + 1
  /\ at' = IF pass = Len(Passes) THEN "close" ELSE "consider"

(* A pass that is not wanted, or has no wall time left; the coverage pass  *)
(* of a one-part question is also not wanted when nothing points to a      *)
(* document that the answer does not cite.  What forbids one pass forbids  *)
(* all that follow.                                                        *)
PassSkipped ==
  /\ at = "consider"
  /\ ~Wanted \/ clock = "over" \/ (Passes[pass] = "cover" /\ ~MultiPart)
  /\ IF CanRepair THEN Onward ELSE at' = "close" /\ UNCHANGED pass
  /\ UNCHANGED <<clock, signals, error, budgets, hooks, blocks, evidence, binding, outcome,
                 modelCalls, answer>>

Cached == cache # {} /\ Passes[pass] # "cover"

(* Mutant: the calls of a pass are not charged. *)
MutPassCallsFree ==
  /\ at = "consider" /\ Wanted /\ clock # "over" /\ ~Cached
  /\ at' = "provider" /\ modelCalls' = modelCalls + 1
  /\ UNCHANGED <<pass, clock, signals, error, budgets, hooks, blocks, evidence, binding, outcome, answer>>

(* A provider call of a pass is charged as a turn before it starts. *)
PassCalls ==
  /\ at = "consider" /\ Wanted /\ clock # "over" /\ ~Cached
  /\ Note
  /\ IF turns' < MaxTurns THEN at' = "provider" /\ pass' = pass ELSE Onward
  /\ modelCalls' = IF turns' < MaxTurns THEN modelCalls + 1 ELSE modelCalls
  /\ UNCHANGED <<clock, signals, error, toolCalls, searches, tokensSpent, hooks, blocks, evidence,
                 binding, outcome, answer>>

(* The quotes of an extract that copy the passage they cite. *)
Valid(e) == {q \in e.quotes : Supported(q, MemoryLedger)}

Kept(t) == signals = {} /\ Enforce(t) = t

HasToken(P) == \E p \in P : p.stated \cap Asked # {}

(* A quote is new unless a paragraph already states it under its label. *)
Additions(e) ==
  {q \in Valid(e) : ~\E p \in grounded.says : q.cites \subseteq p.cites /\ q.stated = p.stated}

(* The exact span of the evidence that shares most words with the question.*)
LexicalExtracts ==
  {Prose({[stated |-> {ledger[n]}, mood |-> "asserts", cites |-> {n}]}) : n \in DOMAIN ledger}

(* What a pass makes of an extract. *)
RepairWith(e) ==
  /\ \E t \in IF Valid(e) # {} THEN {Prose(Valid(e))} ELSE LexicalExtracts \cup {Host("invalid")} :
       grounded' = IF e.readable /\ signals = {} THEN Enforce(t) ELSE grounded
  /\ UNCHANGED refusal

(* Mutant: the span with most common words overturns a refusal, too. *)
MutOverturnByOverlap(e, accepted) ==
  \E t \in LexicalExtracts : grounded' = Enforce(t) /\ refusal' = "none"

Overturn(e, accepted) ==
  IF e.readable /\ Valid(e) # {} /\ accepted /\ Kept(Prose(Valid(e)))
  THEN grounded' = Prose(Valid(e)) /\ refusal' = "none"
  ELSE UNCHANGED <<grounded, refusal>>

CoverWith(e) ==
  /\ LET wider == Prose(grounded.says \cup Additions(e))
     IN  grounded' = IF e.readable /\ Additions(e) # {} /\ Kept(wider) THEN wider ELSE grounded
  /\ UNCHANGED refusal

Judge(e) ==
  CASE Passes[pass] = "repair"  -> RepairWith(e)
    [] Passes[pass] = "recover" -> Overturn(e, HasToken(Valid(e)))
    [] Passes[pass] = "recheck" -> Overturn(e, TRUE)
    [] Passes[pass] = "cover"   -> CoverWith(e)

(* The response of an earlier pass is judged again, without a call. *)
PassReuses ==
  /\ at = "consider" /\ Wanted /\ clock # "over" /\ Cached
  /\ \E e \in cache : Judge(e)
  /\ Onward
  /\ UNCHANGED <<clock, signals, error, budgets, hooks, blocks, evidence, binding, budgetError, cache,
                 modelCalls, answer>>

(* The signal of a pass is the member's stop and a deadline of its own:    *)
(* the wall timer alone does not cancel it.                                *)
ProviderReturns ==
  /\ at = "provider" /\ "stop" \notin signals
  /\ \E e \in Extracts :
       /\ Judge(e)
       /\ cache' = IF Passes[pass] = "cover" THEN cache ELSE {e}
  /\ Onward
  /\ UNCHANGED <<clock, signals, error, budgets, hooks, blocks, evidence, binding, budgetError,
                 modelCalls, answer>>

(* It fails, runs out of time or tokens, or is aborted: nothing is cached. *)
ProviderFails ==
  /\ at = "provider" /\ Onward
  /\ UNCHANGED <<clock, signals, error, budgets, hooks, blocks, evidence, binding, outcome,
                 modelCalls, answer>>

-----------------------------------------------------------------------------
(* What the turn stores. *)

(* A label of the evidence is kept, and that of every passage which states *)
(* the paragraph is added.                                                 *)
WithCitations(p) == [p EXCEPT !.cites = (@ \cap DOMAIN ledger) \cup LabelsOf(p.stated)]

(* The prose as cited paragraphs, and those of them that are supported.    *)
Paragraphed(t) == {p \in {WithCitations(q) : q \in t.says} : p.cites # {}}

Structured(t) == {p \in Paragraphed(t) : Supported(p, MemoryLedger)}

Pending == \E i \in DOMAIN results : results[i].kind = "pending"

Refused == AnswerOf("insufficient", {}, 0)

Plain(t) ==
  IF t.host = "none" /\ Structured(t) # {}
  THEN AnswerOf("grounded", Structured(t), 0) ELSE Refused

(* A proposal is stored beside the answer; one that cannot be recorded is  *)
(* a refusal.                                                              *)
Stored(t) ==
  CASE ~Pending -> {Plain(t)}
    [] Pending /\ (ledger = <<>> \/ binding = 0) -> {Refused}
    [] Pending /\ ledger # <<>> /\ binding # 0 ->
         {Refused, AnswerOf("grounded", Plain(t).says, binding)}

Close ==
  /\ at = "close"
  /\ budgetError' = (budgetError \/ clock # "within")
  /\ grounded' = IF budgetError' \/ SearchFailed THEN Host("unavailable") ELSE grounded
  /\ answer' \in CASE "stop" \in signals -> {AnswerOf("cancelled", {}, 0)}
                   [] "stop" \notin signals /\ (error \/ budgetError' \/ signals # {}
                                                  \/ grounded' = Host("unavailable")) ->
                        {AnswerOf("unavailable", {}, 0)}
                   [] OTHER -> Stored(grounded')
  /\ at' = "done"
  /\ UNCHANGED <<pass, clock, signals, error, budgets, hooks, blocks, evidence, binding, refusal, cache,
                 modelCalls>>

Done == at = "done" /\ UNCHANGED vars

Next ==
  \/ TimePasses \/ Signalled
  \/ ModelReplies \/ ModelFails \/ AgentAborts
  \/ CallFails \/ SoftBlock \/ HardBlock \/ RefuseTool \/ SearchFirst \/ Propose
  \/ SearchStarts \/ SearchReturns \/ SearchFails \/ TurnEnds
  \/ Settle \/ PassSkipped \/ PassCalls \/ PassReuses \/ ProviderReturns \/ ProviderFails
  \/ Close \/ Done

Spec == Init /\ [][Next]_vars

-----------------------------------------------------------------------------
(* Properties *)

Answered == answer.kind \in {"insufficient", "grounded"}

(* However a run is interrupted and whichever pass wrote its text, prose   *)
(* that is answered with was validated against the evidence of this turn   *)
(* (enforce() hands interrupted text through, run.ts:766-768), and the two *)
(* ledgers agree: what was validated against the one read back from the    *)
(* transcript is stored whole under the one in memory, unless the proposal *)
(* beside it could not be recorded.                                        *)
AnswerIsGrounded ==
  Answered /\ IsProse(grounded) =>
    /\ MarkersValid(grounded)
    /\ (Pending => answer.proposal # 0) =>
         \A p \in grounded.says :
           \E q \in answer.says : q.stated = p.stated /\ p.cites \subseteq q.cites

(* A search that failed makes the turn unavailable, whatever the draft     *)
(* says and whichever ids the model gave its calls (run.ts:695-732).       *)
FailedSearchIsUnavailable ==
  Answered => ~\E i \in DOMAIN results :
                 results[i].tool = "search" /\ results[i].kind \in {"caught", "error", "hard"}

(* After a soft search cap the answer is the model's own draft, if it is   *)
(* grounded as it stands, or the refusal: no pass of the host wrote it.    *)
CapKeepsTheDraft == Answered /\ Capped => grounded \in {draft, Host("refusal")}

(* The loop and the passes after it share one budget of model calls.       *)
ModelCallsWithinBudget == modelCalls <= MaxTurns

(* A proposal that is recorded is the last one the model made, and a       *)
(* search of this turn had found evidence before it was made.              *)
ProposalIsBacked ==
  answer.proposal # 0 =>
    /\ results[answer.proposal].kind = "pending"
    /\ \A i \in DOMAIN results : results[i].kind = "pending" => i <= answer.proposal
    /\ \E i \in 1..answer.proposal : results[i].kind = "hits"

(* Whatever the run ends with, its evidence was found in this turn.        *)
OutcomeIsBacked == AnswerIsGrounded /\ ProposalIsBacked

(* A refusal is overturned only by quotes the extraction model returned,   *)
(* never by the overlap of words (run.ts:115-119, 816-823).                *)
RefusalStands ==
  [][grounded = Host("refusal") /\ IsProse(grounded') =>
       \E e \in cache' : grounded'.says \subseteq e.quotes]_vars
=============================================================================
