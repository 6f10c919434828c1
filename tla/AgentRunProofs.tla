--------------------------- MODULE AgentRunProofs ---------------------------
(***************************************************************************)
(* Proofs about AgentRun for any chunks, ids, drafts, extracts, messages   *)
(* and any positive budgets.                                               *)
(***************************************************************************)
EXTENDS AgentRun, TLAPS, FiniteSetTheorems

-----------------------------------------------------------------------------
(* The inductive invariant.                                                *)

Loop == {"model", "decide", "search", "turnEnd"}

(* A call that is decided is one of the message. *)
Decided ==
  /\ at \in {"decide", "search"} => next <= Len(asked)
  /\ terminated < next

(* A call that was started is a turn that was noted, or the one under way. *)
Charged ==
  /\ at \in Loop => turns < MaxTurns
  /\ turns <= MaxTurns + (IF at = "provider" THEN pass ELSE IF at \in {"close", "done"} THEN 4 ELSE pass - 1)
  /\ modelCalls <= turns + 1 /\ modelCalls <= MaxTurns

(* What the transcript tells is in the ledger, and how a search ended is   *)
(* told in the transcript.                                                 *)
Told ==
  /\ TranscriptLedger \subseteq MemoryLedger
  /\ \A i \in DOMAIN results : results[i].kind = "caught" => searchError
  /\ ledger # <<>> => \E i \in DOMAIN results : results[i].kind = "hits"
  /\ softBlocked # {} => searches # 0
  /\ searches # 0 => at = "search" \/ error \/ Succeeded \/ SearchErrorTold

Bound ==
  /\ binding # 0 =>
       /\ results[binding].kind = "pending"
       /\ \E i \in 1..binding : results[i].kind = "hits"
  /\ \A i \in DOMAIN results : results[i].kind = "pending" => i <= binding

(* A text that nothing interrupted was validated, and a pass works on what *)
(* it was considered for.                                                  *)
Validated ==
  /\ at \in Loop \cup {"settle"} => grounded = Host("mustRetrieve")
  /\ IsProse(grounded) /\ signals = {} /\ ~error => MarkersValid(grounded)
  /\ Capped /\ at \notin Loop \cup {"settle"} =>
       grounded \in {draft, Host("refusal"), Host("unavailable")}
  /\ at = "provider" =>
       /\ ~Capped
       /\ Passes[pass] = "repair" => grounded = Host("invalid")
       /\ Passes[pass] = "cover" => IsProse(grounded)

Ended ==
  /\ at # "done" => answer = NoAnswer
  /\ OutcomeIsBacked /\ FailedSearchIsUnavailable /\ CapKeepsTheDraft

Known == Decided /\ Charged /\ Told /\ Bound /\ Validated /\ Ended

IInv == TypeOK /\ Known

-----------------------------------------------------------------------------
(* What the operators of the host return. *)

LEMMA HostIsText == ASSUME NEW h \in Hosts PROVE Host(h) \in Texts
  BY DEF Host, Texts

LEMMA ProseIsText == ASSUME NEW P \in SUBSET Paragraphs PROVE Prose(P) \in Texts
  BY DEF Prose, Texts

LEMMA LabelsAreLabels == ASSUME TypeOK, NEW S PROVE LabelsOf(S) \subseteq Labels
  BY DEF LabelsOf, TypeOK, Labels

LEMMA EnforcedIsText == ASSUME NEW t \in Texts PROVE Enforce(t) \in Texts
<1>1. Enforce(t) \in {t, Host("unavailable"), Host("mustRetrieve"), Host("refusal"), Host("invalid")}
  BY DEF Enforce
<1> QED
  BY <1>1, HostIsText DEF Hosts

LEMMA CompletedIsText == ASSUME TypeOK, NEW t \in Texts PROVE Completed(t) \in Texts
<1>1. Complete(t) \in Texts
  <2> DEFINE f(p) == [p EXCEPT !.cites = @ \cup LabelsOf(p.stated)]
  <2>1. \A p \in Paragraphs : f(p) \in Paragraphs
    BY LabelsAreLabels DEF Paragraphs
  <2>2. {f(p) : p \in t.says} \in SUBSET Paragraphs
    BY <2>1 DEF Texts
  <2> QED
    BY <2>2 DEF Complete, Texts
<1> QED
  BY <1>1, EnforcedIsText DEF Completed

LEMMA SalvageIsText == ASSUME TypeOK, NEW t \in Texts PROVE Salvage(t) \in Texts
<1> DEFINE f(p) == [p EXCEPT !.cites = LabelsOf(p.stated)]
<1>1. \A p \in Paragraphs : f(p) \in Paragraphs
  BY LabelsAreLabels DEF Paragraphs
<1>2. {f(p) : p \in {q \in t.says : q.mood = "asserts" /\ LabelsOf(q.stated) # {}}} \in SUBSET Paragraphs
  BY <1>1 DEF Texts
<1> QED
  BY <1>2, ProseIsText DEF Salvage

LEMMA JudgedIsText == ASSUME TypeOK, NEW t \in Texts PROVE Judged(t) \in Texts
  BY CompletedIsText, SalvageIsText DEF Judged

(* The host's own check lets prose through only if its markers are valid. *)
LEMMA EnforceIsSafe ==
  ASSUME NEW t, signals = {}, ~error, IsProse(Enforce(t))
  PROVE  Enforce(t) = t /\ MarkersValid(t)
<1>1. Enforce(t) \notin {Host("unavailable"), Host("mustRetrieve"), Host("refusal"), Host("invalid")}
  BY DEF IsProse, Host
<1>2. Enforce(t) = t
  BY <1>1 DEF Enforce
<1>3. AnswerBearing(t)
  BY <1>2 DEF AnswerBearing, IsProse
<1> QED
  BY <1>1, <1>2, <1>3 DEF Enforce

(* What becomes of a draft that nothing interrupted is valid, if prose.    *)
LEMMA JudgedIsSafe ==
  ASSUME NEW t, signals = {}, ~error, IsProse(Judged(t))
  PROVE  MarkersValid(Judged(t))
<1>1. CASE MaySalvage(t)
  <2>1. Judged(t) = Salvage(t) /\ Enforce(Salvage(t)) = Salvage(t)
    BY <1>1 DEF Judged, MaySalvage
  <2> QED
    BY <2>1, EnforceIsSafe
<1>2. CASE ~MaySalvage(t)
  <2>1. Judged(t) \in {Enforce(Complete(t)), Enforce(t)}
    BY <1>2 DEF Judged, Completed
  <2> QED
    BY <2>1, EnforceIsSafe
<1> QED
  BY <1>1, <1>2

(* A capped draft stands as it is, or the host answers for it.             *)
LEMMA CappedStands ==
  ASSUME NEW t, Capped
  PROVE  /\ Judged(t) \in {t, Host("unavailable"), Host("mustRetrieve"), Host("refusal"), Host("invalid")}
         /\ Judged(t) = Host("invalid") => Declined(t)
         /\ Judged(t) = Enforce(t)
<1>1. ~HostMayRewrite
  BY DEF HostMayRewrite
<1>2. Judged(t) = Enforce(t)
  BY <1>1 DEF Judged, MaySalvage, Completed
<1> QED
  BY <1>2 DEF Enforce, Declined

-----------------------------------------------------------------------------
(* Types. *)

Results == [tool : Tools, id : Ids, kind : Kinds, pairs : SUBSET (Labels \X Chunks)]

LEMMA CallIsTyped ==
  ASSUME TypeOK, Decided, at \in {"decide", "search"}
  PROVE  next \in DOMAIN asked /\ Tool \in Tools /\ Id \in Ids
<1>1. next \in 1..Len(asked) /\ asked \in Seq(Tools \X Ids)
  BY DEF TypeOK, Decided
<1>2. asked[next] \in Tools \X Ids
  BY <1>1
<1> QED
  BY <1>1, <1>2 DEF Tool, Id

(* A conclusion appends one result and moves on to the next call. *)
LEMMA ConcludeAppends ==
  ASSUME TypeOK, Decided, at \in {"decide", "search"},
         NEW kind \in Kinds, NEW pairs \in SUBSET (Labels \X Chunks), NEW ends \in BOOLEAN,
         Conclude(kind, pairs, ends)
  PROVE  /\ results' \in Seq(Results) /\ Len(results') = Len(results) + 1
         /\ \A i \in DOMAIN results : results'[i] = results[i]
         /\ results'[Len(results) + 1] = ResultOf(Tool, Id, kind, pairs)
         /\ next' \in 1..(Len(asked) + 1) /\ terminated' \in 0..Len(asked) /\ terminated' < next'
         /\ at' \in {"decide", "turnEnd"} /\ (at' = "decide" => next' <= Len(asked))
         /\ asked' = asked /\ draft' = draft
<1>1. ResultOf(Tool, Id, kind, pairs) \in Results
  BY CallIsTyped DEF ResultOf, Results
<1>2. results \in Seq(Results) /\ next \in 1..Len(asked) /\ terminated \in 0..Len(asked) /\ terminated < next
  BY CallIsTyped DEF TypeOK, Results, Decided
<1>3. results' = Append(results, ResultOf(Tool, Id, kind, pairs)) /\ next' = next + 1
      /\ at' = (IF next = Len(asked) THEN "turnEnd" ELSE "decide")
      /\ terminated' = (IF ends THEN terminated + 1 ELSE terminated) /\ asked' = asked /\ draft' = draft
  BY DEF Conclude
<1>4. asked \in Seq(Tools \X Ids)
  BY DEF TypeOK
<1> HIDE DEF Results, ResultOf
<1>5. Len(asked) \in Nat
  BY <1>4
<1>6. next' \in 1..(Len(asked) + 1) /\ terminated' \in 0..Len(asked) /\ terminated' < next'
  BY <1>2, <1>3, <1>5
<1>7. at' \in {"decide", "turnEnd"} /\ (at' = "decide" => next' <= Len(asked))
  BY <1>2, <1>3, <1>5
<1> QED
  BY <1>1, <1>2, <1>3, <1>6, <1>7

(* The rest of the state, when a call concludes. *)
Rest == <<pass, clock, signals, error, turns, tokensSpent, turnLimit, budgetError, grounded, refusal, cache,
          modelCalls, answer>>

LEMMA ConclusionIsTyped ==
  ASSUME TypeOK, Decided, at \in {"decide", "search"},
         NEW kind \in Kinds, NEW pairs \in SUBSET (Labels \X Chunks), NEW ends \in BOOLEAN,
         Conclude(kind, pairs, ends), UNCHANGED Rest,
         ledger' \in Seq(Chunks), searchError' \in BOOLEAN, hardBlocked' \in BOOLEAN,
         toolCalls' \in Nat, searches' \in Nat, softBlocked' \in SUBSET Ids, binding' \in {binding, Len(results')}
  PROVE  TypeOK' /\ Decided'
<1>1. /\ results' \in Seq(Results) /\ Len(results') = Len(results) + 1
      /\ next' \in 1..(Len(asked) + 1) /\ terminated' \in 0..Len(asked) /\ terminated' < next'
      /\ at' \in {"decide", "turnEnd"} /\ (at' = "decide" => next' <= Len(asked))
      /\ asked' = asked /\ draft' = draft
  BY ConcludeAppends
<1>2. Decided'
  BY <1>1 DEF Decided
<1>3. binding' \in 0..Len(results') /\ Len(results) \in Nat
  <2>1. binding \in 0..Len(results) /\ Len(results) \in Nat
    BY DEF TypeOK
  <2> QED
    BY <1>1, <2>1
<1>4. answer' \in [kind : {"none", "cancelled", "unavailable", "insufficient", "grounded"},
                 says : SUBSET Paragraphs, proposal : 0..Len(results')]
  <2>1. 0..Len(results) \subseteq 0..Len(results')
    BY <1>1, <1>3
  <2> QED
    BY <2>1 DEF TypeOK, Rest
<1>5. {error, tokensSpent, searchError, hardBlocked, turnLimit, budgetError}' \subseteq BOOLEAN
  BY DEF TypeOK, Rest
<1>6. {toolCalls, searches, modelCalls}' \subseteq Nat /\ turns' \in 0..(MaxTurns + 4)
      /\ pass' \in 1..Len(Passes) /\ clock' \in {"within", "edge", "over"} /\ signals' \in SUBSET {"stop", "wall"}
      /\ refusal' \in Reasons /\ cache' \subseteq Extracts /\ Cardinality(cache)' <= 1
      /\ {draft, grounded}' \subseteq Texts /\ asked' \in Seq(Tools \X Ids)
  BY <1>1 DEF TypeOK, Rest
<1> QED
  BY <1>1, <1>2, <1>3, <1>4, <1>5, <1>6 DEF TypeOK, Results

(* The loop and the passes charge what they start. *)
LEMMA ChargesKept ==
  ASSUME TypeOK, Charged, Next
  PROVE  Charged' /\ turns' \in Nat /\ modelCalls' \in Nat /\ pass' \in 1..4
<1>1. turns \in Nat /\ modelCalls \in Nat /\ pass \in 1..4 /\ MaxTurns \in Nat \ {0}
  <2>1. turns \in 0..(MaxTurns + 4) /\ modelCalls \in Nat /\ pass \in 1..Len(Passes)
    BY DEF TypeOK
  <2>2. Len(Passes) = 4
    BY DEF Passes
  <2>3. MaxTurns \in Nat \ {0}
    BY BudgetsArePositive
  <2> QED
    BY <2>1, <2>2, <2>3
<1>2. CASE UNCHANGED <<at, pass, turns, modelCalls>>
  BY <1>1, <1>2 DEF Charged
<1>3. CASE /\ at \in Loop /\ at' \in Loop \cup {"settle"} /\ UNCHANGED <<pass, turns, modelCalls>>
  BY <1>1, <1>3 DEF Charged, Loop
<1>4. CASE TurnEnds
  BY <1>1, <1>4 DEF TurnEnds, Note, Charged, Loop
<1>5. CASE Settle
  BY <1>1, <1>5 DEF Settle, Charged, Loop, budgets
<1>6. CASE at = "consider" /\ (Onward \/ (at' = "close" /\ UNCHANGED pass)) /\ UNCHANGED <<turns, modelCalls>>
  BY <1>1, <1>6 DEF Charged, Onward, Loop, Passes
<1>7. CASE at = "provider" /\ Onward /\ UNCHANGED <<turns, modelCalls>>
  BY <1>1, <1>7 DEF Charged, Onward, Loop, Passes
<1>8. CASE PassCalls
  BY <1>1, <1>8 DEF PassCalls, Note, Charged, Onward, Loop, Passes
<1>9. CASE Close
  <2>1. at = "close" /\ at' = "done" /\ UNCHANGED <<pass, turns, modelCalls>>
    BY <1>9, Zenon DEF Close, budgets
  <2> QED
    BY <1>1, <2>1 DEF Charged, Loop
<1>10. CASE TimePasses \/ Signalled \/ Done
  BY <1>2, <1>10 DEF TimePasses, Signalled, Done, budgets, vars
<1>11. CASE ModelReplies \/ ModelFails \/ AgentAborts \/ SearchStarts
  BY <1>3, <1>11 DEF ModelReplies, ModelFails, AgentAborts, SearchStarts, Loop, budgets, Charge, Spendable, InTime, Deciding
<1>12. CASE CallFails \/ SoftBlock \/ HardBlock \/ RefuseTool \/ SearchFirst \/ Propose \/ SearchReturns \/ SearchFails
  BY <1>3, <1>12 DEF CallFails, SoftBlock, HardBlock, RefuseTool, SearchFirst, Propose, SearchReturns, SearchFails,
     Conclude, Charge, Loop, budgets, Spendable, InTime, Deciding
<1>13. CASE PassSkipped
  BY <1>6, <1>13 DEF PassSkipped, budgets
<1>14. CASE PassReuses
  BY <1>6, <1>14 DEF PassReuses, budgets
<1>15. CASE ProviderReturns \/ ProviderFails
  BY <1>7, <1>15 DEF ProviderReturns, ProviderFails, budgets
<1> QED
  BY <1>4, <1>5, <1>8, <1>9, <1>10, <1>11, <1>12, <1>13, <1>14, <1>15 DEF Next

LEMMA ValidAreQuotes == ASSUME NEW e \in Extracts PROVE Valid(e) \subseteq e.quotes /\ Valid(e) \in SUBSET Paragraphs
  BY ChoicesAreTyped DEF Valid

LEMMA PassesNamed ==
  /\ Passes[1] = "repair" /\ Passes[2] = "recover" /\ Passes[3] = "recheck" /\ Passes[4] = "cover"
  /\ Len(Passes) = 4
  BY DEF Passes

(* The four passes, one by one. *)
LEMMA JudgeCases ==
  ASSUME NEW e, pass \in 1..4, Judge(e)
  PROVE  \/ pass = 1 /\ RepairWith(e)
         \/ pass = 2 /\ Overturn(e, HasToken(Valid(e)))
         \/ pass = 3 /\ Overturn(e, TRUE)
         \/ pass = 4 /\ CoverWith(e)
<1>1. CASE pass = 1
  BY <1>1, PassesNamed DEF Judge
<1>2. CASE pass = 2
  BY <1>2, PassesNamed DEF Judge
<1>3. CASE pass = 3
  BY <1>3, PassesNamed DEF Judge
<1>4. CASE pass = 4
  BY <1>4, PassesNamed DEF Judge
<1>5. pass = 1 \/ pass = 2 \/ pass = 3 \/ pass = 4
  OBVIOUS
<1> QED
  BY <1>1, <1>2, <1>3, <1>4, <1>5, Zenon

LEMMA JudgeIsTyped ==
  ASSUME TypeOK, NEW e \in Extracts, Judge(e)
  PROVE  grounded' \in Texts /\ refusal' \in Reasons
<1>1. pass \in 1..4 /\ grounded \in Texts /\ refusal \in Reasons
  BY PassesNamed DEF TypeOK
<1>2. CASE RepairWith(e)
  <2>1. PICK t \in IF Valid(e) # {} THEN {Prose(Valid(e))} ELSE LexicalExtracts \cup {Host("invalid")} :
          grounded' = IF e.readable /\ signals = {} THEN Enforce(t) ELSE grounded
    BY <1>2 DEF RepairWith
  <2>2. Prose(Valid(e)) \in Texts /\ Host("invalid") \in Texts
    BY ValidAreQuotes, ProseIsText, HostIsText DEF Hosts
  <2>3. LexicalExtracts \subseteq Texts
    <3>1. \A n \in DOMAIN ledger : [stated |-> {ledger[n]}, mood |-> "asserts", cites |-> {n}] \in Paragraphs
      BY DEF TypeOK, Paragraphs, Moods, Labels
    <3> QED
      BY <3>1, ProseIsText DEF LexicalExtracts
  <2> QED
    BY <1>1, <1>2, <2>1, <2>2, <2>3, EnforcedIsText DEF RepairWith
<1>3. ASSUME NEW accepted, Overturn(e, accepted) PROVE grounded' \in Texts /\ refusal' \in Reasons
  BY <1>1, <1>3, ValidAreQuotes, ProseIsText DEF Overturn, Reasons
<1>4. CASE CoverWith(e)
  <2>1. Prose(grounded.says \cup Additions(e)) \in Texts
    <3>1. grounded.says \in SUBSET Paragraphs /\ Additions(e) \in SUBSET Paragraphs
      BY <1>1, ValidAreQuotes DEF Texts, Additions
    <3> QED
      BY <3>1, ProseIsText
  <2> QED
    BY <1>1, <1>4, <2>1 DEF CoverWith
<1> QED
  BY <1>1, <1>2, <1>3, <1>4, JudgeCases

Answers(n) ==
  [kind : {"none", "cancelled", "unavailable", "insufficient", "grounded"},
   says : SUBSET Paragraphs, proposal : 0..n]

LEMMA PlainIsTyped ==
  ASSUME TypeOK, NEW t \in Texts
  PROVE  Plain(t) \in Answers(Len(results)) /\ Refused \in Answers(Len(results))
<1>1. 0 \in 0..Len(results)
  BY DEF TypeOK
<1>2. Structured(t) \in SUBSET Paragraphs
  <2>1. \A q \in Paragraphs : WithCitations(q) \in Paragraphs
    <3>1. DOMAIN ledger \subseteq Labels
      BY DEF TypeOK, Labels
    <3> QED
      BY <3>1, LabelsAreLabels DEF WithCitations, Paragraphs
  <2> QED
    BY <2>1 DEF Structured, Paragraphed, Texts
<1> QED
  BY <1>1, <1>2 DEF Plain, Refused, AnswerOf, Answers

(* The three ways to store a text. *)
LEMMA StoredCases ==
  ASSUME NEW t, NEW a \in Stored(t)
  PROVE  \/ ~Pending /\ a = Plain(t)
         \/ Pending /\ a = Refused
         \/ Pending /\ binding # 0 /\ a = AnswerOf("grounded", Plain(t).says, binding)
<1>1. CASE ~Pending
  BY <1>1 DEF Stored
<1>2. CASE Pending /\ (ledger = <<>> \/ binding = 0)
  BY <1>2 DEF Stored
<1>3. CASE Pending /\ ledger # <<>> /\ binding # 0
  BY <1>3 DEF Stored
<1> QED
  BY <1>1, <1>2, <1>3

(* How a run can close. *)
LEMMA CloseCases ==
  ASSUME Close
  PROVE  /\ at = "close" /\ at' = "done"
         /\ UNCHANGED <<pass, clock, signals, error, budgets, hooks, blocks, evidence, binding, refusal, cache,
                        modelCalls>>
         /\ budgetError' = (budgetError \/ clock # "within")
         /\ grounded' = IF budgetError' \/ SearchFailed THEN Host("unavailable") ELSE grounded
         /\ \/ answer' \in {AnswerOf("cancelled", {}, 0), AnswerOf("unavailable", {}, 0)}
            \/ /\ signals = {} /\ ~error /\ ~budgetError' /\ grounded' # Host("unavailable")
               /\ answer' \in Stored(grounded')
<1>1. CASE "stop" \in signals
  BY <1>1 DEF Close
<1>2. CASE "stop" \notin signals /\ (error \/ budgetError' \/ signals # {} \/ grounded' = Host("unavailable"))
  BY <1>2, Zenon DEF Close
<1>3. CASE ~("stop" \in signals) /\ ~(error \/ budgetError' \/ signals # {} \/ grounded' = Host("unavailable"))
  <2>1. "stop" \notin signals
    BY <1>3
  <2> QED
    BY <1>3, <2>1, Zenon DEF Close
<1> QED
  BY <1>1, <1>2, <1>3

(* New chunks extend the ledger. *)
LEMMA LedgerGrows ==
  ASSUME TypeOK, NEW fresh \in Rankings(Chunks \ EvidenceChunks), ledger' = ledger \o fresh
  PROVE  /\ fresh \in Seq(Chunks) /\ ledger' \in Seq(Chunks)
         /\ Len(ledger') = Len(ledger) + Len(fresh)
         /\ \A n \in DOMAIN ledger : ledger'[n] = ledger[n]
         /\ fresh = <<>> => ledger' = ledger
         /\ Len(fresh) = 0 => fresh = <<>>
<1>1. PICK n \in 0..Cardinality(Chunks \ EvidenceChunks) : fresh \in [1..n -> Chunks \ EvidenceChunks]
  BY DEF Rankings
<1>2. fresh \in Seq(Chunks) /\ ledger \in Seq(Chunks)
  BY <1>1 DEF TypeOK
<1>3. Len(fresh) = 0 => fresh = <<>>
  BY <1>2
<1>4. fresh = <<>> => ledger' = ledger
  BY <1>2
<1> QED
  BY <1>2, <1>3, <1>4

LEMMA InitIsTyped == Init => TypeOK /\ Decided
<1> SUFFICES ASSUME Init PROVE TypeOK /\ Decided
  OBVIOUS
<1>1. answer \in Answers(0)
  BY DEF Init, NoAnswer, AnswerOf, Answers
<1>2. draft \in Texts /\ grounded \in Texts
  BY HostIsText DEF Init, Hosts
<1>3. Cardinality(cache) <= 1
  BY FS_EmptySet DEF Init
<1>4. MaxTurns \in Nat
  BY BudgetsArePositive
<1>5. asked \in Seq(Tools \X Ids) /\ results \in Seq(Results) /\ ledger \in Seq(Chunks)
      /\ Len(asked) = 0 /\ Len(results) = 0
  BY DEF Init
<1>6. asked = <<>> /\ results = <<>> /\ ledger = <<>> /\ next = 1 /\ terminated = 0 /\ binding = 0
      /\ cache = {} /\ pass = 1 /\ turns = 0 /\ refusal = "none" /\ signals = {} /\ softBlocked = {}
      /\ at = "model" /\ clock = "within" /\ toolCalls = 0 /\ searches = 0 /\ modelCalls = 1
      /\ ~error /\ ~tokensSpent /\ ~searchError /\ ~hardBlocked /\ ~turnLimit /\ ~budgetError
  BY DEF Init
<1>7. {error, tokensSpent, searchError, hardBlocked, turnLimit, budgetError} \subseteq BOOLEAN
  BY DEF Init
<1>8. /\ next \in 1..(Len(asked) + 1) /\ terminated \in 0..Len(asked) /\ binding \in 0..Len(results)
      /\ pass \in 1..Len(Passes) /\ turns \in 0..(MaxTurns + 4)
      /\ answer \in Answers(Len(results))
  BY <1>1, <1>4, <1>5, <1>6, PassesNamed
<1> QED
  BY <1>2, <1>3, <1>5, <1>6, <1>7, <1>8 DEF TypeOK, Decided, Answers, Results, Reasons

(* A step of the loop that concludes a call. *)
LEMMA ConcludingTyped ==
  ASSUME TypeOK, Decided,
         CallFails \/ SoftBlock \/ HardBlock \/ RefuseTool \/ SearchFirst \/ Propose \/ SearchFails
  PROVE  TypeOK' /\ Decided'
<1>1. {} \in SUBSET (Labels \X Chunks) /\ softBlocked \in SUBSET Ids /\ ledger \in Seq(Chunks)
      /\ searchError \in BOOLEAN /\ hardBlocked \in BOOLEAN /\ toolCalls \in Nat /\ searches \in Nat
      /\ {"error", "cap", "hard", "denied", "blocked", "pending", "caught"} \subseteq Kinds
  BY DEF TypeOK, Kinds
<1>2. ASSUME Charge PROVE toolCalls' \in Nat /\ searches' \in Nat /\ UNCHANGED <<turns, tokensSpent>>
  BY <1>1, <1>2 DEF Charge
<1>3. ASSUME NEW kind \in Kinds, NEW ends \in BOOLEAN, Conclude(kind, {}, ends), Deciding, Charge, UNCHANGED evidence,
             UNCHANGED <<pass, clock, signals, error, turnLimit, budgetError, grounded, refusal, cache, modelCalls, answer>>,
             hardBlocked' \in BOOLEAN, softBlocked' \in SUBSET Ids, binding' \in {binding, Len(results')}
      PROVE  TypeOK' /\ Decided'
  <2>1. UNCHANGED Rest /\ ledger' \in Seq(Chunks) /\ searchError' \in BOOLEAN
    BY <1>1, <1>2, <1>3 DEF Rest, evidence
  <2>2. at \in {"decide", "search"}
    BY <1>3 DEF Deciding
  <2> QED
    BY <1>1, <1>2, <1>3, <2>1, <2>2, ConclusionIsTyped
<1> USE DEF budgets, blocks, evidence, outcome, Spendable, InTime, Deciding
<1>4. CASE CallFails
  <2>1. UNCHANGED Rest /\ UNCHANGED <<ledger, searchError, hardBlocked, toolCalls, searches, softBlocked, binding>>
        /\ at = "decide" /\ Conclude("error", {}, FALSE)
    BY <1>4 DEF CallFails, Rest
  <2> QED
    BY <1>1, <2>1, ConclusionIsTyped
<1>5. CASE SoftBlock
  <2>1. Id \in Ids
    BY <1>5, CallIsTyped DEF SoftBlock
  <2>2. softBlocked' \in SUBSET Ids
    BY <1>1, <1>5, <2>1 DEF SoftBlock
  <2> QED
    BY <1>1, <1>3, <1>5, <2>2 DEF SoftBlock
<1>6. CASE HardBlock
  BY <1>1, <1>3, <1>6 DEF HardBlock
<1>7. CASE RefuseTool
  BY <1>1, <1>3, <1>7 DEF RefuseTool
<1>8. CASE SearchFirst
  BY <1>1, <1>3, <1>8 DEF SearchFirst
<1>9. CASE Propose
  BY <1>1, <1>3, <1>9 DEF Propose
<1>10. CASE SearchFails
  <2>1. UNCHANGED Rest /\ UNCHANGED <<ledger, hardBlocked, toolCalls, searches, softBlocked, binding>>
        /\ at = "search" /\ Conclude("caught", {}, FALSE) /\ searchError' = TRUE
    BY <1>10 DEF SearchFails, Rest
  <2> QED
    BY <1>1, <2>1, ConclusionIsTyped
<1> QED
  BY <1>4, <1>5, <1>6, <1>7, <1>8, <1>9, <1>10

(* The hits a search tells: known chunks by their labels, fresh ones by    *)
(* new labels.                                                             *)
Hits(known) ==
  {hit \in (DOMAIN ledger') \X Chunks :
     /\ ledger'[hit[1]] = hit[2]
     /\ hit[2] \in known \/ hit[1] > Len(ledger)}

LEMMA SearchReturnsTyped ==
  ASSUME TypeOK, Decided, SearchReturns
  PROVE  TypeOK' /\ Decided'
<1>1. PICK known \in SUBSET EvidenceChunks, fresh \in Rankings(Chunks \ EvidenceChunks) :
        /\ ledger' = ledger \o fresh
        /\ Conclude(IF known = {} /\ fresh = <<>> THEN "none" ELSE "hits", Hits(known), FALSE)
  BY DEF SearchReturns, Hits
<1>2. ledger' \in Seq(Chunks)
  BY <1>1, LedgerGrows
<1>3. Hits(known) \in SUBSET (Labels \X Chunks)
  BY <1>2 DEF Hits, Labels
<1>4. (IF known = {} /\ fresh = <<>> THEN "none" ELSE "hits") \in Kinds
  BY DEF Kinds
<1>5. at \in {"decide", "search"} /\ UNCHANGED Rest /\ UNCHANGED <<searchError, hardBlocked, toolCalls, searches, softBlocked, binding>>
  BY DEF SearchReturns, Rest, budgets, blocks, outcome
<1>6. searchError \in BOOLEAN /\ hardBlocked \in BOOLEAN /\ toolCalls \in Nat /\ searches \in Nat /\ softBlocked \in SUBSET Ids
  BY DEF TypeOK
<1> QED
  BY <1>1, <1>2, <1>3, <1>4, <1>5, <1>6, ConclusionIsTyped

(* What a step may change without a conclusion. *)
Hooks == <<asked, next, terminated, results, ledger, binding>>

LEMMA PassTyped ==
  ASSUME TypeOK, Decided, Charged', UNCHANGED Hooks, UNCHANGED <<toolCalls, softBlocked, signals>>,
         pass' \in 1..4, turns' \in Nat, modelCalls' \in Nat, searches' \in Nat, clock' \in {"within", "edge", "over"},
         at' \in {"search", "turnEnd", "model", "settle", "consider", "provider", "close", "done"}, at' = "search" => next <= Len(asked),
         {error, tokensSpent, searchError, hardBlocked, turnLimit, budgetError}' \subseteq BOOLEAN,
         draft' \in Texts, grounded' \in Texts, refusal' \in Reasons,
         cache' \subseteq Extracts, Cardinality(cache') <= 1, answer' \in Answers(Len(results))
  PROVE  TypeOK' /\ Decided'
<1>1. turns' \in 0..(MaxTurns + 4)
  <2>1. MaxTurns \in Nat
    BY BudgetsArePositive
  <2> QED
    BY <2>1 DEF Charged
<1>2. Decided'
  BY DEF Decided, Hooks
<1> QED
  BY <1>1, <1>2, PassesNamed DEF TypeOK, Hooks, Answers

LEMMA TypesKept ==
  ASSUME TypeOK, Decided, Charged, Next
  PROVE  TypeOK' /\ Decided'
<1>1. Charged' /\ turns' \in Nat /\ modelCalls' \in Nat /\ pass' \in 1..4
  BY ChargesKept
<1>2. /\ searches \in Nat /\ clock \in {"within", "edge", "over"}
      /\ {error, tokensSpent, searchError, hardBlocked, turnLimit, budgetError} \subseteq BOOLEAN
      /\ draft \in Texts /\ grounded \in Texts /\ refusal \in Reasons
      /\ cache \subseteq Extracts /\ Cardinality(cache) <= 1 /\ answer \in Answers(Len(results))
  BY DEF TypeOK, Answers
<1> USE DEF budgets, hooks, blocks, evidence, outcome
<1>3. CASE TimePasses \/ Signalled \/ Done
  <2>1. TypeOK /\ UNCHANGED <<at, pass, budgets, hooks, blocks, evidence, binding, outcome, error, modelCalls, answer>>
        /\ clock' \in {"within", "edge", "over"} /\ signals' \in SUBSET {"stop", "wall"}
    BY <1>2, <1>3 DEF TimePasses, Signalled, Done, vars, TypeOK
  <2> QED
    BY <2>1 DEF TypeOK, Decided
<1>4. CASE ModelReplies
  <2>1. PICK tools \in {<<>>} \cup Batches : \E ids \in [1..Len(tools) -> Ids] :
          asked' = [i \in 1..Len(tools) |-> <<tools[i], ids[i]>>]
    BY <1>4 DEF ModelReplies
  <2>2. PICK ids \in [1..Len(tools) -> Ids] : asked' = [i \in 1..Len(tools) |-> <<tools[i], ids[i]>>]
    BY <2>1
  <2>3. tools \in Seq(Tools)
    BY ChoicesAreTyped
  <2>4. asked' \in Seq(Tools \X Ids) /\ Len(asked') \in Nat /\ (Len(asked') = 0 => asked' = <<>>)
    BY <2>2, <2>3
  <2>5. next' = 1 /\ terminated' = 0 /\ at' = (IF asked' = <<>> THEN "turnEnd" ELSE "decide")
        /\ UNCHANGED <<pass, clock, signals, error, budgets, draft, results, blocks,
                 evidence, binding, outcome, modelCalls, answer>>
    BY <1>4 DEF ModelReplies
  <2>6. next' \in 1..(Len(asked') + 1) /\ terminated' \in 0..Len(asked') /\ terminated' < next'
        /\ (at' \in {"decide", "search"} => next' <= Len(asked'))
    BY <2>4, <2>5
  <2> QED
    BY <2>4, <2>5, <2>6 DEF TypeOK, Decided
<1>5. CASE ModelFails
  <2>1. asked' = <<>> /\ next' = 1 /\ terminated' = 0 /\ error' = TRUE /\ at' = "settle"
        /\ UNCHANGED <<pass, clock, signals, budgets, draft, results, blocks, evidence, binding, outcome,
                       modelCalls, answer>>
    BY <1>5 DEF ModelFails
  <2>2. asked' \in Seq(Tools \X Ids) /\ next' \in 1..(Len(asked') + 1) /\ terminated' \in 0..Len(asked')
    BY <2>1
  <2> QED
    BY <2>1, <2>2 DEF TypeOK, Decided
<1>6. CASE AgentAborts
  BY <1>1, <1>2, <1>6, PassTyped DEF AgentAborts, Hooks
<1>7. CASE SearchStarts
  <2>1. at' = "search" /\ next <= Len(asked)
    BY <1>7 DEF SearchStarts, Spendable, InTime, Deciding, Decided
  <2>2. searches' \in Nat /\ toolCalls' \in Nat
    <3>1. searches \in Nat /\ toolCalls \in Nat
      BY DEF TypeOK
    <3> QED
      BY <1>7, <3>1 DEF SearchStarts, Charge
  <2>3. UNCHANGED <<pass, clock, signals, error, turns, tokensSpent, hooks, blocks, evidence, binding, outcome, modelCalls, answer>>
    BY <1>7 DEF SearchStarts, Charge
  <2> QED
    BY <2>1, <2>2, <2>3 DEF TypeOK, Decided
<1>8. CASE TurnEnds
  <2>1. /\ UNCHANGED Hooks /\ UNCHANGED <<toolCalls, softBlocked, signals, searches, clock, draft, grounded, refusal, cache, answer>>
        /\ at' \in {"model", "settle"}
    BY <1>8 DEF TurnEnds, Hooks
  <2>2. tokensSpent' \in BOOLEAN /\ turnLimit' \in BOOLEAN /\ UNCHANGED <<error, searchError, hardBlocked, budgetError>>
    BY <1>2, <1>8 DEF TurnEnds
  <2> QED
    BY <1>1, <1>2, <2>1, <2>2, PassTyped
<1>9. CASE Settle
  <2>1. draft' \in Texts
    <3>1. draft' \in (IF error THEN {Prose({})} ELSE Drafts)
      BY <1>9 DEF Settle
    <3>2. Prose({}) \in Texts
      BY ProseIsText
    <3> QED
      BY <3>1, <3>2, ChoicesAreTyped
  <2>2. grounded' = (IF Declined(draft') THEN Host("refusal") ELSE Judged(draft')) /\ refusal' = ReasonOf(draft')
    BY <1>9 DEF Settle
  <2>3. grounded' \in Texts
    BY <2>1, <2>2, JudgedIsText, HostIsText DEF Hosts
  <2>4. refusal' \in Reasons
    <3>1. ReasonOf(draft') \in {"search_cap_invalid_draft", "model_abstained", "model_abstained_with_evidence", "none"}
      BY Zenon DEF ReasonOf
    <3> QED
      BY <2>2, <3>1 DEF Reasons
  <2>5. budgetError' \in BOOLEAN /\ at' = "consider"
        /\ UNCHANGED <<pass, clock, signals, error, budgets, asked, next, terminated, results, blocks,
                       evidence, binding, cache, modelCalls, answer>>
    <3>1. budgetError' = (clock = "over" \/ tokensSpent \/ (Capped /\ hardBlocked) \/ CutOff)
      BY <1>9 DEF Settle
    <3>2. budgetError' \in BOOLEAN
      BY <3>1
    <3> QED
      BY <1>9, <3>2 DEF Settle
  <2> QED
    BY <1>1, <1>2, <2>1, <2>3, <2>4, <2>5, PassTyped DEF Hooks
<1>10. CASE PassSkipped \/ PassCalls \/ ProviderFails
  <2>1. UNCHANGED <<clock, signals, error, toolCalls, searches, tokensSpent, hooks, blocks, evidence, binding, outcome, answer>>
    BY <1>10 DEF PassSkipped, PassCalls, ProviderFails
  <2>2. at' \in {"consider", "provider", "close"}
    BY <1>10 DEF PassSkipped, PassCalls, ProviderFails, Onward
  <2> QED
    BY <1>1, <1>2, <2>1, <2>2, PassTyped DEF Hooks
<1>11. CASE PassReuses \/ ProviderReturns
  <2>1. UNCHANGED <<clock, signals, error, budgets, hooks, blocks, evidence, binding, budgetError, modelCalls, answer>>
        /\ at' \in {"consider", "close"}
    BY <1>11 DEF PassReuses, ProviderReturns, Onward
  <2>2. PICK e \in Extracts : Judge(e) /\ cache' \in {cache, {e}}
    <3>1. CASE PassReuses
      BY <1>2, <3>1 DEF PassReuses
    <3>2. CASE ProviderReturns
      BY <3>2 DEF ProviderReturns
    <3> QED
      BY <1>11, <3>1, <3>2
  <2>3. grounded' \in Texts /\ refusal' \in Reasons
    BY <2>2, JudgeIsTyped
  <2>4. cache' \subseteq Extracts /\ Cardinality(cache') <= 1
    <3>1. Cardinality({e}) = 1
      BY FS_Singleton
    <3> QED
      BY <1>2, <2>2, <3>1
  <2> QED
    BY <1>1, <1>2, <2>1, <2>3, <2>4, PassTyped DEF Hooks
<1>12. CASE Close
  <2>1. /\ at' = "done" /\ UNCHANGED <<clock, signals, error, budgets, hooks, blocks, evidence, binding, refusal, cache, modelCalls>>
        /\ budgetError' = (budgetError \/ clock # "within")
        /\ grounded' \in {Host("unavailable"), grounded}
    BY <1>12, CloseCases
  <2>2. grounded' \in Texts /\ budgetError' \in BOOLEAN
    BY <1>2, <2>1, HostIsText DEF Hosts
  <2>3. answer' \in Answers(Len(results))
    <3>1. CASE answer' \in {AnswerOf("cancelled", {}, 0), AnswerOf("unavailable", {}, 0)}
      BY <3>1 DEF AnswerOf, Answers, TypeOK
    <3>2. CASE answer' \in Stored(grounded')
      <4>1. Plain(grounded') \in Answers(Len(results)) /\ Refused \in Answers(Len(results)) /\ binding \in 0..Len(results)
        BY <2>2, PlainIsTyped DEF TypeOK
      <4>2. AnswerOf("grounded", Plain(grounded').says, binding) \in Answers(Len(results))
        BY <4>1 DEF AnswerOf, Answers
      <4> QED
        BY <3>2, <4>1, <4>2, StoredCases
    <3> QED
      BY <1>12, <3>1, <3>2, CloseCases
  <2> QED
    BY <1>1, <1>2, <2>1, <2>2, <2>3, PassTyped DEF Hooks
<1> QED
  BY <1>3, <1>4, <1>5, <1>6, <1>7, <1>8, <1>9, <1>10, <1>11, <1>12, ConcludingTyped, SearchReturnsTyped DEF Next

-----------------------------------------------------------------------------
(* The transcript and the ledger. *)

(* What a result adds to what the transcript tells. *)
LEMMA ConclusionTold ==
  ASSUME TypeOK, Decided, Told, Bound, at \in {"decide", "search"},
         NEW kind \in Kinds, NEW pairs \in SUBSET (Labels \X Chunks), NEW ends \in BOOLEAN,
         Conclude(kind, pairs, ends), UNCHANGED error,
         MemoryLedger \subseteq MemoryLedger', pairs \subseteq MemoryLedger',
         searchError \/ kind = "caught" => searchError',
         ledger' # <<>> => ledger # <<>> \/ kind = "hits",
         softBlocked' # {} => searches' # 0,
         searches' # 0 => (at = "decide" /\ searches # 0) \/ kind \in {"hits", "none", "caught"},
         kind = "pending" => binding' = Len(results') /\ ledger # <<>>,
         kind # "pending" => binding' = binding
  PROVE  Told' /\ Bound'
<1> DEFINE n == Len(results) + 1
<1>1. /\ DOMAIN results' = 1..n /\ DOMAIN results = 1..(n - 1) /\ n \in Nat \ {0} /\ Len(results') = n
      /\ \A i \in DOMAIN results : results'[i] = results[i]
      /\ results'[n].kind = kind /\ results'[n].pairs = pairs
  <2>1. results' \in Seq(Results) /\ Len(results') = n /\ results'[n] = ResultOf(Tool, Id, kind, pairs)
        /\ \A i \in DOMAIN results : results'[i] = results[i]
    BY ConcludeAppends
  <2>2. results \in Seq(Results)
    BY DEF TypeOK, Results
  <2>3. results'[n].kind = kind /\ results'[n].pairs = pairs
    BY <2>1 DEF ResultOf
  <2> QED
    BY <2>1, <2>2, <2>3
<1>2. n \in DOMAIN results' /\ \A i \in DOMAIN results' : i \in DOMAIN results \/ i = n
  BY <1>1
<1>3. \A i \in DOMAIN results : i \in DOMAIN results' /\ results'[i] = results[i]
  BY <1>1
<1> HIDE DEF n
<1>4. TranscriptLedger' \subseteq MemoryLedger'
  <2> SUFFICES ASSUME NEW x \in TranscriptLedger' PROVE x \in MemoryLedger'
    OBVIOUS
  <2>1. PICK i \in DOMAIN results' : results'[i].tool = "search" /\ x \in results'[i].pairs
    BY DEF TranscriptLedger
  <2>2. CASE i = n
    BY <1>1, <2>1, <2>2
  <2>3. CASE i \in DOMAIN results
    <3>1. x \in TranscriptLedger
      BY <1>3, <2>1, <2>3 DEF TranscriptLedger
    <3> QED
      BY <3>1 DEF Told
  <2> QED
    BY <1>2, <2>2, <2>3
<1>5. \A i \in DOMAIN results' : results'[i].kind = "caught" => searchError'
  BY <1>1, <1>2, <1>3 DEF Told
<1>6. ledger' # <<>> => \E i \in DOMAIN results' : results'[i].kind = "hits"
  BY <1>1, <1>2, <1>3 DEF Told
<1>7. searches' # 0 => at' = "search" \/ error' \/ Succeeded' \/ SearchErrorTold'
  <2> SUFFICES ASSUME searches' # 0, ~error' PROVE Succeeded' \/ SearchErrorTold'
    OBVIOUS
  <2>1. CASE kind \in {"hits", "none", "caught"}
    BY <1>1, <1>2, <2>1 DEF Succeeded, SearchErrorTold
  <2>2. CASE at = "decide" /\ searches # 0
    <3>1. Succeeded \/ SearchErrorTold
      BY <2>2 DEF Told
    <3> QED
      BY <1>3, <3>1 DEF Succeeded, SearchErrorTold
  <2> QED
    BY <2>1, <2>2
<1>8. Told'
  BY <1>4, <1>5, <1>6, <1>7 DEF Told
<1>9. Bound'
  <2>1. CASE kind = "pending"
    <3>1. PICK i \in DOMAIN results : results[i].kind = "hits"
      BY <2>1 DEF Told
    <3>2. binding' = n /\ results'[i].kind = "hits" /\ i \in 1..n
      BY <1>1, <1>3, <2>1, <3>1
    <3>3. \A j \in DOMAIN results' : j <= n
      BY <1>1
    <3> QED
      BY <1>1, <2>1, <3>2, <3>3 DEF Bound
  <2>2. CASE kind # "pending"
    <3>1. binding' = binding /\ binding \in 0..(n - 1)
      BY <1>1, <2>2 DEF TypeOK, n
    <3>2. \A i \in DOMAIN results' : results'[i].kind = "pending" => i <= binding'
      BY <1>1, <1>2, <1>3, <2>2, <3>1 DEF Bound
    <3>3. binding' # 0 => /\ results'[binding'].kind = "pending"
                          /\ \E i \in 1..binding' : results'[i].kind = "hits"
      <4> SUFFICES ASSUME binding # 0 PROVE results'[binding].kind = "pending"
                          /\ \E i \in 1..binding : results'[i].kind = "hits"
        BY <3>1
      <4>1. 1..binding \subseteq DOMAIN results /\ binding \in DOMAIN results
        BY <1>1, <3>1
      <4> QED
        BY <1>3, <4>1 DEF Bound
    <3> QED
      BY <3>2, <3>3 DEF Bound
  <2> QED
    BY <2>1, <2>2
<1> QED
  BY <1>8, <1>9

LEMMA ToldKept ==
  ASSUME TypeOK, Decided, Told, Bound, Next
  PROVE  Told' /\ Bound'
<1> USE DEF budgets, hooks, blocks, evidence, outcome
<1>1. ASSUME UNCHANGED <<results, ledger, searchError, softBlocked, binding>>,
             error => error', at = "search" => at' = "search" \/ error',
             searches' = searches \/ (at' = "search" /\ searches' # 0)
      PROVE  Told' /\ Bound'
  <2>1. TranscriptLedger' = TranscriptLedger /\ MemoryLedger' = MemoryLedger
        /\ (Succeeded' <=> Succeeded) /\ (SearchErrorTold' <=> SearchErrorTold)
    BY <1>1 DEF TranscriptLedger, MemoryLedger, Succeeded, SearchErrorTold
  <2>2. searches' # 0 => at' = "search" \/ error' \/ Succeeded' \/ SearchErrorTold'
    BY <1>1, <2>1 DEF Told
  <2>3. Told'
    BY <1>1, <2>1, <2>2 DEF Told
  <2>4. Bound'
    BY <1>1 DEF Bound
  <2> QED
    BY <2>3, <2>4
<1>2. MaxSearches \in Nat \ {0} /\ searches \in Nat
  BY BudgetsArePositive DEF TypeOK
<1>3. CASE TimePasses \/ Signalled \/ Done
  <2>1. UNCHANGED <<at, error, searches, results, ledger, searchError, softBlocked, binding>>
    BY <1>3 DEF TimePasses, Signalled, Done, vars
  <2> QED
    BY <1>1, <2>1
<1>4. CASE ModelReplies \/ ModelFails \/ AgentAborts
  <2>1. UNCHANGED <<searches, results, ledger, searchError, softBlocked, binding>>
    BY <1>4 DEF ModelReplies, ModelFails, AgentAborts
  <2>2. (at # "search" /\ UNCHANGED error) \/ error'
    BY <1>4 DEF ModelReplies, ModelFails, AgentAborts
  <2> QED
    BY <1>1, <2>1, <2>2
<1>5. CASE SearchStarts
  <2>1. searches' # 0 /\ at' = "search" /\ at = "decide"
    BY <1>2, <1>5 DEF SearchStarts, Charge, Spendable, InTime, Deciding
  <2> QED
    BY <1>1, <1>5, <2>1 DEF SearchStarts, Charge
<1>6. CASE TurnEnds \/ Settle \/ PassSkipped \/ PassCalls \/ PassReuses \/ ProviderReturns \/ ProviderFails
  <2>1. UNCHANGED <<error, searches, results, ledger, searchError, softBlocked, binding>> /\ at # "search"
    BY <1>6 DEF TurnEnds, Settle, PassSkipped, PassCalls, PassReuses, ProviderReturns, ProviderFails
  <2> QED
    BY <1>1, <2>1
<1>7. CASE Close
  <2>1. UNCHANGED <<error, searches, results, ledger, searchError, softBlocked, binding>> /\ at # "search"
    BY <1>7, CloseCases
  <2> QED
    BY <1>1, <2>1
<1>8. ASSUME NEW kind \in {"error", "cap", "hard", "denied", "blocked"}, NEW ends \in BOOLEAN,
             Conclude(kind, {}, ends), at = "decide", UNCHANGED <<error, ledger, searchError, binding>>,
             searches' # 0 => searches # 0, softBlocked' # {} => searches' # 0
      PROVE  Told' /\ Bound'
  <2>1. kind \in Kinds /\ {} \in SUBSET (Labels \X Chunks)
    BY <1>8 DEF Kinds
  <2>2. MemoryLedger' = MemoryLedger
    BY <1>8 DEF MemoryLedger
  <2> QED
    BY <1>8, <2>1, <2>2, ConclusionTold DEF Told
<1>9. softBlocked # {} => searches # 0
  BY DEF Told
<1> USE DEF Spendable, InTime, Deciding
<1>10. CASE CallFails
  BY <1>8, <1>9, <1>10 DEF CallFails
<1>11. CASE SoftBlock
  <2>1. searches # 0 /\ searches' # 0
    BY <1>2, <1>11 DEF SoftBlock, SearchLimit, Charge
  <2> QED
    BY <1>8, <1>11, <2>1 DEF SoftBlock
<1>12. CASE HardBlock
  <2>1. (searches' # 0 => searches # 0) /\ (searches # 0 => searches' # 0)
    BY <1>2, <1>12 DEF HardBlock, SearchLimit, Charge
  <2> QED
    BY <1>8, <1>9, <1>12, <2>1 DEF HardBlock
<1>13. CASE RefuseTool
  BY <1>8, <1>9, <1>13 DEF RefuseTool, Charge
<1>14. CASE SearchFirst
  BY <1>8, <1>9, <1>14 DEF SearchFirst, Charge
<1>15. CASE Propose
  <2>1. Conclude("pending", {}, TRUE) /\ at = "decide" /\ ledger # <<>> /\ binding' = Len(results')
        /\ UNCHANGED <<error, ledger, searchError, softBlocked>> /\ searches' = searches
    BY <1>15 DEF Propose, Charge
  <2>2. MemoryLedger' = MemoryLedger
    BY <2>1 DEF MemoryLedger
  <2>3. "pending" \in Kinds /\ {} \in SUBSET (Labels \X Chunks)
    BY DEF Kinds
  <2> QED
    BY <1>9, <2>1, <2>2, <2>3, ConclusionTold
<1>16. CASE SearchReturns
  <2>1. PICK known \in SUBSET EvidenceChunks, fresh \in Rankings(Chunks \ EvidenceChunks) :
          /\ ledger' = ledger \o fresh
          /\ Conclude(IF known = {} /\ fresh = <<>> THEN "none" ELSE "hits", Hits(known), FALSE)
    BY <1>16 DEF SearchReturns, Hits
  <2>2. /\ ledger' \in Seq(Chunks) /\ ledger \in Seq(Chunks) /\ Len(ledger') = Len(ledger) + Len(fresh)
        /\ Len(fresh) \in Nat /\ \A n \in DOMAIN ledger : ledger'[n] = ledger[n]
        /\ fresh = <<>> => ledger' = ledger
    <3>1. fresh \in Seq(Chunks) /\ ledger \in Seq(Chunks)
      BY <2>1, LedgerGrows DEF TypeOK
    <3> QED
      BY <2>1, <3>1, LedgerGrows
  <2>3. MemoryLedger \subseteq MemoryLedger'
    BY <2>2 DEF MemoryLedger
  <2>4. Hits(known) \subseteq MemoryLedger' /\ Hits(known) \in SUBSET (Labels \X Chunks)
    BY <2>2 DEF Hits, MemoryLedger, Labels
  <2>5. PICK kind \in {"none", "hits"} : /\ kind = IF known = {} /\ fresh = <<>> THEN "none" ELSE "hits"
                                         /\ Conclude(kind, Hits(known), FALSE)
    BY <2>1
  <2>6. kind \in Kinds /\ (ledger' # <<>> => ledger # <<>> \/ kind = "hits")
    BY <2>2, <2>5 DEF Kinds
  <2>7. at = "search" /\ UNCHANGED <<error, searchError, softBlocked, searches, binding>>
    BY <1>16 DEF SearchReturns
  <2> QED
    BY <1>9, <2>3, <2>4, <2>5, <2>6, <2>7, ConclusionTold
<1>17. CASE SearchFails
  <2>1. Conclude("caught", {}, FALSE) /\ at = "search" /\ searchError'
        /\ UNCHANGED <<error, ledger, softBlocked, searches, binding>>
    BY <1>17 DEF SearchFails
  <2>2. MemoryLedger' = MemoryLedger
    BY <2>1 DEF MemoryLedger
  <2>3. "caught" \in Kinds /\ {} \in SUBSET (Labels \X Chunks)
    BY DEF Kinds
  <2> QED
    BY <1>9, <2>1, <2>2, <2>3, ConclusionTold
<1> QED
  BY <1>3, <1>4, <1>5, <1>6, <1>7, <1>10, <1>11, <1>12, <1>13, <1>14, <1>15, <1>16, <1>17 DEF Next

-----------------------------------------------------------------------------
(* Validation. *)

(* What the host validated stays valid while no result is added. *)
LEMMA MarkersStay ==
  ASSUME UNCHANGED results, NEW t, MarkersValid(t), t = grounded'
  PROVE  MarkersValid(grounded)'
<1>1. TranscriptLedger' = TranscriptLedger
  BY DEF TranscriptLedger
<1>2. LabelConflict' <=> LabelConflict
  BY <1>1 DEF LabelConflict
<1> QED
  BY <1>1, <1>2 DEF MarkersValid, Supported

(* A pass writes nothing that was not validated, unless it was interrupted.*)
LEMMA JudgeIsSafe ==
  ASSUME NEW e, pass \in 1..4, Judge(e), signals = {}, ~error, NEW g, g = grounded', IsProse(g)
  PROVE  g = grounded \/ MarkersValid(g)
<1>1. CASE RepairWith(e)
  <2>1. PICK t : grounded' = IF e.readable /\ signals = {} THEN Enforce(t) ELSE grounded
    BY <1>1 DEF RepairWith
  <2> QED
    BY <2>1, EnforceIsSafe
<1>2. ASSUME NEW accepted, Overturn(e, accepted) PROVE g = grounded \/ MarkersValid(g)
  <2>1. g = grounded \/ Enforce(g) = g
    BY <1>2 DEF Overturn, Kept
  <2> QED
    BY <2>1, EnforceIsSafe
<1>3. CASE CoverWith(e)
  <2>1. g = grounded \/ Enforce(g) = g
    BY <1>3 DEF CoverWith, Kept
  <2> QED
    BY <2>1, EnforceIsSafe
<1> QED
  BY <1>1, <1>2, <1>3, JudgeCases

LEMMA HostIsNoProse == ASSUME NEW h \in Hosts PROVE ~IsProse(Host(h)) /\ (\A P : Host(h) # Prose(P))
  BY DEF IsProse, Host, Prose, Hosts

LEMMA ValidatedKept ==
  ASSUME TypeOK, Told, Validated, Next
  PROVE  Validated'
<1> USE DEF budgets, hooks, blocks, evidence, outcome
<1>1. ~IsProse(Host("mustRetrieve")) /\ ~IsProse(Host("unavailable")) /\ ~IsProse(Host("refusal"))
  BY HostIsNoProse DEF Hosts
<1>2. pass \in 1..4
  BY PassesNamed DEF TypeOK
<1>3. ASSUME at \in Loop, at' \in Loop \cup {"settle"}, UNCHANGED grounded PROVE Validated'
  <2>1. grounded' = Host("mustRetrieve")
    BY <1>3 DEF Validated
  <2>2. ~IsProse(grounded)'
    BY <1>1, <2>1 DEF IsProse
  <2>3. at' \in Loop \cup {"settle"} /\ at' # "provider"
    BY <1>3 DEF Loop
  <2> QED
    BY <2>1, <2>2, <2>3 DEF Validated
<1>4. ASSUME UNCHANGED <<error, grounded, results, softBlocked, draft>>, signals' = {} => signals = {},
             \/ UNCHANGED <<at, pass>>
             \/ at \notin Loop \cup {"settle"} /\ at' \in {"consider", "close"}
             \/ /\ at = "consider" /\ at' = "provider" /\ ~Capped
                /\ Passes[pass'] = "repair" => grounded = Host("invalid")
                /\ Passes[pass'] = "cover" => IsProse(grounded)
      PROVE Validated'
  <2>1. (IsProse(grounded)' <=> IsProse(grounded)) /\ (Capped' <=> Capped)
    BY <1>4 DEF IsProse, Capped
  <2>2. IsProse(grounded') /\ signals' = {} /\ ~error' => MarkersValid(grounded)'
    <3> SUFFICES ASSUME IsProse(grounded'), signals' = {}, ~error' PROVE MarkersValid(grounded)'
      OBVIOUS
    <3>1. MarkersValid(grounded)
      BY <1>4, <2>1 DEF Validated, IsProse
    <3> QED
      BY <1>4, <3>1, MarkersStay
  <2>3. at' \in Loop \cup {"settle"} => grounded' = Host("mustRetrieve")
    BY <1>4 DEF Validated, Loop
  <2>4. Capped' /\ at' \notin Loop \cup {"settle"} => grounded' \in {draft', Host("refusal"), Host("unavailable")}
    BY <1>4, <2>1 DEF Validated, Loop
  <2>5. at' = "provider" => /\ ~Capped'
                            /\ Passes[pass'] = "repair" => grounded' = Host("invalid")
                            /\ Passes[pass'] = "cover" => IsProse(grounded)'
    BY <1>4, <2>1 DEF Validated
  <2> QED
    BY <2>2, <2>3, <2>4, <2>5 DEF Validated, IsProse
<1>5. CASE TimePasses \/ Signalled \/ Done
  <2>1. UNCHANGED <<at, pass, error, grounded, results, softBlocked, draft>> /\ (signals' = {} => signals = {})
    BY <1>5 DEF TimePasses, Signalled, Done, vars
  <2> QED
    BY <1>4, <2>1
<1>6. CASE ModelReplies \/ ModelFails \/ AgentAborts \/ TurnEnds
  <2>1. at \in Loop /\ at' \in Loop \cup {"settle"} /\ UNCHANGED grounded
    BY <1>6 DEF ModelReplies, ModelFails, AgentAborts, TurnEnds, Loop
  <2> QED
    BY <1>3, <2>1
<1>7. CASE CallFails \/ SoftBlock \/ HardBlock \/ RefuseTool \/ SearchFirst \/ Propose \/ SearchStarts \/ SearchReturns \/ SearchFails
  <2>1. at \in Loop /\ at' \in Loop \cup {"settle"} /\ UNCHANGED grounded
    BY <1>7 DEF CallFails, SoftBlock, HardBlock, RefuseTool, SearchFirst, Propose, SearchStarts, SearchReturns,
       SearchFails, Conclude, Spendable, InTime, Deciding, Loop
  <2> QED
    BY <1>3, <2>1
<1>8. CASE Settle
  <2>1. /\ at = "settle" /\ at' = "consider" /\ UNCHANGED <<signals, error, results, ledger, softBlocked, searches>>
        /\ draft' \in (IF error THEN {Prose({})} ELSE Drafts)
        /\ grounded' = (IF Declined(draft') THEN Host("refusal") ELSE Judged(draft'))
    BY <1>8 DEF Settle
  <2>2. IsProse(grounded') /\ signals' = {} /\ ~error' => MarkersValid(grounded)'
    <3> SUFFICES ASSUME IsProse(grounded'), signals' = {}, ~error' PROVE MarkersValid(grounded)'
      OBVIOUS
    <3>1. grounded' = Judged(draft')
      BY <1>1, <2>1
    <3>2. MarkersValid(Judged(draft'))
      BY <2>1, <3>1, JudgedIsSafe
    <3> QED
      BY <2>1, <3>1, <3>2, MarkersStay
  <2>3. Capped => grounded' \in {draft', Host("refusal"), Host("unavailable")}
    <3> SUFFICES ASSUME Capped PROVE grounded' \in {draft', Host("refusal"), Host("unavailable")}
      OBVIOUS
    <3>1. /\ Judged(draft') \in {draft', Host("unavailable"), Host("mustRetrieve"), Host("refusal"), Host("invalid")}
          /\ Judged(draft') = Host("invalid") => Declined(draft')
          /\ Judged(draft') = Enforce(draft')
      BY CappedStands
    <3>2. error \/ Succeeded \/ SearchErrorTold
      BY <2>1 DEF Told, Capped
    <3>3. CASE error
      <4>1. draft' = Prose({})
        BY <2>1, <3>3
      <4>2. Enforce(draft') = draft'
        BY <3>3 DEF Enforce, AnswerBearing
      <4> QED
        BY <2>1, <3>1, <4>2
    <3>4. CASE Succeeded \/ SearchErrorTold
      <4>1. Enforce(draft') \in {draft', Host("unavailable"), Host("refusal"), Host("invalid")}
        BY <3>4 DEF Enforce
      <4> QED
        BY <2>1, <3>1, <4>1
    <3> QED
      BY <3>2, <3>3, <3>4
  <2>4. (Capped' <=> Capped) /\ at' \notin Loop \cup {"settle"} /\ at' # "provider"
    BY <2>1 DEF Capped, Loop
  <2> QED
    BY <2>2, <2>3, <2>4 DEF Validated, IsProse
<1>9. CASE PassSkipped \/ ProviderFails
  <2>1. at \notin Loop \cup {"settle"} /\ at' \in {"consider", "close"} /\ UNCHANGED <<error, grounded, results, softBlocked, draft, signals>>
    BY <1>9 DEF PassSkipped, ProviderFails, Onward, Loop
  <2> QED
    BY <1>4, <2>1
<1>10. CASE PassCalls
  <2>1. at = "consider" /\ UNCHANGED <<error, grounded, results, softBlocked, draft, signals>>
        /\ ((at' = "provider" /\ pass' = pass) \/ at' \in {"consider", "close"})
    BY <1>10 DEF PassCalls, Onward
  <2>2. ~Capped /\ (pass = 1 => grounded = Host("invalid")) /\ (pass = 4 => IsProse(grounded))
    <3>1. Wanted
      BY <1>10 DEF PassCalls
    <3> QED
      BY <3>1, PassesNamed DEF Wanted, CanRepair
  <2>3. (Passes[pass] = "repair" => pass = 1) /\ (Passes[pass] = "cover" => pass = 4)
    BY <1>2, PassesNamed
  <2> QED
    BY <1>4, <2>1, <2>2, <2>3 DEF Loop
<1>11. CASE PassReuses \/ ProviderReturns
  <2>1. PICK e : Judge(e)
    BY <1>11 DEF PassReuses, ProviderReturns
  <2>2. at \notin Loop \cup {"settle"} /\ at' \in {"consider", "close"} /\ UNCHANGED <<error, results, softBlocked, draft, signals>>
    BY <1>11 DEF PassReuses, ProviderReturns, Onward, Loop
  <2>3. ~Capped
    BY <1>11 DEF PassReuses, ProviderReturns, Wanted, CanRepair, Validated
  <2>4. IsProse(grounded') /\ signals' = {} /\ ~error' => MarkersValid(grounded)'
    <3> SUFFICES ASSUME IsProse(grounded'), signals' = {}, ~error' PROVE MarkersValid(grounded)'
      OBVIOUS
    <3>1. PICK g : g = grounded'
      OBVIOUS
    <3>2. g = grounded \/ MarkersValid(g)
      BY <1>2, <2>1, <2>2, <3>1, JudgeIsSafe
    <3>3. MarkersValid(g)
      BY <2>2, <3>1, <3>2 DEF Validated
    <3> QED
      BY <2>2, <3>1, <3>3, MarkersStay
  <2>5. ~Capped' /\ at' \notin Loop \cup {"settle"} /\ at' # "provider"
    BY <2>2, <2>3 DEF Capped, Loop
  <2> QED
    BY <2>4, <2>5 DEF Validated, IsProse
<1>12. CASE Close
  <2>1. at = "close" /\ at' = "done" /\ UNCHANGED <<error, results, softBlocked, draft, signals>>
        /\ grounded' \in {Host("unavailable"), grounded}
    BY <1>12, CloseCases
  <2>2. IsProse(grounded') /\ signals' = {} /\ ~error' => MarkersValid(grounded)'
    <3> SUFFICES ASSUME IsProse(grounded'), signals' = {}, ~error' PROVE MarkersValid(grounded)'
      OBVIOUS
    <3>1. grounded' = grounded
      BY <1>1, <2>1
    <3>2. MarkersValid(grounded)
      BY <2>1, <3>1 DEF Validated
    <3> QED
      BY <2>1, <3>1, <3>2, MarkersStay
  <2>3. Capped' => grounded' \in {draft', Host("refusal"), Host("unavailable")}
    BY <2>1 DEF Validated, Capped, Loop
  <2> QED
    BY <2>1, <2>2, <2>3 DEF Validated, IsProse, Loop
<1> QED
  BY <1>5, <1>6, <1>7, <1>8, <1>9, <1>10, <1>11, <1>12 DEF Next

-----------------------------------------------------------------------------
(* What the turn stores. *)

(* A validated text is stored whole: what a paragraph cites in the         *)
(* transcript, it cites in the ledger.                                     *)
LEMMA PlainKeepsAll ==
  ASSUME TypeOK, Told, NEW t \in Texts, IsProse(t), MarkersValid(t)
  PROVE  \A p \in t.says : \E q \in Plain(t).says : q.stated = p.stated /\ p.cites \subseteq q.cites
<1>1. \A p \in t.says : /\ WithCitations(p) \in Structured(t)
                        /\ WithCitations(p).stated = p.stated /\ p.cites \subseteq WithCitations(p).cites
  <2> SUFFICES ASSUME NEW p \in t.says
               PROVE  /\ WithCitations(p) \in Structured(t)
                      /\ WithCitations(p).stated = p.stated /\ p.cites \subseteq WithCitations(p).cites
    OBVIOUS
  <2>1. p \in Paragraphs
    BY DEF Texts
  <2>2. p.cites # {} /\ Supported(p, TranscriptLedger) /\ \A n \in p.cites : \E k \in Chunks : <<n, k>> \in TranscriptLedger
    BY DEF MarkersValid
  <2>3. \A n \in p.cites : n \in DOMAIN ledger
    <3> SUFFICES ASSUME NEW n \in p.cites PROVE n \in DOMAIN ledger
      OBVIOUS
    <3>1. PICK k \in Chunks : <<n, k>> \in MemoryLedger
      BY <2>2 DEF Told
    <3>2. PICK i \in DOMAIN ledger : <<n, k>> = <<i, ledger[i]>>
      BY <3>1 DEF MemoryLedger
    <3> QED
      BY <3>2
  <2>4. /\ WithCitations(p).stated = p.stated
        /\ WithCitations(p).cites = (p.cites \cap DOMAIN ledger) \cup LabelsOf(p.stated)
    BY <2>1 DEF WithCitations, Paragraphs
  <2>5. p.cites \subseteq WithCitations(p).cites
    BY <2>3, <2>4
  <2>6. WithCitations(p) \in Paragraphed(t)
    BY <2>2, <2>5 DEF Paragraphed
  <2>7. Supported(WithCitations(p), MemoryLedger)
    BY <2>2, <2>4, <2>5 DEF Supported, Told
  <2> QED
    BY <2>4, <2>5, <2>6, <2>7 DEF Structured
<1>2. Structured(t) # {} /\ t.host = "none"
  BY <1>1 DEF IsProse
<1>3. Plain(t).says = Structured(t)
  BY <1>2 DEF Plain, AnswerOf
<1> QED
  BY <1>1, <1>3

LEMMA EndedKept ==
  ASSUME TypeOK, Told, Bound, Validated, Ended, Next, Validated'
  PROVE  Ended'
<1> USE DEF budgets, hooks, blocks, evidence, outcome
<1>1. ASSUME answer' \in {NoAnswer, AnswerOf("cancelled", {}, 0), AnswerOf("unavailable", {}, 0)},
             at' # "done" => answer' = NoAnswer
      PROVE  Ended'
  <2>1. answer'.kind \notin {"insufficient", "grounded"} /\ answer'.proposal = 0
    BY <1>1 DEF NoAnswer, AnswerOf
  <2>2. ~Answered'
    BY <2>1 DEF Answered
  <2>3. OutcomeIsBacked' /\ FailedSearchIsUnavailable' /\ CapKeepsTheDraft'
    BY <2>1, <2>2 DEF OutcomeIsBacked, AnswerIsGrounded, ProposalIsBacked, FailedSearchIsUnavailable, CapKeepsTheDraft
  <2> QED
    BY <1>1, <2>3 DEF Ended
<1>2. CASE /\ at # "done" /\ at' # "done" /\ UNCHANGED answer
  <2>1. answer' = NoAnswer
    BY <1>2 DEF Ended
  <2> QED
    BY <1>1, <1>2, <2>1
<1>3. CASE UNCHANGED <<at, answer, grounded, results, softBlocked, draft>>
  <2>1. (Answered' <=> Answered) /\ (IsProse(grounded)' <=> IsProse(grounded)) /\ (Capped' <=> Capped) /\ (Pending' <=> Pending)
    BY <1>3 DEF Answered, IsProse, Capped, Pending
  <2>2. MarkersValid(grounded) => MarkersValid(grounded)'
    BY <1>3, MarkersStay
  <2>3. AnswerIsGrounded'
    BY <1>3, <2>1, <2>2 DEF AnswerIsGrounded, Ended, OutcomeIsBacked
  <2>4. ProposalIsBacked'
    BY <1>3 DEF ProposalIsBacked, Ended, OutcomeIsBacked
  <2>5. FailedSearchIsUnavailable' /\ CapKeepsTheDraft'
    BY <1>3, <2>1 DEF FailedSearchIsUnavailable, CapKeepsTheDraft, Ended
  <2> QED
    BY <1>3, <2>3, <2>4, <2>5 DEF Ended, OutcomeIsBacked
<1>4. CASE TimePasses \/ Signalled \/ Done
  <2>1. UNCHANGED <<at, answer, grounded, results, softBlocked, draft>>
    BY <1>4 DEF TimePasses, Signalled, Done, vars
  <2> QED
    BY <1>3, <2>1
<1>5. CASE ModelReplies \/ ModelFails \/ AgentAborts \/ TurnEnds \/ Settle
  BY <1>2, <1>5 DEF ModelReplies, ModelFails, AgentAborts, TurnEnds, Settle
<1>6. CASE CallFails \/ SoftBlock \/ HardBlock \/ RefuseTool \/ SearchFirst \/ Propose \/ SearchStarts \/ SearchReturns \/ SearchFails
  BY <1>2, <1>6 DEF CallFails, SoftBlock, HardBlock, RefuseTool, SearchFirst, Propose, SearchStarts, SearchReturns,
       SearchFails, Conclude, Spendable, InTime, Deciding
<1>7. CASE PassSkipped \/ PassCalls \/ PassReuses \/ ProviderReturns \/ ProviderFails
  BY <1>2, <1>7 DEF PassSkipped, PassCalls, PassReuses, ProviderReturns, ProviderFails, Onward
<1>8. CASE Close
  <2>1. /\ at = "close" /\ at' = "done" /\ UNCHANGED <<error, signals, results, ledger, softBlocked, draft, binding>>
        /\ grounded' = IF budgetError' \/ SearchFailed THEN Host("unavailable") ELSE grounded
    BY <1>8, CloseCases
  <2>2. CASE answer' \in {AnswerOf("cancelled", {}, 0), AnswerOf("unavailable", {}, 0)}
    BY <1>1, <2>1, <2>2
  <2>3. CASE /\ signals = {} /\ ~error /\ ~budgetError' /\ grounded' # Host("unavailable")
             /\ answer' \in Stored(grounded')
    <3>1. ~SearchFailed /\ grounded' = grounded /\ grounded \in Texts
      BY <2>1, <2>3 DEF TypeOK
    <3>2. \/ ~Pending /\ answer' = Plain(grounded)
          \/ Pending /\ answer' = Refused
          \/ Pending /\ binding # 0 /\ answer' = AnswerOf("grounded", Plain(grounded).says, binding)
      BY <2>3, <3>1, StoredCases
    <3>3. Plain(grounded).proposal = 0 /\ Refused.proposal = 0
      BY DEF Plain, Refused, AnswerOf
    <3>4. (Pending' <=> Pending) /\ (IsProse(grounded)' <=> IsProse(grounded)) /\ (Capped' <=> Capped)
      BY <2>1, <3>1 DEF Pending, IsProse, Capped
    <3>5. AnswerIsGrounded'
      <4> SUFFICES ASSUME IsProse(grounded)
                   PROVE  /\ MarkersValid(grounded)'
                          /\ (Pending' => answer'.proposal # 0) =>
                               \A p \in grounded'.says : \E q \in answer'.says : q.stated = p.stated /\ p.cites \subseteq q.cites
        BY <3>4 DEF AnswerIsGrounded
      <4>1. MarkersValid(grounded)
        BY <2>3 DEF Validated
      <4>2. MarkersValid(grounded)'
        BY <2>1, <3>1, <4>1, MarkersStay
      <4>3. ASSUME Pending' => answer'.proposal # 0 PROVE answer'.says = Plain(grounded).says
        BY <3>2, <3>3, <3>4, <4>3 DEF AnswerOf
      <4> QED
        BY <3>1, <4>1, <4>2, <4>3, PlainKeepsAll
    <3>6. ProposalIsBacked'
      <4> SUFFICES ASSUME answer'.proposal # 0
                   PROVE  /\ results'[answer'.proposal].kind = "pending"
                          /\ \A i \in DOMAIN results' : results'[i].kind = "pending" => i <= answer'.proposal
                          /\ \E i \in 1..answer'.proposal : results'[i].kind = "hits"
        BY DEF ProposalIsBacked
      <4>1. binding # 0 /\ answer'.proposal = binding
        BY <3>2, <3>3 DEF AnswerOf
      <4> QED
        BY <2>1, <4>1 DEF Bound
    <3>7. FailedSearchIsUnavailable'
      <4>1. ~\E i \in DOMAIN results : results[i].tool = "search" /\ results[i].kind \in {"caught", "error", "hard"}
        BY <3>1 DEF SearchFailed, CapBlock, Told
      <4> QED
        BY <2>1, <4>1 DEF FailedSearchIsUnavailable
    <3>8. CapKeepsTheDraft'
      BY <2>1, <2>3, <3>4 DEF CapKeepsTheDraft, Validated, Loop
    <3> QED
      BY <2>1, <3>5, <3>6, <3>7, <3>8 DEF Ended, OutcomeIsBacked
  <2> QED
    BY <1>8, <2>2, <2>3, CloseCases
<1> QED
  BY <1>4, <1>5, <1>6, <1>7, <1>8 DEF Next

-----------------------------------------------------------------------------
(* The invariant. *)

LEMMA InitHolds == Init => IInv
<1> SUFFICES ASSUME Init PROVE IInv
  OBVIOUS
<1>1. TypeOK /\ Decided
  BY InitIsTyped
<1>2. results = <<>> /\ ledger = <<>> /\ binding = 0 /\ softBlocked = {} /\ searches = 0 /\ turns = 0 /\ modelCalls = 1
      /\ at = "model" /\ pass = 1 /\ grounded = Host("mustRetrieve") /\ answer = NoAnswer
  BY DEF Init
<1>3. Charged
  <2>1. MaxTurns \in Nat \ {0}
    BY BudgetsArePositive
  <2> QED
    BY <1>2, <2>1 DEF Charged, Loop
<1>4. DOMAIN results = {}
  BY <1>2
<1>5. Told /\ Bound
  BY <1>2, <1>4 DEF Told, Bound, TranscriptLedger
<1>6. Validated
  BY <1>2, HostIsNoProse DEF Validated, Loop, Hosts, Capped
<1>7. Ended
  BY <1>2 DEF Ended, OutcomeIsBacked, AnswerIsGrounded, ProposalIsBacked, FailedSearchIsUnavailable, CapKeepsTheDraft,
     Answered, NoAnswer, AnswerOf
<1> QED
  BY <1>1, <1>3, <1>5, <1>6, <1>7 DEF IInv, Known

LEMMA StepHolds == IInv /\ [Next]_vars => IInv'
<1> SUFFICES ASSUME IInv, [Next]_vars PROVE IInv'
  OBVIOUS
<1>1. TypeOK /\ Decided /\ Charged /\ Told /\ Bound /\ Validated /\ Ended
  BY DEF IInv, Known
<1>3. CASE Next
  <2>1. TypeOK' /\ Decided' /\ Charged' /\ Told' /\ Bound' /\ Validated'
    BY <1>1, <1>3, TypesKept, ChargesKept, ToldKept, ValidatedKept
  <2>2. Ended'
    BY <1>1, <1>3, <2>1, EndedKept
  <2> QED
    BY <2>1, <2>2 DEF IInv, Known
<1>4. CASE UNCHANGED vars
  <2> USE DEF vars, budgets, hooks, blocks, evidence, outcome
  <2>1. TypeOK' /\ Decided' /\ Charged'
    BY <1>1, <1>4 DEF TypeOK, Decided, Charged
  <2>2. Told' /\ Bound'
    BY <1>1, <1>4 DEF Told, Bound, TranscriptLedger, MemoryLedger, Succeeded, SearchErrorTold
  <2>3. (IsProse(grounded)' <=> IsProse(grounded)) /\ (Capped' <=> Capped) /\ (MarkersValid(grounded) => MarkersValid(grounded)')
    BY <1>4, MarkersStay DEF IsProse, Capped
  <2>4. Validated'
    BY <1>1, <1>4, <2>3 DEF Validated, IsProse
  <2>5. Ended'
    BY <1>1, <1>4, <2>3 DEF Ended, OutcomeIsBacked, AnswerIsGrounded, ProposalIsBacked, FailedSearchIsUnavailable,
       CapKeepsTheDraft, Answered, Pending
  <2> QED
    BY <2>1, <2>2, <2>4, <2>5 DEF IInv, Known
<1> QED
  BY <1>3, <1>4

LEMMA AlwaysHolds == Spec => []IInv
  BY InitHolds, StepHolds, PTL DEF Spec

(* Every value stays in its type, and the budget of turns is never passed  *)
(* by more than the four passes after the loop.                            *)
THEOREM RunTyped == Spec => []TypeOK
<1>1. IInv => TypeOK
  BY DEF IInv
<1> QED
  BY <1>1, AlwaysHolds, PTL

(* However a run is interrupted and whichever pass wrote its text, prose   *)
(* it answers with was validated against the evidence of this turn and is  *)
(* stored whole; a proposal is the last one made and rests on evidence     *)
(* found before it.                                                        *)
THEOREM AnswersAreBacked == Spec => []OutcomeIsBacked
<1>1. IInv => OutcomeIsBacked
  BY DEF IInv, Known, Ended
<1> QED
  BY <1>1, AlwaysHolds, PTL

(* No run that had a failed search answers.                                *)
THEOREM FailuresAreTold == Spec => []FailedSearchIsUnavailable
<1>1. IInv => FailedSearchIsUnavailable
  BY DEF IInv, Known, Ended
<1> QED
  BY <1>1, AlwaysHolds, PTL

(* After a soft search cap the host writes no answer of its own.           *)
THEOREM CappedDraftStands == Spec => []CapKeepsTheDraft
<1>1. IInv => CapKeepsTheDraft
  BY DEF IInv, Known, Ended
<1> QED
  BY <1>1, AlwaysHolds, PTL

(* The loop and the passes together start no more model calls than the     *)
(* budget of turns allows.                                                 *)
THEOREM ModelCallsAreBounded == Spec => []ModelCallsWithinBudget
<1>1. IInv => ModelCallsWithinBudget
  BY DEF IInv, Known, Charged, ModelCallsWithinBudget
<1> QED
  BY <1>1, AlwaysHolds, PTL

(* A refusal gives way only to quotes that the extraction model returned.  *)
LEMMA OverturnIsQuoted ==
  ASSUME NEW e \in Extracts, Judge(e), pass \in 1..4, pass # 1, pass # 4, grounded' # grounded
  PROVE  grounded'.says \subseteq e.quotes
<1>1. PICK accepted : Overturn(e, accepted)
  BY JudgeCases, Zenon
<1>2. grounded' = Prose(Valid(e))
  BY <1>1 DEF Overturn
<1> QED
  BY <1>2, ValidAreQuotes DEF Prose

LEMMA RefusalsKept ==
  ASSUME IInv, Next, grounded = Host("refusal"), IsProse(grounded')
  PROVE  \E e \in cache' : grounded'.says \subseteq e.quotes
<1>1. TypeOK /\ Validated /\ pass \in 1..4 /\ cache \subseteq Extracts
  BY PassesNamed DEF IInv, Known, TypeOK
<1>2. ~IsProse(Host("refusal")) /\ ~IsProse(Host("unavailable")) /\ Host("refusal") # Host("invalid")
      /\ Host("refusal") # Host("mustRetrieve")
  BY HostIsNoProse DEF Hosts, Host
<1>3. grounded' # grounded
  BY <1>2
<1> USE DEF outcome
<1>4. CASE PassReuses
  <2>1. PICK e \in cache : Judge(e)
    BY <1>4 DEF PassReuses
  <2>2. cache' = cache /\ pass # 4 /\ pass # 1
    BY <1>2, <1>4, PassesNamed DEF PassReuses, Cached, Wanted
  <2> QED
    BY <1>1, <1>3, <2>1, <2>2, OverturnIsQuoted
<1>5. CASE ProviderReturns
  <2>1. pass # 1 /\ pass # 4
    BY <1>1, <1>2, <1>5, PassesNamed DEF ProviderReturns, Validated
  <2>2. PICK e \in Extracts : Judge(e) /\ cache' = IF Passes[pass] = "cover" THEN cache ELSE {e}
    BY <1>5 DEF ProviderReturns
  <2>3. cache' = {e}
    <3>1. pass = 2 \/ pass = 3
      BY <1>1, <2>1
    <3> QED
      BY <2>2, <3>1, PassesNamed
  <2> QED
    BY <1>1, <1>3, <2>1, <2>2, <2>3, OverturnIsQuoted
<1>6. CASE Settle
  BY <1>1, <1>2, <1>6 DEF Settle, Validated
<1>7. CASE Close
  BY <1>2, <1>7, CloseCases
<1>8. CASE UNCHANGED grounded
  BY <1>3, <1>8
<1> QED
  BY <1>4, <1>5, <1>6, <1>7, <1>8 DEF Next, TimePasses, Signalled, ModelReplies, ModelFails, AgentAborts, CallFails,
     SoftBlock, HardBlock, RefuseTool, SearchFirst, Propose, SearchStarts, SearchReturns, SearchFails, TurnEnds,
     PassSkipped, PassCalls, ProviderFails, Done, vars

(* Whatever pass judges it again, a refusal in prose stays refused, unless *)
(* the extraction model quoted the evidence against it.                    *)
THEOREM RefusalsGiveWayToQuotes == Spec => RefusalStands
<1>1. IInv /\ [Next]_vars => [grounded = Host("refusal") /\ IsProse(grounded') =>
                               \E e \in cache' : grounded'.says \subseteq e.quotes]_vars
  BY RefusalsKept
<1> QED
  BY <1>1, AlwaysHolds, PTL DEF Spec, RefusalStands

=============================================================================
