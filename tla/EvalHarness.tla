----------------------------- MODULE EvalHarness -----------------------------
(***************************************************************************)
(* The live Northwind evaluation (live-northwind-eval.ts): a script asks a *)
(* deployed Brain every question of a set, one after the other, writes a   *)
(* checkpoint after every row, and can be started again with --resume.     *)
(* Meanwhile the Brain may be deployed anew, somebody may promote another  *)
(* generation, and the script may die, also while it writes.               *)
(***************************************************************************)
EXTENDS Integers, Sequences

CONSTANTS Questions,      \* sequence of categories: "answerable" (by one document) or "abstention"
          MaxBuilds,      \* bound: deployments of the Brain
          MaxGenerations, \* bound: generations
          MaxRuns         \* bound: starts of the script

VARIABLES
  brain,      \* build, active and ready generation (0: none), seeds under way
  checkpoint, \* the checkpoint file
  harness,    \* the running script
  summary,    \* the summary file
  runs,       \* scripts started
  moved       \* history: a generation was promoted under a running script

harnessVars == <<brain, checkpoint, harness, summary, runs, moved>>

Unpinned == 0
NoFile   == [state |-> "none", generation |-> 0, scored |-> FALSE, build |-> Unpinned, rows |-> <<>>]
Torn     == [NoFile EXCEPT !.state = "torn"]
Stopped  == [at |-> "stopped", resume |-> FALSE, scored |-> FALSE, generation |-> 0,
             build |-> Unpinned, rows |-> <<>>]

HarnessInit ==
  /\ brain \in [build : {1}, active : {0, 1}, ready : {0}, seeding : {{}}, last : {1}]
  /\ checkpoint = NoFile
  /\ harness = Stopped
  /\ summary = NoFile
  /\ runs = 0
  /\ moved = FALSE

At(place)      == harness.at = place
Go(place)      == harness' = [harness EXCEPT !.at = place]
Stop           == harness' = Stopped
BrainIsLeft    == UNCHANGED <<brain, moved>>
FilesAreLeft   == UNCHANGED <<checkpoint, summary>>

-----------------------------------------------------------------------------

(* The Brain: deployments, promotions by hand, and seeds that finish.      *)

Deploy ==
  /\ brain.build < MaxBuilds
  /\ brain' = [brain EXCEPT !.build = @ + 1]
  /\ UNCHANGED <<harness, runs, moved>> /\ FilesAreLeft

PromoteByHand ==
  /\ brain.last < MaxGenerations
  /\ brain' = [brain EXCEPT !.last = @ + 1, !.active = brain.last + 1]
  /\ moved' = (moved \/ ~At("stopped"))
  /\ UNCHANGED <<harness, runs>> /\ FilesAreLeft

SeedFinishes ==
  /\ \E g \in brain.seeding :
       brain' = [brain EXCEPT !.seeding = @ \ {g}, !.ready = g]
  /\ UNCHANGED <<harness, runs, moved>> /\ FilesAreLeft

-----------------------------------------------------------------------------

Start(resume, scored) ==
  /\ At("stopped")
  /\ runs < MaxRuns
  /\ runs' = runs + 1
  /\ harness' = [Stopped EXCEPT !.at = "status", !.resume = resume, !.scored = scored]
  /\ BrainIsLeft /\ FilesAreLeft

(* The script throws, or its process dies.                                 *)
Dies ==
  /\ ~At("stopped")
  /\ Stop
  /\ BrainIsLeft /\ FilesAreLeft /\ UNCHANGED runs

(* ensureSeeded: the active generation, else a ready one that it promotes, *)
(* else it seeds; a seed whose answer is lost is polled for, never redone. *)
UseActive ==
  /\ At("status") \/ At("poll")
  /\ brain.active # 0
  /\ At("poll") => brain.ready = 0
  /\ harness' = [harness EXCEPT !.at = "load", !.generation = brain.active]
  /\ BrainIsLeft /\ FilesAreLeft /\ UNCHANGED runs

PromoteReady ==
  /\ At("status") \/ At("poll")
  /\ At("status") => brain.active = 0
  /\ brain.ready # 0
  /\ brain' = [brain EXCEPT !.active = brain.ready, !.ready = 0]
  /\ harness' = [harness EXCEPT !.at = "load", !.generation = brain.ready]
  /\ FilesAreLeft /\ UNCHANGED <<runs, moved>>

Seed ==
  /\ At("status")
  /\ brain.active = 0 /\ brain.ready = 0 /\ brain.last < MaxGenerations
  /\ brain' = [brain EXCEPT !.seeding = @ \cup {brain.last + 1}, !.last = @ + 1]
  /\ Go("poll")
  /\ FilesAreLeft /\ UNCHANGED <<runs, moved>>

-----------------------------------------------------------------------------

MutCompatible(file) == file.state = "written" /\ file.scored = harness.scored

(* --resume goes on with a checkpoint of this Brain, generation, model,    *)
(* question set and setting; a file that cannot be read starts over.       *)
Compatible(file) ==
  /\ file.state = "written"
  /\ file.generation = harness.generation
  /\ file.scored = harness.scored

IsAnswer(row) == row.status # "unavailable"

(* The unavailable rows are dropped (written out, for the provers know no  *)
(* SelectSeq).                                                             *)
Answered(rows) ==
  LET kept[n \in 0..Len(rows)] ==
        IF n = 0 THEN <<>>
        ELSE IF IsAnswer(rows[n]) THEN Append(kept[n - 1], rows[n]) ELSE kept[n - 1]
  IN  kept[Len(rows)]

LoadCheckpoint ==
  /\ At("load")
  /\ harness' =
       IF harness.resume /\ Compatible(checkpoint)
       THEN [harness EXCEPT !.at = "ask", !.build = checkpoint.build,
                            !.rows = Answered(checkpoint.rows)]
       ELSE [harness EXCEPT !.at = "ask"]
  /\ BrainIsLeft /\ FilesAreLeft /\ UNCHANGED runs

-----------------------------------------------------------------------------

Gold == "gold"
Forbidden == "forbidden"

(* scoreNorthwindAnswer, by what was retrieved, what was cited and whether *)
(* the answer is grounded.                                                 *)
Passes(category, answer) ==
  /\ Forbidden \notin answer.retrieved
  /\ IF category = "abstention"
     THEN ~answer.grounded /\ answer.cited = {}
     ELSE answer.grounded /\ Gold \in answer.cited

Answers == {a \in [grounded : BOOLEAN, retrieved : SUBSET {Gold, Forbidden}, cited : SUBSET {Gold}] :
              a.cited \subseteq a.retrieved}

Row(q, status, build, generation, own) ==
  [question |-> q, status |-> status, build |-> build, generation |-> generation, own |-> own]

Open == {q \in DOMAIN Questions : \A i \in DOMAIN harness.rows : harness.rows[i].question # q}
Next1 == CHOOSE q \in Open : \A r \in Open : q <= r

(* The row is pushed and the whole file written anew; a crash in the       *)
(* middle of the write leaves a file that does not parse.                  *)
Write(row, build) ==
  LET rows == Append(harness.rows, row)
  IN  \/ /\ harness' = [harness EXCEPT !.rows = rows, !.build = build]
         /\ checkpoint' = [state |-> "written", generation |-> harness.generation,
                           scored |-> harness.scored, build |-> build, rows |-> rows]
      \/ Stop /\ checkpoint' = Torn

Pinned(build) == harness.build = Unpinned \/ harness.build = build

(* A turn is scored only when the Brain confirms the question's principal  *)
(* and the model, and reports the build the rows are pinned to; otherwise  *)
(* the run stops.                                                          *)
AskQuestion ==
  /\ At("ask") /\ Open # {}
  /\ \E own \in BOOLEAN, answer \in Answers :
       IF own /\ Pinned(brain.build)
       THEN Write(Row(Next1, IF Passes(Questions[Next1], answer) THEN "pass" ELSE "fail",
                      brain.build, brain.active, own), brain.build)
       ELSE Stop /\ UNCHANGED checkpoint
  /\ BrainIsLeft /\ UNCHANGED <<runs, summary>>

(* Every attempt was answered 503 UNAVAILABLE: a failed row where that was *)
(* asked for, the end of the run otherwise.                                *)
AskUnavailable ==
  /\ At("ask") /\ Open # {}
  /\ IF harness.scored
     THEN Write(Row(Next1, "unavailable", Unpinned, brain.active, TRUE), harness.build)
     ELSE Stop /\ UNCHANGED checkpoint
  /\ BrainIsLeft /\ UNCHANGED <<runs, summary>>

Summarize ==
  /\ At("ask") /\ Open = {}
  /\ summary' = [state |-> "written", generation |-> harness.generation, scored |-> harness.scored,
                 build |-> harness.build, rows |-> harness.rows]
  /\ Stop
  /\ BrainIsLeft /\ UNCHANGED <<runs, checkpoint>>

HarnessNext ==
  \/ Deploy \/ PromoteByHand \/ SeedFinishes
  \/ \E resume, scored \in BOOLEAN : Start(resume, scored)
  \/ Dies \/ UseActive \/ PromoteReady \/ Seed
  \/ LoadCheckpoint \/ AskQuestion \/ AskUnavailable \/ Summarize

-----------------------------------------------------------------------------

(* A summary is one measurement: every question once, every answered row   *)
(* by the build it reports and under the question's own principal, no row  *)
(* of an unavailable turn unless that was asked for, and every row of the  *)
(* generation it reports unless one was promoted under the running script: *)
(* however often the script died, also in the middle of a write, and was   *)
(* resumed between deployments and promotions.                             *)
SummaryIsOneRun ==
  summary.state = "written" =>
    LET rows == summary.rows
    IN  /\ \A q \in DOMAIN Questions :
             \E i \in DOMAIN rows : rows[i].question = q
                                    /\ \A j \in DOMAIN rows \ {i} : rows[j].question # q
        /\ \A i \in DOMAIN rows :
             /\ IsAnswer(rows[i]) => rows[i].build = summary.build /\ rows[i].own
             /\ ~IsAnswer(rows[i]) => summary.scored
             /\ rows[i].generation = summary.generation \/ moved

=============================================================================
