----------------------------- MODULE TurnProgress -----------------------------
(***************************************************************************)
(* The status line of a question that waits for its answer: the runs that  *)
(* compete for one conversation record how far they are in its lock        *)
(* (module ConversationLock), and the page asks every two seconds.  A poll *)
(* reads the stored turn first and the lock afterwards, and its answer     *)
(* comes later still.                                                      *)
(***************************************************************************)
EXTENDS Naturals, FiniteSets

CONSTANTS Runs, NoRun, \* a run is named by its assistant message, and so is its request
          Chat,        \* the conversation
          MaxPolls     \* bound: polls on their way

VARIABLES
  lock,
  turns,   \* the stored turns: claimed, pending, completed or failed
  reached, \* history: the furthest stage a run was granted to record
  writing, \* runs whose "writing" mark is on its way
  pending, \* the request the page waits for
  timer,   \* a poll is scheduled
  polls,   \* polls on their way
  line     \* the progress kept by the page, and whose it is

progressVars == <<lock, turns, reached, writing, pending, timer, polls, line>>

Lock == INSTANCE ConversationLock WITH Conversations <- {Chat}

NoLine == [run |-> NoRun, stage |-> "none"]

ProgressInit ==
  /\ Lock!LockInit
  /\ turns = [r \in Runs |-> "none"]
  /\ reached = [r \in Runs |-> "none"]
  /\ writing = {}
  /\ pending = NoRun
  /\ timer = FALSE
  /\ polls = {}
  /\ line = NoLine

-----------------------------------------------------------------------------
(* The Brain runs a turn.                                                  *)

(* The claim of a request is stored before its messages are.               *)
Materialize(r) ==
  /\ turns[r] = "claimed"
  /\ turns' = [turns EXCEPT ![r] = "pending"]
  /\ UNCHANGED <<lock, reached, writing, pending, timer, polls, line>>

TakeLock(r) ==
  /\ turns[r] = "pending" /\ lock[Chat].run # r
  /\ \/ Lock!Acquire(Chat, r) /\ UNCHANGED turns
     \/ ~Lock!CanAcquire(Chat, r) /\ turns' = [turns EXCEPT ![r] = "failed"] /\ UNCHANGED lock
  /\ UNCHANGED <<reached, writing, pending, timer, polls, line>>

(* markStage: best effort, and the lock takes it from the holder only.     *)
Mark(r, stage) ==
  \/ /\ Lock!SetStage(Chat, r, stage)
     /\ reached' = [reached EXCEPT ![r] = IF lock'[Chat].run = r THEN lock'[Chat].stage ELSE @]
  \/ UNCHANGED <<lock, reached>>

Holding(r) == turns[r] = "pending" /\ lock[Chat].run = r

MarkAwaited(r) ==
  /\ Holding(r)
  /\ \E stage \in {"searching", "reading", "writing"} : Mark(r, stage)
  /\ UNCHANGED <<turns, writing, pending, timer, polls, line>>

(* The mark of the model call that follows a search is not awaited.        *)
SendWriting(r) ==
  /\ Holding(r)
  /\ writing' = writing \cup {r}
  /\ UNCHANGED <<lock, turns, reached, pending, timer, polls, line>>

WritingArrives(r) ==
  /\ writing' = writing \ {r}
  /\ Mark(r, "writing")
  /\ UNCHANGED <<turns, pending, timer, polls, line>>

EndTurn(r) ==
  /\ Holding(r)
  /\ \E status \in {"completed", "failed"} : turns' = [turns EXCEPT ![r] = status]
  /\ UNCHANGED <<lock, reached, writing, pending, timer, polls, line>>

Release(r) ==
  /\ turns[r] \in {"completed", "failed"} /\ Lock!CanRelease(Chat, r)
  /\ Lock!Release(Chat, r)
  /\ UNCHANGED <<turns, reached, writing, pending, timer, polls, line>>

-----------------------------------------------------------------------------
(* The page.                                                               *)

NewPoll(r) == [run |-> r, at |-> "turn", stage |-> "none"]

(* A new request starts its own loop; the loop of the one before is over.  *)
Ask(r) ==
  /\ pending = NoRun /\ turns[r] = "none" /\ Cardinality(polls) < MaxPolls
  /\ turns' = [turns EXCEPT ![r] = "claimed"]
  /\ pending' = r
  /\ timer' = FALSE
  /\ polls' = polls \cup {NewPoll(r)}
  /\ UNCHANGED <<lock, reached, writing, line>>

(* Another tab asks in the same conversation.                              *)
AskElsewhere(r) ==
  /\ turns[r] = "none"
  /\ turns' = [turns EXCEPT ![r] = "claimed"]
  /\ UNCHANGED <<lock, reached, writing, pending, timer, polls, line>>

(* The answer lands, or the question is given up.                          *)
Settle ==
  /\ pending # NoRun
  /\ pending' = NoRun
  /\ timer' = FALSE
  /\ UNCHANGED <<lock, turns, reached, writing, polls, line>>

TimerFires ==
  /\ timer
  /\ Cardinality(polls) < MaxPolls
  /\ timer' = FALSE
  /\ polls' = polls \cup {NewPoll(pending)}
  /\ UNCHANGED <<lock, turns, reached, writing, pending, line>>

Move(p, at, stage) == polls' = (polls \ {p}) \cup {[p EXCEPT !.at = at, !.stage = stage]}

(* A turn that is over has no stage, and a claim without messages waits.   *)
ReadTurn(p) ==
  /\ p.at = "turn"
  /\ Move(p, IF turns[p.run] \in {"completed", "failed"} THEN "answer" ELSE "lock", "none")
  /\ UNCHANGED <<lock, turns, reached, writing, pending, timer, line>>

MutHolds(r) == lock[Chat].run # NoRun

Holds(r) == lock[Chat].run = r

(* Without a stage of its own, a run is still searching.                   *)
StageOf(r) ==
  IF Holds(r) /\ lock[Chat].stage # "none" THEN lock[Chat].stage ELSE "searching"

ReadLock(p) ==
  /\ p.at = "lock"
  /\ Move(p, "answer", StageOf(p.run))
  /\ UNCHANGED <<lock, turns, reached, writing, pending, timer, line>>

GoesOn(p) == p.run = pending

PollReturns(p) ==
  /\ p.at = "answer"
  /\ polls' = polls \ {p}
  /\ line' = IF p.run = pending /\ p.stage # "none"
             THEN [run |-> p.run, stage |-> p.stage] ELSE line
  /\ timer' = (timer \/ GoesOn(p))
  /\ UNCHANGED <<lock, turns, reached, writing, pending>>

PollFails(p) ==
  /\ polls' = polls \ {p}
  /\ timer' = (timer \/ GoesOn(p))
  /\ UNCHANGED <<lock, turns, reached, writing, pending, line>>

ProgressNext ==
  \/ \E r \in Runs : \/ Materialize(r) \/ TakeLock(r) \/ MarkAwaited(r) \/ SendWriting(r)
                     \/ EndTurn(r) \/ Release(r) \/ Ask(r) \/ AskElsewhere(r)
  \/ \E r \in writing : WritingArrives(r)
  \/ Settle \/ TimerFires
  \/ \E p \in polls : ReadTurn(p) \/ ReadLock(p) \/ PollReturns(p) \/ PollFails(p)

-----------------------------------------------------------------------------

(* The line above the composer.                                            *)
ShownStage == IF line.run = pending THEN line.stage ELSE "searching"

(* The member never reads a stage their own run has not reached: not the   *)
(* one of the run that holds the conversation while theirs is refused, of  *)
(* the run that took it over, nor of their question before; and the page   *)
(* keeps asking until the question is answered.                            *)
LineIsOfTheTurn ==
  pending # NoRun =>
    /\ ShownStage # "searching" => Lock!StageRank[ShownStage] <= Lock!StageRank[reached[pending]]
    /\ timer \/ \E p \in polls : p.run = pending

=============================================================================
