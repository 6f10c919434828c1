--------------------------- MODULE ApprovalResume ---------------------------
(***************************************************************************)
(* A proposed action, from the turn that records it to its one effect: the *)
(* pending run and its approval record, the approval Workflow that waits   *)
(* for the owner's decision, the resume queue with its consumers, and the  *)
(* scheduled recovery.  All of them meet in four D1 tables, and each reads *)
(* rows in one statement and acts on what it read in a later one.          *)
(*                                                                         *)
(* A run proposes one action, so one tool call, at most one approvals row  *)
(* (unique index approvals_by_run) and one idempotency key: all are named  *)
(* after the run.  A ticket stands for the effect rows of a key.           *)
(***************************************************************************)
EXTENDS Naturals, FiniteSets

CONSTANTS Runs,            \* agent runs, one per assistant message
          Consumers,       \* concurrent invocations of the queue handler
          NoRun,
          Window,          \* approvalExpiryMs
          MaxNow,          \* bound: the clock stops here
          MaxFaults        \* bound: calls that are lost, Workers that die

ASSUME NoRunIsNotARun == NoRun \notin Runs
ASSUME WindowIsPositive == Window \in Nat \ {0}
ASSUME BoundsAreNats == MaxNow \in Nat /\ MaxFaults \in Nat

VARIABLES
  now,         \* Date.now()
  run,         \* agent_runs.status
  tool,        \* status of the run's tool_calls row that needs approval
  approval,    \* approvals.status
  expiresAt,   \* expires_at of the binding; a deleted row leaves it to the Workflow
  tickets,     \* runs whose effect rows exist
  recorder,    \* the turn that records the proposal
  upserts,     \* upsertApproval calls in flight
  workflow,    \* the approval Workflow of each run
  event,       \* the event it consumed
  queue,       \* runs with a message on the resume queue
  consumer,    \* what each consumer has read and does next
  cron,        \* what the scheduled handler has read and does next
  deleted,     \* history: runs deleted with their conversation
  consented,   \* history: runs whose owner sent a matching approval
  faults       \* history: number of faults so far

store   == <<run, tool, approval, expiresAt, tickets>>
actors  == <<recorder, upserts, workflow, event, queue, consumer, cron>>
history == <<deleted, consented, faults>>
vars    == <<now, store, actors, history>>

-----------------------------------------------------------------------------
RunStatuses      == {"absent", "running", "pending_approval", "completed", "failed"}
ToolStatuses     == {"none", "pending_approval", "ok", "denied"}
ApprovalStatuses == {"none", "pending", "approved", "rejected", "expired"}

RecorderSteps == {"idle", "completing", "upserting", "abandoning", "recorded", "refused", "dead"}
RecorderDone  == {"recorded", "refused", "dead"}

Upserts == [run: Runs, expiresAt: Nat, by: {"turn", "start"},
            at: {"check", "insert", "readBack", "create"}]

WorkflowSteps == {"none", "waiting", "decide", "lapse", "reject", "approve", "enqueue",
                  "expire", "expireWrite", "done", "errored"}

ConsumerSteps == {"idle", "load", "commit", "reload", "expire", "expireWrite", "ack", "retry"}
IdleConsumer  == [at |-> "idle", run |-> NoRun, seen |-> "absent", clock |-> 0]

CronSteps == {"idle", "overdue", "expireWrite", "list", "send"}
IdleCron  == [at |-> "idle", todo |-> {}, run |-> NoRun, clock |-> 0]

TypeOK ==
  /\ now \in Nat
  /\ run \in [Runs -> RunStatuses]
  /\ tool \in [Runs -> ToolStatuses]
  /\ approval \in [Runs -> ApprovalStatuses]
  /\ expiresAt \in [Runs -> Nat]
  /\ tickets \in SUBSET Runs
  /\ recorder \in [Runs -> RecorderSteps]
  /\ upserts \in SUBSET Upserts
  /\ workflow \in [Runs -> WorkflowSteps]
  /\ event \in [Runs -> {"none", "approve", "reject", "tampered"}]
  /\ queue \in SUBSET Runs
  /\ consumer \in [Consumers -> [at: ConsumerSteps, run: Runs \cup {NoRun},
                                 seen: RunStatuses, clock: Nat]]
  /\ cron \in [at: CronSteps, todo: SUBSET Runs, run: Runs \cup {NoRun}, clock: Nat]
  /\ deleted \in SUBSET Runs
  /\ consented \in SUBSET Runs
  /\ faults \in Nat

Init ==
  /\ now = 0
  /\ run = [r \in Runs |-> "absent"]
  /\ tool = [r \in Runs |-> "none"]
  /\ approval = [r \in Runs |-> "none"]
  /\ expiresAt = [r \in Runs |-> 0]
  /\ tickets = {}
  /\ recorder = [r \in Runs |-> "idle"]
  /\ upserts = {}
  /\ workflow = [r \in Runs |-> "none"]
  /\ event = [r \in Runs |-> "none"]
  /\ queue = {}
  /\ consumer = [c \in Consumers |-> IdleConsumer]
  /\ cron = IdleCron
  /\ deleted = {}
  /\ consented = {}
  /\ faults = 0

(* Approvals are made early enough to expire before the clock stops. *)
Fresh(t) == now < t /\ t <= now + Window /\ t < MaxNow

Fault == faults < MaxFaults /\ faults' = faults + 1

-----------------------------------------------------------------------------
(* recordPendingApproval, called by the turn once its agent stopped at the *)
(* proposal.  The binding was made earlier in the run, which is shorter    *)
(* than the approval window.  A throw anywhere makes the turn refuse.      *)

CreateAgentRun(r, t) ==
  /\ recorder[r] = "idle"
  /\ Fresh(t)
  /\ expiresAt' = [expiresAt EXCEPT ![r] = t]
  /\ IF r \in deleted
     THEN recorder' = [recorder EXCEPT ![r] = "abandoning"] /\ UNCHANGED run
     ELSE /\ recorder' = [recorder EXCEPT ![r] = "completing"]
          /\ run' = [run EXCEPT ![r] = "running"]
  /\ UNCHANGED <<now, tool, approval, tickets, upserts, workflow, event, queue, consumer, cron,
                 history>>

(* completeAgentRun: the tool call and the status of the run in one batch. *)
CompleteAgentRun(r) ==
  /\ recorder[r] = "completing"
  /\ IF run[r] = "running"
     THEN /\ run' = [run EXCEPT ![r] = "pending_approval"]
          /\ tool' = [tool EXCEPT ![r] = "pending_approval"]
          /\ recorder' = [recorder EXCEPT ![r] = "upserting"]
          /\ upserts' = upserts \cup
               {[run |-> r, expiresAt |-> expiresAt[r], by |-> "turn", at |-> "check"]}
     ELSE /\ recorder' = [recorder EXCEPT ![r] = "abandoning"]
          /\ UNCHANGED <<run, tool, upserts>>
  /\ UNCHANGED <<now, approval, expiresAt, tickets, workflow, event, queue, consumer, cron,
                 history>>

MutAbandonAnyRun(r) ==
  /\ recorder[r] = "abandoning"
  /\ run' = [run EXCEPT ![r] = IF @ \in {"running", "pending_approval"} THEN "failed" ELSE @]
  /\ recorder' = [recorder EXCEPT ![r] = "refused"]
  /\ UNCHANGED <<now, tool, approval, expiresAt, tickets, upserts, workflow, event, queue,
                 consumer, cron, history>>

(* "A run created before the failure must not stay open" - unless it has   *)
(* an approval.                                                            *)
AbandonRun(r) ==
  /\ recorder[r] = "abandoning"
  /\ run' = [run EXCEPT ![r] = IF @ \in {"running", "pending_approval"} /\ approval[r] = "none"
                               THEN "failed" ELSE @]
  /\ recorder' = [recorder EXCEPT ![r] = "refused"]
  /\ UNCHANGED <<now, tool, approval, expiresAt, tickets, upserts, workflow, event, queue,
                 consumer, cron, history>>

-----------------------------------------------------------------------------
(* POST /approvals/start: the owner's card starts the Workflow.  A run     *)
(* without an approval record gets a fresh binding; a stored one is kept.  *)

Start(r) ==
  /\ recorder[r] \in RecorderDone
  /\ run[r] = "pending_approval"
  /\ tool[r] = "pending_approval"
  /\ LET t == IF approval[r] \in {"pending", "approved"} THEN expiresAt[r] ELSE now + Window IN
     /\ Fresh(t)
     /\ upserts' = upserts \cup {[run |-> r, expiresAt |-> t, by |-> "start", at |-> "check"]}
  /\ UNCHANGED <<now, store, recorder, workflow, event, queue, consumer, cron, history>>

(* upsertApproval: the run and its call must be pending; then the row is   *)
(* inserted unless there is one; then the stored row is read and returned. *)

Onward(u, step) == upserts' = (upserts \ {u}) \cup {[u EXCEPT !.at = step]}

UpsertEnds(u, turnNext) ==
  /\ upserts' = upserts \ {u}
  /\ recorder' = IF u.by = "turn" THEN [recorder EXCEPT ![u.run] = turnNext] ELSE recorder

UpsertCheck(u) ==
  /\ u.at = "check"
  /\ IF run[u.run] = "pending_approval" /\ tool[u.run] = "pending_approval"
     THEN Onward(u, "insert") /\ UNCHANGED recorder
     ELSE UpsertEnds(u, "abandoning")
  /\ UNCHANGED <<now, store, workflow, event, queue, consumer, cron, history>>

InsertApproval(u) ==
  IF approval[u.run] = "none" /\ run[u.run] # "absent"
  THEN /\ approval' = [approval EXCEPT ![u.run] = "pending"]
       /\ expiresAt' = [expiresAt EXCEPT ![u.run] = u.expiresAt]
  ELSE UNCHANGED <<approval, expiresAt>>

UpsertInsert(u) ==
  /\ u.at = "insert"
  /\ InsertApproval(u)
  /\ IF run[u.run] = "absent"
     THEN UpsertEnds(u, "abandoning")
     ELSE Onward(u, "readBack") /\ UNCHANGED recorder
  /\ UNCHANGED <<now, run, tool, tickets, workflow, event, queue, consumer, cron, history>>

UpsertReadBack(u) ==
  /\ u.at = "readBack"
  /\ IF approval[u.run] \in {"pending", "approved"}
     THEN IF u.by = "turn" THEN UpsertEnds(u, "recorded")
                           ELSE Onward(u, "create") /\ UNCHANGED recorder
     ELSE UpsertEnds(u, "abandoning")
  /\ UNCHANGED <<now, store, workflow, event, queue, consumer, cron, history>>

(* An instance of the same id may exist already, and is kept. *)
CreateWorkflow(u) ==
  /\ u.at = "create"
  /\ UpsertEnds(u, "recorded")
  /\ workflow' = [workflow EXCEPT ![u.run] = IF @ = "none" THEN "waiting" ELSE @]
  /\ UNCHANGED <<now, store, event, queue, consumer, cron, history>>

-----------------------------------------------------------------------------
(* POST /approvals/event: the owner decides.  The Workflow takes the first *)
(* event; one whose binding is not the stored one is taken as well.        *)
SendEvent(r, e) ==
  /\ workflow[r] = "waiting"
  /\ r \notin deleted
  /\ workflow' = [workflow EXCEPT ![r] = "decide"]
  /\ event' = [event EXCEPT ![r] = e]
  /\ consented' = IF e = "approve" THEN consented \cup {r} ELSE consented
  /\ UNCHANGED <<now, store, recorder, upserts, queue, consumer, cron, deleted, faults>>

Goto(r, step) == workflow' = [workflow EXCEPT ![r] = step]

(* decideApproval, the persist-decision step: read, then one batch.        *)
Late(r) == now > expiresAt[r]

Decision(r) ==
  IF approval[r] = "none" THEN "done"
  ELSE IF Late(r) \/ event[r] = "tampered"
       THEN IF Late(r) /\ approval[r] = "pending" THEN "lapse" ELSE "done"
  ELSE IF event[r] = "reject" THEN "reject"
  ELSE CASE approval[r] = "pending"  -> "approve"
         [] approval[r] = "approved" -> "enqueue"
         [] OTHER                    -> "done"

Decide(r) ==
  /\ workflow[r] = "decide"
  /\ Goto(r, Decision(r))
  /\ UNCHANGED <<now, store, recorder, upserts, event, queue, consumer, cron, history>>

(* One batch; the tool call and the run end whatever the approval is. *)
EndApproval(r, from, to) ==
  /\ approval' = [approval EXCEPT ![r] = IF @ \in from THEN to ELSE @]
  /\ tool' = [tool EXCEPT ![r] = IF @ = "pending_approval" THEN "denied" ELSE @]
  /\ run' = [run EXCEPT ![r] = IF @ = "pending_approval" THEN "failed" ELSE @]

Persist(r) ==
  /\ \/ workflow[r] = "lapse" /\ EndApproval(r, {"pending"}, "expired")
     \/ workflow[r] = "reject" /\ EndApproval(r, {"pending"}, "rejected")
     \/ /\ workflow[r] = "approve"
        /\ approval' = [approval EXCEPT ![r] = IF @ = "pending" THEN "approved" ELSE @]
        /\ UNCHANGED <<run, tool>>
  /\ UNCHANGED <<expiresAt, tickets>>

PersistDecision(r) ==
  /\ Persist(r)
  /\ Goto(r, IF workflow[r] = "approve" THEN "enqueue" ELSE "done")
  /\ UNCHANGED <<now, recorder, upserts, event, queue, consumer, cron, history>>

EnqueueResume(r) ==
  /\ workflow[r] = "enqueue"
  /\ queue' = queue \cup {r}
  /\ Goto(r, "done")
  /\ UNCHANGED <<now, store, recorder, upserts, event, consumer, cron, history>>

-----------------------------------------------------------------------------
(* expireApproval, called by the Workflow, a consumer and the cron handler:*)
(* the row is read and judged, and expired by a batch of its own.          *)

MutExpireOverdueOnly(r, t) == approval[r] \in {"pending", "approved"} /\ t > expiresAt[r]

MayExpire(r, t) ==
  \/ approval[r] = "pending"
  \/ approval[r] = "approved" /\ t > expiresAt[r]

ExpireBatch(r) == EndApproval(r, {"pending", "approved"}, "expired")

(* The wait times out 15 minutes after it began, which is never before the *)
(* binding expires.                                                        *)
WaitTimesOut(r) ==
  /\ workflow[r] = "waiting"
  /\ now >= expiresAt[r]
  /\ Goto(r, "expire")
  /\ UNCHANGED <<now, store, recorder, upserts, event, queue, consumer, cron, history>>

WorkflowReads(r) ==
  /\ workflow[r] = "expire"
  /\ Goto(r, IF MayExpire(r, IF now > expiresAt[r] THEN now ELSE expiresAt[r])
             THEN "expireWrite" ELSE "done")
  /\ UNCHANGED <<now, store, recorder, upserts, event, queue, consumer, cron, history>>

WorkflowExpires(r) ==
  /\ workflow[r] = "expireWrite"
  /\ ExpireBatch(r)
  /\ Goto(r, "done")
  /\ UNCHANGED <<now, expiresAt, tickets, recorder, upserts, event, queue, consumer, cron,
                 history>>

-----------------------------------------------------------------------------
(* The queue handler, resumeApprovedAgentRun.  A message stays on the      *)
(* queue until a consumer acknowledged it, so two may have it at once.  A  *)
(* consumer reads the clock when it starts, then the run, then the call    *)
(* and the approval.                                                       *)

ConsumerGoto(c, step) == consumer' = [consumer EXCEPT ![c].at = step]

Deliver(c, r) ==
  /\ consumer[c].at = "idle"
  /\ r \in queue
  /\ consumer' = [consumer EXCEPT ![c] =
       [at |-> IF run[r] = "absent" THEN "retry" ELSE "load",
        run |-> r, seen |-> run[r], clock |-> now]]
  /\ UNCHANGED <<now, store, recorder, upserts, workflow, event, queue, cron, history>>

Load(c) ==
  /\ consumer[c].at = "load"
  /\ LET r == consumer[c].run
         seen == consumer[c].seen
     IN ConsumerGoto(c,
          CASE seen = "completed" -> IF approval[r] = "none" THEN "retry" ELSE "ack"
            [] seen = "failed"    -> IF approval[r] = "expired" THEN "ack" ELSE "retry"
            [] OTHER -> IF \/ seen # "pending_approval"
                           \/ approval[r] # "approved"
                           \/ tool[r] # "pending_approval"
                        THEN "retry"
                        ELSE IF consumer[c].clock > expiresAt[r] THEN "expire" ELSE "commit")
  /\ UNCHANGED <<now, store, recorder, upserts, workflow, event, queue, cron, history>>

(* STILL_APPROVED_RESUME, the condition of every statement of the batch. *)
StillApproved(r, t) ==
  /\ run[r] = "pending_approval"
  /\ approval[r] = "approved"
  /\ expiresAt[r] >= t

MutResumeUnguarded(r, t) ==
  /\ tickets' = tickets \cup {r}
  /\ tool' = [tool EXCEPT ![r] = IF StillApproved(r, t) THEN "ok" ELSE @]
  /\ run' = [run EXCEPT ![r] = IF StillApproved(r, t) THEN "completed" ELSE @]

(* commitApprovedResumeWrites: effect, result, call and run in one batch. *)
ResumeWrites(r, t) ==
  IF StillApproved(r, t)
  THEN /\ tickets' = tickets \cup {r}
       /\ tool' = [tool EXCEPT ![r] = "ok"]
       /\ run' = [run EXCEPT ![r] = "completed"]
  ELSE UNCHANGED <<tickets, tool, run>>

CommitResume(c) ==
  /\ consumer[c].at = "commit"
  /\ ResumeWrites(consumer[c].run, consumer[c].clock)
  /\ ConsumerGoto(c, "reload")
  /\ UNCHANGED <<now, approval, expiresAt, recorder, upserts, workflow, event, queue, cron,
                 history>>

ReloadResume(c) ==
  /\ consumer[c].at = "reload"
  /\ LET r == consumer[c].run IN
     ConsumerGoto(c, IF run[r] = "completed" \/ (run[r] = "failed" /\ approval[r] = "expired")
                     THEN "ack" ELSE "retry")
  /\ UNCHANGED <<now, store, recorder, upserts, workflow, event, queue, cron, history>>

ConsumerReads(c) ==
  /\ consumer[c].at = "expire"
  /\ ConsumerGoto(c, IF MayExpire(consumer[c].run, consumer[c].clock) THEN "expireWrite" ELSE "ack")
  /\ UNCHANGED <<now, store, recorder, upserts, workflow, event, queue, cron, history>>

ConsumerExpires(c) ==
  /\ consumer[c].at = "expireWrite"
  /\ ExpireBatch(consumer[c].run)
  /\ ConsumerGoto(c, "ack")
  /\ UNCHANGED <<now, expiresAt, tickets, recorder, upserts, workflow, event, queue, cron,
                 history>>

(* ack() takes the message off the queue, unless the cron handler has sent *)
(* another copy; retry() leaves it there until the retries of the queue    *)
(* and of its dead letter queue are used up.                               *)
Settle(c) ==
  /\ consumer[c].at \in {"ack", "retry"}
  /\ queue' = queue \ {consumer[c].run} \/ UNCHANGED queue
  /\ consumer' = [consumer EXCEPT ![c] = IdleConsumer]
  /\ UNCHANGED <<now, store, recorder, upserts, workflow, event, cron, history>>

-----------------------------------------------------------------------------
(* The scheduled handler: enqueueRecoverableApprovalResumes expires what   *)
(* is approved and overdue, then sends what is approved and not done.      *)

Recoverable == {r \in Runs : approval[r] = "approved" /\ run[r] = "pending_approval"}

MutCronSkipsOverdue ==
  /\ cron.at = "idle"
  /\ cron' = [at |-> "overdue", todo |-> {}, run |-> NoRun, clock |-> now]
  /\ UNCHANGED <<now, store, recorder, upserts, workflow, event, queue, consumer, history>>

CronStarts ==
  /\ cron.at = "idle"
  /\ cron' = [at |-> "overdue", todo |-> {r \in Recoverable : expiresAt[r] < now},
              run |-> NoRun, clock |-> now]
  /\ UNCHANGED <<now, store, recorder, upserts, workflow, event, queue, consumer, history>>

CronReads(r) ==
  /\ cron.at = "overdue"
  /\ r \in cron.todo
  /\ cron' = IF MayExpire(r, cron.clock)
             THEN [cron EXCEPT !.at = "expireWrite", !.run = r]
             ELSE [cron EXCEPT !.todo = @ \ {r}]
  /\ UNCHANGED <<now, store, recorder, upserts, workflow, event, queue, consumer, history>>

CronExpires ==
  /\ cron.at = "expireWrite"
  /\ ExpireBatch(cron.run)
  /\ cron' = [cron EXCEPT !.at = "overdue", !.todo = @ \ {cron.run}, !.run = NoRun]
  /\ UNCHANGED <<now, expiresAt, tickets, recorder, upserts, workflow, event, queue, consumer,
                 history>>

CronLists ==
  /\ cron.at = "overdue"
  /\ cron.todo = {}
  /\ cron' = [at |-> "send", todo |-> {r \in Recoverable : expiresAt[r] >= now},
              run |-> NoRun, clock |-> 0]
  /\ UNCHANGED <<now, store, recorder, upserts, workflow, event, queue, consumer, history>>

CronSends(r) ==
  /\ cron.at = "send"
  /\ r \in cron.todo
  /\ queue' = queue \cup {r}
  /\ cron' = [cron EXCEPT !.todo = @ \ {r}]
  /\ UNCHANGED <<now, store, recorder, upserts, workflow, event, consumer, history>>

CronEnds ==
  /\ cron.at = "send"
  /\ cron.todo = {}
  /\ cron' = IdleCron
  /\ UNCHANGED <<now, store, recorder, upserts, workflow, event, queue, consumer, history>>

-----------------------------------------------------------------------------
(* Time, deletion and faults.                                              *)

Tick ==
  /\ now < MaxNow
  /\ now' = now + 1
  /\ UNCHANGED <<store, actors, history>>

(* DELETE /conversations/:id; the ticket outlives the conversation. *)
DeleteConversation(r) ==
  /\ r \notin deleted
  /\ deleted' = deleted \cup {r}
  /\ run' = [run EXCEPT ![r] = "absent"]
  /\ tool' = [tool EXCEPT ![r] = "none"]
  /\ approval' = [approval EXCEPT ![r] = "none"]
  /\ UNCHANGED <<now, expiresAt, tickets, actors, consented, faults>>

(* A call of the turn that records a proposal fails, or the reply to the   *)
(* call before it is lost, and the turn goes on to refuse; or its Worker   *)
(* dies.                                                                   *)
RecorderFails(r) ==
  /\ recorder[r] \in RecorderSteps \ ({"idle"} \cup RecorderDone)
  /\ Fault
  /\ recorder' = [recorder EXCEPT ![r] = IF @ = "abandoning" THEN "refused" ELSE "abandoning"]
  /\ upserts' = {u \in upserts : u.run # r \/ u.by # "turn"}
  /\ UNCHANGED <<now, store, workflow, event, queue, consumer, cron, deleted, consented>>

RecorderDies(r) ==
  /\ recorder[r] \in RecorderSteps \ ({"idle"} \cup RecorderDone)
  /\ Fault
  /\ recorder' = [recorder EXCEPT ![r] = "dead"]
  /\ upserts' = {u \in upserts : u.run # r \/ u.by # "turn"}
  /\ UNCHANGED <<now, store, workflow, event, queue, consumer, cron, deleted, consented>>

(* A step of the Workflow fails, its write done or not: it is run again    *)
(* from its start, until its attempts are used up.                         *)
StepFails(r) ==
  /\ workflow[r] \notin {"none", "waiting", "done", "errored"}
  /\ Fault
  /\ \/ Persist(r) /\ UNCHANGED queue
     \/ workflow[r] = "expireWrite" /\ ExpireBatch(r) /\ UNCHANGED <<expiresAt, tickets, queue>>
     \/ workflow[r] = "enqueue" /\ queue' = queue \cup {r} /\ UNCHANGED store
     \/ UNCHANGED <<store, queue>>
  /\ \/ Goto(r, CASE workflow[r] = "enqueue" -> "enqueue"
                  [] workflow[r] \in {"expire", "expireWrite"} -> "expire"
                  [] OTHER -> "decide")
     \/ Goto(r, "errored")
  /\ UNCHANGED <<now, recorder, upserts, event, consumer, cron, deleted, consented>>

ConsumerDies(c) ==
  /\ consumer[c].at # "idle"
  /\ Fault
  /\ consumer' = [consumer EXCEPT ![c] = IdleConsumer]
  /\ UNCHANGED <<now, store, recorder, upserts, workflow, event, queue, cron, deleted, consented>>

CronDies ==
  /\ cron.at # "idle"
  /\ Fault
  /\ cron' = IdleCron
  /\ UNCHANGED <<now, store, recorder, upserts, workflow, event, queue, consumer, deleted,
                 consented>>

-----------------------------------------------------------------------------
Record(r) ==
  \/ \E t \in 0 .. MaxNow : CreateAgentRun(r, t)
  \/ CompleteAgentRun(r) \/ AbandonRun(r) \/ Start(r)

Upsert(u) == UpsertCheck(u) \/ UpsertInsert(u) \/ UpsertReadBack(u) \/ CreateWorkflow(u)

WorkflowStep(r) ==
  \/ Decide(r) \/ PersistDecision(r) \/ EnqueueResume(r)
  \/ WaitTimesOut(r) \/ WorkflowReads(r) \/ WorkflowExpires(r)

ConsumerStep(c) ==
  \/ \E r \in Runs : Deliver(c, r)
  \/ Load(c) \/ CommitResume(c) \/ ReloadResume(c) \/ ConsumerReads(c) \/ ConsumerExpires(c)
  \/ Settle(c)

CronStep ==
  \/ CronStarts \/ CronExpires \/ CronLists \/ CronEnds
  \/ \E r \in Runs : CronReads(r) \/ CronSends(r)

Faulty ==
  \/ \E r \in Runs : RecorderFails(r) \/ RecorderDies(r) \/ StepFails(r)
  \/ \E c \in Consumers : ConsumerDies(c)
  \/ CronDies

Next ==
  \/ Tick
  \/ \E r \in Runs : Record(r) \/ WorkflowStep(r) \/ DeleteConversation(r)
  \/ \E r \in Runs, e \in {"approve", "reject", "tampered"} : SendEvent(r, e)
  \/ \E u \in upserts : Upsert(u)
  \/ \E c \in Consumers : ConsumerStep(c)
  \/ CronStep
  \/ Faulty

Spec == Init /\ [][Next]_vars

(* The clock runs, Cloudflare runs a Workflow on and delivers queued       *)
(* messages, and the handler is scheduled every five minutes and runs to   *)
(* its end.  Nothing obliges the owner to decide.                          *)
FairSpec ==
  /\ Spec
  /\ WF_vars(Tick)
  /\ WF_vars(CronStep)
  /\ \A r \in Runs : WF_vars(WorkflowStep(r))
  /\ \A c \in Consumers : WF_vars(ConsumerStep(c))

-----------------------------------------------------------------------------
(* The three tables agree, although no two statements of different actors  *)
(* are atomic together: an approval that can still be decided or resumed   *)
(* has a run and a call that wait for it, a rejected one has a failed run  *)
(* and a denied call, and a completed run is one whose effect exists       *)
(* (decideApproval, expireApproval, commitApprovedResumeWrites).           *)
RowsAgree ==
  \A r \in Runs :
    /\ approval[r] = "pending"  => run[r] = "pending_approval" /\ tool[r] = "pending_approval"
    /\ approval[r] = "approved" => run[r] \in {"pending_approval", "completed"}
    /\ approval[r] = "rejected" => run[r] = "failed" /\ tool[r] = "denied"
    /\ run[r] = "completed" <=> r \in tickets \ deleted
    /\ run[r] = "completed" <=> tool[r] = "ok"

(* An effect exists only after the owner approved the stored binding, and  *)
(* never for a run that failed: whatever was delivered twice, late or from *)
(* a stale read (P2-17 in docs/independent-review-p2-backlog.md).          *)
EffectNeedsConsent ==
  \A r \in tickets : r \in consented /\ run[r] \notin {"running", "pending_approval", "failed"}

(* A resume message is acknowledged only when its run has ended, so an     *)
(* acknowledgement never loses an approved action (index.ts, queue).       *)
AckedIsSettled ==
  \A c \in Consumers :
    consumer[c].at = "ack" => run[consumer[c].run] \in {"completed", "failed", "absent"}

(* What the tables say of a proposal, its effect and its message agrees.   *)
ApprovalsAgree == RowsAgree /\ EffectNeedsConsent /\ AckedIsSettled

(* The promise of an approved action: performed at most once, after        *)
(* consent, never after a refusal, and final.                              *)
Phase(r) ==
  CASE r \in tickets                            -> "done"
    [] r \notin tickets /\ r \in deleted        -> "forgotten"
    [] r \notin tickets \cup deleted            ->
         CASE run[r] = "failed"           -> "refused"
           [] run[r] = "pending_approval" -> IF approval[r] = "approved" THEN "consented" ELSE "proposed"
           [] OTHER                       -> "none"

Promise == INSTANCE ConsentedAction WITH phase <- [r \in Runs |-> Phase(r)]

PromiseSpec == Promise!Spec

(* The card of a run whose effect exists reads approved, and shows the     *)
(* ticket (approval-view.test.ts: "reads approved with the ticket id after *)
(* the durable resume").                                                   *)
ViewState(r) ==
  CASE approval[r] = "rejected"                         -> "denied"
    [] approval[r] = "pending" /\ now > expiresAt[r]    -> "expired"
    [] OTHER                                            -> approval[r]

ResumedReadsApproved == \A r \in tickets \ deleted : ViewState(r) = "approved"

(* An approved action is performed or expires, whatever message is lost    *)
(* and whichever Worker dies: the scheduled handler finds it.              *)
ApprovedIsNotForgotten ==
  \A r \in Runs : (approval[r] = "approved") ~> (run[r] \in {"completed", "failed", "absent"})

(* A Workflow that waits ends in a decision or an expiry of its approval,  *)
(* unless it was sent a binding that is not the stored one, or failed.     *)
WaitEnds ==
  \A r \in Runs :
    (workflow[r] = "waiting") ~>
      (approval[r] # "pending" \/ event[r] = "tampered" \/ workflow[r] = "errored")

=============================================================================
