------------------------ MODULE ApprovalResumeProofs ------------------------
(***************************************************************************)
(* Proofs about ApprovalResume for any number of runs and consumers, any   *)
(* approval window and any bounds on the clock and on faults.              *)
(***************************************************************************)
EXTENDS ApprovalResume, TLAPS

-----------------------------------------------------------------------------
(* The inductive invariant.  Each actor acts later on what it read, so the *)
(* invariant says of every actor in flight what is still true of the rows  *)
(* it is about to write.                                                   *)

(* The rows of one run, as RowsAgree has them, and what they say of the    *)
(* decision the owner sent.                                                *)
Rows(r) ==
  /\ approval[r] = "pending"  => run[r] = "pending_approval" /\ tool[r] = "pending_approval"
  /\ approval[r] = "approved" => run[r] \in {"pending_approval", "completed"} /\ event[r] = "approve"
  /\ approval[r] = "rejected" => run[r] = "failed" /\ tool[r] = "denied"
  /\ approval[r] = "expired"  => run[r] \in {"failed", "completed"}
  /\ run[r] = "completed" <=> r \in tickets \ deleted
  /\ run[r] = "completed" <=> tool[r] = "ok"
  /\ r \in deleted => run[r] = "absent" /\ tool[r] = "none" /\ approval[r] = "none"
  /\ r \in tickets => r \in consented

(* A run that has an approval row keeps one until it is deleted. *)
Held(r) == approval[r] # "none" \/ r \in deleted

(* An approval may be inserted: the run still waits, or no row appears. *)
Insertable(r) == Held(r) \/ (run[r] = "pending_approval" /\ tool[r] = "pending_approval")

Untouched(r) == run[r] = "absent" /\ tool[r] = "none" /\ approval[r] = "none"

Settled(r) == run[r] \in {"completed", "failed", "absent"}

Recording(r) ==
  recorder[r] = "idle" => Untouched(r) /\ workflow[r] = "none" /\ r \notin queue

Waiting(r) ==
  /\ workflow[r] \in {"none", "waiting"} => event[r] = "none"
  /\ event[r] = "approve" => r \in consented
  /\ workflow[r] \in {"decide", "lapse"} => event[r] # "none"
  /\ workflow[r] = "reject" => event[r] = "reject"
  /\ workflow[r] = "approve" => event[r] = "approve"
  /\ workflow[r] = "lapse" => approval[r] # "approved"
  /\ workflow[r] \in {"lapse", "reject", "expireWrite"} => Held(r)

(* An upsert belongs to a turn that waits for it or to a card opened after *)
(* the turn was done, and a turn has one at a time.                        *)
InFlight(u) ==
  /\ u.by = "turn" => recorder[u.run] = "upserting"
  /\ u.by = "start" => recorder[u.run] \in RecorderDone
  /\ u.at = "insert" => Insertable(u.run)

Upserting ==
  /\ \A u \in upserts : InFlight(u)
  /\ \A u, v \in upserts : u.by = "turn" /\ v.by = "turn" /\ u.run = v.run => u = v

Consuming(c) ==
  LET r == consumer[c].run IN
  /\ consumer[c].at # "idle" => r \in Runs /\ recorder[r] # "idle"
  /\ consumer[c].at = "load" /\ consumer[c].seen \in {"completed", "failed"} =>
       run[r] \in {consumer[c].seen, "absent"}
  /\ consumer[c].at = "expire" =>
       r \in deleted \/ (approval[r] \in {"approved", "expired"} /\ expiresAt[r] < consumer[c].clock)
  /\ consumer[c].at = "expireWrite" => Held(r)
  /\ consumer[c].at = "ack" => Settled(r)

Scheduled ==
  /\ \A r \in cron.todo : recorder[r] # "idle"
  /\ cron.at = "expireWrite" => cron.run \in Runs /\ recorder[cron.run] # "idle" /\ Held(cron.run)

Known ==
  /\ \A r \in Runs : Rows(r) /\ Recording(r) /\ Waiting(r)
  /\ Upserting
  /\ \A c \in Consumers : Consuming(c)
  /\ Scheduled

IInv == TypeOK /\ Known

-----------------------------------------------------------------------------
(* What every step leaves true for the actors that it does not move.       *)
Remembered(r) ==
  /\ recorder[r] # "idle" => recorder'[r] # "idle"
  /\ r \in deleted => r \in deleted'
  /\ Held(r) => Held(r)'
  /\ recorder[r] # "idle" /\ Settled(r) => run'[r] \in {run[r], "absent"}
  /\ approval[r] \in {"approved", "expired"} =>
       r \in deleted' \/ (approval'[r] \in {"approved", "expired"} /\ expiresAt'[r] = expiresAt[r])

(* What a step that writes rows leaves true; only the Workflow's own step  *)
(* approves.                                                               *)
Harmless(r) ==
  /\ Rows(r)'
  /\ Insertable(r) => Insertable(r)'
  /\ Untouched(r) => Untouched(r)'
  /\ Held(r) => Held(r)'
  /\ approval'[r] = "approved" => approval[r] = "approved" \/ workflow[r] = "approve"
  /\ Settled(r) => run'[r] \in {run[r], "absent"}
  /\ approval[r] \in {"approved", "expired"} =>
       r \in deleted' \/ (approval'[r] \in {"approved", "expired"} /\ expiresAt'[r] = expiresAt[r])

(* Nothing is harmless. *)
LEMMA StutterIsHarmless ==
  ASSUME NEW r \in Runs, Rows(r), UNCHANGED <<store, event, deleted>>, consented \subseteq consented'
  PROVE  Harmless(r)
  BY DEF Harmless, Rows, Held, Insertable, Untouched, Settled, store

(* Ending an approval that exists is harmless, and a row that is approved  *)
(* is only ended by its expiry.                                            *)
LEMMA EndIsHarmless ==
  ASSUME TypeOK, \A s \in Runs : Rows(s), NEW r \in Runs, Held(r), NEW from, NEW to,
         EndApproval(r, from, to), UNCHANGED <<expiresAt, tickets, event, deleted, consented>>,
         \/ from = {"pending", "approved"} /\ to = "expired"
         \/ from = {"pending"} /\ to \in {"expired", "rejected"} /\ approval[r] # "approved"
  PROVE  \A s \in Runs : Harmless(s)
<1> SUFFICES ASSUME NEW s \in Runs PROVE Harmless(s)
  OBVIOUS
<1>1. CASE s # r
  <2>1. run'[s] = run[s] /\ tool'[s] = tool[s] /\ approval'[s] = approval[s]
    BY <1>1 DEF EndApproval, TypeOK
  <2> QED
    BY <2>1 DEF Harmless, Rows, Held, Insertable, Untouched, Settled
<1>2. CASE s = r
  <2>1. /\ approval'[r] = IF approval[r] \in from THEN to ELSE approval[r]
        /\ tool'[r] = IF tool[r] = "pending_approval" THEN "denied" ELSE tool[r]
        /\ run'[r] = IF run[r] = "pending_approval" THEN "failed" ELSE run[r]
    BY DEF EndApproval, TypeOK
  <2>2. approval[r] \in ApprovalStatuses /\ run[r] \in RunStatuses /\ tool[r] \in ToolStatuses
    BY DEF TypeOK
  <2> QED
    BY <1>2, <2>1, <2>2 DEF Harmless, Rows, Held, Insertable, Untouched, Settled,
       ApprovalStatuses, RunStatuses, ToolStatuses
<1> QED
  BY <1>1, <1>2

(* The batch that resumes an approved run is harmless. *)
LEMMA ResumeIsHarmless ==
  ASSUME TypeOK, \A s \in Runs : Rows(s) /\ Waiting(s), NEW r \in Runs, NEW t \in Nat,
         ResumeWrites(r, t), UNCHANGED <<approval, expiresAt, event, deleted, consented>>
  PROVE  \A s \in Runs : Harmless(s)
<1> SUFFICES ASSUME NEW s \in Runs PROVE Harmless(s)
  OBVIOUS
<1>1. CASE ~StillApproved(r, t)
  BY <1>1 DEF ResumeWrites, Harmless, Rows, Held, Insertable, Untouched, Settled
<1>2. CASE StillApproved(r, t) /\ s # r
  <2>1. run'[s] = run[s] /\ tool'[s] = tool[s] /\ (s \in tickets' <=> s \in tickets)
    BY <1>2 DEF ResumeWrites, TypeOK
  <2> QED
    BY <2>1 DEF Harmless, Rows, Held, Insertable, Untouched, Settled
<1>3. CASE StillApproved(r, t) /\ s = r
  <2>1. run'[r] = "completed" /\ tool'[r] = "ok" /\ r \in tickets'
    BY <1>3 DEF ResumeWrites, TypeOK
  <2> QED
    BY <1>3, <2>1 DEF StillApproved, Harmless, Rows, Waiting, Held, Insertable, Untouched, Settled
<1> QED
  BY <1>1, <1>2, <1>3

(* Approving what is pending is harmless: the owner's event said so. *)
LEMMA ApproveIsHarmless ==
  ASSUME TypeOK, \A s \in Runs : Rows(s) /\ Waiting(s), NEW r \in Runs, workflow[r] = "approve",
         approval' = [approval EXCEPT ![r] = IF @ = "pending" THEN "approved" ELSE @],
         UNCHANGED <<run, tool, expiresAt, tickets, event, deleted, consented>>
  PROVE  \A s \in Runs : Harmless(s)
<1> SUFFICES ASSUME NEW s \in Runs PROVE Harmless(s)
  OBVIOUS
<1>1. approval'[s] = approval[s] \/ (s = r /\ approval[r] = "pending" /\ approval'[r] = "approved")
  BY DEF TypeOK
<1> QED
  BY <1>1 DEF Harmless, Rows, Waiting, Held, Insertable, Untouched, Settled

(* Deleting a run with its conversation is harmless. *)
LEMMA DeleteIsHarmless ==
  ASSUME TypeOK, \A s \in Runs : Rows(s), NEW r \in Runs, DeleteConversation(r)
  PROVE  \A s \in Runs : Harmless(s)
<1> SUFFICES ASSUME NEW s \in Runs PROVE Harmless(s)
  OBVIOUS
<1>1. CASE s # r
  <2>1. /\ run'[s] = run[s] /\ tool'[s] = tool[s] /\ approval'[s] = approval[s]
        /\ s \in deleted' <=> s \in deleted
    BY <1>1 DEF DeleteConversation, TypeOK
  <2> QED
    BY <2>1 DEF DeleteConversation, Harmless, Rows, Held, Insertable, Untouched, Settled, actors
<1>2. CASE s = r
  <2>1. run'[r] = "absent" /\ tool'[r] = "none" /\ approval'[r] = "none" /\ r \in deleted'
    BY DEF DeleteConversation, TypeOK
  <2> QED
    BY <1>2, <2>1 DEF DeleteConversation, Harmless, Rows, Held, Insertable, Untouched, Settled
<1> QED
  BY <1>1, <1>2

(* What a harmless step leaves true of an actor it does not move. *)
LEMMA HarmlessIsRemembered ==
  ASSUME NEW r \in Runs, Harmless(r), recorder[r] # "idle" => recorder'[r] # "idle",
         deleted \subseteq deleted'
  PROVE  Remembered(r)
  BY DEF Harmless, Remembered

LEMMA WaitingStays ==
  ASSUME NEW r \in Runs, Waiting(r), workflow'[r] = workflow[r], event'[r] = event[r],
         consented \subseteq consented', Held(r) => Held(r)',
         approval'[r] = "approved" => approval[r] = "approved" \/ workflow[r] = "approve"
  PROVE  Waiting(r)'
  BY DEF Waiting

LEMMA RecordingStays ==
  ASSUME NEW r \in Runs, Recording(r), recorder'[r] = recorder[r], workflow'[r] = workflow[r],
         r \in queue' => r \in queue \/ recorder[r] # "idle", Untouched(r) => Untouched(r)'
  PROVE  Recording(r)'
  BY DEF Recording

LEMMA UpsertingStays ==
  ASSUME TypeOK, Upserting, UNCHANGED <<upserts, recorder>>,
         \A r \in Runs : Insertable(r) => Insertable(r)'
  PROVE  Upserting'
  BY DEF Upserting, InFlight, TypeOK, Upserts

LEMMA ConsumingStays ==
  ASSUME TypeOK, NEW c \in Consumers, Consuming(c), consumer'[c] = consumer[c],
         \A r \in Runs : Remembered(r)
  PROVE  Consuming(c)'
<1>1. CASE consumer[c].at = "idle"
  BY <1>1 DEF Consuming
<1>2. CASE consumer[c].at # "idle"
  <2>1. PICK r \in Runs : r = consumer[c].run
    BY <1>2 DEF Consuming
  <2>2. Remembered(r) /\ recorder[r] # "idle"
    BY <1>2, <2>1 DEF Consuming
  <2> QED
    BY <2>1, <2>2 DEF Consuming, Remembered, Settled
<1> QED
  BY <1>1, <1>2

LEMMA ScheduledStays ==
  ASSUME TypeOK, Scheduled, cron' = cron, \A r \in Runs : Remembered(r)
  PROVE  Scheduled'
  BY DEF Scheduled, Remembered, TypeOK

-----------------------------------------------------------------------------
(* Types.                                                                  *)

(* Every step keeps the types. *)
LEMMA TypeStep ==
  ASSUME IInv, Next
  PROVE  TypeOK'
<1> USE DEF TypeOK, RunStatuses, ToolStatuses, ApprovalStatuses, RecorderSteps, RecorderDone,
            WorkflowSteps, ConsumerSteps, IdleConsumer, CronSteps, IdleCron, store, actors, history
<1>0. TypeOK
  BY DEF IInv
<1>1. CASE Tick
  BY <1>0, <1>1 DEF Tick
<1>2. ASSUME NEW r \in Runs, Record(r) PROVE TypeOK'
  <2>1. ASSUME NEW t \in 0 .. MaxNow, CreateAgentRun(r, t) PROVE TypeOK'
    BY <1>0, <2>1, BoundsAreNats DEF CreateAgentRun, Fresh
  <2>2. CASE CompleteAgentRun(r)
    BY <1>0, <2>2 DEF CompleteAgentRun, Upserts
  <2>3. CASE AbandonRun(r)
    BY <1>0, <2>3 DEF AbandonRun
  <2>4. CASE Start(r)
    BY <1>0, <2>4, WindowIsPositive DEF Start, Upserts
  <2> QED
    BY <1>2, <2>1, <2>2, <2>3, <2>4 DEF Record
<1>3. ASSUME NEW r \in Runs, WorkflowStep(r) PROVE TypeOK'
  <2>1. CASE Decide(r)
    <3>1. Decision(r) \in WorkflowSteps
      BY DEF Decision
    <3> QED
      BY <1>0, <2>1, <3>1 DEF Decide, Goto
  <2>2. CASE PersistDecision(r)
    BY <1>0, <2>2 DEF PersistDecision, Persist, EndApproval, Goto
  <2>3. CASE EnqueueResume(r)
    BY <1>0, <2>3 DEF EnqueueResume, Goto
  <2>4. CASE WaitTimesOut(r)
    BY <1>0, <2>4 DEF WaitTimesOut, Goto
  <2>5. CASE WorkflowReads(r)
    BY <1>0, <2>5 DEF WorkflowReads, Goto
  <2>6. CASE WorkflowExpires(r)
    BY <1>0, <2>6 DEF WorkflowExpires, ExpireBatch, EndApproval, Goto
  <2> QED
    BY <1>3, <2>1, <2>2, <2>3, <2>4, <2>5, <2>6 DEF WorkflowStep
<1>4. ASSUME NEW r \in Runs, DeleteConversation(r) PROVE TypeOK'
  BY <1>0, <1>4 DEF DeleteConversation
<1>5. ASSUME NEW r \in Runs, NEW e \in {"approve", "reject", "tampered"}, SendEvent(r, e) PROVE TypeOK'
  BY <1>0, <1>5 DEF SendEvent
<1>6. ASSUME NEW u \in upserts, Upsert(u) PROVE TypeOK'
  <2>0. u \in Upserts
    BY <1>0
  <2> USE DEF UpsertEnds, Onward, Upserts
  <2>1. CASE UpsertCheck(u)
    BY <1>0, <2>0, <2>1 DEF UpsertCheck
  <2>2. CASE UpsertInsert(u)
    BY <1>0, <2>0, <2>2 DEF UpsertInsert, InsertApproval
  <2>3. CASE UpsertReadBack(u)
    BY <1>0, <2>0, <2>3 DEF UpsertReadBack
  <2>4. CASE CreateWorkflow(u)
    BY <1>0, <2>0, <2>4 DEF CreateWorkflow
  <2> QED
    BY <1>6, <2>1, <2>2, <2>3, <2>4 DEF Upsert
<1>7. ASSUME NEW c \in Consumers, ConsumerStep(c) PROVE TypeOK'
  <2>1. ASSUME NEW r \in Runs, Deliver(c, r) PROVE TypeOK'
    BY <1>0, <2>1 DEF Deliver
  <2>2. CASE Load(c)
    <3>1. PICK step \in ConsumerSteps : consumer' = [consumer EXCEPT ![c].at = step]
      BY <2>2 DEF Load, ConsumerGoto
    <3> QED
      BY <1>0, <2>2, <3>1 DEF Load
  <2>3. CASE CommitResume(c)
    <3>1. consumer[c].run \in Runs
      BY <2>3 DEF IInv, Known, Consuming, CommitResume
    <3>2. /\ tickets' \in SUBSET Runs /\ tool' \in [Runs -> ToolStatuses]
          /\ run' \in [Runs -> RunStatuses]
      BY <1>0, <2>3, <3>1 DEF CommitResume, ResumeWrites
    <3> QED
      BY <1>0, <2>3, <3>2 DEF CommitResume, ConsumerGoto
  <2>4. CASE ReloadResume(c)
    BY <1>0, <2>4 DEF ReloadResume, ConsumerGoto
  <2>5. CASE ConsumerReads(c)
    BY <1>0, <2>5 DEF ConsumerReads, ConsumerGoto
  <2>6. CASE ConsumerExpires(c)
    <3>1. /\ approval' \in [Runs -> ApprovalStatuses] /\ tool' \in [Runs -> ToolStatuses]
          /\ run' \in [Runs -> RunStatuses]
      BY <1>0, <2>6 DEF ConsumerExpires, ExpireBatch, EndApproval
    <3> QED
      BY <1>0, <2>6, <3>1 DEF ConsumerExpires, ConsumerGoto
  <2>7. CASE Settle(c)
    BY <1>0, <2>7 DEF Settle
  <2> QED
    BY <1>7, <2>1, <2>2, <2>3, <2>4, <2>5, <2>6, <2>7 DEF ConsumerStep
<1>8. CASE CronStep
  <2>1. CASE CronStarts
    BY <1>0, <2>1 DEF CronStarts, Recoverable
  <2>2. CASE CronExpires
    BY <1>0, <2>2 DEF CronExpires, ExpireBatch, EndApproval
  <2>3. CASE CronLists
    BY <1>0, <2>3 DEF CronLists, Recoverable
  <2>4. CASE CronEnds
    BY <1>0, <2>4 DEF CronEnds
  <2>5. ASSUME NEW r \in Runs, CronReads(r) PROVE TypeOK'
    BY <1>0, <2>5 DEF CronReads
  <2>6. ASSUME NEW r \in Runs, CronSends(r) PROVE TypeOK'
    BY <1>0, <2>6 DEF CronSends
  <2> QED
    BY <1>8, <2>1, <2>2, <2>3, <2>4, <2>5, <2>6 DEF CronStep
<1>9. CASE Faulty
  <2>1. ASSUME NEW r \in Runs, RecorderFails(r) \/ RecorderDies(r) PROVE TypeOK'
    BY <1>0, <2>1 DEF RecorderFails, RecorderDies, Fault
  <2>2. ASSUME NEW r \in Runs, StepFails(r) PROVE TypeOK'
    <3>1. PICK step \in WorkflowSteps : workflow' = [workflow EXCEPT ![r] = step]
      BY <2>2 DEF StepFails, Goto
    <3>2. /\ UNCHANGED <<now, recorder, upserts, event, consumer, cron, deleted, consented,
                         expiresAt, tickets>>
          /\ faults' \in Nat /\ queue' \in SUBSET Runs
      BY <1>0, <2>2 DEF StepFails, Fault, Persist
    <3>3. run' \in [Runs -> RunStatuses] /\ tool' \in [Runs -> ToolStatuses]
          /\ approval' \in [Runs -> ApprovalStatuses]
      BY <1>0, <2>2 DEF StepFails, Persist, ExpireBatch, EndApproval
    <3> QED
      BY <1>0, <3>1, <3>2, <3>3
  <2>3. ASSUME NEW c \in Consumers, ConsumerDies(c) PROVE TypeOK'
    BY <1>0, <2>3 DEF ConsumerDies, Fault
  <2>4. CASE CronDies
    BY <1>0, <2>4 DEF CronDies, Fault
  <2> QED
    BY <1>9, <2>1, <2>2, <2>3, <2>4 DEF Faulty
<1> QED
  BY <1>1, <1>2, <1>3, <1>4, <1>5, <1>6, <1>7, <1>8, <1>9 DEF Next

-----------------------------------------------------------------------------
(* Knowledge, actor by actor.                                              *)

(* A step that leaves every actor but the given ones alone, and the rows   *)
(* harmless, keeps what is known of the others.                            *)
LEMMA OthersKeepTheirs ==
  ASSUME IInv, \A r \in Runs : Remembered(r), cron' = cron
  PROVE  /\ Scheduled'
         /\ \A c \in Consumers : consumer'[c] = consumer[c] => Consuming(c)'
  BY ConsumingStays, ScheduledStays DEF IInv, Known

(* The turn that records the proposal. *)
LEMMA RecorderKeeps ==
  ASSUME IInv, NEW r \in Runs,
         \/ \E t \in 0 .. MaxNow : CreateAgentRun(r, t)
         \/ CompleteAgentRun(r) \/ AbandonRun(r) \/ RecorderFails(r) \/ RecorderDies(r)
  PROVE  Known'
<1>0. TypeOK /\ Known
  BY DEF IInv
<1>1. /\ UNCHANGED <<approval, tickets, workflow, event, queue, consumer, cron, deleted, consented>>
      /\ recorder[r] \notin RecorderDone
      /\ \A s \in Runs \ {r} : UNCHANGED <<run[s], tool[s], expiresAt[s], recorder[s]>>
      /\ recorder' \in [Runs -> RecorderSteps] /\ recorder'[r] # "idle"
  BY <1>0 DEF CreateAgentRun, CompleteAgentRun, AbandonRun, RecorderFails, RecorderDies, TypeOK,
     RecorderDone, RecorderSteps, history, store
<1>2. \A u \in upserts : u.run = r => u.by = "turn" /\ recorder[r] = "upserting"
  BY <1>0, <1>1 DEF Known, Upserting, InFlight, TypeOK, Upserts
<1>3. \/ recorder[r] = "idle" /\ run'[r] \in {"running", "absent"} /\ UNCHANGED <<tool, upserts>>
         /\ (r \in deleted => run'[r] = "absent")
      \/ recorder[r] = "completing" /\ CompleteAgentRun(r) /\ UNCHANGED expiresAt
      \/ recorder[r] = "abandoning" /\ AbandonRun(r) /\ UNCHANGED <<tool, expiresAt, upserts>>
      \/ UNCHANGED <<run, tool, expiresAt>> /\ upserts' = {u \in upserts : u.run # r \/ u.by # "turn"}
  BY <1>0 DEF Known, Recording, Untouched, CreateAgentRun, CompleteAgentRun, AbandonRun,
     RecorderFails, RecorderDies, TypeOK, store
<1>4. \A s \in Runs : Rows(s)'
  <2>1. \A s \in Runs \ {r} : Rows(s)'
    BY <1>0, <1>1 DEF Known, Rows
  <2>2. Rows(r)'
    BY <1>0, <1>1, <1>3 DEF Known, Rows, Recording, Untouched, CompleteAgentRun, AbandonRun, TypeOK,
       ApprovalStatuses
  <2> QED
    BY <2>1, <2>2
<1>5. \A s \in Runs : Remembered(s)
  <2>1. \A s \in Runs \ {r} : Remembered(s)
    BY <1>0, <1>1 DEF Remembered, Held, Settled
  <2>2. Remembered(r)
    BY <1>0, <1>1, <1>3 DEF Known, Rows, Remembered, Held, Settled, Recording, Untouched,
       CompleteAgentRun, AbandonRun, TypeOK
  <2> QED
    BY <2>1, <2>2
<1>6. \A s \in Runs : Waiting(s)' /\ Recording(s)'
  BY <1>0, <1>1 DEF Known, Waiting, Recording, Untouched, Held
<1>7. Upserting'
  <2>1. \A u \in upserts' : u.run # r => InFlight(u)'
    BY <1>0, <1>1, <1>3 DEF Known, Upserting, InFlight, Insertable, Held, CompleteAgentRun,
       AbandonRun, TypeOK, Upserts
  <2>2. \A u \in upserts' : u.run = r =>
          u = [run |-> r, expiresAt |-> expiresAt[r], by |-> "turn", at |-> "check"]
          /\ recorder'[r] = "upserting"
    BY <1>0, <1>1, <1>2, <1>3 DEF CompleteAgentRun, AbandonRun, TypeOK
  <2>3. \A u \in upserts' : u.run = r => InFlight(u)'
    BY <2>2 DEF InFlight
  <2>4. \A u, v \in upserts' : u.by = "turn" /\ v.by = "turn" /\ u.run = v.run => u = v
    <3>1. \A u \in upserts' : u.run # r => u \in upserts
      BY <1>3 DEF CompleteAgentRun, AbandonRun
    <3> QED
      BY <1>0, <2>2, <3>1 DEF Known, Upserting
  <2> QED
    BY <2>1, <2>3, <2>4 DEF Upserting
<1> QED
  BY <1>1, <1>4, <1>5, <1>6, <1>7, OthersKeepTheirs DEF Known

(* The calls of upsertApproval, and the card that makes one. *)
LEMMA UpsertKeeps ==
  ASSUME IInv, (\E r \in Runs : Start(r)) \/ \E u \in upserts : Upsert(u)
  PROVE  Known'
<1>0. TypeOK /\ Known
  BY DEF IInv
<1>1. ASSUME NEW r \in Runs, Start(r) PROVE Known'
  <2>1. UNCHANGED <<now, store, recorder, workflow, event, queue, consumer, cron, history>>
    BY <1>1 DEF Start
  <2>2. \A s \in Runs : Rows(s)' /\ Waiting(s)' /\ Recording(s)' /\ Remembered(s)
    BY <1>0, <2>1 DEF Known, Rows, Waiting, Recording, Remembered, Untouched, Held, Settled, store, history
  <2>3. Upserting'
    <3>1. PICK t \in Nat : upserts' = upserts \cup
            {[run |-> r, expiresAt |-> t, by |-> "start", at |-> "check"]}
      BY <1>0, <1>1, WindowIsPositive DEF Start, TypeOK
    <3>2. recorder[r] \in RecorderDone
      BY <1>1 DEF Start
    <3> QED
      BY <1>0, <2>1, <3>1, <3>2 DEF Known, Upserting, InFlight, Insertable, Held, store, history
  <2> QED
    BY <2>1, <2>2, <2>3, OthersKeepTheirs DEF Known
<1>2. ASSUME NEW u \in upserts, Upsert(u) PROVE Known'
  <2> DEFINE r == u.run
  <2>1. u \in Upserts /\ r \in Runs /\ InFlight(u) /\ recorder[r] # "idle"
    BY <1>0 DEF Known, Upserting, InFlight, TypeOK, Upserts, RecorderDone
  <2> HIDE DEF r
  <2>2. /\ UNCHANGED <<run, tool, tickets, event, queue, consumer, cron, deleted, consented>>
        /\ workflow' = workflow \/ workflow' = [workflow EXCEPT ![r] = IF @ = "none" THEN "waiting" ELSE @]
        /\ UNCHANGED <<approval, expiresAt>> \/ (u.at = "insert" /\ InsertApproval(u))
    BY <1>2 DEF Upsert, UpsertCheck, UpsertInsert, UpsertReadBack, CreateWorkflow, store, history, r
  <2>3. \/ /\ upserts' = upserts \ {u}
           /\ \/ recorder' = recorder /\ u.by # "turn"
              \/ u.by = "turn" /\ \E step \in {"abandoning", "recorded"} :
                                     recorder' = [recorder EXCEPT ![r] = step]
        \/ /\ recorder' = recorder
           /\ \E step \in {"insert", "readBack", "create"} :
                /\ upserts' = (upserts \ {u}) \cup {[u EXCEPT !.at = step]}
                /\ step = "insert" => run[r] = "pending_approval" /\ tool[r] = "pending_approval"
    BY <1>2 DEF Upsert, UpsertCheck, UpsertInsert, UpsertReadBack, CreateWorkflow, UpsertEnds, Onward, r
  <2>4. \A s \in Runs : Harmless(s)
    <3>1. CASE UNCHANGED <<approval, expiresAt>>
      BY <1>0, <2>2, <3>1, StutterIsHarmless DEF Known, store
    <3>2. CASE u.at = "insert" /\ InsertApproval(u)
      <4>1. \A s \in Runs \ {r} : approval'[s] = approval[s] /\ expiresAt'[s] = expiresAt[s]
        BY <1>0, <2>1, <3>2 DEF InsertApproval, TypeOK, r
      <4>2. \A s \in Runs \ {r} : Harmless(s)
        BY <1>0, <2>2, <4>1 DEF Known, Harmless, Rows, Held, Insertable, Untouched, Settled
      <4>3. Harmless(r)
        BY <1>0, <2>1, <2>2, <3>2 DEF Known, Harmless, Rows, Held, Insertable, Untouched, Settled,
           InFlight, InsertApproval, TypeOK, r
      <4> QED
        BY <4>2, <4>3
    <3> QED
      BY <2>2, <3>1, <3>2
  <2>5. \A s \in Runs : recorder'[s] = recorder[s] \/ (s = r /\ recorder'[s] \in RecorderDone \cup {"abandoning"})
    BY <1>0, <2>1, <2>3 DEF TypeOK, RecorderDone
  <2>6. \A s \in Runs : Remembered(s)
    BY <2>2, <2>4, <2>5, HarmlessIsRemembered DEF RecorderDone
  <2>7. \A s \in Runs : Rows(s)' /\ Waiting(s)' /\ Recording(s)'
    <3>1. \A s \in Runs : workflow'[s] = workflow[s] \/ (s = r /\ workflow[s] = "none" /\ workflow'[s] = "waiting")
      BY <1>0, <2>1, <2>2 DEF TypeOK
    <3>2. \A s \in Runs : Waiting(s)'
      BY <1>0, <2>2, <2>4, <3>1 DEF Known, Waiting, Harmless
    <3>3. \A s \in Runs : Recording(s)'
      BY <1>0, <2>1, <2>2, <2>4, <2>5, <3>1 DEF Known, Recording, Harmless, RecorderDone
    <3> QED
      BY <2>4, <3>2, <3>3 DEF Harmless
  <2>8. Upserting'
    <3>1. \A v \in upserts : v # u => InFlight(v)'
      <4> SUFFICES ASSUME NEW v \in upserts, v # u PROVE InFlight(v)'
        OBVIOUS
      <4>1. v.run \in Runs /\ v.by \in {"turn", "start"} /\ InFlight(v) /\ (Insertable(v.run) => Insertable(v.run)')
        BY <1>0, <2>4 DEF Known, Upserting, TypeOK, Upserts, Harmless
      <4>2. CASE recorder'[v.run] = recorder[v.run]
        BY <4>1, <4>2 DEF InFlight
      <4>3. CASE recorder'[v.run] # recorder[v.run]
        <5>1. u.by = "turn" /\ v.run = r /\ recorder[r] = "upserting"
          BY <1>0, <2>1, <2>3, <4>1, <4>3 DEF TypeOK, InFlight, r
        <5>2. v.by = "start"
          BY <1>0, <4>1, <5>1 DEF Known, Upserting, r
        <5> QED
          BY <4>1, <5>1, <5>2 DEF InFlight, RecorderDone
      <4> QED
        BY <4>2, <4>3
    <3>2. CASE upserts' = upserts \ {u}
      BY <1>0, <3>1, <3>2 DEF Known, Upserting
    <3>3. ASSUME NEW step \in {"insert", "readBack", "create"}, recorder' = recorder,
                 upserts' = (upserts \ {u}) \cup {[u EXCEPT !.at = step]},
                 step = "insert" => run[r] = "pending_approval" /\ tool[r] = "pending_approval"
          PROVE  Upserting'
      <4> DEFINE w == [u EXCEPT !.at = step]
      <4>1. w.run = r /\ w.by = u.by /\ w.at = step
        BY <2>1 DEF Upserts, r
      <4>2. Insertable(r) => Insertable(r)'
        BY <2>1, <2>4 DEF Harmless
      <4>3. InFlight(w)'
        BY <2>1, <3>3, <4>1, <4>2 DEF InFlight, Insertable, r
      <4>4. \A v \in upserts : v # u => ~(v.by = "turn" /\ u.by = "turn" /\ v.run = r)
        BY <1>0 DEF Known, Upserting, r
      <4> HIDE DEF w
      <4>5. upserts' = (upserts \ {u}) \cup {w}
        BY <3>3 DEF w
      <4> QED
        BY <1>0, <3>1, <4>1, <4>3, <4>4, <4>5 DEF Known, Upserting
    <3> QED
      BY <2>3, <3>2, <3>3
  <2> QED
    BY <2>2, <2>6, <2>7, <2>8, OthersKeepTheirs DEF Known
<1> QED
  BY <1>1, <1>2

(* A harmless step that moves neither a turn, an upsert nor a Workflow.    *)
LEMMA RowsKeep ==
  ASSUME IInv, \A r \in Runs : Harmless(r),
         UNCHANGED <<recorder, upserts, workflow, event, consented>>, deleted \subseteq deleted',
         \A r \in Runs : r \in queue' => r \in queue \/ recorder[r] # "idle"
  PROVE  /\ \A r \in Runs : Rows(r)' /\ Recording(r)' /\ Waiting(r)' /\ Remembered(r)
         /\ Upserting'
<1>0. TypeOK /\ Known
  BY DEF IInv
<1>1. ASSUME NEW r \in Runs PROVE Rows(r)' /\ Recording(r)' /\ Waiting(r)' /\ Remembered(r)
  <2>1. Rows(r)' /\ Remembered(r)
    BY HarmlessIsRemembered DEF Harmless
  <2>2. Recording(r)'
    BY <1>0 DEF Known, Recording, Harmless
  <2>3. Waiting(r)'
    BY <1>0 DEF Known, Waiting, Harmless
  <2> QED
    BY <2>1, <2>2, <2>3
<1>2. Upserting'
  BY <1>0, UpsertingStays DEF Known, Harmless
<1> QED
  BY <1>1, <1>2

(* The Workflow, and the event its owner sends it. *)
LEMMA WorkflowKeeps ==
  ASSUME IInv, NEW r \in Runs,
         \/ \E e \in {"approve", "reject", "tampered"} : SendEvent(r, e)
         \/ WorkflowStep(r) \/ StepFails(r)
  PROVE  Known'
<1>0. TypeOK /\ Known
  BY DEF IInv
<1>1. /\ UNCHANGED <<now, recorder, upserts, consumer, cron, deleted>>
      /\ queue' = queue \/ queue' = queue \cup {r}
      /\ workflow[r] # "none"
      /\ \E step \in WorkflowSteps : workflow' = [workflow EXCEPT ![r] = step]
  <2>1. Decision(r) \in WorkflowSteps
    BY DEF Decision, WorkflowSteps
  <2>2. CASE \E e \in {"approve", "reject", "tampered"} : SendEvent(r, e)
    BY <2>2 DEF SendEvent, WorkflowSteps
  <2>3. CASE Decide(r)
    BY <2>1, <2>3 DEF Decide, Goto, history
  <2>4. CASE PersistDecision(r) \/ EnqueueResume(r) \/ WaitTimesOut(r) \/ WorkflowReads(r)
    BY <2>4 DEF PersistDecision, Persist, EnqueueResume, WaitTimesOut, WorkflowReads, Goto, history,
       WorkflowSteps
  <2>5. CASE WorkflowExpires(r)
    BY <2>5 DEF WorkflowExpires, Goto, history, WorkflowSteps
  <2>6. CASE StepFails(r)
    BY <2>6 DEF StepFails, Goto, WorkflowSteps
  <2> QED
    BY <2>2, <2>3, <2>4, <2>5, <2>6 DEF WorkflowStep
<1>2. \A s \in Runs \ {r} : workflow'[s] = workflow[s]
  BY <1>0, <1>1 DEF TypeOK
<1>3. recorder[r] # "idle"
  BY <1>0, <1>1 DEF Known, Recording
<1>4. CASE \E e \in {"approve", "reject", "tampered"} : SendEvent(r, e)
  <2>1. PICK e \in {"approve", "reject", "tampered"} : SendEvent(r, e)
    BY <1>4
  <2>2. /\ UNCHANGED store /\ workflow[r] = "waiting" /\ workflow'[r] = "decide"
        /\ event'[r] = e /\ (\A s \in Runs \ {r} : event'[s] = event[s])
        /\ consented \subseteq consented' /\ (e = "approve" => r \in consented')
    BY <1>0, <2>1 DEF SendEvent, TypeOK
  <2>3. \A s \in Runs : Harmless(s)
    <3>1. event[r] = "none"
      BY <1>0, <2>2 DEF Known, Waiting
    <3> QED
      BY <1>0, <1>1, <2>2, <3>1 DEF Known, Harmless, Rows, Held, Insertable, Untouched, Settled, store
  <2>4. Waiting(r)'
    BY <2>2 DEF Waiting
  <2>5. \A s \in Runs \ {r} : Waiting(s)'
    BY <1>0, <1>2, <2>2, <2>3 DEF Known, Waiting, Harmless
  <2>6. \A s \in Runs : Rows(s)' /\ Recording(s)' /\ Remembered(s)
    BY <1>0, <1>1, <1>2, <1>3, <2>3, HarmlessIsRemembered DEF Known, Harmless, Recording
  <2>7. Upserting'
    BY <1>0, <1>1, <2>3, UpsertingStays DEF Known, Harmless
  <2> QED
    BY <1>1, <2>4, <2>5, <2>6, <2>7, OthersKeepTheirs DEF Known
<1>5. CASE WorkflowStep(r) \/ StepFails(r)
  <2>1. UNCHANGED <<event, consented>>
    BY <1>5 DEF WorkflowStep, Decide, PersistDecision, EnqueueResume, WaitTimesOut,
       WorkflowReads, WorkflowExpires, StepFails, history
  <2>2. \A s \in Runs : Harmless(s)
    <3>1. CASE UNCHANGED store
      BY <1>0, <1>1, <2>1, <3>1, StutterIsHarmless DEF Known
    <3>2. CASE Persist(r)
      <4>1. CASE workflow[r] = "lapse" /\ EndApproval(r, {"pending"}, "expired")
        BY <1>0, <1>1, <2>1, <3>2, <4>1, EndIsHarmless DEF Known, Waiting, Persist
      <4>2. CASE workflow[r] = "reject" /\ EndApproval(r, {"pending"}, "rejected")
        BY <1>0, <1>1, <2>1, <3>2, <4>2, EndIsHarmless DEF Known, Waiting, Rows, Persist
      <4>3. CASE workflow[r] = "approve" /\ UNCHANGED <<run, tool>> /\
                 approval' = [approval EXCEPT ![r] = IF @ = "pending" THEN "approved" ELSE @]
        BY <1>0, <1>1, <2>1, <3>2, <4>3, ApproveIsHarmless DEF Known, Persist
      <4> QED
        BY <3>2, <4>1, <4>2, <4>3 DEF Persist
    <3>3. CASE workflow[r] = "expireWrite" /\ ExpireBatch(r) /\ UNCHANGED <<expiresAt, tickets>>
      BY <1>0, <1>1, <2>1, <3>3, EndIsHarmless DEF Known, Waiting, ExpireBatch
    <3> QED
      BY <1>5, <3>1, <3>2, <3>3 DEF WorkflowStep, Decide, PersistDecision, EnqueueResume,
         WaitTimesOut, WorkflowReads, WorkflowExpires, StepFails
  <2>3. Waiting(r)'
    <3>1. CASE Decide(r)
      <4>1. UNCHANGED store /\ workflow'[r] = Decision(r)
        BY <1>0, <3>1 DEF Decide, Goto, TypeOK
      <4>2. workflow[r] = "decide" /\ event[r] \in {"approve", "reject", "tampered"}
        BY <1>0, <3>1 DEF Decide, Known, Waiting, TypeOK
      <4> QED
        BY <1>0, <1>1, <2>1, <4>1, <4>2 DEF Known, Waiting, Decision, Held, store
    <3>2. CASE WorkflowReads(r)
      <4>1. /\ UNCHANGED store
            /\ workflow[r] = "expire" /\ workflow'[r] \in {"expireWrite", "done"}
            /\ workflow'[r] = "expireWrite" => approval[r] # "none"
        BY <1>0, <3>2 DEF WorkflowReads, Goto, TypeOK, MayExpire
      <4> QED
        BY <1>0, <1>1, <2>1, <4>1 DEF Known, Waiting, Held, store
    <3>3. CASE PersistDecision(r) \/ EnqueueResume(r) \/ WorkflowExpires(r) \/ WaitTimesOut(r) \/ StepFails(r)
      <4>1. /\ workflow'[r] \in {"enqueue", "done", "decide", "expire", "errored"}
            /\ workflow'[r] = "decide" => workflow[r] \in {"decide", "lapse", "reject", "approve"}
        BY <1>0, <3>3 DEF PersistDecision, EnqueueResume, WorkflowExpires, WaitTimesOut, StepFails,
           Goto, TypeOK, WorkflowSteps
      <4> QED
        BY <1>0, <2>1, <4>1 DEF Known, Waiting
    <3> QED
      BY <1>5, <3>1, <3>2, <3>3 DEF WorkflowStep
  <2>4. \A s \in Runs \ {r} : Waiting(s)'
    BY <1>0, <1>2, <2>1, <2>2 DEF Known, Waiting, Harmless
  <2>5. \A s \in Runs : Rows(s)' /\ Recording(s)' /\ Remembered(s)
    BY <1>0, <1>1, <1>2, <1>3, <2>2, HarmlessIsRemembered DEF Known, Harmless, Recording
  <2>6. Upserting'
    BY <1>0, <1>1, <2>2, UpsertingStays DEF Known, Harmless
  <2> QED
    BY <1>1, <2>3, <2>4, <2>5, <2>6, OthersKeepTheirs DEF Known
<1> QED
  BY <1>4, <1>5

(* The consumers of the resume queue. *)
LEMMA ConsumerKeeps ==
  ASSUME IInv, NEW c \in Consumers, ConsumerStep(c) \/ ConsumerDies(c)
  PROVE  Known'
<1>0. TypeOK /\ Known
  BY DEF IInv
<1>1. /\ UNCHANGED <<now, recorder, upserts, workflow, event, cron, deleted, consented, expiresAt>>
      /\ queue' \subseteq queue
  BY DEF ConsumerStep, Deliver, Load, CommitResume, ReloadResume, ConsumerReads, ConsumerExpires,
     Settle, ConsumerDies, store, history
<1>2. \A d \in Consumers \ {c} : consumer'[d] = consumer[d]
  BY <1>0 DEF ConsumerStep, Deliver, Load, CommitResume, ReloadResume, ConsumerReads,
     ConsumerExpires, Settle, ConsumerDies, ConsumerGoto, TypeOK
<1>3. Consuming(c) /\ (consumer[c].at # "idle" => consumer[c].run \in Runs)
      /\ consumer[c].clock \in Nat
  BY <1>0 DEF Known, Consuming, TypeOK
<1>4. \A r \in Runs : Harmless(r)
  <2>1. CASE UNCHANGED store
    BY <1>0, <1>1, <2>1, StutterIsHarmless DEF Known
  <2>2. CASE CommitResume(c)
    BY <1>0, <1>1, <1>3, <2>2, ResumeIsHarmless DEF Known, CommitResume
  <2>3. CASE ConsumerExpires(c)
    BY <1>0, <1>1, <1>3, <2>3, EndIsHarmless DEF Known, Consuming, ConsumerExpires, ExpireBatch
  <2> QED
    BY <2>1, <2>2, <2>3 DEF ConsumerStep, Deliver, Load, ReloadResume, ConsumerReads, Settle, ConsumerDies
<1>5. /\ \A r \in Runs : Rows(r)' /\ Recording(r)' /\ Waiting(r)' /\ Remembered(r)
      /\ Upserting'
  BY <1>1, <1>4, RowsKeep
<1>6. Consuming(c)'
  <2>1. ASSUME NEW r \in Runs, Deliver(c, r) PROVE Consuming(c)'
    <3>1. consumer'[c] = [at |-> IF run[r] = "absent" THEN "retry" ELSE "load",
                          run |-> r, seen |-> run[r], clock |-> now]
      BY <1>0, <2>1 DEF Deliver, TypeOK
    <3>2. recorder[r] # "idle" /\ run' = run
      BY <1>0, <2>1 DEF Deliver, Known, Recording, store
    <3> QED
      BY <1>1, <3>1, <3>2 DEF Consuming
  <2>2. CASE Load(c)
    <3> DEFINE r == consumer[c].run
    <3>1. /\ r \in Runs /\ UNCHANGED store /\ recorder[r] # "idle"
          /\ consumer[c].at = "load"
      BY <1>3, <2>2 DEF Load, Consuming
    <3>2. PICK step \in {"ack", "retry", "expire", "commit"} :
            /\ consumer'[c] = [consumer[c] EXCEPT !.at = step]
            /\ step = "ack" => consumer[c].seen \in {"completed", "failed"}
            /\ step = "expire" => approval[r] = "approved" /\ consumer[c].clock > expiresAt[r]
      <4>1. PICK step \in {"ack", "retry", "expire", "commit"} :
              /\ consumer' = [consumer EXCEPT ![c].at = step]
              /\ step = "ack" => consumer[c].seen \in {"completed", "failed"}
              /\ step = "expire" => approval[r] = "approved" /\ consumer[c].clock > expiresAt[r]
        BY <2>2 DEF Load, ConsumerGoto
      <4> QED
        BY <1>0, <4>1 DEF TypeOK
    <3>3. consumer'[c].run = r /\ consumer'[c].at = step /\ consumer'[c].clock = consumer[c].clock
      BY <1>0, <3>2 DEF TypeOK
    <3>4. expiresAt[r] \in Nat
      BY <1>0, <3>1 DEF TypeOK
    <3> HIDE DEF r
    <3>5. step = "ack" => Settled(r)
      BY <1>3, <3>1, <3>2 DEF Consuming, Settled, r
    <3> QED
      BY <1>1, <1>3, <3>1, <3>2, <3>3, <3>4, <3>5 DEF Consuming, Settled, store
  <2>3. CASE CommitResume(c)
    <3>1. consumer[c].at = "commit" /\ consumer'[c] = [consumer[c] EXCEPT !.at = "reload"]
      BY <1>0, <2>3 DEF CommitResume, ConsumerGoto, TypeOK
    <3>2. consumer'[c].at = "reload" /\ consumer'[c].run = consumer[c].run
      BY <1>0, <3>1 DEF TypeOK
    <3> QED
      BY <1>1, <1>3, <3>1, <3>2 DEF Consuming
  <2>4. CASE ReloadResume(c)
    <3> DEFINE r == consumer[c].run
    <3>1. /\ UNCHANGED store /\ consumer[c].at = "reload"
          /\ \E step \in {"ack", "retry"} :
               /\ consumer'[c] = [consumer[c] EXCEPT !.at = step]
               /\ step = "ack" => run[r] \in {"completed", "failed"}
      BY <1>0, <2>4 DEF ReloadResume, ConsumerGoto, TypeOK
    <3>2. /\ consumer'[c].at \in {"ack", "retry"} /\ consumer'[c].run = r
          /\ consumer'[c].at = "ack" => run[r] \in {"completed", "failed"}
      BY <1>0, <3>1 DEF TypeOK
    <3> QED
      BY <1>1, <1>3, <3>1, <3>2 DEF Consuming, Settled, store
  <2>5. CASE ConsumerReads(c)
    <3> DEFINE r == consumer[c].run
    <3>1. /\ UNCHANGED store /\ consumer[c].at = "expire" /\ r \in Runs
          /\ consumer'[c] = [consumer[c] EXCEPT
               !.at = IF MayExpire(r, consumer[c].clock) THEN "expireWrite" ELSE "ack"]
      BY <1>0, <1>3, <2>5 DEF ConsumerReads, ConsumerGoto, TypeOK
    <3>2. /\ consumer'[c].run = r
          /\ consumer'[c].at = IF MayExpire(r, consumer[c].clock) THEN "expireWrite" ELSE "ack"
      BY <1>0, <3>1 DEF TypeOK
    <3> HIDE DEF r
    <3>3. r \in deleted \/ (approval[r] \in {"approved", "expired"} /\ expiresAt[r] < consumer[c].clock)
      BY <1>3, <3>1 DEF Consuming, r
    <3>4. ~MayExpire(r, consumer[c].clock) => Settled(r)
      <4>1. expiresAt[r] \in Nat
        BY <1>0, <3>1 DEF TypeOK
      <4>2. Rows(r)
        BY <1>0, <3>1 DEF Known
      <4> QED
        BY <1>3, <3>3, <4>1, <4>2 DEF MayExpire, Rows, Settled
    <3>5. recorder[r] # "idle"
      BY <1>3, <3>1 DEF Consuming, r
    <3> QED
      BY <1>1, <3>1, <3>2, <3>4, <3>5 DEF Consuming, Settled, Held, MayExpire, store
  <2>6. CASE ConsumerExpires(c)
    <3> DEFINE r == consumer[c].run
    <3>1. /\ consumer[c].at = "expireWrite" /\ r \in Runs /\ Held(r) /\ recorder[r] # "idle"
          /\ consumer'[c] = [consumer[c] EXCEPT !.at = "ack"]
      BY <1>0, <1>3, <2>6 DEF ConsumerExpires, ConsumerGoto, TypeOK, Consuming
    <3>2. consumer'[c].run = r /\ consumer'[c].at = "ack"
      BY <1>0, <3>1 DEF TypeOK
    <3>3. run'[r] = IF run[r] = "pending_approval" THEN "failed" ELSE run[r]
      BY <1>0, <2>6, <3>1 DEF ConsumerExpires, ExpireBatch, EndApproval, TypeOK
    <3>4. Rows(r) /\ run[r] \in RunStatuses /\ approval[r] \in ApprovalStatuses
      BY <1>0, <3>1 DEF Known, TypeOK
    <3> HIDE DEF r
    <3>5. run'[r] \in {"completed", "failed", "absent"}
      BY <3>1, <3>3, <3>4 DEF Rows, Held, RunStatuses, ApprovalStatuses
    <3> QED
      BY <1>1, <3>1, <3>2, <3>5 DEF Consuming, Settled
  <2>7. CASE Settle(c) \/ ConsumerDies(c)
    <3>1. consumer'[c] = IdleConsumer
      BY <1>0, <2>7 DEF Settle, ConsumerDies, TypeOK
    <3> QED
      BY <3>1 DEF Consuming, IdleConsumer
  <2> QED
    BY <2>1, <2>2, <2>3, <2>4, <2>5, <2>6, <2>7 DEF ConsumerStep
<1>7. \A d \in Consumers : Consuming(d)'
  BY <1>1, <1>2, <1>5, <1>6, OthersKeepTheirs
<1> QED
  BY <1>1, <1>5, <1>7, OthersKeepTheirs DEF Known

(* The scheduled handler. *)
LEMMA CronKeeps ==
  ASSUME IInv, CronStep \/ CronDies
  PROVE  Known'
<1>0. TypeOK /\ Known
  BY DEF IInv
<1>1. /\ UNCHANGED <<now, recorder, upserts, workflow, event, consumer, deleted, consented>>
      /\ \A r \in queue' : r \in queue \/ r \in cron.todo
  BY DEF CronStep, CronStarts, CronReads, CronExpires, CronLists, CronSends, CronEnds, CronDies,
     store, history
<1>2. \A r \in Runs : Harmless(r)
  <2>1. CASE UNCHANGED store
    BY <1>0, <1>1, <2>1, StutterIsHarmless DEF Known
  <2>2. CASE CronExpires
    BY <1>0, <1>1, <2>2, EndIsHarmless DEF Known, Scheduled, CronExpires, ExpireBatch
  <2> QED
    BY <2>1, <2>2 DEF CronStep, CronStarts, CronReads, CronLists, CronSends, CronEnds, CronDies
<1>3. \A r \in Runs : r \in queue' => r \in queue \/ recorder[r] # "idle"
  BY <1>0, <1>1 DEF Known, Scheduled
<1>4. /\ \A r \in Runs : Rows(r)' /\ Recording(r)' /\ Waiting(r)' /\ Remembered(r)
      /\ Upserting'
  BY <1>1, <1>2, <1>3, RowsKeep
<1>5. \A c \in Consumers : Consuming(c)'
  BY <1>0, <1>1, <1>4, ConsumingStays DEF Known
<1>6. Scheduled'
  <2>1. Recoverable \subseteq {r \in Runs : recorder[r] # "idle"}
    BY <1>0 DEF Recoverable, Known, Recording, Untouched
  <2>2. CASE CronStarts \/ CronLists \/ CronEnds \/ CronDies
    <3>1. cron'.todo \subseteq Recoverable /\ cron'.at # "expireWrite"
      BY <2>2 DEF CronStarts, CronLists, CronEnds, CronDies, IdleCron
    <3> QED
      BY <1>1, <2>1, <3>1 DEF Scheduled
  <2>3. ASSUME NEW r \in Runs, CronReads(r) PROVE Scheduled'
    <3>1. UNCHANGED store /\ r \in cron.todo /\ cron.at = "overdue"
      BY <2>3 DEF CronReads
    <3>2. \/ cron'.todo = cron.todo /\ cron'.run = r /\ MayExpire(r, cron.clock)
          \/ cron'.todo \subseteq cron.todo /\ cron'.at = "overdue"
      BY <1>0, <2>3, <3>1 DEF CronReads, TypeOK
    <3> QED
      BY <1>0, <1>1, <3>1, <3>2 DEF Known, Scheduled, Held, MayExpire, store
  <2>4. ASSUME NEW r \in Runs, CronSends(r) PROVE Scheduled'
    <3>1. cron'.todo \subseteq cron.todo /\ cron'.at = "send"
      BY <1>0, <2>4 DEF CronSends, TypeOK
    <3> QED
      BY <1>0, <1>1, <3>1 DEF Known, Scheduled
  <2>5. CASE CronExpires
    <3>1. cron'.todo \subseteq cron.todo /\ cron'.at = "overdue"
      BY <1>0, <2>5 DEF CronExpires, TypeOK
    <3> QED
      BY <1>0, <1>1, <3>1 DEF Known, Scheduled
  <2> QED
    BY <2>2, <2>3, <2>4, <2>5 DEF CronStep
<1> QED
  BY <1>4, <1>5, <1>6 DEF Known

-----------------------------------------------------------------------------
(* The invariant holds at first, and every step keeps it. *)
LEMMA InitEstablishes == Init => IInv
  BY BoundsAreNats DEF Init, IInv, TypeOK, Known, Rows, Recording, Untouched, Waiting, Upserting,
     Consuming, Scheduled, IdleConsumer, IdleCron, RunStatuses, ToolStatuses, ApprovalStatuses,
     RecorderSteps, RecorderDone, WorkflowSteps, ConsumerSteps, CronSteps

LEMMA StepKeeps == IInv /\ [Next]_vars => IInv'
<1> SUFFICES ASSUME IInv, [Next]_vars PROVE IInv'
  OBVIOUS
<1>1. CASE UNCHANGED vars
  BY <1>1 DEF IInv, TypeOK, Known, Rows, Recording, Untouched, Waiting, Held, Upserting, InFlight,
     Insertable, Consuming, Settled, Scheduled, vars, store, actors, history
<1>2. CASE Next
  <2>1. CASE Tick \/ \E r \in Runs : DeleteConversation(r)
    <3>1. /\ UNCHANGED <<actors, consented>> /\ deleted \subseteq deleted'
          /\ \A r \in Runs : Harmless(r)
      <4>1. CASE Tick
        BY <4>1, StutterIsHarmless DEF Tick, IInv, Known, actors, history
      <4>2. CASE \E r \in Runs : DeleteConversation(r)
        BY <4>2, DeleteIsHarmless DEF DeleteConversation, IInv, Known
      <4> QED
        BY <2>1, <4>1, <4>2
    <3>2. Known'
      BY <3>1, RowsKeep, OthersKeepTheirs DEF Known, actors
    <3> QED
      BY <1>2, <3>2, TypeStep DEF IInv
  <2>2. Known'
    BY <1>2, <2>1, RecorderKeeps, UpsertKeeps, WorkflowKeeps, ConsumerKeeps, CronKeeps
       DEF Next, Record, Faulty, IInv
  <2> QED
    BY <1>2, <2>2, TypeStep DEF IInv
<1> QED
  BY <1>1, <1>2

LEMMA Invariance == Spec => []IInv
<1>1. Init => IInv
  BY InitEstablishes
<1>2. IInv /\ [Next]_vars => IInv'
  BY StepKeeps
<1> QED
  BY <1>1, <1>2, PTL DEF Spec

(* Every variable has its type. *)
THEOREM TypesHold == Spec => []TypeOK
<1>1. IInv => TypeOK
  BY DEF IInv
<1> QED
  BY <1>1, Invariance, PTL

(* The tables agree about every proposal, an effect has its owner's        *)
(* consent, and a message is acknowledged only when its run has ended      *)
(* (decideApproval, expireApproval, commitApprovedResumeWrites, queue).    *)
THEOREM ApprovalsStayTrue == Spec => []ApprovalsAgree
<1>1. IInv => ApprovalsAgree
  <2> SUFFICES ASSUME IInv PROVE ApprovalsAgree
    OBVIOUS
  <2>1. RowsAgree
    BY DEF IInv, Known, Rows, RowsAgree
  <2>2. EffectNeedsConsent
    BY DEF IInv, Known, TypeOK, Rows, EffectNeedsConsent
  <2>3. AckedIsSettled
    BY DEF IInv, Known, Consuming, Settled, AckedIsSettled
  <2> QED
    BY <2>1, <2>2, <2>3 DEF ApprovalsAgree
<1> QED
  BY <1>1, Invariance, PTL

-----------------------------------------------------------------------------
(* The refinement. *)

(* The rows of a run that its phase depends on stay as they are. *)
Same(r) ==
  /\ run'[r] = run[r] /\ approval'[r] = approval[r]
  /\ r \in tickets' <=> r \in tickets
  /\ r \in deleted' <=> r \in deleted

Moves(r) ==
  \/ Phase(r) \in {"none", "proposed", "consented", "refused"} /\ Phase(r)' = "forgotten"
  \/ Phase(r) \in {"none", "proposed", "consented"} /\ Phase(r)' = "refused"
  \/ Phase(r) = "none" /\ Phase(r)' = "proposed"
  \/ Phase(r) = "proposed" /\ Phase(r)' = "consented"
  \/ Phase(r) = "consented" /\ Phase(r)' = "done"

Progress(r) == Phase(r)' = Phase(r) \/ Moves(r)

(* A phase, case by case. *)
LEMMA PhaseCases ==
  ASSUME NEW r \in Runs
  PROVE  /\ r \in tickets => Phase(r) = "done"
         /\ r \notin tickets /\ r \in deleted => Phase(r) = "forgotten"
         /\ r \notin tickets \cup deleted =>
              /\ run[r] = "failed" => Phase(r) = "refused"
              /\ run[r] = "pending_approval" =>
                   Phase(r) = IF approval[r] = "approved" THEN "consented" ELSE "proposed"
              /\ run[r] \notin {"failed", "pending_approval"} => Phase(r) = "none"
  BY DEF Phase

LEMMA PhaseCasesNext ==
  ASSUME NEW r \in Runs
  PROVE  /\ r \in tickets' => Phase(r)' = "done"
         /\ r \notin tickets' /\ r \in deleted' => Phase(r)' = "forgotten"
         /\ r \notin tickets' \cup deleted' =>
              /\ run'[r] = "failed" => Phase(r)' = "refused"
              /\ run'[r] = "pending_approval" =>
                   Phase(r)' = IF approval'[r] = "approved" THEN "consented" ELSE "proposed"
              /\ run'[r] \notin {"failed", "pending_approval"} => Phase(r)' = "none"
  BY DEF Phase

(* A step concerns at most one run, and takes its action one move on. *)
LEMMA OneRunProgresses ==
  ASSUME IInv, Next
  PROVE  \/ \A s \in Runs : Same(s)
         \/ \E r \in Runs : Progress(r) /\ \A s \in Runs \ {r} : Same(s)
<1>0. TypeOK /\ Known
  BY DEF IInv
<1>1. ASSUME UNCHANGED <<run, approval, tickets, deleted>> PROVE \A s \in Runs : Same(s)
  BY <1>1 DEF Same
<1>2. ASSUME NEW r \in Runs, NEW from, NEW to, to # "approved", EndApproval(r, from, to),
             UNCHANGED <<tickets, deleted>>
      PROVE  Progress(r) /\ \A s \in Runs \ {r} : Same(s)
  <2>1. \A s \in Runs \ {r} : Same(s)
    BY <1>0, <1>2 DEF EndApproval, TypeOK, Same
  <2>2. /\ run'[r] = IF run[r] = "pending_approval" THEN "failed" ELSE run[r]
        /\ approval'[r] = approval[r] \/ approval'[r] = to
        /\ run[r] \in RunStatuses
    BY <1>0, <1>2 DEF EndApproval, TypeOK
  <2>3. Progress(r)
    BY <1>2, <2>2, PhaseCases, PhaseCasesNext DEF Progress, Moves, RunStatuses
  <2> QED
    BY <2>1, <2>3
<1>3. ASSUME NEW r \in Runs, Record(r)
      PROVE  \/ \A s \in Runs : Same(s)
             \/ Progress(r) /\ \A s \in Runs \ {r} : Same(s)
  <2>1. \A s \in Runs \ {r} : Same(s)
    BY <1>0, <1>3 DEF Record, CreateAgentRun, CompleteAgentRun, AbandonRun, Start, store, history,
       TypeOK, Same
  <2>2. ASSUME NEW t \in 0 .. MaxNow, CreateAgentRun(r, t) PROVE Progress(r)
    <3>1. run[r] = "absent" /\ run'[r] \in {"absent", "running"} /\ UNCHANGED <<tickets, deleted>>
      BY <1>0, <2>2 DEF CreateAgentRun, Known, Recording, Untouched, TypeOK, history
    <3> QED
      BY <3>1 DEF Progress, Phase
  <2>3. CASE CompleteAgentRun(r)
    <3>1. /\ UNCHANGED <<approval, tickets, deleted>>
          /\ \/ run' = run
             \/ run[r] = "running" /\ run'[r] = "pending_approval"
      BY <1>0, <2>3 DEF CompleteAgentRun, TypeOK, history
    <3>2. run[r] = "running" => approval[r] # "approved"
      BY <1>0 DEF Known, Rows
    <3> QED
      BY <2>1, <3>1, <3>2, PhaseCases, PhaseCasesNext DEF Progress, Moves
  <2>4. CASE AbandonRun(r)
    <3>1. /\ UNCHANGED <<approval, tickets, deleted>>
          /\ \/ run'[r] = run[r]
             \/ run[r] \in {"running", "pending_approval"} /\ run'[r] = "failed"
      BY <1>0, <2>4 DEF AbandonRun, TypeOK, history
    <3> QED
      BY <2>1, <3>1, PhaseCases, PhaseCasesNext DEF Progress, Moves
  <2>5. CASE Start(r)
    BY <2>1, <2>5 DEF Start, store, history, Progress, Phase
  <2> QED
    BY <1>3, <2>1, <2>2, <2>3, <2>4, <2>5 DEF Record
<1>4. ASSUME NEW u \in upserts, Upsert(u)
      PROVE  \E r \in Runs : Progress(r) /\ \A s \in Runs \ {r} : Same(s)
  <2>1. u.run \in Runs /\ u \in Upserts /\ InFlight(u)
    BY <1>0 DEF TypeOK, Upserts, Known, Upserting
  <2>2. /\ UNCHANGED <<run, tickets, deleted>>
        /\ \/ approval' = approval
           \/ approval' = [approval EXCEPT ![u.run] = "pending"]
    BY <1>4 DEF Upsert, UpsertCheck, UpsertInsert, UpsertReadBack, CreateWorkflow, InsertApproval,
       store, history
  <2>3. approval' = [approval EXCEPT ![u.run] = "pending"] => approval[u.run] # "approved" \/ approval' = approval
    BY <1>4 DEF Upsert, UpsertCheck, UpsertInsert, UpsertReadBack, CreateWorkflow, InsertApproval,
       store
  <2>4. Progress(u.run)
    BY <1>0, <2>1, <2>2, <2>3 DEF Progress, Phase, TypeOK
  <2>5. \A s \in Runs \ {u.run} : Same(s)
    BY <1>0, <2>1, <2>2 DEF Same, TypeOK
  <2> QED
    BY <2>1, <2>4, <2>5
<1>5. ASSUME NEW r \in Runs, WorkflowStep(r) \/ StepFails(r)
      PROVE  \/ \A s \in Runs : Same(s)
             \/ Progress(r) /\ \A s \in Runs \ {r} : Same(s)
  <2>1. deleted' = deleted
    BY <1>5 DEF WorkflowStep, Decide, PersistDecision, EnqueueResume, WaitTimesOut,
       WorkflowReads, WorkflowExpires, StepFails, history
  <2>2. CASE UNCHANGED store
    BY <1>1, <2>1, <2>2 DEF store
  <2>3. CASE Persist(r)
    <3>1. CASE workflow[r] = "approve" /\ UNCHANGED <<run, tool>> /\
               approval' = [approval EXCEPT ![r] = IF @ = "pending" THEN "approved" ELSE @]
      <4>1. tickets' = tickets
        BY <2>3 DEF Persist
      <4>2. \A s \in Runs \ {r} : Same(s)
        BY <1>0, <2>1, <3>1, <4>1 DEF TypeOK, Same
      <4>3. /\ run'[r] = run[r]
            /\ approval'[r] = IF approval[r] = "pending" THEN "approved" ELSE approval[r]
        BY <1>0, <3>1 DEF TypeOK
      <4>4. Progress(r)
        BY <2>1, <4>1, <4>3, PhaseCases, PhaseCasesNext DEF Progress, Moves
      <4> QED
        BY <4>2, <4>4
    <3>2. CASE EndApproval(r, {"pending"}, "expired") \/ EndApproval(r, {"pending"}, "rejected")
      BY <1>2, <2>1, <2>3, <3>2 DEF Persist
    <3> QED
      BY <2>3, <3>1, <3>2 DEF Persist
  <2>4. CASE ExpireBatch(r) /\ UNCHANGED tickets
    BY <1>2, <2>1, <2>4 DEF ExpireBatch
  <2> QED
    BY <1>5, <2>2, <2>3, <2>4 DEF WorkflowStep, Decide, PersistDecision, EnqueueResume,
       WaitTimesOut, WorkflowReads, WorkflowExpires, StepFails
<1>6. ASSUME NEW r \in Runs, DeleteConversation(r)
      PROVE  Progress(r) /\ \A s \in Runs \ {r} : Same(s)
  <2>1. \A s \in Runs \ {r} : Same(s)
    BY <1>0, <1>6 DEF DeleteConversation, TypeOK, Same
  <2>2. /\ r \notin deleted /\ r \in deleted' /\ tickets' = tickets /\ run[r] \in RunStatuses
        /\ run[r] = "completed" => r \in tickets
    BY <1>0, <1>6 DEF DeleteConversation, Known, Rows, TypeOK
  <2>3. Progress(r)
    BY <2>2, PhaseCases, PhaseCasesNext DEF Progress, Moves
  <2> QED
    BY <2>1, <2>3
<1>7. ASSUME NEW c \in Consumers, ConsumerStep(c)
      PROVE  \/ \A s \in Runs : Same(s)
             \/ \E r \in Runs : Progress(r) /\ \A s \in Runs \ {r} : Same(s)
  <2>1. deleted' = deleted
    BY <1>7 DEF ConsumerStep, Deliver, Load, CommitResume, ReloadResume, ConsumerReads,
       ConsumerExpires, Settle, history
  <2>2. CASE UNCHANGED store
    BY <1>1, <2>1, <2>2 DEF store
  <2>3. CASE CommitResume(c)
    <3>0. PICK r \in Runs : r = consumer[c].run
      BY <1>0, <2>3 DEF Known, Consuming, CommitResume
    <3>1. approval' = approval /\ ResumeWrites(r, consumer[c].clock)
      BY <2>3, <3>0 DEF CommitResume
    <3>2. CASE ~StillApproved(r, consumer[c].clock)
      BY <1>1, <2>1, <3>1, <3>2 DEF ResumeWrites
    <3>3. CASE StillApproved(r, consumer[c].clock)
      <4>1. /\ run' = [run EXCEPT ![r] = "completed"] /\ tickets' = tickets \cup {r}
            /\ run[r] = "pending_approval" /\ approval[r] = "approved"
        BY <3>1, <3>3 DEF ResumeWrites, StillApproved
      <4>2. \A s \in Runs \ {r} : Same(s)
        BY <1>0, <2>1, <3>1, <4>1 DEF TypeOK, Same
      <4>3. r \notin tickets /\ r \notin deleted
        BY <1>0, <4>1 DEF Known, Rows
      <4>4. Progress(r)
        BY <2>1, <3>1, <4>1, <4>3, PhaseCases, PhaseCasesNext DEF Progress, Moves
      <4> QED
        BY <4>2, <4>4
    <3> QED
      BY <3>2, <3>3
  <2>4. CASE ConsumerExpires(c)
    <3>1. PICK r \in Runs : r = consumer[c].run
      BY <1>0, <2>4 DEF Known, Consuming, ConsumerExpires
    <3> QED
      BY <1>2, <2>1, <2>4, <3>1 DEF ConsumerExpires, ExpireBatch
  <2> QED
    BY <1>7, <2>2, <2>3, <2>4 DEF ConsumerStep, Deliver, Load, ReloadResume, ConsumerReads, Settle
<1>8. CASE CronStep
  <2>1. CASE CronExpires
    <3>1. PICK r \in Runs : r = cron.run
      BY <1>0, <2>1 DEF Known, Scheduled, CronExpires
    <3> QED
      BY <1>2, <2>1, <3>1 DEF CronExpires, ExpireBatch, history
  <2>2. CASE UNCHANGED <<store, history>>
    BY <1>1, <2>2 DEF store, history
  <2> QED
    BY <1>8, <2>1, <2>2 DEF CronStep, CronStarts, CronReads, CronLists, CronSends, CronEnds
<1>9. CASE \/ Tick \/ CronDies
           \/ \E r \in Runs : RecorderFails(r) \/ RecorderDies(r)
           \/ \E r \in Runs, e \in {"approve", "reject", "tampered"} : SendEvent(r, e)
           \/ \E c \in Consumers : ConsumerDies(c)
  BY <1>1, <1>9 DEF Tick, CronDies, RecorderFails, RecorderDies, SendEvent, ConsumerDies, store, history
<1> QED
  BY <1>3, <1>4, <1>5, <1>6, <1>7, <1>8, <1>9 DEF Next, Faulty

(* An approved action is performed at most once, only after consent, never *)
(* after a refusal, and stays performed when its conversation is deleted.  *)
THEOREM PromiseIsKept == Spec => PromiseSpec
<1> DEFINE P == [r \in Runs |-> Phase(r)]
<1>1. Init => Promise!Init
  BY DEF Init, Promise!Init, Phase
<1>2. IInv /\ [Next]_vars => [Promise!Next]_P
  <2> SUFFICES ASSUME IInv, [Next]_vars PROVE Promise!Next \/ P' = P
    OBVIOUS
  <2>1. ASSUME \A s \in Runs : Same(s) PROVE P' = P
    BY <2>1 DEF Same, Phase
  <2>2. ASSUME NEW r \in Runs, Progress(r), \A s \in Runs \ {r} : Same(s)
        PROVE  Promise!Next \/ P' = P
    <3>1. \A s \in Runs \ {r} : Phase(s)' = Phase(s)
      BY <2>2 DEF Same, Phase
    <3>2. P' = [P EXCEPT ![r] = Phase(r)'] /\ P[r] = Phase(r)
      BY <3>1
    <3>3. CASE Phase(r)' = Phase(r)
      BY <3>1, <3>3
    <3>4. CASE Moves(r)
      BY <3>2, <3>4 DEF Moves, Promise!Next, Promise!Propose, Promise!Consent, Promise!Perform,
         Promise!Refuse, Promise!Forget, Promise!Move
    <3> QED
      BY <2>2, <3>3, <3>4 DEF Progress
  <2>3. CASE UNCHANGED vars
    BY <2>3 DEF vars, store, history, Phase
  <2> QED
    BY <2>1, <2>2, <2>3, OneRunProgresses
<1> QED
  BY <1>1, <1>2, Invariance, PTL DEF Spec, PromiseSpec, Promise!Spec

=============================================================================
