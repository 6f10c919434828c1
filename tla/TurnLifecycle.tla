--------------------------- MODULE TurnLifecycle ----------------------------
(***************************************************************************)
(* Answering a question: POST /turns, from the request id claim to the     *)
(* released run lock, with everything that may happen at the same time -   *)
(* the same request sent again, another question in the conversation, a    *)
(* retry of a failed answer, a stop, the deletion of the conversation, the *)
(* death of the Worker.                                                    *)
(*                                                                         *)
(* An attempt is one execution of executeTurn.  Its steps are the          *)
(* statements between two awaits of a D1 or Durable Object call, so        *)
(* attempts interleave where the code can be suspended.  An attempt mints  *)
(* a user message id, an assistant message id and a conversation id; the   *)
(* model names all three after the attempt.  The assistant message id is   *)
(* also the run id under which the lock is taken.                          *)
(***************************************************************************)
EXTENDS Naturals, FiniteSets

CONSTANTS Attempts,       \* executions of POST /turns
          Requests,       \* request ids chosen by clients
          Principals,     \* authenticated callers
          Payloads,       \* digests of question and document scope
          None,           \* no attempt, no conversation, no row
          MaxFaults,      \* bound: attempts that meet a fault
          MaxStops,       \* bound: locks that name a stop at the same time
          Allowed         \* what others may do: any of the Interventions

ASSUME NoneIsNotAnAttempt == None \notin Attempts
ASSUME MaxFaultsIsNat == MaxFaults \in Nat
ASSUME MaxStopsIsNat == MaxStops \in Nat

(* Retrying a failed answer, stopping a turn, deleting a conversation, and *)
(* calling POST /lock or /unlock by hand.                                  *)
Interventions == {"retry", "stop", "delete", "lock"}

ASSUME AllowedInterventions == Allowed \subseteq Interventions
ASSUME AttemptsAreFinite == IsFiniteSet(Attempts)

VARIABLES
  input,            \* what the caller of each attempt sent
  pc,               \* the next statement of each attempt, or its reply
  turn,             \* the assistant message an attempt speaks of
  why,              \* the error an attempt would fail its message with
  aborted,          \* attempts that are running and whose watcher aborted them
  claim,            \* request_id_claims: the attempt whose ids the request got
  conversations,    \* rows of conversations
  users,            \* rows of messages with role user
  status,           \* status and error_code of the assistant rows of messages
  createdAt,        \* created_at of the assistant rows
  completionClaims, \* rows of turn_completion_claims
  late,             \* "writing" stage calls sent and not awaited
  deleted,          \* history: conversations deleted so far
  faulted,          \* history: attempts that met a fault
  lock              \* the Durable Objects, see ConversationLock

INSTANCE ConversationLock WITH Conversations <- Attempts, Runs <- Attempts, NoRun <- None

rows  == <<claim, conversations, users, status, createdAt, completionClaims>>
world == <<late, deleted, faulted>>
vars  == <<input, pc, turn, why, aborted, claim, conversations, users, status, createdAt,
           completionClaims, late, deleted, faulted, lock>>

-----------------------------------------------------------------------------
(* What the caller sends.  "conversation" is None for a first question;    *)
(* "user" names the saved user message a retry answers again; "at" is the  *)
(* time of the request among the attempts at one user message.             *)

NoInput == [request |-> None, owner |-> None, payload |-> None,
            conversation |-> None, user |-> None, at |-> 0]

Inputs == [request: Requests, owner: Principals, payload: Payloads,
           conversation: Attempts \cup {None}, user: Attempts \cup {None}, at: Nat]

FailureCodes == {"CANCELLED", "RATE_LIMITED", "PROVIDER_TEMPORARY", "INTERNAL_ERROR"}

Statuses == {"absent", "pending", "completed"} \cup FailureCodes

Replies == {"answered", "replayed", "busy", "cancelled", "unavailable", "error", "rejected"}

(* Between acquiring and releasing the lock: the turn itself, and the      *)
(* statements that end it without an answer.                               *)
Running == {"handle", "searching", "running", "reading", "check", "writing", "complete",
            "claimCompletion", "checkWriter", "commit", "reload", "release"}
Ending  == {"giveUp", "catch", "fail", "unlock"}

Claiming == {"lookup", "readClaim", "adopt", "adopted", "insertClaim", "readWinner", "materialize",
             "readBack", "replay", "acquire", "refuse"}

Active  == Claiming \cup Running \cup Ending
Program == {"idle", "crashed"} \cup Active \cup Replies

(* The ids an attempt mints are its own; a given conversation or user      *)
(* message id replaces the minted one.                                     *)
ConversationOf(a) == IF input[a].conversation = None THEN a ELSE input[a].conversation
UserMessageOf(a)  == IF input[a].user = None THEN a ELSE input[a].user

MessagesOf(r) == {m \in Attempts : status[m] # "absent" /\ input[m].request = r}

(* assertConversationOwner *)
Owns(p, c) == c \in conversations /\ input[c].owner = p

TypeOK ==
  /\ input \in [Attempts -> Inputs \cup {NoInput}]
  /\ pc \in [Attempts -> Program]
  /\ turn \in [Attempts -> Attempts \cup {None}]
  /\ why \in [Attempts -> FailureCodes]
  /\ aborted \in SUBSET Attempts
  /\ claim \in [Requests -> Attempts \cup {None}]
  /\ conversations \in SUBSET Attempts
  /\ users \in SUBSET Attempts
  /\ status \in [Attempts -> Statuses]
  /\ createdAt \in [Attempts -> Nat]
  /\ completionClaims \in SUBSET Attempts
  /\ late \in SUBSET Attempts
  /\ deleted \in SUBSET Attempts
  /\ faulted \in SUBSET Attempts
  /\ LockTypeOK

Init ==
  /\ input = [a \in Attempts |-> NoInput]
  /\ pc = [a \in Attempts |-> "idle"]
  /\ turn = [a \in Attempts |-> None]
  /\ why = [a \in Attempts |-> "INTERNAL_ERROR"]
  /\ aborted = {}
  /\ claim = [r \in Requests |-> None]
  /\ conversations = {}
  /\ users = {}
  /\ status = [a \in Attempts |-> "absent"]
  /\ createdAt = [a \in Attempts |-> 0]
  /\ completionClaims = {}
  /\ late = {}
  /\ deleted = {}
  /\ faulted = {}
  /\ LockInit

At(a, l) == pc[a] = l
Goto(a, l) == pc' = [pc EXCEPT ![a] = l]

-----------------------------------------------------------------------------
(* POST /turns arrives.  A first question names no conversation; a later   *)
(* one names a conversation the client has seen.                           *)

Ask(a, r, p, q, c) ==
  /\ At(a, "idle")
  /\ c \in conversations \cup deleted \cup {None}
  /\ input' = [input EXCEPT ![a] =
       [request |-> r, owner |-> p, payload |-> q, conversation |-> c, user |-> None,
        at |-> 1]]
  /\ Goto(a, "lookup")
  /\ UNCHANGED <<turn, why, aborted, rows, world, lock>>

(* resolveTurnRetry: only a failed answer that no other attempt at the     *)
(* same user message has replaced - by an answer, or by a later failure -  *)
(* may be retried; an attempt under the retry's own request id is itself.  *)

Superseded(m, r) ==
  \E n \in Attempts \ {m} :
    /\ status[n] # "absent"
    /\ UserMessageOf(n) = UserMessageOf(m)
    /\ input[n].request # r
    /\ \/ status[n] = "completed"
       \/ status[n] \in FailureCodes /\ createdAt[n] >= createdAt[m]

(* Time is the order of the attempts at one user message: created_at is    *)
(* compared between those only.                                            *)
AttemptsAt(u) == {b \in Attempts : input[b] # NoInput /\ UserMessageOf(b) = u}

Retry(a, r, p, m) ==
  /\ "retry" \in Allowed
  /\ At(a, "idle")
  /\ status[m] \in FailureCodes
  /\ Owns(p, ConversationOf(m))
  /\ UserMessageOf(m) \in users
  /\ ~Superseded(m, r)
  /\ input' = [input EXCEPT ![a] =
       [request |-> r, owner |-> p, payload |-> input[m].payload,
        conversation |-> ConversationOf(m), user |-> UserMessageOf(m),
        at |-> Cardinality(AttemptsAt(UserMessageOf(m))) + 1]]
  /\ Goto(a, "lookup")
  /\ UNCHANGED <<turn, why, aborted, rows, world, lock>>

-----------------------------------------------------------------------------
(* createPendingTurn.                                                      *)

MutAcceptAnyQuestion(a, m, w) == input[a].conversation \in {None, ConversationOf(m)}

(* assertReplayPayload of message m, whose request is bound by the claim   *)
(* of w.                                                                   *)
Accepts(a, m, w) ==
  /\ input[w].owner = input[a].owner
  /\ input[w].payload = input[a].payload
  /\ input[a].conversation \in {None, ConversationOf(m)}

BoundBy(r, m) == IF claim[r] = None THEN m ELSE claim[r]

(* The request may already have an assistant message. *)
Lookup(a) ==
  /\ At(a, "lookup")
  /\ LET found == MessagesOf(input[a].request) IN
     \/ found = {} /\ Goto(a, "readClaim") /\ UNCHANGED turn
     \/ \E m \in found :
          IF Accepts(a, m, BoundBy(input[a].request, m)) /\ Owns(input[a].owner, ConversationOf(m))
          THEN Goto(a, "replay") /\ turn' = [turn EXCEPT ![a] = m]
          ELSE Goto(a, "rejected") /\ UNCHANGED turn
  /\ UNCHANGED <<input, why, aborted, rows, world, lock>>

(* Or a claim whose message was never stored: then this attempt stores it  *)
(* for the claimant.  Otherwise a given conversation must be the caller's, *)
(* and a retried user message must still be there.                         *)
ReadClaim(a) ==
  /\ At(a, "readClaim")
  /\ LET w == claim[input[a].request] IN
     \/ /\ w # None
        /\ Goto(a, IF Accepts(a, w, w) THEN "adopt" ELSE "rejected")
        /\ turn' = [turn EXCEPT ![a] = w]
     \/ /\ w = None
        /\ Goto(a, IF /\ input[a].conversation = None \/ Owns(input[a].owner, input[a].conversation)
                      /\ input[a].user = None \/ input[a].user \in users
                   THEN "insertClaim" ELSE "rejected")
        /\ UNCHANGED turn
  /\ UNCHANGED <<input, why, aborted, rows, world, lock>>

MutConversationBeforeClaim(a) ==
  /\ At(a, "insertClaim")
  /\ claim' = [claim EXCEPT ![input[a].request] = IF @ = None THEN a ELSE @]
  /\ conversations' = conversations \cup {ConversationOf(a)}
  /\ Goto(a, "readWinner")
  /\ UNCHANGED <<input, turn, why, aborted, users, status, createdAt, completionClaims,
                 world, lock>>

(* INSERT ... ON CONFLICT(request_id) DO NOTHING. *)
InsertClaim(a) ==
  /\ At(a, "insertClaim")
  /\ claim' = [claim EXCEPT ![input[a].request] = IF @ = None THEN a ELSE @]
  /\ Goto(a, "readWinner")
  /\ UNCHANGED <<input, turn, why, aborted, conversations, users, status, createdAt,
                 completionClaims, world, lock>>

ReadWinner(a) ==
  /\ At(a, "readWinner")
  /\ LET w == claim[input[a].request] IN
     IF w # None /\ Accepts(a, w, w)
     THEN Goto(a, "materialize") /\ turn' = [turn EXCEPT ![a] = w]
     ELSE Goto(a, "rejected") /\ UNCHANGED turn
  /\ UNCHANGED <<input, why, aborted, rows, world, lock>>

(* materializeClaimedTurn: one batch that stores what is not there yet.  A *)
(* row of another message under the same request id fails the whole batch, *)
(* and that error is ignored.                                              *)
StoreTurn(w, at) ==
  IF MessagesOf(input[w].request) \subseteq {w}
  THEN /\ conversations' = conversations \cup {ConversationOf(w)}
       /\ users' = users \cup {UserMessageOf(w)}
       /\ status' = [status EXCEPT ![w] = IF @ = "absent" THEN "pending" ELSE @]
       /\ createdAt' = [createdAt EXCEPT ![w] = IF status[w] = "absent" THEN at ELSE @]
  ELSE UNCHANGED <<conversations, users, status, createdAt>>

Adopt(a) ==
  /\ At(a, "adopt")
  /\ StoreTurn(turn[a], input[a].at)
  /\ Goto(a, "adopted")
  /\ UNCHANGED <<input, turn, why, aborted, claim, completionClaims, world, lock>>

(* Whoever stored a turn for its claimant must own the conversation. *)
CheckAdopted(a) ==
  /\ At(a, "adopted")
  /\ Goto(a, IF Owns(input[a].owner, ConversationOf(turn[a])) THEN "replay" ELSE "rejected")
  /\ UNCHANGED <<input, turn, why, aborted, rows, world, lock>>

Materialize(a) ==
  /\ At(a, "materialize")
  /\ StoreTurn(turn[a], input[a].at)
  /\ Goto(a, "readBack")
  /\ UNCHANGED <<input, turn, why, aborted, claim, completionClaims, world, lock>>

(* The message stored under the request, or else the one that was claimed. *)
FoundBy(a) == IF MessagesOf(input[a].request) = {} THEN {turn[a]} ELSE MessagesOf(input[a].request)

MutEveryoneExecutes(a) ==
  /\ At(a, "readBack")
  /\ \E m \in FoundBy(a) :
       IF Owns(input[a].owner, ConversationOf(m))
       THEN turn' = [turn EXCEPT ![a] = m] /\ Goto(a, "acquire")
       ELSE Goto(a, "rejected") /\ UNCHANGED turn
  /\ UNCHANGED <<input, why, aborted, rows, world, lock>>

(* Who executes the turn: the attempt that finds its own minted message id *)
(* under the request; every other one is a duplicate.                      *)
ReadBack(a) ==
  /\ At(a, "readBack")
  /\ \E m \in FoundBy(a) :
       IF Owns(input[a].owner, ConversationOf(m))
       THEN turn' = [turn EXCEPT ![a] = m] /\ Goto(a, IF m = a THEN "acquire" ELSE "replay")
       ELSE Goto(a, "rejected") /\ UNCHANGED turn
  /\ UNCHANGED <<input, why, aborted, rows, world, lock>>

(* A duplicate gets the stored answer, or is told to wait. *)
Replay(a) ==
  /\ At(a, "replay")
  /\ Goto(a, IF status[turn[a]] = "completed" THEN "replayed" ELSE "busy")
  /\ UNCHANGED <<input, turn, why, aborted, rows, world, lock>>

-----------------------------------------------------------------------------
(* executeTurnFull under the lock of the conversation.                     *)

C(a) == ConversationOf(a)

MutFailAnything(m, code) ==
  status' = [status EXCEPT ![m] = IF @ = "absent" THEN @ ELSE code]

(* failTurn: UPDATE ... WHERE status = 'pending'; the turn ignores that no *)
(* row was updated.                                                        *)
FailTurn(m, code) == status' = [status EXCEPT ![m] = IF @ = "pending" THEN code ELSE @]

TakeLock(a) ==
  /\ At(a, "acquire")
  /\ Acquire(C(a), a)
  /\ Goto(a, "handle")
  /\ UNCHANGED <<input, turn, why, aborted, rows, world>>

LockBusy(a) ==
  /\ At(a, "acquire")
  /\ ~CanAcquire(C(a), a)
  /\ Goto(a, "refuse")
  /\ UNCHANGED <<input, turn, why, aborted, rows, world, lock>>

MutRefuseKeepsPending(a) ==
  /\ At(a, "refuse")
  /\ Goto(a, "busy")
  /\ UNCHANGED <<input, turn, why, aborted, rows, world, lock>>

Refuse(a) ==
  /\ At(a, "refuse")
  /\ FailTurn(a, "RATE_LIMITED")
  /\ Goto(a, "busy")
  /\ UNCHANGED <<input, turn, why, aborted, claim, conversations, users, createdAt,
                 completionClaims, world, lock>>

MutHandleMustBePending(a) ==
  /\ At(a, "handle")
  /\ \E m \in MessagesOf(input[a].request) : status[m] = "pending"
  /\ Goto(a, "searching")
  /\ UNCHANGED <<input, turn, why, aborted, rows, world, lock>>

(* A stop may have been claimed before the lock was taken. *)
CheckHandle(a) ==
  /\ At(a, "handle")
  /\ Goto(a, IF /\ \E m \in MessagesOf(input[a].request) : status[m] = "pending"
                /\ Owns(input[a].owner, C(a))
             THEN "searching" ELSE "giveUp")
  /\ UNCHANGED <<input, turn, why, aborted, rows, world, lock>>

GiveUp(a) ==
  /\ At(a, "giveUp")
  /\ Release(C(a), a)
  /\ Goto(a, "cancelled")
  /\ UNCHANGED <<input, turn, why, aborted, rows, world>>

(* watchCancellation polls the lock from before the agent starts until the *)
(* finally block, whatever the turn does meanwhile, and ends once it       *)
(* aborted the run.  Only CheckStop asks whether it did: a stop it sees    *)
(* later does not keep the answer from being stored.                       *)
Watched == (Running \ {"handle"}) \cup (Ending \ {"giveUp"})

Watch(a) ==
  /\ pc[a] \in Watched
  /\ a \notin aborted
  /\ Cancelled(C(a))
  /\ aborted' = aborted \cup {a}
  /\ UNCHANGED <<input, pc, turn, why, rows, world, lock>>

(* The finally block; a Worker that dies forgets as much. *)
StopWatching(a) == aborted' = aborted \ {a}

(* The host reports its stages.  A failed readable count writes nothing.   *)
(* The first search completing means reading; from then on every model     *)
(* call sends "writing" and does not wait for it to arrive.                *)
MarkSearching(a) ==
  /\ At(a, "searching")
  /\ SetStage(C(a), a, "searching") \/ UNCHANGED lock
  /\ Goto(a, "running")
  /\ UNCHANGED <<input, turn, why, aborted, rows, world>>

MarkReading(a) ==
  /\ At(a, "running")
  /\ SetStage(C(a), a, "reading")
  /\ Goto(a, "reading")
  /\ UNCHANGED <<input, turn, why, aborted, rows, world>>

SendWriting(a) ==
  /\ At(a, "reading")
  /\ late' = late \cup {a}
  /\ UNCHANGED <<input, pc, turn, why, aborted, rows, deleted, faulted, lock>>

WritingArrives(a) ==
  /\ a \in late
  /\ late' = late \ {a}
  /\ SetStage(C(a), a, "writing")
  /\ UNCHANGED <<input, pc, turn, why, aborted, rows, deleted, faulted>>

(* The agent returns - with an answer, or aborted or without a search      *)
(* result - or throws, as does the turn when a poll of the watcher failed  *)
(* or the last one, in CheckStop, does.                                    *)
AgentEnds(a) ==
  /\ pc[a] \in {"running", "reading"}
  /\ \/ Goto(a, "check") /\ UNCHANGED why
     \/ Goto(a, "check") /\ why' = [why EXCEPT ![a] = "PROVIDER_TEMPORARY"]
     \/ Goto(a, "catch") /\ UNCHANGED why
  /\ UNCHANGED <<input, turn, aborted, rows, world, lock>>

(* A stop discards the answer; a run that ended without a validated answer *)
(* is unavailable.                                                         *)
CheckStop(a) ==
  /\ At(a, "check")
  /\ IF a \in aborted \/ Cancelled(C(a))
     THEN Goto(a, "catch") /\ why' = [why EXCEPT ![a] = "CANCELLED"]
     ELSE /\ Goto(a, IF why[a] = "PROVIDER_TEMPORARY" THEN "catch" ELSE "writing")
          /\ UNCHANGED why
  /\ UNCHANGED <<input, turn, aborted, rows, world, lock>>

MarkWriting(a) ==
  /\ At(a, "writing")
  /\ SetStage(C(a), a, "writing")
  /\ Goto(a, "complete")
  /\ UNCHANGED <<input, turn, why, aborted, rows, world>>

-----------------------------------------------------------------------------
(* completeTurn, then the lock is released: persistThenRelease.            *)

Complete(a) ==
  /\ At(a, "complete")
  /\ Goto(a, CASE status[a] = "completed" -> "release"
               [] status[a] = "pending"   -> "claimCompletion"
               [] OTHER                   -> "catch")
  /\ UNCHANGED <<input, turn, why, aborted, rows, world, lock>>

ClaimCompletion(a) ==
  /\ At(a, "claimCompletion")
  /\ completionClaims' = IF status[a] = "pending" THEN completionClaims \cup {a} ELSE completionClaims
  /\ Goto(a, "checkWriter")
  /\ UNCHANGED <<input, turn, why, aborted, claim, conversations, users, status, createdAt,
                 world, lock>>

CheckWriter(a) ==
  /\ At(a, "checkWriter")
  /\ Goto(a, CASE status[a] = "pending" /\ a \in completionClaims -> "commit"
               [] status[a] = "completed"                         -> "release"
               [] OTHER                                           -> "catch")
  /\ UNCHANGED <<input, turn, why, aborted, rows, world, lock>>

MutCommitUnguarded(m) ==
  status' = [status EXCEPT ![m] = IF @ = "absent" THEN @ ELSE "completed"]

(* The batch: answer, evidence and final state of one pending message. *)
CommitAnswer(m) ==
  status' = [status EXCEPT ![m] =
               IF @ = "pending" /\ m \in completionClaims THEN "completed" ELSE @]

Commit(a) ==
  /\ At(a, "commit")
  /\ CommitAnswer(a)
  /\ Goto(a, "reload")
  /\ UNCHANGED <<input, turn, why, aborted, claim, conversations, users, createdAt,
                 completionClaims, world, lock>>

Reload(a) ==
  /\ At(a, "reload")
  /\ Goto(a, IF status[a] = "completed" THEN "release" ELSE "catch")
  /\ UNCHANGED <<input, turn, why, aborted, rows, world, lock>>

ReleaseAnswered(a) ==
  /\ At(a, "release")
  /\ Release(C(a), a)
  /\ IF CanRelease(C(a), a)
     THEN Goto(a, "answered") /\ StopWatching(a)
     ELSE Goto(a, "catch") /\ UNCHANGED aborted
  /\ UNCHANGED <<input, turn, why, rows, world>>

-----------------------------------------------------------------------------
(* The catch block: what went wrong, the failed message, then the lock.    *)

MutReleaseBeforeFail(a) ==
  /\ At(a, "catch")
  /\ why' = [why EXCEPT ![a] = IF Cancelled(C(a)) THEN "CANCELLED" ELSE @]
  /\ Release(C(a), a)
  /\ Goto(a, "fail")
  /\ UNCHANGED <<input, turn, aborted, rows, world>>

(* cancelled() answers for the row the conversation has now. *)
Catch(a) ==
  /\ At(a, "catch")
  /\ why' = [why EXCEPT ![a] = IF Cancelled(C(a)) THEN "CANCELLED" ELSE @]
  /\ Goto(a, "fail")
  /\ UNCHANGED <<input, turn, aborted, rows, world, lock>>

Fail(a) ==
  /\ At(a, "fail")
  /\ FailTurn(a, why[a])
  /\ Goto(a, "unlock")
  /\ UNCHANGED <<input, turn, why, aborted, claim, conversations, users, createdAt,
                 completionClaims, world, lock>>

ReplyFor(code) == CASE code = "CANCELLED"          -> "cancelled"
                    [] code = "PROVIDER_TEMPORARY" -> "unavailable"
                    [] OTHER                       -> "error"

Unlock(a) ==
  /\ At(a, "unlock")
  /\ Release(C(a), a)
  /\ Goto(a, ReplyFor(why[a]))
  /\ StopWatching(a)
  /\ UNCHANGED <<input, turn, why, rows, world>>

-----------------------------------------------------------------------------
(* Faults: the Worker dies between two statements; the batch that commits  *)
(* the answer is done but its reply is lost; the call that releases the    *)
(* lock is lost, before or after the object served it.                     *)

Fault(a) ==
  /\ a \notin faulted
  /\ Cardinality(faulted) < MaxFaults
  /\ faulted' = faulted \cup {a}

Die(a) ==
  /\ pc[a] \in Active
  /\ Fault(a)
  /\ Goto(a, "crashed")
  /\ StopWatching(a)
  /\ UNCHANGED <<input, turn, why, rows, late, deleted, lock>>

LoseCommitReply(a) ==
  /\ At(a, "commit")
  /\ Fault(a)
  /\ CommitAnswer(a)
  /\ Goto(a, "catch")
  /\ UNCHANGED <<input, turn, why, aborted, claim, conversations, users, createdAt,
                 completionClaims, late, deleted, lock>>

LoseRelease(a) ==
  /\ pc[a] \in {"release", "unlock"}
  /\ Fault(a)
  /\ Release(C(a), a) \/ UNCHANGED lock
  /\ \/ At(a, "release") /\ Goto(a, "catch") /\ UNCHANGED aborted
     \/ At(a, "unlock") /\ Goto(a, ReplyFor(why[a])) /\ StopWatching(a)
  /\ UNCHANGED <<input, turn, why, rows, late, deleted>>

-----------------------------------------------------------------------------
(* POST /cancel with a request id claims the stop in D1; whether it then   *)
(* reaches the lock (stub.cancel, whose failure is ignored) is StopByRun.  *)
StopByRequest(m) ==
  /\ "stop" \in Allowed
  /\ status[m] = "pending"
  /\ FailTurn(m, "CANCELLED")
  /\ UNCHANGED <<input, pc, turn, why, aborted, claim, conversations, users, createdAt,
                 completionClaims, world, lock>>

(* POST /cancel with a run id, a cancel event on the conversation's        *)
(* WebSocket, or the second half of a stop by request id tells the lock.   *)
StopByRun(c) ==
  /\ "stop" \in Allowed
  /\ lock[c].run # None
  /\ Cardinality({d \in Attempts : Cancelled(d)}) < MaxStops
  /\ Cancel(c, lock[c].run)
  /\ UNCHANGED <<input, pc, turn, why, aborted, rows, world>>

(* POST /lock and POST /unlock, with any run id. *)
OwnerLock(c, r) ==
  /\ "lock" \in Allowed
  /\ c \in conversations
  /\ Acquire(c, r)
  /\ UNCHANGED <<input, pc, turn, why, aborted, rows, world>>

OwnerUnlock(c, r) ==
  /\ "lock" \in Allowed
  /\ c \in conversations
  /\ Release(c, r)
  /\ UNCHANGED <<input, pc, turn, why, aborted, rows, world>>

(* DELETE /conversations/:id: one batch, and the lock is not asked. *)
DeleteConversation(c) ==
  /\ "delete" \in Allowed
  /\ c \in conversations
  /\ LET gone == {m \in Attempts : input[m] # NoInput /\ ConversationOf(m) = c} IN
     /\ claim' = [r \in Requests |-> IF claim[r] \in gone THEN None ELSE claim[r]]
     /\ users' = users \ gone
     /\ status' = [m \in Attempts |-> IF m \in gone THEN "absent" ELSE status[m]]
     /\ createdAt' = [m \in Attempts |-> IF m \in gone THEN 0 ELSE createdAt[m]]
     /\ completionClaims' = completionClaims \ gone
  /\ conversations' = conversations \ {c}
  /\ deleted' = deleted \cup {c}
  /\ UNCHANGED <<input, pc, turn, why, aborted, late, faulted, lock>>

-----------------------------------------------------------------------------
(* The statements of one attempt, in program order. *)
Step(a) ==
  \/ Lookup(a) \/ ReadClaim(a) \/ Adopt(a) \/ CheckAdopted(a) \/ InsertClaim(a)
  \/ ReadWinner(a) \/ Materialize(a) \/ ReadBack(a) \/ Replay(a)
  \/ TakeLock(a) \/ LockBusy(a) \/ Refuse(a) \/ CheckHandle(a) \/ GiveUp(a)
  \/ MarkSearching(a) \/ MarkReading(a) \/ AgentEnds(a) \/ CheckStop(a) \/ MarkWriting(a)
  \/ Complete(a) \/ ClaimCompletion(a) \/ CheckWriter(a) \/ Commit(a) \/ Reload(a)
  \/ ReleaseAnswered(a) \/ Catch(a) \/ Fail(a) \/ Unlock(a)

Arrive(a) ==
  \E r \in Requests, p \in Principals :
    \/ \E q \in Payloads, c \in Attempts \cup {None} : Ask(a, r, p, q, c)
    \/ \E m \in Attempts : Retry(a, r, p, m)

Aside(a) == Watch(a) \/ SendWriting(a) \/ WritingArrives(a)

Faulty(a) == Die(a) \/ LoseCommitReply(a) \/ LoseRelease(a)

Others ==
  \E c \in Attempts :
    \/ StopByRequest(c) \/ StopByRun(c) \/ DeleteConversation(c)
    \/ \E r \in Attempts : OwnerLock(c, r) \/ OwnerUnlock(c, r)

Next ==
  \/ \E a \in Attempts : Arrive(a) \/ Step(a) \/ Aside(a) \/ Faulty(a)
  \/ Others

Spec == Init /\ [][Next]_vars

(* An attempt that has started is run to its end: the runtime resumes a    *)
(* Worker when an awaited call settles, every call it makes settles, and   *)
(* the agent has a wall time budget.  Nothing obliges a caller to ask, to  *)
(* stop or to delete, nor a fault to happen.                               *)
FairSpec == Spec /\ \A a \in Attempts : WF_vars(Step(a))

-----------------------------------------------------------------------------
(* While an attempt runs a turn the conversation's lock names its run: no  *)
(* other attempt can run a turn of the conversation, whatever is stopped,  *)
(* deleted or dies (conversation-lock.ts acquire and release).  An attempt *)
(* that ends without an answer still owns the lock until it gave it back,  *)
(* unless the reply to its release was lost.                               *)
HolderOwnsLock ==
  \A a \in Attempts :
    pc[a] \in Running \/ (pc[a] \in Ending /\ a \notin faulted) => lock[C(a)].run = a

(* Two attempts under one request id never both run the turn, although     *)
(* both may have inserted the claim (ON CONFLICT DO NOTHING) - unless the  *)
(* conversation of one of them was deleted, and the claim with it.         *)
OneExecutorPerRequest ==
  \A a, b \in Attempts :
    /\ pc[a] \in Running \cup {"answered"}
    /\ pc[b] \in Running \cup {"answered"}
    /\ input[a].request = input[b].request
    /\ {C(a), C(b)} \cap deleted = {}
    => a = b

(* A duplicate is answered from, or told to wait for, a turn of the same   *)
(* caller with the same question and scope: a reused request id never      *)
(* reaches another member's answer, nor another payload as long as no turn *)
(* of the request was deleted meanwhile (assertReplayPayload on every path *)
(* that finds the message or the claim, but not on the one that reads back *)
(* what was stored).                                                       *)
DuplicateIsTheSameQuestion ==
  \A a \in Attempts :
    pc[a] \in {"adopted", "replay", "replayed", "acquire"} =>
      /\ input[turn[a]].owner = input[a].owner
      /\ input[turn[a]].request = input[a].request
      /\ \/ input[turn[a]].payload = input[a].payload
         \/ \E w \in Attempts : input[w].request = input[a].request /\ C(w) \in deleted

(* A stored turn is the turn of the ids its request was claimed with.      *)
ClaimMatchesMessage ==
  \A m \in Attempts :
    status[m] # "absent" /\ C(m) \notin deleted => claim[input[m].request] = m

(* Every stored answer has its conversation and its question, which        *)
(* loadReplay calls missing otherwise; and no conversation is stored       *)
(* without a turn, however the claim and the batch are interleaved with    *)
(* other attempts, deletions and deaths.                                   *)
NoOrphans ==
  /\ \A m \in Attempts : status[m] # "absent" => C(m) \in conversations /\ UserMessageOf(m) \in users
  /\ \A c \in conversations : \E m \in Attempts : C(m) = c /\ status[m] # "absent"

(* A member told "answered" or handed a replay can find the answer in the  *)
(* conversation, and a member told of a failure cannot: the store and the  *)
(* reply agree, whichever of a stop, a completion and the catch block came *)
(* first (execute-turn.ts, catch; completeTurn's guards).                  *)
ReplyAgreesWithStore ==
  \A a \in Attempts :
    /\ pc[a] \in {"answered", "replayed"} =>
         status[turn[a]] = "completed" \/ C(turn[a]) \in deleted
    /\ pc[a] \in {"cancelled", "unavailable", "error"} /\ a \notin faulted =>
         status[a] # "completed"

(* Whoever has its reply has given its lock back, whatever failed on the   *)
(* way and whatever was stopped or deleted meanwhile: nobody else will     *)
(* free it.  An attempt whose release was lost is exempt (execute-turn.ts  *)
(* persistThenRelease and the catch block).                                *)
RepliedIsReleased ==
  \A a \in Attempts : pc[a] \in Replies /\ a \notin faulted => lock[C(a)].run # a

(* The stage a poll shows is the stage of the run that owns the lock: it   *)
(* says "writing" only after this run's first search, even when a "writing"*)
(* call that nobody waited for arrives late; and its count is never the    *)
(* readable documents shown as passages (setStage, pendingTurnProgress).   *)
StageIsOfTheHolder ==
  \A c \in Attempts :
    lock[c].stage = "writing" =>
      /\ lock[c].count # "readableDocuments"
      /\ \E a \in Attempts :
           /\ a = lock[c].run
           /\ pc[a] \in Program \ (Claiming \cup {"idle", "handle", "searching", "running"})

(* A turn that ended stays what it became - no retry, stop, duplicate or   *)
(* late completion changes it, only deletion removes it - and the answer   *)
(* is committed only by the run the conversation's lock names (SerialTurns;*)
(* completeTurn, failTurn and materializeClaimedTurn with their guards).   *)
Serial == INSTANCE SerialTurns
            WITH Messages <- Attempts, Conversations <- Attempts, Nobody <- None,
                 Codes <- FailureCodes, outcome <- status,
                 owner <- [c \in Attempts |-> lock[c].run]

SerialSpec == Serial!Spec

Settled(s) == s \notin {"absent", "pending"}

(* The same of the stored turns alone, which must hold even when an owner  *)
(* takes and frees the lock by hand.                                       *)
SettledIsFinal ==
  [][\A m \in Attempts : Settled(status[m]) => status'[m] \in {status[m], "absent"}]_vars

(* What is stored of a turn belongs together: its message, question,       *)
(* conversation and claim.                                                 *)
StoredTurnsAreWhole == NoOrphans /\ ClaimMatchesMessage

(* What a member is told is so, and the turn it is told of is over.        *)
RepliesAreTrue == ReplyAgreesWithStore /\ RepliedIsReleased

(* Of the attempts under one request id one runs the turn, and the stage   *)
(* that is shown is that of a run that got there.                          *)
OneRunIsShown == OneExecutorPerRequest /\ StageIsOfTheHolder

(* The turn's final state is in the database before its lock is released,  *)
(* so the next turn of the conversation never runs beside a pending one.   *)
(* Exempt are a turn that lost a call and a request that was deleted with  *)
(* the conversation of one of its turns: the row an attempt waits for may  *)
(* then be stored after that attempt gave up.                              *)
SettledBeforeRelease ==
  [][\A a \in Attempts :
       /\ lock[C(a)].run = a /\ lock'[C(a)].run # a
       /\ a \notin faulted'
       /\ \A w \in Attempts : C(w) \in deleted => input[w].request # input[a].request
       => Settled(status'[a])]_vars

(* A failed answer is retried once: a question has at most one answer.     *)
(* (chat.ts: retrying a replaced attempt "would answer the question        *)
(* twice".)                                                                *)
AtMostOneAnswer ==
  \A m, n \in Attempts :
    status[m] = "completed" /\ status[n] = "completed" /\ UserMessageOf(m) = UserMessageOf(n)
      => m = n

(* Every attempt is answered, one way or another. *)
EveryAttemptReplies == \A a \in Attempts : (pc[a] = "lookup") ~> (pc[a] \in Replies)

(* No turn stays pending as long as no Worker dies, unless its request was *)
(* deleted with the conversation of one of its turns.                      *)
EveryTurnSettles ==
  \A m \in Attempts :
    (status[m] = "pending") ~>
      \/ status[m] # "pending"
      \/ \E w \in Attempts : input[w].request = input[m].request /\ C(w) \in deleted

=============================================================================
