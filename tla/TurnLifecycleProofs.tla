------------------------ MODULE TurnLifecycleProofs -------------------------
(***************************************************************************)
(* Proofs about TurnLifecycle for any number of attempts, requests,        *)
(* callers, payloads and faults.                                           *)
(***************************************************************************)
EXTENDS TurnLifecycle, TLAPS, FiniteSetTheorems

-----------------------------------------------------------------------------
(* Types.  What an attempt was asked is known once it started.  Only ids   *)
(* minted by an attempt that started are claimed or stored, and the        *)
(* message an attempt speaks of is one of those once it has read a claim;  *)
(* without that StoreTurn would store nothing sensible.                    *)

Started == {a \in Attempts : pc[a] # "idle"}

InputKnown == \A a \in Started : input[a] \in Inputs

RowsKnown ==
  /\ \A r \in Requests : claim[r] \in Started \cup {None}
  /\ \A m \in Attempts : status[m] # "absent" => m \in Started

TurnKnown ==
  \A a \in Attempts :
    pc[a] \in {"adopt", "adopted", "materialize", "readBack", "replay"} => turn[a] \in Started

Typed == TypeOK /\ InputKnown /\ RowsKnown /\ TurnKnown

(* The ids of a turn are names of attempts. *)
LEMMA IdsAreAttempts ==
  ASSUME input \in [Attempts -> Inputs \cup {NoInput}], NEW a \in Attempts
  PROVE  ConversationOf(a) \in Attempts /\ UserMessageOf(a) \in Attempts /\ C(a) \in Attempts
  BY DEF Inputs, NoInput, ConversationOf, UserMessageOf, C

(* Every operation of the lock keeps the type of its rows. *)
LEMMA LockOperationsKeepType ==
  ASSUME LockTypeOK, NEW c \in Attempts, NEW r \in Attempts,
         NEW s \in {"searching", "reading", "writing"},
         \/ Acquire(c, r) \/ Release(c, r) \/ Cancel(c, r) \/ SetStage(c, r, s)
  PROVE  LockTypeOK'
<1> USE DEF LockTypeOK, LockRow, Stages, Counts
<1>1. lock[c] \in LockRow
  OBVIOUS
<1>2. CASE Acquire(c, r)
  BY <1>2 DEF Acquire, Unlocked
<1>3. CASE Release(c, r)
  BY <1>3 DEF Release, Unlocked
<1>4. CASE Cancel(c, r)
  BY <1>4, <1>1 DEF Cancel
<1>5. CASE SetStage(c, r, s)
  <2>1. StoredCount(lock[c].stage, s, lock[c].count) \in Counts
    BY <1>1 DEF StoredCount
  <2> DEFINE count == StoredCount(lock[c].stage, s, lock[c].count)
  <2>2. lock' = lock \/ lock' = [lock EXCEPT ![c].stage = s, ![c].count = count]
    BY <1>5 DEF SetStage
  <2> HIDE DEF count
  <2>3. count \in Counts
    BY <2>1 DEF count
  <2> QED
    BY <2>2, <2>3, <1>1
<1> QED
  BY <1>2, <1>3, <1>4, <1>5

(* The initial state is typed. *)
LEMMA TypedInit == Init => Typed
<1> SUFFICES ASSUME Init PROVE Typed
  OBVIOUS
<1>1. LockTypeOK
  BY DEF Init, LockInit, LockTypeOK, LockRow, Unlocked, Stages, Counts
<1>2. TypeOK
  BY <1>1 DEF Init, TypeOK, FailureCodes, Program, Statuses
<1>3. InputKnown /\ RowsKnown /\ TurnKnown
  BY DEF Init, InputKnown, RowsKnown, TurnKnown, Started
<1> QED
  BY <1>2, <1>3 DEF Typed

(* The steps that only read the store and move on. *)
Quiet(a) ==
  \/ Lookup(a) \/ ReadClaim(a) \/ CheckAdopted(a) \/ ReadWinner(a) \/ ReadBack(a) \/ Replay(a)
  \/ LockBusy(a) \/ CheckHandle(a) \/ AgentEnds(a) \/ CheckStop(a)
  \/ Complete(a) \/ CheckWriter(a) \/ Reload(a) \/ Catch(a)

(* A step that only reads keeps the types. *)
LEMMA TypedQuiet ==
  ASSUME Typed, NEW a \in Attempts, Quiet(a)
  PROVE  Typed'
<1> USE DEF Program, Active, Claiming, Running, Ending, Replies, FailureCodes, At, Goto
<1>0. TypeOK /\ InputKnown /\ RowsKnown /\ TurnKnown
  BY DEF Typed
<1>1. UNCHANGED <<input, aborted, claim, conversations, users, status, createdAt,
                  completionClaims, late, deleted, faulted, lock>>
  BY DEF Quiet, Lookup, ReadClaim, CheckAdopted, ReadWinner, ReadBack, Replay, LockBusy, CheckHandle,
         AgentEnds, CheckStop, Complete, CheckWriter, Reload, Catch, rows, world
<1>2. /\ pc' \in [Attempts -> Program]
      /\ turn' \in [Attempts -> Attempts \cup {None}]
      /\ why' \in [Attempts -> FailureCodes]
      /\ Started' = Started
      /\ TurnKnown'
  <2>1. CASE Lookup(a)
    BY <1>0, <2>1 DEF Lookup, TypeOK, InputKnown, RowsKnown, TurnKnown, Started, MessagesOf
  <2>2. CASE ReadClaim(a)
    BY <1>0, <2>2 DEF ReadClaim, TypeOK, InputKnown, RowsKnown, TurnKnown, Started, Inputs
  <2>3. CASE ReadWinner(a)
    BY <1>0, <2>3 DEF ReadWinner, TypeOK, InputKnown, RowsKnown, TurnKnown, Started, Inputs
  <2>4. CASE ReadBack(a)
    BY <1>0, <2>4 DEF ReadBack, TypeOK, InputKnown, RowsKnown, TurnKnown, Started, FoundBy, MessagesOf
  <2>5. CASE Replay(a)
    BY <1>0, <2>5 DEF Replay, TypeOK, InputKnown, RowsKnown, TurnKnown, Started
  <2>6. CASE LockBusy(a)
    BY <1>0, <2>6 DEF LockBusy, TypeOK, InputKnown, RowsKnown, TurnKnown, Started
  <2>7. CASE CheckHandle(a)
    BY <1>0, <2>7 DEF CheckHandle, TypeOK, InputKnown, RowsKnown, TurnKnown, Started
  <2>8. CASE AgentEnds(a)
    BY <1>0, <2>8 DEF AgentEnds, TypeOK, InputKnown, RowsKnown, TurnKnown, Started
  <2>9. CASE CheckStop(a)
    BY <1>0, <2>9 DEF CheckStop, TypeOK, InputKnown, RowsKnown, TurnKnown, Started
  <2>10. CASE Complete(a)
    BY <1>0, <2>10 DEF Complete, TypeOK, InputKnown, RowsKnown, TurnKnown, Started
  <2>11. CASE CheckWriter(a)
    BY <1>0, <2>11 DEF CheckWriter, TypeOK, InputKnown, RowsKnown, TurnKnown, Started
  <2>12. CASE Reload(a)
    BY <1>0, <2>12 DEF Reload, TypeOK, InputKnown, RowsKnown, TurnKnown, Started
  <2>13. CASE Catch(a)
    BY <1>0, <2>13 DEF Catch, TypeOK, InputKnown, RowsKnown, TurnKnown, Started
  <2>14. CASE CheckAdopted(a)
    BY <1>0, <2>14 DEF CheckAdopted, TypeOK, InputKnown, RowsKnown, TurnKnown, Started
  <2> QED
    BY <2>1, <2>2, <2>3, <2>4, <2>5, <2>6, <2>7, <2>8, <2>9, <2>10, <2>11, <2>12, <2>13, <2>14
       DEF Quiet
<1>3. InputKnown' /\ RowsKnown'
  BY <1>0, <1>1, <1>2 DEF InputKnown, RowsKnown
<1> QED
  BY <1>0, <1>1, <1>2, <1>3 DEF Typed, TypeOK, LockTypeOK

(* Arriving fixes what was asked. *)
LEMMA TypedArrive ==
  ASSUME Typed, NEW a \in Attempts, Arrive(a)
  PROVE  Typed'
<1> USE DEF At, Goto
<1>0. TypeOK /\ InputKnown /\ RowsKnown /\ TurnKnown
  BY DEF Typed
<1>1. UNCHANGED <<turn, why, aborted, claim, conversations, users, status, createdAt,
                  completionClaims, late, deleted, faulted, lock>>
  BY DEF Arrive, Ask, Retry, rows, world
<1>2. pc[a] = "idle" /\ pc' = [pc EXCEPT ![a] = "lookup"]
  BY DEF Arrive, Ask, Retry
<1>3. PICK i \in Inputs : input' = [input EXCEPT ![a] = i]
  <2>1. PICK r \in Requests, p \in Principals :
          \/ \E q \in Payloads, c \in Attempts \cup {None} : Ask(a, r, p, q, c)
          \/ \E m \in Attempts : Retry(a, r, p, m)
    BY DEF Arrive
  <2>2. CASE \E q \in Payloads, c \in Attempts \cup {None} : Ask(a, r, p, q, c)
    BY <2>2 DEF Ask, Inputs
  <2>3. ASSUME NEW m \in Attempts, Retry(a, r, p, m)
        PROVE  \E i \in Inputs : input' = [input EXCEPT ![a] = i]
    <3>1. ConversationOf(m) \in Attempts /\ UserMessageOf(m) \in Attempts
      BY <1>0, IdsAreAttempts DEF TypeOK
    <3>2. input[m].payload \in Payloads
      BY <1>0, <2>3 DEF Retry, InputKnown, RowsKnown, Started, Inputs, FailureCodes
    <3>3. Cardinality(AttemptsAt(UserMessageOf(m))) + 1 \in Nat
      BY FS_Subset, FS_CardinalityType, AttemptsAreFinite DEF AttemptsAt
    <3> QED
      BY <2>3, <3>1, <3>2, <3>3 DEF Retry, Inputs
  <2> QED
    BY <2>1, <2>2, <2>3
<1>4. input' \in [Attempts -> Inputs \cup {NoInput}] /\ InputKnown' /\ RowsKnown' /\ TurnKnown'
  BY <1>0, <1>1, <1>2, <1>3 DEF TypeOK, InputKnown, RowsKnown, TurnKnown, Started
<1>5. pc' \in [Attempts -> Program]
  BY <1>0, <1>2 DEF TypeOK, Program, Active, Claiming
<1> QED
  BY <1>0, <1>1, <1>4, <1>5 DEF Typed, TypeOK, LockTypeOK

(* The steps that write the store. *)
Stores(a) ==
  \/ InsertClaim(a) \/ Adopt(a) \/ Materialize(a) \/ Refuse(a) \/ Fail(a)
  \/ ClaimCompletion(a) \/ Commit(a) \/ LoseCommitReply(a)

(* A step that writes rows keeps the types. *)
LEMMA TypedStores ==
  ASSUME Typed, NEW a \in Attempts, Stores(a)
  PROVE  Typed'
<1> USE DEF Program, Active, Claiming, Running, Ending, Replies, At, Goto
<1>0. TypeOK /\ InputKnown /\ RowsKnown /\ TurnKnown
  BY DEF Typed
<1>1. UNCHANGED <<input, turn, why, aborted, late, deleted, lock>>
  BY DEF Stores, InsertClaim, Adopt, Materialize, Refuse, Fail, ClaimCompletion, Commit,
         LoseCommitReply, rows, world
<1>2. /\ pc[a] # "idle"
      /\ pc' \in [Attempts -> Program]
      /\ faulted' \in SUBSET Attempts
      /\ Started' = Started
      /\ TurnKnown'
  <2>1. CASE InsertClaim(a)
    BY <1>0, <1>1, <2>1 DEF InsertClaim, TypeOK, TurnKnown, Started, world
  <2>2. CASE Adopt(a)
    BY <1>0, <1>1, <2>2 DEF Adopt, TypeOK, TurnKnown, Started, world
  <2>3. CASE Materialize(a)
    BY <1>0, <1>1, <2>3 DEF Materialize, TypeOK, TurnKnown, Started, world
  <2>4. CASE Refuse(a)
    BY <1>0, <1>1, <2>4 DEF Refuse, TypeOK, TurnKnown, Started, world
  <2>5. CASE Fail(a)
    BY <1>0, <1>1, <2>5 DEF Fail, TypeOK, TurnKnown, Started, world
  <2>6. CASE ClaimCompletion(a)
    BY <1>0, <1>1, <2>6 DEF ClaimCompletion, TypeOK, TurnKnown, Started, world
  <2>7. CASE Commit(a)
    BY <1>0, <1>1, <2>7 DEF Commit, TypeOK, TurnKnown, Started, world
  <2>8. CASE LoseCommitReply(a)
    BY <1>0, <1>1, <2>8 DEF LoseCommitReply, Fault, TypeOK, TurnKnown, Started, world
  <2> QED
    BY <2>1, <2>2, <2>3, <2>4, <2>5, <2>6, <2>7, <2>8 DEF Stores
<1>3. /\ claim' \in [Requests -> Attempts \cup {None}]
      /\ conversations' \in SUBSET Attempts
      /\ users' \in SUBSET Attempts
      /\ status' \in [Attempts -> Statuses]
      /\ createdAt' \in [Attempts -> Nat]
      /\ completionClaims' \in SUBSET Attempts
      /\ RowsKnown'
  <2>1. CASE InsertClaim(a)
    <3>1. a \in Started
      BY <1>2 DEF Started
    <3>2. PICK x \in Started \cup {None} : claim' = [claim EXCEPT ![input[a].request] = x]
      <4>1. input[a].request \in Requests
        BY <1>0, <3>1 DEF InputKnown, Inputs
      <4> QED
        BY <1>0, <2>1, <3>1, <4>1 DEF InsertClaim, RowsKnown
    <3>3. UNCHANGED <<conversations, users, status, createdAt, completionClaims>>
      BY <2>1 DEF InsertClaim
    <3>4. Started \subseteq Attempts
      BY DEF Started
    <3> QED
      BY <1>0, <1>2, <3>2, <3>3, <3>4 DEF TypeOK, RowsKnown
  <2>2. CASE Adopt(a) \/ Materialize(a)
    <3>1. turn[a] \in Started /\ input[a].at \in Nat
      BY <1>0, <2>2 DEF Adopt, Materialize, TurnKnown, InputKnown, Started, Inputs
    <3>2. ConversationOf(turn[a]) \in Attempts /\ UserMessageOf(turn[a]) \in Attempts
      BY <1>0, <3>1, IdsAreAttempts DEF TypeOK, Started
    <3>3. StoreTurn(turn[a], input[a].at) /\ UNCHANGED <<claim, completionClaims>>
      BY <2>2 DEF Adopt, Materialize
    <3> DEFINE w == turn[a]
    <3>4. /\ \A m \in Attempts : m # w => status'[m] = status[m] /\ createdAt'[m] = createdAt[m]
          /\ status'[w] \in {status[w], "pending"}
          /\ createdAt'[w] \in {createdAt[w], input[a].at}
          /\ status' = [m \in Attempts |-> status'[m]]
          /\ createdAt' = [m \in Attempts |-> createdAt'[m]]
      BY <1>0, <3>1, <3>3 DEF StoreTurn, TypeOK, Started
    <3>5. status' \in [Attempts -> Statuses] /\ createdAt' \in [Attempts -> Nat]
      <4>1. \A m \in Attempts : status'[m] \in Statuses /\ createdAt'[m] \in Nat
        BY <1>0, <3>1, <3>4 DEF TypeOK, Statuses, Started
      <4> QED
        BY <3>4, <4>1
    <3>6. conversations' \in SUBSET Attempts /\ users' \in SUBSET Attempts
      BY <1>0, <3>2, <3>3 DEF StoreTurn, TypeOK
    <3> QED
      BY <1>0, <1>2, <3>1, <3>3, <3>4, <3>5, <3>6 DEF TypeOK, RowsKnown
  <2>3. CASE Refuse(a) \/ Fail(a)
    <3>1. PICK code \in FailureCodes : FailTurn(a, code)
      BY <1>0, <2>3 DEF Refuse, Fail, TypeOK, FailureCodes
    <3>2. UNCHANGED <<claim, conversations, users, createdAt, completionClaims>>
      BY <2>3 DEF Refuse, Fail
    <3> QED
      BY <1>0, <1>2, <3>1, <3>2 DEF FailTurn, TypeOK, RowsKnown, Statuses
  <2>4. CASE ClaimCompletion(a)
    BY <1>0, <1>2, <2>4 DEF ClaimCompletion, TypeOK, RowsKnown
  <2>5. CASE Commit(a) \/ LoseCommitReply(a)
    <3>1. CommitAnswer(a) /\ UNCHANGED <<claim, conversations, users, createdAt, completionClaims>>
      BY <2>5 DEF Commit, LoseCommitReply
    <3> QED
      BY <1>0, <1>2, <3>1 DEF CommitAnswer, TypeOK, RowsKnown, Statuses
  <2> QED
    BY <2>1, <2>2, <2>3, <2>4, <2>5 DEF Stores
<1>4. InputKnown'
  BY <1>0, <1>1, <1>2 DEF InputKnown
<1> QED
  BY <1>0, <1>1, <1>2, <1>3, <1>4 DEF Typed, TypeOK, LockTypeOK

(* The steps that call the lock. *)
CallsLock(a) ==
  \/ TakeLock(a) \/ GiveUp(a) \/ MarkSearching(a) \/ MarkReading(a) \/ MarkWriting(a)
  \/ ReleaseAnswered(a) \/ Unlock(a) \/ WritingArrives(a) \/ LoseRelease(a)

(* A step that calls the lock keeps the types. *)
LEMMA TypedCallsLock ==
  ASSUME Typed, NEW a \in Attempts, CallsLock(a)
  PROVE  Typed'
<1> USE DEF Program, Active, Claiming, Running, Ending, Replies, At, Goto
<1>0. TypeOK /\ InputKnown /\ RowsKnown /\ TurnKnown
  BY DEF Typed
<1>1. UNCHANGED <<input, turn, why, claim, conversations, users, status, createdAt,
                  completionClaims, deleted>>
  BY DEF CallsLock, TakeLock, GiveUp, MarkSearching, MarkReading, MarkWriting, ReleaseAnswered,
         Unlock, WritingArrives, LoseRelease, rows, world
<1>2. /\ pc' \in [Attempts -> Program]
      /\ late' \in SUBSET Attempts
      /\ faulted' \in SUBSET Attempts
      /\ Started' = Started
      /\ TurnKnown'
  <2>1. CASE TakeLock(a)
    BY <1>0, <1>1, <2>1 DEF TakeLock, TypeOK, TurnKnown, Started, world
  <2>2. CASE GiveUp(a)
    BY <1>0, <1>1, <2>2 DEF GiveUp, TypeOK, TurnKnown, Started, world
  <2>3. CASE MarkSearching(a)
    BY <1>0, <1>1, <2>3 DEF MarkSearching, TypeOK, TurnKnown, Started, world
  <2>4. CASE MarkReading(a)
    BY <1>0, <1>1, <2>4 DEF MarkReading, TypeOK, TurnKnown, Started, world
  <2>5. CASE MarkWriting(a)
    BY <1>0, <1>1, <2>5 DEF MarkWriting, TypeOK, TurnKnown, Started, world
  <2>6. CASE ReleaseAnswered(a)
    BY <1>0, <1>1, <2>6 DEF ReleaseAnswered, TypeOK, TurnKnown, Started, world
  <2>7. CASE Unlock(a)
    BY <1>0, <1>1, <2>7 DEF Unlock, ReplyFor, TypeOK, TurnKnown, Started, world
  <2>8. CASE WritingArrives(a)
    BY <1>0, <1>1, <2>8 DEF WritingArrives, TypeOK, TurnKnown, Started, world
  <2>9. CASE LoseRelease(a)
    BY <1>0, <1>1, <2>9 DEF LoseRelease, Fault, ReplyFor, TypeOK, TurnKnown, Started, world
  <2> QED
    BY <2>1, <2>2, <2>3, <2>4, <2>5, <2>6, <2>7, <2>8, <2>9 DEF CallsLock
<1>3. LockTypeOK'
  <2>1. C(a) \in Attempts
    BY <1>0, IdsAreAttempts DEF TypeOK
  <2>2. \/ Acquire(C(a), a) \/ Release(C(a), a) \/ UNCHANGED lock
        \/ SetStage(C(a), a, "searching") \/ SetStage(C(a), a, "reading")
        \/ SetStage(C(a), a, "writing")
    BY DEF CallsLock, TakeLock, GiveUp, MarkSearching, MarkReading, MarkWriting,
           ReleaseAnswered, Unlock, WritingArrives, LoseRelease
  <2>3. LockTypeOK
    BY <1>0 DEF TypeOK
  <2>4. CASE UNCHANGED lock
    BY <2>3, <2>4 DEF LockTypeOK
  <2> QED
    BY <2>1, <2>2, <2>3, <2>4, LockOperationsKeepType
<1>4. InputKnown' /\ RowsKnown'
  BY <1>0, <1>1, <1>2 DEF InputKnown, RowsKnown
<1>5. aborted' \in SUBSET Attempts
  BY <1>0 DEF CallsLock, TakeLock, GiveUp, MarkSearching, MarkReading, MarkWriting, ReleaseAnswered,
              Unlock, WritingArrives, LoseRelease, StopWatching, TypeOK
<1> QED
  BY <1>0, <1>1, <1>2, <1>3, <1>4, <1>5 DEF Typed, TypeOK

(* The steps that touch neither the store nor the lock. *)
LEMMA TypedAlone ==
  ASSUME Typed, NEW a \in Attempts, Watch(a) \/ SendWriting(a) \/ Die(a)
  PROVE  Typed'
<1>0. TypeOK /\ InputKnown /\ RowsKnown /\ TurnKnown
  BY DEF Typed
<1>1. UNCHANGED <<input, turn, why, claim, conversations, users, status, createdAt,
                  completionClaims, deleted, lock>>
  BY DEF Watch, SendWriting, Die, rows, world
<1>2. /\ pc' \in [Attempts -> Program]
      /\ Started' = Started
      /\ TurnKnown'
  BY <1>0, <1>1 DEF Watch, Watched, SendWriting, Die, TypeOK, TurnKnown, Started, Goto,
                    Program, Active, Claiming, Running, Ending
<1>3. aborted' \in SUBSET Attempts /\ late' \in SUBSET Attempts /\ faulted' \in SUBSET Attempts
  BY <1>0 DEF Watch, SendWriting, Die, StopWatching, Fault, world, TypeOK
<1>4. InputKnown' /\ RowsKnown'
  BY <1>0, <1>1, <1>2 DEF InputKnown, RowsKnown
<1> QED
  BY <1>0, <1>1, <1>2, <1>3, <1>4 DEF Typed, TypeOK, LockTypeOK

(* A stop, a deletion or a hand-held lock keeps the types. *)
LEMMA TypedOthers ==
  ASSUME Typed, Others
  PROVE  Typed'
<1>0. TypeOK /\ InputKnown /\ RowsKnown /\ TurnKnown
  BY DEF Typed
<1>1. PICK c \in Attempts :
        \/ StopByRequest(c) \/ StopByRun(c) \/ DeleteConversation(c)
        \/ \E r \in Attempts : OwnerLock(c, r) \/ OwnerUnlock(c, r)
  BY DEF Others
<1>2. UNCHANGED <<input, pc, turn, why, aborted, late, faulted>>
  BY <1>1 DEF StopByRequest, StopByRun, DeleteConversation, OwnerLock, OwnerUnlock, rows, world
<1>3. Started' = Started /\ InputKnown' /\ TurnKnown'
  BY <1>0, <1>2 DEF Started, InputKnown, TurnKnown
<1>4. CASE StopByRequest(c)
  <2>1. RowsKnown' /\ status' \in [Attempts -> Statuses]
    BY <1>0, <1>3, <1>4 DEF StopByRequest, FailTurn, RowsKnown, TypeOK, Statuses, FailureCodes
  <2> QED
    BY <1>0, <1>2, <1>3, <1>4, <2>1 DEF StopByRequest, world, Typed, TypeOK, LockTypeOK
<1>5. CASE StopByRun(c) \/ \E r \in Attempts : OwnerLock(c, r) \/ OwnerUnlock(c, r)
  <2>1. /\ UNCHANGED <<claim, conversations, users, status, createdAt, completionClaims, deleted>>
        /\ \E r \in Attempts : Cancel(c, r) \/ Acquire(c, r) \/ Release(c, r)
    <3>1. lock[c].run \in Attempts \cup {None}
      BY <1>0 DEF TypeOK, LockTypeOK, LockRow
    <3> QED
      BY <1>5, <3>1 DEF StopByRun, OwnerLock, OwnerUnlock, rows, world
  <2>2. LockTypeOK'
    BY <1>0, <2>1, LockOperationsKeepType DEF TypeOK
  <2> QED
    BY <1>0, <1>2, <1>3, <2>1, <2>2 DEF Typed, TypeOK, RowsKnown
<1>6. CASE DeleteConversation(c)
  <2> DEFINE gone == {m \in Attempts : input[m] # NoInput /\ ConversationOf(m) = c}
  <2>1. /\ claim' = [r \in Requests |-> IF claim[r] \in gone THEN None ELSE claim[r]]
        /\ users' = users \ gone
        /\ status' = [m \in Attempts |-> IF m \in gone THEN "absent" ELSE status[m]]
        /\ createdAt' = [m \in Attempts |-> IF m \in gone THEN 0 ELSE createdAt[m]]
        /\ completionClaims' = completionClaims \ gone
        /\ conversations' = conversations \ {c}
        /\ deleted' = deleted \cup {c}
        /\ UNCHANGED lock
    BY <1>6 DEF DeleteConversation
  <2> HIDE DEF gone
  <2>2. RowsKnown' /\ status' \in [Attempts -> Statuses] /\ claim' \in [Requests -> Attempts \cup {None}]
    BY <1>0, <1>3, <2>1 DEF RowsKnown, TypeOK, Statuses
  <2>3. createdAt' \in [Attempts -> Nat] /\ completionClaims' \in SUBSET Attempts
        /\ users' \in SUBSET Attempts /\ conversations' \in SUBSET Attempts
        /\ deleted' \in SUBSET Attempts
    BY <1>0, <2>1 DEF TypeOK
  <2> QED
    BY <1>0, <1>2, <1>3, <2>1, <2>2, <2>3 DEF Typed, TypeOK, LockTypeOK
<1> QED
  BY <1>1, <1>4, <1>5, <1>6

(* Every step of an attempt belongs to one of the groups above. *)
LEMMA StepsByKind ==
  ASSUME NEW a \in Attempts, Step(a) \/ Aside(a) \/ Faulty(a)
  PROVE  Quiet(a) \/ Stores(a) \/ CallsLock(a) \/ Watch(a) \/ SendWriting(a) \/ Die(a)
  BY DEF Step, Aside, Faulty, Quiet, Stores, CallsLock

(* The typing is inductive. *)
LEMMA TypedNext ==
  ASSUME Typed, [Next]_vars
  PROVE  Typed'
<1>1. CASE \E a \in Attempts : Arrive(a) \/ Step(a) \/ Aside(a) \/ Faulty(a)
  BY <1>1, StepsByKind, TypedArrive, TypedQuiet, TypedStores, TypedCallsLock, TypedAlone
<1>2. CASE Others
  BY <1>2, TypedOthers
<1>3. CASE UNCHANGED vars
  BY <1>3 DEF vars, Typed, TypeOK, LockTypeOK, InputKnown, RowsKnown, TurnKnown, Started
<1> QED
  BY <1>1, <1>2, <1>3 DEF Next

(* And so it holds in every reachable state. *)
LEMMA AlwaysTyped == Spec => []Typed
  BY TypedInit, TypedNext, PTL DEF Spec

(* Every variable keeps its type, in every interleaving of any number of   *)
(* attempts, stops, deletions and faults.                                  *)
THEOREM TypeCorrect == Spec => []TypeOK
<1>1. Typed => TypeOK
  BY DEF Typed
<1> QED
  BY <1>1, AlwaysTyped, PTL

-----------------------------------------------------------------------------
(* The lock.  HolderOwnsLock is inductive on its own: a granted acquire    *)
(* finds no other holder, and a release frees the releaser's row only.     *)

Holds(a) == pc[a] \in Running \/ (pc[a] \in Ending /\ a \notin faulted)

(* HolderOwnsLock in terms of Holds. *)
LEMMA HoldersOwn ==
  HolderOwnsLock <=> \A a \in Attempts : Holds(a) => lock[C(a)].run = a
  BY DEF HolderOwnsLock, Holds

(* What the operations of the lock do to the run that a row names. *)
LEMMA RunOfARow ==
  ASSUME LockTypeOK, NEW c \in Attempts, NEW r \in Attempts, NEW d \in Attempts
  PROVE  /\ Acquire(c, r) => lock'[d].run = IF d = c THEN r ELSE lock[d].run
         /\ Release(c, r) => lock'[d].run = IF d = c /\ lock[c].run = r THEN None ELSE lock[d].run
         /\ Cancel(c, r) => lock'[d].run = lock[d].run
         /\ \A s \in Stages : SetStage(c, r, s) => lock'[d].run = lock[d].run
<1> USE DEF LockTypeOK, LockRow
<1>1. Acquire(c, r) => lock'[d].run = IF d = c THEN r ELSE lock[d].run
  BY DEF Acquire, Unlocked
<1>2. Release(c, r) => lock'[d].run = IF d = c /\ lock[c].run = r THEN None ELSE lock[d].run
  BY DEF Release, CanRelease, Unlocked
<1>3. Cancel(c, r) => lock'[d].run = lock[d].run
  BY DEF Cancel
<1>4. ASSUME NEW s \in Stages, SetStage(c, r, s)
      PROVE  lock'[d].run = lock[d].run
  <2> DEFINE count == StoredCount(lock[c].stage, s, lock[c].count)
  <2>1. lock' = lock \/ lock' = [lock EXCEPT ![c].stage = s, ![c].count = count]
    BY <1>4 DEF SetStage
  <2> HIDE DEF count
  <2> QED
    BY <2>1
<1> QED
  BY <1>1, <1>2, <1>3, <1>4

(* A step that leaves the lock alone and makes nobody a holder. *)
LEMMA NobodyBecomesHolder ==
  ASSUME HolderOwnsLock, lock' = lock,
         \A b \in Attempts : Holds(b)' => Holds(b) /\ input'[b] = input[b]
  PROVE  HolderOwnsLock'
  BY DEF HolderOwnsLock, Holds, C, ConversationOf

(* A step of an attempt that does not call the lock keeps the mutual exclusion. *)
LEMMA OwnerQuiet ==
  ASSUME Typed, HolderOwnsLock, NEW a \in Attempts,
         Quiet(a) \/ Stores(a) \/ Watch(a) \/ SendWriting(a) \/ Die(a) \/ Arrive(a)
  PROVE  HolderOwnsLock'
<1> USE DEF Running, Ending, Claiming, Replies, At, Goto, Holds
<1>0. pc \in [Attempts -> Program]
  BY DEF Typed, TypeOK
<1>1. ASSUME NEW b \in Attempts, Holds(b)'
      PROVE  Holds(b) /\ input'[b] = input[b]
  <2>1. CASE Quiet(a)
    <3>1. CASE Lookup(a)
      BY <1>0, <1>1, <3>1 DEF Lookup, world
    <3>2. CASE ReadClaim(a)
      BY <1>0, <1>1, <3>2 DEF ReadClaim, world
    <3>3. CASE ReadWinner(a)
      BY <1>0, <1>1, <3>3 DEF ReadWinner, world
    <3>4. CASE ReadBack(a)
      BY <1>0, <1>1, <3>4 DEF ReadBack, world
    <3>5. CASE Replay(a)
      BY <1>0, <1>1, <3>5 DEF Replay, world
    <3>6. CASE LockBusy(a)
      BY <1>0, <1>1, <3>6 DEF LockBusy, world
    <3>7. CASE CheckHandle(a)
      BY <1>0, <1>1, <3>7 DEF CheckHandle, world
    <3>8. CASE AgentEnds(a)
      BY <1>0, <1>1, <3>8 DEF AgentEnds, world
    <3>9. CASE CheckStop(a)
      BY <1>0, <1>1, <3>9 DEF CheckStop, world
    <3>10. CASE Complete(a)
      BY <1>0, <1>1, <3>10 DEF Complete, world
    <3>11. CASE CheckWriter(a)
      BY <1>0, <1>1, <3>11 DEF CheckWriter, world
    <3>12. CASE Reload(a)
      BY <1>0, <1>1, <3>12 DEF Reload, world
    <3>13. CASE Catch(a)
      BY <1>0, <1>1, <3>13 DEF Catch, world
    <3>14. CASE CheckAdopted(a)
      BY <1>0, <1>1, <3>14 DEF CheckAdopted, world
    <3> QED
      BY <2>1, <3>1, <3>2, <3>3, <3>4, <3>5, <3>6, <3>7, <3>8, <3>9, <3>10, <3>11, <3>12, <3>13, <3>14
         DEF Quiet
  <2>2. CASE Stores(a)
    BY <1>0, <1>1, <2>2 DEF Stores, InsertClaim, Adopt, Materialize, Refuse, Fail,
       ClaimCompletion, Commit, LoseCommitReply, Fault, world
  <2>3. CASE Watch(a) \/ SendWriting(a) \/ Die(a)
    BY <1>0, <1>1, <2>3 DEF Watch, SendWriting, Die, Fault, world
  <2>4. CASE Arrive(a)
    <3>1. /\ pc[a] = "idle" /\ pc' = [pc EXCEPT ![a] = "lookup"] /\ faulted' = faulted
          /\ \A x \in Attempts \ {a} : input'[x] = input[x]
      <4>1. input \in [Attempts -> Inputs \cup {NoInput}]
        BY DEF Typed, TypeOK
      <4> QED
        BY <2>4, <4>1 DEF Arrive, Ask, Retry, world
    <3> QED
      BY <1>0, <1>1, <3>1
  <2> QED
    BY <2>1, <2>2, <2>3, <2>4
<1>2. lock' = lock
  BY DEF Quiet, Lookup, ReadClaim, CheckAdopted, ReadWinner, ReadBack, Replay, LockBusy, CheckHandle,
     AgentEnds, CheckStop, Complete, CheckWriter, Reload, Catch, Stores, InsertClaim, Adopt,
     Materialize, Refuse, Fail, ClaimCompletion, Commit, LoseCommitReply, Watch, SendWriting,
     Die, Arrive, Ask, Retry
<1> QED
  BY <1>1, <1>2, NobodyBecomesHolder

(* So does a step that does: only a granted acquire makes a holder. *)
LEMMA OwnerCallsLock ==
  ASSUME Typed, HolderOwnsLock, NEW a \in Attempts, CallsLock(a)
  PROVE  HolderOwnsLock'
<1> USE DEF Running, Ending, Claiming, Replies, At, Goto
<1>0. /\ pc \in [Attempts -> Program] /\ LockTypeOK
      /\ \A b \in Attempts : C(b) \in Attempts
      /\ \A b \in Attempts : Holds(b) => lock[C(b)].run = b
  BY IdsAreAttempts, HoldersOwn DEF Typed, TypeOK
<1>1. input' = input
  BY DEF CallsLock, TakeLock, GiveUp, MarkSearching, MarkReading, MarkWriting, ReleaseAnswered,
         Unlock, WritingArrives, LoseRelease
<1>2. SUFFICES ASSUME NEW b \in Attempts, Holds(b)'
               PROVE  lock'[C(b)].run = b
  BY <1>1 DEF HolderOwnsLock, Holds, C, ConversationOf
<1>3. CASE TakeLock(a)
  <2>1. CASE b = a
    BY <1>0, <1>3, <2>1, RunOfARow DEF TakeLock
  <2>2. CASE b # a
    <3>1. Holds(b)
      BY <1>0, <1>2, <1>3, <2>2 DEF TakeLock, Holds, world
    <3>2. lock[C(b)].run = b
      BY <1>0, <3>1
    <3>3. C(b) # C(a)
      BY <1>3, <2>2, <3>2, NoneIsNotAnAttempt DEF TakeLock, Acquire, CanAcquire
    <3> QED
      BY <1>0, <1>3, <3>2, <3>3, RunOfARow DEF TakeLock
  <2> QED
    BY <2>1, <2>2
<1>4. CASE MarkSearching(a) \/ MarkReading(a) \/ MarkWriting(a) \/ WritingArrives(a)
  <2>1. Holds(b)
    BY <1>0, <1>2, <1>4 DEF MarkSearching, MarkReading, MarkWriting, WritingArrives, Holds, world
  <2>2. lock' = lock \/ \E s \in Stages : SetStage(C(a), a, s)
    BY <1>4 DEF MarkSearching, MarkReading, MarkWriting, WritingArrives, Stages
  <2> QED
    BY <1>0, <2>1, <2>2, RunOfARow
<1>5. CASE GiveUp(a) \/ ReleaseAnswered(a) \/ Unlock(a) \/ LoseRelease(a)
  <2>1. Release(C(a), a) \/ UNCHANGED lock
    BY <1>5 DEF GiveUp, ReleaseAnswered, Unlock, LoseRelease
  <2>2. b # a
    <3>1. CASE ReleaseAnswered(a)
      BY <1>0, <1>2, <3>1 DEF ReleaseAnswered, CanRelease, Holds
    <3>2. CASE GiveUp(a)
      BY <1>0, <1>2, <3>2 DEF GiveUp, Holds
    <3>3. CASE Unlock(a)
      BY <1>0, <1>2, <3>3 DEF Unlock, ReplyFor, Holds
    <3>4. CASE LoseRelease(a)
      BY <1>0, <1>2, <3>4 DEF LoseRelease, Fault, ReplyFor, Holds
    <3> QED
      BY <1>5, <3>1, <3>2, <3>3, <3>4
  <2>3. Holds(b)
    BY <1>0, <1>2, <1>5, <2>2 DEF GiveUp, ReleaseAnswered, Unlock, LoseRelease, Fault, Holds, world
  <2>4. lock[C(b)].run = b
    BY <1>0, <2>3
  <2> QED
    BY <1>0, <2>1, <2>2, <2>4, RunOfARow
<1> QED
  BY <1>3, <1>4, <1>5 DEF CallsLock

(* So does what others do, unless they free the lock by hand. *)
LEMMA OwnerOthers ==
  ASSUME Typed, HolderOwnsLock, "lock" \notin Allowed, Others
  PROVE  HolderOwnsLock'
<1>0. /\ LockTypeOK
      /\ \A b \in Attempts : C(b) \in Attempts
      /\ \A b \in Attempts : Holds(b) => lock[C(b)].run = b
  BY IdsAreAttempts, HoldersOwn DEF Typed, TypeOK
<1>1. PICK c \in Attempts : StopByRequest(c) \/ StopByRun(c) \/ DeleteConversation(c)
  BY DEF Others, OwnerLock, OwnerUnlock
<1>2. UNCHANGED <<input, pc, faulted>>
  BY <1>1 DEF StopByRequest, StopByRun, DeleteConversation, world
<1>3. \A d \in Attempts : lock'[d].run = lock[d].run
  <2>1. CASE StopByRequest(c) \/ DeleteConversation(c)
    BY <2>1 DEF StopByRequest, DeleteConversation
  <2>2. CASE StopByRun(c)
    <3>1. lock[c].run \in Attempts
      BY <1>0, <2>2 DEF StopByRun, LockTypeOK, LockRow
    <3> QED
      BY <1>0, <2>2, <3>1, RunOfARow DEF StopByRun
  <2> QED
    BY <1>1, <2>1, <2>2
<1> QED
  BY <1>0, <1>2, <1>3 DEF HolderOwnsLock, Holds, C, ConversationOf

(* While an attempt runs a turn, the lock of its conversation names it: no *)
(* two attempts run turns of one conversation at the same time, however    *)
(* many there are and whatever is stopped, deleted, retried or dies - as   *)
(* long as the owner does not free the lock by hand.                       *)
THEOREM RunMutex ==
  ASSUME "lock" \notin Allowed
  PROVE  Spec => []HolderOwnsLock
<1>1. Init => HolderOwnsLock
  BY DEF Init, HolderOwnsLock, Running, Ending
<1>2. Typed /\ HolderOwnsLock /\ [Next]_vars => HolderOwnsLock'
  <2> SUFFICES ASSUME Typed, HolderOwnsLock, [Next]_vars
               PROVE  HolderOwnsLock'
    OBVIOUS
  <2>1. CASE \E a \in Attempts : Arrive(a) \/ Step(a) \/ Aside(a) \/ Faulty(a)
    BY <2>1, StepsByKind, OwnerQuiet, OwnerCallsLock
  <2>2. CASE Others
    BY <2>2, OwnerOthers
  <2>3. CASE UNCHANGED vars
    BY <2>3 DEF vars, HolderOwnsLock, C, ConversationOf
  <2> QED
    BY <2>1, <2>2, <2>3 DEF Next
<1> QED
  BY <1>1, <1>2, AlwaysTyped, PTL DEF Spec

-----------------------------------------------------------------------------
(* The implementation of SerialTurns: every step writes the outcome of at  *)
(* most one turn as SerialTurns allows, or changes who owns one lock, or   *)
(* changes neither.                                                        *)

OwnerOf == [c \in Attempts |-> lock[c].run]

Still == UNCHANGED <<status, OwnerOf>>

(* A step that changes neither is a stutter of SerialTurns. *)
LEMMA SerialStutter == Still => UNCHANGED Serial!vars
  BY DEF Still, OwnerOf, Serial!vars

(* The owner is a function of the lock. *)
LEMMA SameOwner ==
  ASSUME lock' = lock
  PROVE  UNCHANGED OwnerOf
  BY DEF OwnerOf

(* A failed turn was pending. *)
LEMMA SerialFail ==
  ASSUME Typed, UNCHANGED OwnerOf, NEW m \in Attempts, NEW code \in FailureCodes,
         FailTurn(m, code)
  PROVE  Serial!Next \/ Still
<1>1. CASE status[m] = "pending"
  <2>1. Serial!Fail(m, code)
    BY <1>1 DEF FailTurn, Serial!Fail, OwnerOf
  <2> QED
    BY <2>1 DEF Serial!Next
<1>2. CASE status[m] # "pending"
  BY <1>2 DEF FailTurn, Still, Typed, TypeOK
<1> QED
  BY <1>1, <1>2

(* An opened turn was absent. *)
LEMMA SerialOpen ==
  ASSUME Typed, UNCHANGED OwnerOf, NEW m \in Attempts, NEW at, StoreTurn(m, at)
  PROVE  Serial!Next \/ Still
<1>1. CASE status' = [status EXCEPT ![m] = IF @ = "absent" THEN "pending" ELSE @]
  <2>1. CASE status[m] = "absent"
    <3>1. Serial!Open(m)
      BY <1>1, <2>1 DEF Serial!Open, OwnerOf
    <3> QED
      BY <3>1 DEF Serial!Next
  <2>2. CASE status[m] # "absent"
    BY <1>1, <2>2 DEF Still, Typed, TypeOK
  <2> QED
    BY <2>1, <2>2
<1>2. CASE UNCHANGED status
  BY <1>2 DEF Still
<1> QED
  BY <1>1, <1>2 DEF StoreTurn

(* An answer is committed by the owner of the conversation. *)
LEMMA SerialCommit ==
  ASSUME Typed, UNCHANGED OwnerOf, NEW a \in Attempts, lock[C(a)].run = a, CommitAnswer(a)
  PROVE  Serial!Next \/ Still
<1>1. C(a) \in Attempts
  BY IdsAreAttempts DEF Typed, TypeOK
<1>2. CASE status[a] = "pending" /\ a \in completionClaims
  <2>1. Serial!Answer(C(a), a)
    BY <1>1, <1>2 DEF CommitAnswer, Serial!Answer, OwnerOf
  <2> QED
    BY <1>1, <2>1 DEF Serial!Next
<1>3. CASE ~(status[a] = "pending" /\ a \in completionClaims)
  BY <1>3 DEF CommitAnswer, Still, Typed, TypeOK
<1> QED
  BY <1>2, <1>3

(* A lock is taken when nobody owns it and given back by its owner. *)
LEMMA SerialLock ==
  ASSUME Typed, UNCHANGED status, NEW c \in Attempts, NEW a \in Attempts,
         \/ Acquire(c, a) \/ Release(c, a) \/ Cancel(c, a)
         \/ \E s \in Stages : SetStage(c, a, s)
  PROVE  Serial!Next \/ Still
<1>0. LockTypeOK
  BY DEF Typed, TypeOK
<1>1. CASE Acquire(c, a)
  <2>1. \A d \in Attempts : lock'[d].run = IF d = c THEN a ELSE lock[d].run
    BY <1>0, <1>1, RunOfARow
  <2>2. OwnerOf' = [OwnerOf EXCEPT ![c] = a]
    BY <2>1 DEF OwnerOf
  <2>3. CASE lock[c].run = None
    <3>1. Serial!Begin(c, a)
      BY <2>2, <2>3 DEF Serial!Begin, OwnerOf
    <3> QED
      BY <3>1 DEF Serial!Next
  <2>4. CASE lock[c].run = a
    BY <2>1, <2>4 DEF Still, OwnerOf
  <2> QED
    BY <1>1, <2>3, <2>4 DEF Acquire, CanAcquire
<1>2. CASE Release(c, a)
  <2>1. \A d \in Attempts :
          lock'[d].run = IF d = c /\ lock[c].run = a THEN None ELSE lock[d].run
    BY <1>0, <1>2, RunOfARow
  <2>2. CASE lock[c].run = a
    <3>1. OwnerOf' = [OwnerOf EXCEPT ![c] = None]
      BY <2>1, <2>2 DEF OwnerOf
    <3>2. Serial!End(c)
      BY <3>1 DEF Serial!End, OwnerOf
    <3> QED
      BY <3>2 DEF Serial!Next
  <2>3. CASE lock[c].run # a
    BY <2>1, <2>3 DEF Still, OwnerOf
  <2> QED
    BY <2>2, <2>3
<1>3. CASE Cancel(c, a) \/ \E s \in Stages : SetStage(c, a, s)
  <2>1. \A d \in Attempts : lock'[d].run = lock[d].run
    BY <1>0, <1>3, RunOfARow
  <2> QED
    BY <2>1 DEF Still, OwnerOf
<1> QED
  BY <1>1, <1>2, <1>3

(* Every step of an attempt is a step of SerialTurns or a stutter. *)
LEMMA SerialAttempt ==
  ASSUME Typed, HolderOwnsLock, NEW a \in Attempts,
         Arrive(a) \/ Step(a) \/ Aside(a) \/ Faulty(a)
  PROVE  Serial!Next \/ Still
<1>0. C(a) \in Attempts
  BY IdsAreAttempts DEF Typed, TypeOK
<1>1. CASE Quiet(a) \/ Watch(a) \/ SendWriting(a) \/ Die(a) \/ Arrive(a)
  <2>1. UNCHANGED <<status, lock>>
    BY <1>1 DEF Quiet, Lookup, ReadClaim, CheckAdopted, ReadWinner, ReadBack, Replay, LockBusy, CheckHandle,
       AgentEnds, CheckStop, Complete, CheckWriter, Reload, Catch, Watch, SendWriting, Die,
       Arrive, Ask, Retry, rows
  <2> QED
    BY <2>1 DEF Still, OwnerOf
<1>2. CASE Stores(a)
  <2>1. UNCHANGED OwnerOf
    BY <1>2, SameOwner DEF Stores, InsertClaim, Adopt, Materialize, Refuse, Fail,
       ClaimCompletion, Commit, LoseCommitReply
  <2>2. CASE InsertClaim(a) \/ ClaimCompletion(a)
    BY <2>1, <2>2 DEF InsertClaim, ClaimCompletion, Still
  <2>3. CASE Adopt(a) \/ Materialize(a)
    <3>1. turn[a] \in Attempts
      BY <2>3 DEF Adopt, Materialize, At, Typed, TurnKnown, Started
    <3> QED
      BY <2>1, <2>3, <3>1, SerialOpen DEF Adopt, Materialize
  <2>4. CASE Refuse(a) \/ Fail(a)
    <3>1. PICK code \in FailureCodes : FailTurn(a, code)
      BY <2>4 DEF Refuse, Fail, Typed, TypeOK, FailureCodes
    <3> QED
      BY <2>1, <3>1, SerialFail
  <2>5. CASE Commit(a) \/ LoseCommitReply(a)
    <3>1. lock[C(a)].run = a /\ CommitAnswer(a)
      BY <2>5 DEF Commit, LoseCommitReply, At, HolderOwnsLock, Running
    <3> QED
      BY <2>1, <3>1, SerialCommit
  <2> QED
    BY <1>2, <2>2, <2>3, <2>4, <2>5 DEF Stores
<1>3. CASE CallsLock(a)
  <2>1. UNCHANGED status
    BY <1>3 DEF CallsLock, TakeLock, GiveUp, MarkSearching, MarkReading, MarkWriting,
       ReleaseAnswered, Unlock, WritingArrives, LoseRelease, rows
  <2>2. \/ Acquire(C(a), a) \/ Release(C(a), a) \/ UNCHANGED lock
        \/ \E s \in Stages : SetStage(C(a), a, s)
    BY <1>3 DEF CallsLock, TakeLock, GiveUp, MarkSearching, MarkReading, MarkWriting,
       ReleaseAnswered, Unlock, WritingArrives, LoseRelease, Stages
  <2>3. CASE UNCHANGED lock
    BY <2>1, <2>3, SameOwner DEF Still
  <2> QED
    BY <1>0, <2>1, <2>2, <2>3, SerialLock
<1> QED
  BY <1>1, <1>2, <1>3, StepsByKind

(* So is every step of the others. *)
LEMMA SerialOthers ==
  ASSUME Typed, Others, "lock" \notin Allowed
  PROVE  Serial!Next \/ Still
<1>1. PICK c \in Attempts : StopByRequest(c) \/ StopByRun(c) \/ DeleteConversation(c)
  BY DEF Others, OwnerLock, OwnerUnlock
<1>2. CASE StopByRequest(c)
  <2>1. FailTurn(c, "CANCELLED") /\ UNCHANGED OwnerOf /\ "CANCELLED" \in FailureCodes
    BY <1>2, SameOwner DEF StopByRequest, FailureCodes
  <2> QED
    BY <2>1, SerialFail
<1>3. CASE StopByRun(c)
  <2>1. lock[c].run \in Attempts
    BY <1>3 DEF StopByRun, Typed, TypeOK, LockTypeOK, LockRow
  <2> QED
    BY <1>3, <2>1, SerialLock DEF StopByRun, rows
<1>4. CASE DeleteConversation(c)
  <2> DEFINE gone == {m \in Attempts : input[m] # NoInput /\ ConversationOf(m) = c}
  <2>1. Serial!Forget(gone)
    BY <1>4 DEF DeleteConversation, Serial!Forget
  <2>2. gone \in SUBSET Attempts
    OBVIOUS
  <2> QED
    BY <2>1, <2>2 DEF Serial!Next
<1> QED
  BY <1>1, <1>2, <1>3, <1>4

(* Whatever the interleaving, a turn is opened once and ends once, and its *)
(* answer is committed by the one run that owns the conversation.          *)
THEOREM TurnsAreSerial ==
  ASSUME "lock" \notin Allowed
  PROVE  Spec => SerialSpec
<1>1. Init => Serial!Init
  BY DEF Init, LockInit, Unlocked, Serial!Init
<1>2. Typed /\ HolderOwnsLock /\ [Next]_vars => [Serial!Next]_Serial!vars
  <2> SUFFICES ASSUME Typed, HolderOwnsLock, [Next]_vars
               PROVE  Serial!Next \/ Still
    BY SerialStutter
  <2>1. CASE \E a \in Attempts : Arrive(a) \/ Step(a) \/ Aside(a) \/ Faulty(a)
    BY <2>1, SerialAttempt
  <2>2. CASE Others
    BY <2>2, SerialOthers
  <2>3. CASE UNCHANGED vars
    BY <2>3 DEF vars, Still, OwnerOf
  <2> QED
    BY <2>1, <2>2, <2>3 DEF Next
<1> QED
  BY <1>1, <1>2, AlwaysTyped, RunMutex, PTL DEF Spec, SerialSpec, Serial!Spec

-----------------------------------------------------------------------------
(* Ended turns.  No lock is needed for this: the guards of the statements  *)
(* that write a turn are enough.                                           *)

(* No step changes a turn that ended, except to forget it. *)
LEMMA EndedStep ==
  ASSUME Typed, [Next]_vars, NEW m \in Attempts, Settled(status[m])
  PROVE  status'[m] \in {status[m], "absent"}
<1>0. status \in [Attempts -> Statuses]
  BY DEF Typed, TypeOK
<1>1. ASSUME NEW a \in Attempts, Arrive(a) \/ Step(a) \/ Aside(a) \/ Faulty(a)
      PROVE  status'[m] = status[m]
  <2>1. CASE Quiet(a) \/ CallsLock(a) \/ Watch(a) \/ SendWriting(a) \/ Die(a) \/ Arrive(a)
    BY <2>1 DEF Quiet, Lookup, ReadClaim, CheckAdopted, ReadWinner, ReadBack, Replay, LockBusy, CheckHandle,
       AgentEnds, CheckStop, Complete, CheckWriter, Reload, Catch, CallsLock, TakeLock, GiveUp,
       MarkSearching, MarkReading, MarkWriting, ReleaseAnswered, Unlock, WritingArrives,
       LoseRelease, Watch, SendWriting, Die, Arrive, Ask, Retry, rows
  <2>2. CASE InsertClaim(a) \/ ClaimCompletion(a)
    BY <2>2 DEF InsertClaim, ClaimCompletion
  <2>3. CASE Adopt(a) \/ Materialize(a)
    BY <1>0, <2>3 DEF Adopt, Materialize, StoreTurn, Settled
  <2>4. CASE Refuse(a) \/ Fail(a)
    BY <1>0, <2>4 DEF Refuse, Fail, FailTurn, Settled
  <2>5. CASE Commit(a) \/ LoseCommitReply(a)
    BY <1>0, <2>5 DEF Commit, LoseCommitReply, CommitAnswer, Settled
  <2> QED
    BY <1>1, <2>1, <2>2, <2>3, <2>4, <2>5, StepsByKind DEF Stores
<1>2. CASE Others
  <2>1. PICK c \in Attempts :
          \/ StopByRequest(c) \/ StopByRun(c) \/ DeleteConversation(c)
          \/ \E r \in Attempts : OwnerLock(c, r) \/ OwnerUnlock(c, r)
    BY <1>2 DEF Others
  <2>2. CASE StopByRequest(c)
    BY <1>0, <2>2 DEF StopByRequest, FailTurn, Settled
  <2>3. CASE DeleteConversation(c)
    BY <2>3 DEF DeleteConversation
  <2>4. CASE StopByRun(c) \/ \E r \in Attempts : OwnerLock(c, r) \/ OwnerUnlock(c, r)
    BY <2>4 DEF StopByRun, OwnerLock, OwnerUnlock, rows
  <2> QED
    BY <2>1, <2>2, <2>3, <2>4
<1>3. CASE UNCHANGED vars
  BY <1>3 DEF vars
<1> QED
  BY <1>1, <1>2, <1>3 DEF Next

(* A turn that ended keeps its end until it is deleted, even when an owner *)
(* takes and frees the lock by hand.                                       *)
THEOREM EndedTurnsStay == Spec => SettledIsFinal
<1>1. Typed /\ [Next]_vars =>
        [\A m \in Attempts : Settled(status[m]) => status'[m] \in {status[m], "absent"}]_vars
  BY EndedStep
<1> QED
  BY <1>1, AlwaysTyped, PTL DEF Spec, SettledIsFinal

-----------------------------------------------------------------------------
(* What is stored, answered and settled: what an attempt read of the claim *)
(* stays true until the conversation is deleted, so the rows that it       *)
(* stores and the turn that it runs are the claimed ones.                  *)

(* The invariant.  A request is bound to a turn for good once it claimed   *)
(* it, until that turn's conversation is deleted.                          *)

Bound(r, w) == claim[r] = w \/ C(w) \in deleted

(* A turn of the request was deleted. *)
Touched(r) == \E w \in Started : input[w].request = r /\ C(w) \in deleted

(* The conversation of a turn belongs to who asked. *)
Own(w) == input[C(w)].owner = input[w].owner

Same(a, w) == input[w].request = input[a].request /\ input[w].owner = input[a].owner

(* From the moment an attempt finds that the turn is its own. *)
Executing == {"acquire", "refuse", "answered"} \cup Running \cup Ending

Naming == {"adopt", "materialize", "readBack"}

(* The ids of attempts that started, and what was asked of them. *)
IdsKnown ==
  /\ \A a \in Started : input[a].at # 0
  /\ \A a \in Started : C(a) \in Started
  /\ \A a \in Started : UserMessageOf(a) \in Started /\ C(UserMessageOf(a)) = C(a)
  /\ conversations \cup deleted \subseteq Started

Claimed ==
  \A r \in Requests : claim[r] # None => input[claim[r]].request = r /\ Own(claim[r])

Stored ==
  \A m \in Attempts : status[m] # "absent" => Own(m) /\ Bound(input[m].request, m)

(* What an attempt between two statements still knows of the rows. *)
Knows(a) ==
  /\ pc[a] = "insertClaim" => Own(a)
  /\ pc[a] \in Naming =>
       /\ Same(a, turn[a]) /\ input[turn[a]].payload = input[a].payload
       /\ Own(turn[a]) /\ Bound(input[a].request, turn[a])
  /\ pc[a] = "readBack" =>
       Touched(input[a].request) \/ \E m \in Started : input[m].request = input[a].request /\ status[m] # "absent"
  /\ pc[a] \in {"adopted", "replay", "replayed"} =>
       /\ turn[a] \in Started /\ Same(a, turn[a])
       /\ input[turn[a]].payload = input[a].payload \/ Touched(input[a].request)
  /\ pc[a] = "replayed" => status[turn[a]] = "completed" \/ C(turn[a]) \in deleted
  /\ pc[a] \in Executing =>
       /\ turn[a] = a /\ Own(a) /\ Bound(input[a].request, a)
       /\ status[a] # "absent" \/ Touched(input[a].request)
  /\ pc[a] \in {"giveUp", "unlock"} => Settled(status[a]) \/ Touched(input[a].request)
  /\ pc[a] \in {"release", "answered"} => status[a] = "completed" \/ C(a) \in deleted

Rows == IdsKnown /\ Claimed /\ Stored /\ NoOrphans

Remembers == Rows /\ \A a \in Attempts : Knows(a)

-----------------------------------------------------------------------------

(* What no step takes away: an attempt's input, a deletion, and - except   *)
(* by a deletion - a claim, a stored turn and the end of one.              *)
Frame ==
  /\ \A w \in Started : w \in Started' /\ input'[w] = input[w]
  /\ deleted \subseteq deleted'
  /\ \A r \in Requests, w \in Started : claim[r] = w => claim'[r] = w \/ C(w) \in deleted'
  /\ \A m \in Attempts : status[m] # "absent" => status'[m] # "absent" \/ C(m) \in deleted'
  /\ \A m \in Attempts : Settled(status[m]) => status'[m] = status[m] \/ C(m) \in deleted'

(* A step that writes no claim and no turn, and deletes nothing. *)
LEMMA FrameSame ==
  ASSUME Typed, UNCHANGED <<input, deleted, claim, status>>,
         \A w \in Started : pc'[w] # "idle"
  PROVE  Frame
  BY DEF Frame, Started

(* A step of an attempt moves that attempt alone. *)
LEMMA OnlyOneMoves ==
  ASSUME Typed, NEW a \in Attempts,
         Quiet(a) \/ Stores(a) \/ CallsLock(a) \/ Watch(a) \/ SendWriting(a) \/ Die(a) \/ Arrive(a)
  PROVE  \A b \in Attempts \ {a} : pc'[b] = pc[b] /\ turn'[b] = turn[b]
<1>0. pc \in [Attempts -> Program] /\ turn \in [Attempts -> Attempts \cup {None}]
  BY DEF Typed, TypeOK
<1> QED
  BY <1>0 DEF At, Goto, Quiet, Lookup, ReadClaim, CheckAdopted, ReadWinner, ReadBack, Replay, LockBusy, CheckHandle,
     AgentEnds, CheckStop, Complete, CheckWriter, Reload, Catch, Stores, InsertClaim, Adopt,
     Materialize, Refuse, Fail, ClaimCompletion, Commit, LoseCommitReply, CallsLock, TakeLock,
     GiveUp, MarkSearching, MarkReading, MarkWriting, ReleaseAnswered, Unlock, WritingArrives,
     LoseRelease, Watch, SendWriting, Die, Arrive, Ask, Retry

(* Where a step of a program may lead: never back to the start. *)
LEMMA NeverIdle ==
  ASSUME Typed, NEW a \in Attempts,
         Quiet(a) \/ Stores(a) \/ CallsLock(a) \/ Watch(a) \/ SendWriting(a) \/ Die(a) \/ Arrive(a)
  PROVE  \A w \in Attempts : pc[w] # "idle" => pc'[w] # "idle"
<1> USE DEF At, Goto
<1>0. pc \in [Attempts -> Program]
  BY DEF Typed, TypeOK
<1>1. \A w \in Attempts \ {a} : pc'[w] = pc[w]
  BY OnlyOneMoves
<1>2. pc[a] # "idle" => pc'[a] # "idle"
  <2>1. CASE Quiet(a)
    BY <1>0, <2>1 DEF Quiet, Lookup, ReadClaim, CheckAdopted, ReadWinner, ReadBack, Replay, LockBusy, CheckHandle,
       AgentEnds, CheckStop, Complete, CheckWriter, Reload, Catch
  <2>2. CASE Stores(a)
    BY <1>0, <2>2 DEF Stores, InsertClaim, Adopt, Materialize, Refuse, Fail, ClaimCompletion,
       Commit, LoseCommitReply
  <2>3. CASE CallsLock(a)
    BY <1>0, <2>3 DEF CallsLock, TakeLock, GiveUp, MarkSearching, MarkReading, MarkWriting,
       ReleaseAnswered, Unlock, WritingArrives, LoseRelease, ReplyFor
  <2>4. CASE Watch(a) \/ SendWriting(a) \/ Die(a) \/ Arrive(a)
    BY <1>0, <2>4 DEF Watch, SendWriting, Die, Arrive, Ask, Retry
  <2> QED
    BY <2>1, <2>2, <2>3, <2>4
<1> QED
  BY <1>1, <1>2

(* Every step of an attempt keeps the frame. *)
LEMMA FrameAttempt ==
  ASSUME Typed, NEW a \in Attempts, Arrive(a) \/ Step(a) \/ Aside(a) \/ Faulty(a)
  PROVE  Frame
<1>0. /\ TypeOK /\ InputKnown /\ RowsKnown /\ TurnKnown
      /\ input \in [Attempts -> Inputs \cup {NoInput}] /\ status \in [Attempts -> Statuses]
      /\ claim \in [Requests -> Attempts \cup {None}]
  BY DEF Typed, TypeOK
<1>1. \A w \in Started : w \in Attempts /\ pc[w] # "idle" /\ pc'[w] # "idle"
  BY StepsByKind, NeverIdle DEF Started
<1>2. CASE Quiet(a) \/ CallsLock(a) \/ Watch(a) \/ SendWriting(a) \/ Die(a)
  <2>1. UNCHANGED <<input, deleted, claim, status>>
    BY <1>2 DEF Quiet, Lookup, ReadClaim, CheckAdopted, ReadWinner, ReadBack, Replay, LockBusy, CheckHandle,
       AgentEnds, CheckStop, Complete, CheckWriter, Reload, Catch, CallsLock, TakeLock,
       GiveUp, MarkSearching, MarkReading, MarkWriting, ReleaseAnswered, Unlock, WritingArrives,
       LoseRelease, Watch, SendWriting, Die, rows, world
  <2> QED
    BY <1>1, <2>1, FrameSame
<1>3. CASE Arrive(a)
  <2>1. /\ UNCHANGED <<deleted, claim, status>>
        /\ a \notin Started
        /\ \A w \in Attempts \ {a} : input'[w] = input[w]
    BY <1>0, <1>3 DEF Arrive, Ask, Retry, rows, world, At, Started
  <2> QED
    BY <1>1, <2>1 DEF Frame, Started
<1>4. CASE Stores(a)
  <2>1. UNCHANGED <<input, deleted>>
    BY <1>4 DEF Stores, InsertClaim, Adopt, Materialize, Refuse, Fail, ClaimCompletion, Commit,
       LoseCommitReply, world
  <2>2. \A r \in Requests, w \in Started : claim[r] = w => claim'[r] = w
    <3>1. CASE InsertClaim(a)
      BY <1>0, <1>1, <3>1, NoneIsNotAnAttempt DEF InsertClaim
    <3>2. CASE ~InsertClaim(a)
      BY <1>4, <3>2 DEF Stores, Adopt, Materialize, Refuse, Fail, ClaimCompletion, Commit, LoseCommitReply
    <3> QED
      BY <3>1, <3>2
  <2>3. \A m \in Attempts : /\ status[m] # "absent" => status'[m] # "absent"
                            /\ Settled(status[m]) => status'[m] = status[m]
    <3>1. CASE InsertClaim(a) \/ ClaimCompletion(a)
      BY <3>1 DEF InsertClaim, ClaimCompletion
    <3>2. CASE Adopt(a) \/ Materialize(a)
      <4>1. \/ UNCHANGED status
            \/ status' = [status EXCEPT ![turn[a]] = IF @ = "absent" THEN "pending" ELSE @]
        BY <3>2 DEF Adopt, Materialize, StoreTurn
      <4> QED
        BY <1>0, <4>1 DEF Settled
    <3>3. CASE Refuse(a) \/ Fail(a)
      <4>1. PICK code \in FailureCodes : FailTurn(a, code)
        BY <1>0, <3>3 DEF Refuse, Fail, TypeOK, FailureCodes
      <4> QED
        BY <1>0, <4>1 DEF FailTurn, Settled, FailureCodes
    <3>4. CASE Commit(a) \/ LoseCommitReply(a)
      BY <1>0, <3>4 DEF Commit, LoseCommitReply, CommitAnswer, Settled
    <3> QED
      BY <1>4, <3>1, <3>2, <3>3, <3>4 DEF Stores
  <2> QED
    BY <1>1, <2>1, <2>2, <2>3 DEF Frame, Started
<1> QED
  BY <1>2, <1>3, <1>4, StepsByKind

(* And so does every step of the others. *)
LEMMA FrameOthers ==
  ASSUME Typed, Others
  PROVE  Frame /\ UNCHANGED <<input, pc, turn>>
<1>0. status \in [Attempts -> Statuses] /\ claim \in [Requests -> Attempts \cup {None}]
  BY DEF Typed, TypeOK
<1>1. PICK c \in Attempts :
        \/ StopByRequest(c) \/ StopByRun(c) \/ DeleteConversation(c)
        \/ \E r \in Attempts : OwnerLock(c, r) \/ OwnerUnlock(c, r)
  BY DEF Others
<1>2. UNCHANGED <<input, pc, turn>>
  BY <1>1 DEF StopByRequest, StopByRun, DeleteConversation, OwnerLock, OwnerUnlock
<1>3. CASE StopByRequest(c)
  BY <1>0, <1>2, <1>3 DEF StopByRequest, FailTurn, Frame, Started, Settled, world
<1>4. CASE DeleteConversation(c)
  <2> DEFINE gone == {m \in Attempts : input[m] # NoInput /\ ConversationOf(m) = c}
  <2>1. /\ claim' = [r \in Requests |-> IF claim[r] \in gone THEN None ELSE claim[r]]
        /\ status' = [m \in Attempts |-> IF m \in gone THEN "absent" ELSE status[m]]
        /\ deleted' = deleted \cup {c}
    BY <1>4 DEF DeleteConversation
  <2>2. \A m \in gone : C(m) = c
    BY DEF C
  <2> HIDE DEF gone
  <2> QED
    BY <1>0, <1>2, <2>1, <2>2 DEF Frame, Started
<1>5. CASE StopByRun(c) \/ \E r \in Attempts : OwnerLock(c, r) \/ OwnerUnlock(c, r)
  BY <1>2, <1>5 DEF StopByRun, OwnerLock, OwnerUnlock, rows, world, Frame, Started
<1> QED
  BY <1>1, <1>2, <1>3, <1>4, <1>5

(* What is known of an attempt that started is not forgotten. *)
LEMMA Stable ==
  ASSUME Typed, IdsKnown, Frame, NEW w \in Started
  PROVE  /\ w \in Started' /\ w \in Attempts /\ input'[w] = input[w] /\ C(w)' = C(w)
         /\ UserMessageOf(w)' = UserMessageOf(w)
         /\ Own(w) => Own(w)'
         /\ \A r \in Requests : Bound(r, w) => Bound(r, w)'
         /\ status[w] = "completed" \/ C(w) \in deleted => (status[w] = "completed" \/ C(w) \in deleted)'
<1>1. w \in Attempts /\ C(w) \in Started
  BY DEF Started, IdsKnown
<1>2. /\ w \in Started' /\ input'[w] = input[w] /\ C(w)' = C(w)
      /\ UserMessageOf(w)' = UserMessageOf(w)
  BY DEF Frame, C, ConversationOf, UserMessageOf
<1>3. Own(w) => Own(w)'
  <2>1. input'[C(w)] = input[C(w)]
    BY <1>1 DEF Frame
  <2> QED
    BY <1>2, <2>1 DEF Own
<1>4. \A r \in Requests : Bound(r, w) => Bound(r, w)'
  BY <1>2 DEF Bound, Frame
<1>5. status[w] = "completed" \/ C(w) \in deleted => status'[w] = "completed" \/ C(w)' \in deleted'
  BY <1>1, <1>2 DEF Frame, Settled
<1> QED
  BY <1>1, <1>2, <1>3, <1>4, <1>5

(* Nor what is known of a request. *)
LEMMA TouchedStays ==
  ASSUME Typed, IdsKnown, Frame, NEW r \in Requests
  PROVE  /\ Touched(r) => Touched(r)'
         /\ \A w \in Started : input[w].request = r =>
              /\ status[w] # "absent" => status'[w] # "absent" \/ Touched(r)'
              /\ Settled(status[w]) => Settled(status'[w]) \/ Touched(r)'
<1>1. ASSUME NEW w \in Started, input[w].request = r, C(w) \in deleted'
      PROVE  Touched(r)'
  BY <1>1, Stable DEF Touched
<1>2. Touched(r) => Touched(r)'
  BY <1>1 DEF Touched, Frame
<1> QED
  BY <1>1, <1>2 DEF Frame, Started

-----------------------------------------------------------------------------
(* What an attempt that does not move knows, it goes on knowing. *)
LEMMA KnowsStays ==
  ASSUME Typed, Remembers, Frame, NEW b \in Attempts, pc'[b] = pc[b], turn'[b] = turn[b]
  PROVE  Knows(b)'
<1>0. IdsKnown /\ Knows(b) /\ TurnKnown /\ InputKnown
  BY DEF Remembers, Rows, Typed
<1>1. CASE pc[b] = "idle"
  BY <1>1 DEF Knows, Naming, Executing, Running, Ending
<1>2. CASE pc[b] # "idle"
  <2>1. b \in Started /\ input[b].request \in Requests
    BY <1>0, <1>2 DEF Started, InputKnown, Inputs
  <2>2. PICK r \in Requests, w \in Attempts \cup {None} : r = input[b].request /\ w = turn[b]
    BY <2>1 DEF Typed, TypeOK
  <2>3. input'[b] = input[b] /\ r = input'[b].request /\ w = turn'[b]
    BY <1>0, <2>1, <2>2, Stable
  <2>4. (pc[b] = "insertClaim" => Own(b))'
    BY <1>0, <2>1, Stable DEF Knows
  <2>5. ASSUME pc[b] \in Naming
        PROVE  Same(b, w)' /\ input'[w].payload = input'[b].payload /\ Own(w)' /\ Bound(r, w)'
    <3>1. w \in Started
      BY <1>0, <2>2, <2>5 DEF TurnKnown, Naming
    <3>2. Same(b, w) /\ input[w].payload = input[b].payload /\ Own(w) /\ Bound(r, w)
      BY <1>0, <2>2, <2>5 DEF Knows
    <3>3. input'[w] = input[w] /\ Own(w)' /\ Bound(r, w)'
      BY <1>0, <3>1, <3>2, Stable
    <3> QED
      BY <2>3, <3>2, <3>3 DEF Same
  <2>6. ASSUME pc[b] = "readBack"
        PROVE  Touched(r)' \/ \E m \in Started' : input'[m].request = r /\ status'[m] # "absent"
    <3>1. Touched(r) \/ \E m \in Started : input[m].request = r /\ status[m] # "absent"
      BY <1>0, <2>2, <2>6 DEF Knows
    <3> QED
      BY <1>0, <3>1, TouchedStays, Stable
  <2>7. ASSUME pc[b] \in {"adopted", "replay", "replayed"}
        PROVE  /\ w \in Started' /\ Same(b, w)'
               /\ input'[w].payload = input'[b].payload \/ Touched(r)'
               /\ pc[b] = "replayed" => status'[w] = "completed" \/ C(w)' \in deleted'
    <3>1. /\ w \in Started /\ Same(b, w) /\ (input[w].payload = input[b].payload \/ Touched(r))
          /\ pc[b] = "replayed" => status[w] = "completed" \/ C(w) \in deleted
      BY <1>0, <2>2, <2>7 DEF Knows
    <3>2. input'[w] = input[w] /\ w \in Started'
          /\ (pc[b] = "replayed" => status'[w] = "completed" \/ C(w)' \in deleted')
      BY <1>0, <3>1, Stable
    <3> QED
      BY <1>0, <2>3, <3>1, <3>2, TouchedStays DEF Same
  <2>8. ASSUME pc[b] \in Executing
        PROVE  /\ turn'[b] = b /\ Own(b)' /\ Bound(r, b)'
               /\ status'[b] # "absent" \/ Touched(r)'
    <3>1. /\ turn[b] = b /\ Own(b) /\ Bound(r, b) /\ (status[b] # "absent" \/ Touched(r))
      BY <1>0, <2>2, <2>8 DEF Knows
    <3> QED
      BY <1>0, <2>1, <2>2, <3>1, Stable, TouchedStays
  <2>9. ASSUME pc[b] \in {"giveUp", "unlock"}
        PROVE  Settled(status'[b]) \/ Touched(r)'
    <3>1. Settled(status[b]) \/ Touched(r)
      BY <1>0, <2>2, <2>9 DEF Knows
    <3> QED
      BY <1>0, <2>1, <2>2, <3>1, TouchedStays
  <2>10. ASSUME pc[b] \in {"release", "answered"}
         PROVE  status'[b] = "completed" \/ C(b)' \in deleted'
    BY <1>0, <2>1, <2>10, Stable DEF Knows
  <2> QED
    <3>1. (pc[b] \in Naming =>
             /\ Same(b, turn[b]) /\ input[turn[b]].payload = input[b].payload
             /\ Own(turn[b]) /\ Bound(input[b].request, turn[b]))'
      BY <2>3, <2>5 DEF Same, Own, Bound, C, ConversationOf
    <3>2. (pc[b] = "readBack" =>
             Touched(input[b].request) \/ \E m \in Started : input[m].request = input[b].request /\ status[m] # "absent")'
      BY <2>3, <2>6 DEF Touched
    <3>3. (pc[b] \in {"adopted", "replay", "replayed"} =>
             /\ turn[b] \in Started /\ Same(b, turn[b])
             /\ input[turn[b]].payload = input[b].payload \/ Touched(input[b].request))'
      BY <2>3, <2>7 DEF Same, Touched
    <3>4. (pc[b] = "replayed" => status[turn[b]] = "completed" \/ C(turn[b]) \in deleted)'
      BY <2>3, <2>7 DEF C, ConversationOf
    <3>5. (pc[b] \in Executing =>
             /\ turn[b] = b /\ Own(b) /\ Bound(input[b].request, b)
             /\ status[b] # "absent" \/ Touched(input[b].request))'
      BY <2>3, <2>8 DEF Bound, Touched
    <3>6. (pc[b] \in {"giveUp", "unlock"} => Settled(status[b]) \/ Touched(input[b].request))'
      BY <2>3, <2>9 DEF Settled, Touched
    <3>7. (pc[b] \in {"release", "answered"} => status[b] = "completed" \/ C(b) \in deleted)'
      BY <2>10
    <3> QED
      BY <2>4, <3>1, <3>2, <3>3, <3>4, <3>5, <3>6, <3>7 DEF Knows
<1> QED
  BY <1>1, <1>2

(* Nothing needs to be known where the next statement reads afresh, or the *)
(* caller was told nothing of a stored turn.                               *)
Fresh == {"lookup", "readClaim", "readWinner", "crashed", "busy", "cancelled", "unavailable", "error", "rejected"}

LEMMA KnowsNothing ==
  ASSUME NEW a \in Attempts, pc'[a] \in Fresh
  PROVE  Knows(a)'
  BY DEF Knows, Fresh, Naming, Executing, Running, Ending

(* An attempt that runs its turn goes on knowing that it is its own.       *)
LEMMA KnowsExecuting ==
  ASSUME Typed, Remembers, Frame, NEW a \in Attempts,
         pc[a] \in Executing, pc'[a] \in Executing, turn'[a] = turn[a],
         pc'[a] \in {"giveUp", "unlock"} => Settled(status'[a]) \/ C(a) \in deleted' \/ Touched(input[a].request),
         pc'[a] \in {"release", "answered"} => status'[a] = "completed" \/ C(a) \in deleted'
  PROVE  Knows(a)'
<1>0. IdsKnown /\ Knows(a) /\ InputKnown
  BY DEF Remembers, Rows, Typed
<1>1. a \in Started /\ input[a].request \in Requests
  BY <1>0 DEF Started, InputKnown, Inputs, Executing, Running, Ending
<1>2. PICK r \in Requests : r = input[a].request
  BY <1>1
<1>3. /\ input'[a] = input[a] /\ C(a)' = C(a) /\ a \in Started'
      /\ Own(a) => Own(a)'
      /\ Bound(r, a) => Bound(r, a)'
  BY <1>0, <1>1, Stable
<1>4. turn'[a] = a /\ Own(a)' /\ Bound(r, a)'
  BY <1>0, <1>2, <1>3 DEF Knows
<1>5. C(a) \in deleted' \/ Touched(r) => Touched(r)'
  <2>1. CASE C(a) \in deleted'
    BY <1>2, <1>3, <2>1 DEF Touched
  <2>2. CASE Touched(r)
    BY <1>0, <2>2, TouchedStays
  <2> QED
    BY <2>1, <2>2
<1>6. status'[a] # "absent" \/ Touched(r)'
  <2>1. status[a] # "absent" \/ Touched(r)
    BY <1>0, <1>2 DEF Knows
  <2> QED
    BY <1>0, <1>1, <1>2, <2>1, TouchedStays
<1>7. pc'[a] \in {"giveUp", "unlock"} => Settled(status'[a]) \/ Touched(r)'
  BY <1>2, <1>5
<1>8. /\ (pc[a] \in Executing =>
            /\ turn[a] = a /\ Own(a) /\ Bound(input[a].request, a)
            /\ status[a] # "absent" \/ Touched(input[a].request))'
      /\ (pc[a] \in {"giveUp", "unlock"} => Settled(status[a]) \/ Touched(input[a].request))'
  BY <1>2, <1>3, <1>4, <1>6, <1>7 DEF Bound, Touched, Settled
<1>9. (pc[a] \in {"release", "answered"} => status[a] = "completed" \/ C(a) \in deleted)'
  BY <1>3
<1>10. pc'[a] \notin Naming \cup {"insertClaim", "readBack", "adopted", "replay", "replayed"}
  BY DEF Executing, Running, Ending, Naming
<1> QED
  BY <1>8, <1>9, <1>10 DEF Knows

(* createPendingTurn: the steps that read the claim or the stored turn.    *)
LEMMA KnowsReading ==
  ASSUME Typed, Remembers, Frame, NEW a \in Attempts,
         Lookup(a) \/ ReadClaim(a) \/ CheckAdopted(a) \/ ReadWinner(a) \/ ReadBack(a) \/ Replay(a)
  PROVE  Knows(a)'
<1> USE DEF At, Goto
<1>0. /\ IdsKnown /\ Claimed /\ Stored /\ Knows(a) /\ InputKnown /\ RowsKnown /\ TurnKnown
      /\ pc \in [Attempts -> Program] /\ turn \in [Attempts -> Attempts \cup {None}]
      /\ claim \in [Requests -> Attempts \cup {None}]
  BY DEF Remembers, Rows, Typed, TypeOK
<1>1. a \in Started /\ input[a].request \in Requests
  <2>1. pc[a] # "idle"
    BY DEF Lookup, ReadClaim, CheckAdopted, ReadWinner, ReadBack, Replay
  <2> QED
    BY <1>0, <2>1 DEF Started, InputKnown, Inputs
<1>2. UNCHANGED <<input, claim, status, deleted>>
  BY DEF Lookup, ReadClaim, CheckAdopted, ReadWinner, ReadBack, Replay, rows, world
<1>3. Started' = Started
  BY <1>0, <1>1 DEF Lookup, ReadClaim, CheckAdopted, ReadWinner, ReadBack, Replay, Started
<1>4. PICK r \in Requests : r = input[a].request
  BY <1>1
<1>5. ASSUME NEW m \in Started, pc'[a] \in Executing \cup {"adopted", "replay", "replayed"} \cup Naming \cup {"insertClaim"},
             turn'[a] = m
      PROVE  /\ Own(m)' = Own(m) /\ Bound(r, m)' = Bound(r, m) /\ Touched(r)' = Touched(r)
             /\ input'[m] = input[m] /\ status'[m] = status[m] /\ m \in Started'
  BY <1>2, <1>3 DEF Own, Bound, Touched, C, ConversationOf
(* A stored turn of the request is answered with if it is the same         *)
(* member's, and is the same question as long as nothing was deleted.      *)
<1>6. ASSUME NEW m \in MessagesOf(r), Owns(input[a].owner, ConversationOf(m))
      PROVE  m \in Started /\ Same(a, m) /\ Own(m) /\ Bound(r, m) /\ status[m] # "absent" /\ input[m].request = r
  <2>1. m \in Started /\ status[m] # "absent" /\ input[m].request = r
    BY <1>0, <1>6 DEF MessagesOf, RowsKnown
  <2>2. Own(m) /\ Bound(r, m)
    BY <1>0, <2>1 DEF Stored, Started
  <2>3. input[ConversationOf(m)].owner = input[a].owner
    BY <1>6 DEF Owns
  <2> QED
    BY <1>4, <2>1, <2>2, <2>3 DEF Same, Own, C
<1>7. CASE Lookup(a)
  <2>1. CASE pc'[a] = "replay"
    <3>1. PICK m \in MessagesOf(r) :
            /\ Accepts(a, m, BoundBy(r, m)) /\ Owns(input[a].owner, ConversationOf(m))
            /\ turn'[a] = m
      BY <1>0, <1>4, <1>7, <2>1 DEF Lookup
    <3>2. m \in Started /\ Same(a, m) /\ Bound(r, m) /\ input[m].request = r
      BY <1>6, <3>1
    <3>3. input[m].payload = input[a].payload \/ Touched(r)
      <4>1. CASE claim[r] = m
        BY <3>1, <4>1 DEF Accepts, BoundBy
      <4>2. CASE C(m) \in deleted
        BY <3>2, <4>2 DEF Touched
      <4> QED
        BY <3>2, <4>1, <4>2 DEF Bound
    <3>4. /\ turn'[a] \in Started' /\ input'[turn'[a]] = input[m] /\ input'[a] = input[a]
          /\ Touched(r)' = Touched(r)
      BY <1>2, <1>3, <1>5, <2>1, <3>1, <3>2
    <3> QED
      BY <1>4, <2>1, <3>2, <3>3, <3>4 DEF Knows, Same, Touched, Naming, Executing, Running, Ending
  <2>2. CASE pc'[a] # "replay"
    <3>1. pc'[a] \in Fresh
      BY <1>0, <1>7, <2>2 DEF Lookup, Fresh
    <3> QED
      BY <3>1, KnowsNothing
  <2> QED
    BY <2>1, <2>2
<1>8. CASE ReadClaim(a)
  <2>1. CASE pc'[a] = "adopt"
    <3>1. PICK w : w = claim[r] /\ w # None /\ turn'[a] = w /\ Accepts(a, w, w)
      BY <1>0, <1>4, <1>8, <2>1 DEF ReadClaim
    <3>2. w \in Started /\ input[w].request = r /\ Own(w) /\ Bound(r, w)
      BY <1>0, <3>1 DEF RowsKnown, Claimed, Bound
    <3>3. /\ input'[w] = input[w] /\ input'[a] = input[a] /\ Own(w)' /\ Bound(r, w)'
      BY <1>2, <1>5, <2>1, <3>1, <3>2 DEF Naming
    <3>4. pc'[a] \notin {"insertClaim", "readBack", "adopted", "replay", "replayed"} \cup Executing
      BY <2>1 DEF Executing, Running, Ending
    <3>5. (Same(a, turn[a]) /\ input[turn[a]].payload = input[a].payload)'
      BY <1>4, <3>1, <3>2, <3>3 DEF Same, Accepts
    <3>6. (Own(turn[a]) /\ Bound(input[a].request, turn[a]))'
      BY <1>4, <3>1, <3>3 DEF Own, Bound, C, ConversationOf
    <3> QED
      BY <3>4, <3>5, <3>6 DEF Knows, Executing, Running, Ending
  <2>2. CASE pc'[a] = "insertClaim"
    <3>1. input[a].conversation = None \/ Owns(input[a].owner, input[a].conversation)
      BY <1>0, <1>8, <2>2 DEF ReadClaim
    <3>2. Own(a)
      BY <3>1 DEF Own, C, ConversationOf, Owns
    <3>3. Own(a)'
      BY <1>2, <3>2 DEF Own, C, ConversationOf
    <3> QED
      BY <2>2, <3>3 DEF Knows, Naming, Executing, Running, Ending
  <2>3. CASE pc'[a] \notin {"adopt", "insertClaim"}
    <3>1. pc'[a] \in Fresh
      BY <1>0, <1>8, <2>3 DEF ReadClaim, Fresh
    <3> QED
      BY <3>1, KnowsNothing
  <2> QED
    BY <2>1, <2>2, <2>3
<1>9. CASE ReadWinner(a)
  <2>1. CASE pc'[a] = "materialize"
    <3>1. PICK w : w = claim[r] /\ w # None /\ turn'[a] = w /\ Accepts(a, w, w)
      BY <1>0, <1>4, <1>9, <2>1 DEF ReadWinner
    <3>2. w \in Started /\ input[w].request = r /\ Own(w) /\ Bound(r, w)
      BY <1>0, <3>1 DEF RowsKnown, Claimed, Bound
    <3>3. /\ input'[w] = input[w] /\ input'[a] = input[a] /\ Own(w)' /\ Bound(r, w)'
      BY <1>2, <1>5, <2>1, <3>1, <3>2 DEF Naming
    <3>4. pc'[a] \notin {"insertClaim", "readBack", "adopted", "replay", "replayed"} \cup Executing
      BY <2>1 DEF Executing, Running, Ending
    <3>5. (Same(a, turn[a]) /\ input[turn[a]].payload = input[a].payload)'
      BY <1>4, <3>1, <3>2, <3>3 DEF Same, Accepts
    <3>6. (Own(turn[a]) /\ Bound(input[a].request, turn[a]))'
      BY <1>4, <3>1, <3>3 DEF Own, Bound, C, ConversationOf
    <3> QED
      BY <3>4, <3>5, <3>6 DEF Knows, Executing, Running, Ending
  <2>2. CASE pc'[a] # "materialize"
    <3>1. pc'[a] \in Fresh
      BY <1>0, <1>9, <2>2 DEF ReadWinner, Fresh
    <3> QED
      BY <3>1, KnowsNothing
  <2> QED
    BY <2>1, <2>2
<1>10. CASE ReadBack(a)
  <2>0. /\ pc[a] \in Naming /\ pc[a] = "readBack"
    BY <1>10 DEF ReadBack, Naming
  <2>1. PICK w : w = turn[a] /\ w \in Started /\ Same(a, w) /\ input[w].payload = input[a].payload
                  /\ Own(w) /\ Bound(r, w)
    BY <1>0, <1>4, <2>0 DEF Knows, TurnKnown
  <2>2. CASE pc'[a] = "rejected"
    BY <2>2, KnowsNothing DEF Fresh
  <2>3. CASE pc'[a] # "rejected"
    <3>1. PICK m \in FoundBy(a) :
            /\ Owns(input[a].owner, ConversationOf(m))
            /\ turn'[a] = m /\ pc'[a] = IF m = a THEN "acquire" ELSE "replay"
      BY <1>0, <1>10, <2>3 DEF ReadBack
    <3>2. /\ m \in Started /\ Same(a, m) /\ Own(m) /\ Bound(r, m)
          /\ status[m] # "absent" \/ Touched(r)
          /\ input[m].payload = input[a].payload \/ Touched(r)
      <4>1. CASE MessagesOf(r) = {}
        <5>1. m = w
          BY <1>4, <2>1, <3>1, <4>1 DEF FoundBy
        <5>2. Touched(r)
          BY <1>0, <1>4, <2>0, <4>1 DEF Knows, MessagesOf, Started
        <5> QED
          BY <2>1, <5>1, <5>2
      <4>2. CASE MessagesOf(r) # {}
        <5>1. m \in MessagesOf(r)
          BY <1>4, <3>1, <4>2 DEF FoundBy
        <5>2. m \in Started /\ Same(a, m) /\ Own(m) /\ Bound(r, m) /\ status[m] # "absent" /\ input[m].request = r
          BY <1>6, <3>1, <5>1
        <5>3. m = w \/ Touched(r)
          BY <1>4, <2>1, <5>2 DEF Bound, Touched, Same
        <5> QED
          BY <2>1, <5>2, <5>3
      <4> QED
        BY <4>1, <4>2
    <3>3. /\ input'[m] = input[m] /\ input'[a] = input[a] /\ Own(m)' = Own(m)
          /\ Bound(r, m)' = Bound(r, m) /\ Touched(r)' = Touched(r) /\ m \in Started'
          /\ status'[m] = status[m]
      <4>1. pc'[a] \in Executing \cup {"replay"}
        BY <3>1 DEF Executing
      <4> QED
        BY <1>2, <1>5, <3>1, <3>2, <4>1
    <3>4. CASE m = a
      <4>1. pc'[a] = "acquire" /\ turn'[a] = a /\ Own(a)' /\ Bound(r, a)' /\ (status'[a] # "absent" \/ Touched(r)')
        BY <3>1, <3>2, <3>3, <3>4
      <4> QED
        BY <1>4, <3>3, <4>1 DEF Knows, Naming, Bound, Touched
    <3>5. CASE m # a
      <4>1. pc'[a] = "replay"
        BY <3>1, <3>5
      <4> QED
        BY <1>4, <3>1, <3>2, <3>3, <4>1 DEF Knows, Same, Touched, Naming, Executing, Running, Ending
    <3> QED
      BY <3>4, <3>5
  <2> QED
    BY <2>2, <2>3
<1>11. CASE Replay(a)
  <2>1. CASE pc'[a] = "busy"
    BY <2>1, KnowsNothing DEF Fresh
  <2>2. CASE pc'[a] # "busy"
    <3>1. pc'[a] = "replayed" /\ turn'[a] = turn[a] /\ status[turn[a]] = "completed" /\ pc[a] = "replay"
      BY <1>0, <1>11, <2>2 DEF Replay
    <3>2. turn[a] \in Started /\ Same(a, turn[a]) /\ (input[turn[a]].payload = input[a].payload \/ Touched(r))
      BY <1>0, <1>4, <3>1 DEF Knows
    <3>3. input'[turn[a]] = input[turn[a]] /\ turn[a] \in Started' /\ Touched(r)' = Touched(r)
          /\ status'[turn[a]] = "completed"
      BY <1>2, <1>5, <3>1, <3>2
    <3>4. (turn[a] \in Started /\ Same(a, turn[a])
             /\ (input[turn[a]].payload = input[a].payload \/ Touched(input[a].request)))'
      BY <1>2, <1>4, <3>1, <3>2, <3>3 DEF Same, Touched
    <3> QED
      BY <3>1, <3>3, <3>4 DEF Knows, Naming, Executing, Running, Ending
  <2> QED
    BY <2>1, <2>2
<1>12. CASE CheckAdopted(a)
  <2>1. CASE pc'[a] = "rejected"
    BY <2>1, KnowsNothing DEF Fresh
  <2>2. CASE pc'[a] # "rejected"
    <3>1. pc'[a] = "replay" /\ turn'[a] = turn[a] /\ pc[a] = "adopted"
      BY <1>0, <1>12, <2>2 DEF CheckAdopted
    <3>2. turn[a] \in Started /\ Same(a, turn[a]) /\ (input[turn[a]].payload = input[a].payload \/ Touched(r))
      BY <1>0, <1>4, <3>1 DEF Knows
    <3>3. input'[turn[a]] = input[turn[a]] /\ turn[a] \in Started' /\ Touched(r)' = Touched(r)
      BY <1>2, <1>5, <3>1, <3>2
    <3>4. (turn[a] \in Started /\ Same(a, turn[a])
             /\ (input[turn[a]].payload = input[a].payload \/ Touched(input[a].request)))'
      BY <1>2, <1>4, <3>1, <3>2, <3>3 DEF Same, Touched
    <3> QED
      BY <3>1, <3>4 DEF Knows, Naming, Executing, Running, Ending
  <2> QED
    BY <2>1, <2>2
<1> QED
  BY <1>7, <1>8, <1>9, <1>10, <1>11, <1>12

(* The other steps of an attempt. *)
LEMMA KnowsMoves ==
  ASSUME Typed, Remembers, Frame, NEW a \in Attempts,
         Arrive(a) \/ Step(a) \/ Aside(a) \/ Faulty(a)
  PROVE  Knows(a)'
<1> USE DEF At, Goto
<1>0. /\ IdsKnown /\ Claimed /\ Stored /\ NoOrphans /\ Knows(a) /\ InputKnown /\ RowsKnown /\ TurnKnown
      /\ pc \in [Attempts -> Program] /\ turn \in [Attempts -> Attempts \cup {None}]
      /\ claim \in [Requests -> Attempts \cup {None}] /\ status \in [Attempts -> Statuses]
  BY DEF Remembers, Rows, Typed, TypeOK
<1>1. pc[a] # "idle" => a \in Started /\ input[a].request \in Requests
  BY <1>0 DEF Started, InputKnown, Inputs
(* A step that leaves a running turn running. *)
<1>2. ASSUME turn' = turn, pc[a] \in Executing, pc'[a] \in Executing \ {"giveUp", "unlock", "release", "answered"}
      PROVE  Knows(a)'
  BY <1>2, KnowsExecuting
<1>3. CASE Arrive(a)
  <2>1. pc'[a] \in Fresh
    BY <1>0, <1>3 DEF Arrive, Ask, Retry, Fresh
  <2> QED
    BY <2>1, KnowsNothing
<1>4. CASE Lookup(a) \/ ReadClaim(a) \/ CheckAdopted(a) \/ ReadWinner(a) \/ ReadBack(a) \/ Replay(a)
  BY <1>4, KnowsReading
<1>5. CASE LockBusy(a) \/ AgentEnds(a) \/ CheckStop(a) \/ Catch(a) \/ TakeLock(a) \/ MarkSearching(a)
           \/ MarkReading(a) \/ MarkWriting(a) \/ ClaimCompletion(a) \/ Commit(a) \/ LoseCommitReply(a)
  <2>1. turn' = turn
    BY <1>5 DEF LockBusy, AgentEnds, CheckStop, Catch, TakeLock, MarkSearching, MarkReading,
       MarkWriting, ClaimCompletion, Commit, LoseCommitReply
  <2>2. pc[a] \in Executing /\ pc'[a] \in Executing \ {"giveUp", "unlock", "release", "answered"}
    BY <1>0, <1>5 DEF LockBusy, AgentEnds, CheckStop, Catch, TakeLock, MarkSearching, MarkReading,
       MarkWriting, ClaimCompletion, Commit, LoseCommitReply, Executing, Running, Ending
  <2> QED
    BY <1>2, <2>1, <2>2
<1>6. CASE InsertClaim(a) \/ Refuse(a) \/ GiveUp(a) \/ Die(a)
  <2>1. pc'[a] \in Fresh
    BY <1>0, <1>6 DEF InsertClaim, Refuse, GiveUp, Die, Fresh
  <2> QED
    BY <2>1, KnowsNothing
<1>7. CASE Unlock(a) \/ (LoseRelease(a) /\ pc[a] = "unlock")
  <2>1. pc'[a] = ReplyFor(why[a])
    BY <1>0, <1>7 DEF Unlock, LoseRelease
  <2>2. ReplyFor(why[a]) \in Fresh
    BY Zenon DEF ReplyFor, Fresh
  <2> QED
    BY <2>1, <2>2, KnowsNothing
<1>8. CASE LoseRelease(a) /\ pc[a] # "unlock"
  <2>1. turn' = turn /\ pc[a] = "release" /\ pc'[a] = "catch"
    BY <1>0, <1>8 DEF LoseRelease
  <2> QED
    BY <1>2, <2>1 DEF Executing, Running, Ending
<1>9. CASE Watch(a) \/ SendWriting(a) \/ WritingArrives(a)
  <2>1. pc' = pc /\ turn' = turn
    BY <1>9 DEF Watch, SendWriting, WritingArrives
  <2> QED
    BY <2>1, KnowsStays
<1>10. CASE Adopt(a) \/ Materialize(a)
  <2>1. /\ turn' = turn /\ input' = input /\ claim' = claim /\ deleted' = deleted
        /\ pc[a] \in Naming /\ StoreTurn(turn[a], input[a].at)
        /\ Started' = Started
    BY <1>0, <1>10 DEF Adopt, Materialize, Naming, world, Started
  <2>2. PICK r \in Requests, w \in Started :
           /\ r = input[a].request /\ w = turn[a]
           /\ Same(a, w) /\ input[w].payload = input[a].payload /\ Own(w) /\ Bound(r, w)
    BY <1>0, <1>1, <2>1 DEF Knows, TurnKnown, Naming
  <2>3. Own(w)' = Own(w) /\ Bound(r, w)' = Bound(r, w) /\ Touched(r)' = Touched(r) /\ Same(a, w)' = Same(a, w)
    BY <2>1 DEF Own, Bound, Touched, Same, C, ConversationOf
  <2>4. CASE Adopt(a)
    <3>1. pc'[a] = "adopted"
      BY <1>0, <2>4 DEF Adopt
    <3> QED
      BY <2>1, <2>2, <2>3, <3>1 DEF Knows, Same, Naming, Executing, Running, Ending
  <2>5. CASE Materialize(a)
    <3>1. pc'[a] = "readBack"
      BY <1>0, <2>5 DEF Materialize
    <3>2. \E m \in Started : input[m].request = r /\ status'[m] # "absent"
      <4>1. CASE MessagesOf(r) \subseteq {w}
        <5>1. status'[w] # "absent"
          BY <1>0, <2>1, <2>2, <4>1 DEF StoreTurn, Same, Started
        <5> QED
          BY <2>2, <5>1 DEF Same
      <4>2. CASE ~(MessagesOf(r) \subseteq {w})
        <5>1. status' = status
          BY <2>1, <2>2, <4>2 DEF StoreTurn, Same
        <5> QED
          BY <1>0, <4>2, <5>1 DEF MessagesOf, RowsKnown
      <4> QED
        BY <4>1, <4>2
    <3>3. pc'[a] \notin {"insertClaim", "adopted", "replay", "replayed"} \cup Executing
      BY <3>1 DEF Executing, Running, Ending
    <3>4. (/\ Same(a, turn[a]) /\ input[turn[a]].payload = input[a].payload
           /\ Own(turn[a]) /\ Bound(input[a].request, turn[a]))'
      BY <2>1, <2>2, <2>3 DEF Same, Own, Bound, C, ConversationOf
    <3>5. (\E m \in Started : input[m].request = input[a].request /\ status[m] # "absent")'
      BY <2>1, <2>2, <3>2
    <3> QED
      BY <3>3, <3>4, <3>5 DEF Knows, Executing, Running, Ending
  <2> QED
    BY <1>10, <2>4, <2>5
<1>11. CASE CheckHandle(a)
  <2>1. /\ turn' = turn /\ status' = status /\ pc[a] \in Executing
        /\ pc'[a] \in {"searching", "giveUp"}
    BY <1>0, <1>11 DEF CheckHandle, rows, Executing, Running
  <2>2. CASE pc'[a] = "searching"
    BY <1>2, <2>1, <2>2 DEF Executing, Running, Ending
  <2>3. CASE pc'[a] = "giveUp"
    <3>1. \/ \A m \in MessagesOf(input[a].request) : status[m] # "pending"
          \/ ~Owns(input[a].owner, C(a))
      BY <1>0, <1>11, <2>3 DEF CheckHandle
    <3>2. Own(a) /\ (status[a] # "absent" \/ Touched(input[a].request))
      BY <1>0, <2>1 DEF Knows
    <3>3. ASSUME status[a] # "absent"
          PROVE  Settled(status[a])
      <4>1. a \in MessagesOf(input[a].request) /\ Owns(input[a].owner, C(a))
        BY <1>0, <3>2, <3>3 DEF MessagesOf, Owns, Own, NoOrphans
      <4> QED
        BY <3>1, <3>3, <4>1 DEF Settled
    <3> QED
      BY <2>1, <2>3, <3>2, <3>3, KnowsExecuting DEF Executing, Ending
  <2> QED
    BY <2>1, <2>2, <2>3
<1>12. CASE Complete(a) \/ CheckWriter(a) \/ Reload(a)
  <2>1. turn' = turn /\ status' = status /\ pc[a] \in Executing
    BY <1>12 DEF Complete, CheckWriter, Reload, rows, Executing, Running
  <2>2. pc'[a] \in {"release", "claimCompletion", "commit", "catch"} /\ (pc'[a] = "release" => status[a] = "completed")
    <3>1. CASE Complete(a)
      <4>1. pc'[a] = CASE status[a] = "completed" -> "release"
                       [] status[a] = "pending"   -> "claimCompletion"
                       [] OTHER                   -> "catch"
        BY <1>0, <3>1, Zenon DEF Complete
      <4> QED
        BY <4>1, Zenon
    <3>2. CASE CheckWriter(a)
      <4>1. pc'[a] = CASE status[a] = "pending" /\ a \in completionClaims -> "commit"
                       [] status[a] = "completed"                         -> "release"
                       [] OTHER                                           -> "catch"
        BY <1>0, <3>2, Zenon DEF CheckWriter
      <4> QED
        BY <4>1, Zenon
    <3>3. CASE Reload(a)
      BY <1>0, <3>3 DEF Reload
    <3> QED
      BY <1>12, <3>1, <3>2, <3>3
  <2> QED
    BY <2>1, <2>2, KnowsExecuting DEF Executing, Running, Ending
<1>13. CASE ReleaseAnswered(a)
  <2>1. turn' = turn /\ status' = status /\ pc[a] = "release" /\ pc'[a] \in {"answered", "catch"} /\ deleted' = deleted
    BY <1>0, <1>13 DEF ReleaseAnswered, rows, world
  <2>2. status[a] = "completed" \/ C(a) \in deleted
    BY <1>0, <2>1 DEF Knows
  <2> QED
    BY <2>1, <2>2, KnowsExecuting DEF Executing, Running, Ending
<1>14. CASE Fail(a)
  <2>1. turn' = turn /\ pc[a] = "fail" /\ pc'[a] = "unlock" /\ FailTurn(a, why[a]) /\ why[a] \in FailureCodes
    BY <1>0, <1>14 DEF Fail, Typed, TypeOK
  <2>2. status[a] # "absent" \/ Touched(input[a].request)
    BY <1>0, <2>1 DEF Knows, Executing, Ending
  <2>3. status[a] # "absent" => Settled(status'[a])
    BY <1>0, <2>1 DEF FailTurn, Settled, FailureCodes
  <2> QED
    BY <2>1, <2>2, <2>3, KnowsExecuting DEF Executing, Running, Ending
<1> QED
  BY <1>3, <1>4, <1>5, <1>6, <1>7, <1>8, <1>9, <1>10, <1>11, <1>12, <1>13, <1>14
     DEF Step, Aside, Faulty

-----------------------------------------------------------------------------
(* What is stored stays whole.  Most steps store and claim nothing.        *)
LEMMA RowsKept ==
  ASSUME Typed, Remembers, Frame, Started' = Started,
         UNCHANGED <<input, claim, conversations, users, deleted>>,
         \A m \in Attempts : status'[m] # "absent" <=> status[m] # "absent"
  PROVE  Rows'
<1>0. IdsKnown /\ Claimed /\ Stored /\ NoOrphans /\ RowsKnown /\ claim \in [Requests -> Attempts \cup {None}]
  BY DEF Remembers, Rows, Typed, TypeOK
<1>1. IdsKnown'
  BY <1>0 DEF IdsKnown, C, ConversationOf, UserMessageOf
<1>2. Claimed'
  BY <1>0 DEF Claimed, Own, C, ConversationOf
<1>3. Stored'
  BY <1>0 DEF Stored, Own, Bound, C, ConversationOf
<1>4. NoOrphans'
  BY <1>0 DEF NoOrphans, C, ConversationOf, UserMessageOf
<1> QED
  BY <1>1, <1>2, <1>3, <1>4 DEF Rows

(* A question arrives: it names ids of attempts that started before it.    *)
LEMMA RowsArrive ==
  ASSUME Typed, Remembers, Frame, NEW a \in Attempts, Arrive(a)
  PROVE  Rows'
<1> USE DEF At, Goto
<1>0. /\ IdsKnown /\ Claimed /\ Stored /\ NoOrphans /\ RowsKnown
      /\ pc \in [Attempts -> Program] /\ claim \in [Requests -> Attempts \cup {None}]
      /\ input \in [Attempts -> Inputs \cup {NoInput}]
  BY DEF Remembers, Rows, Typed, TypeOK
<1>1. /\ UNCHANGED <<claim, conversations, users, status, deleted>>
      /\ a \notin Started /\ Started' = Started \cup {a}
  BY <1>0 DEF Arrive, Ask, Retry, rows, world, Started
<1>2. \A w \in Started : /\ input'[w] = input[w] /\ C(w)' = C(w) /\ UserMessageOf(w)' = UserMessageOf(w)
                         /\ Own(w) => Own(w)'
  BY <1>0, Stable
<1>3. /\ input'[a].at # 0 /\ C(a)' \in Started' /\ UserMessageOf(a)' \in Started'
      /\ C(UserMessageOf(a))' = C(a)'
  <2>1. CASE \E r \in Requests, p \in Principals, q \in Payloads, c \in Attempts \cup {None} : Ask(a, r, p, q, c)
    <3>1. PICK r \in Requests, p \in Principals, q \in Payloads, c \in Attempts \cup {None} : Ask(a, r, p, q, c)
      BY <2>1
    <3>2. c \in Started \cup {None} /\ input'[a] = [request |-> r, owner |-> p, payload |-> q,
                                          conversation |-> c, user |-> None, at |-> 1]
      BY <1>0, <3>1 DEF Ask, IdsKnown
    <3>3. C(a)' \in Started' /\ UserMessageOf(a)' = a
      BY <1>1, <3>2 DEF C, ConversationOf, UserMessageOf
    <3>4. C(UserMessageOf(a))' = C(a)'
      BY <3>3 DEF C, ConversationOf
    <3> QED
      BY <1>1, <3>2, <3>3, <3>4
  <2>2. CASE \E r \in Requests, p \in Principals, m \in Attempts : Retry(a, r, p, m)
    <3>1. PICK r \in Requests, p \in Principals, m \in Attempts : Retry(a, r, p, m)
      BY <2>2
    <3>2. m \in Started
      BY <1>0, <3>1 DEF Retry, RowsKnown, FailureCodes
    <3>3. /\ input'[a].conversation = C(m) /\ input'[a].user = UserMessageOf(m)
          /\ input'[a].at = Cardinality(AttemptsAt(UserMessageOf(m))) + 1
      BY <1>0, <3>1 DEF Retry, C
    <3>4. Cardinality(AttemptsAt(UserMessageOf(m))) \in Nat
      BY AttemptsAreFinite, FS_Subset, FS_CardinalityType DEF AttemptsAt
    <3>5. /\ C(m) \in Started /\ UserMessageOf(m) \in Started /\ C(UserMessageOf(m)) = C(m)
      BY <1>0, <3>2 DEF IdsKnown
    <3>6. C(m) # None /\ UserMessageOf(m) # None
      BY <3>5, NoneIsNotAnAttempt DEF Started
    <3>7. C(a)' = C(m) /\ UserMessageOf(a)' = UserMessageOf(m)
      BY <3>3, <3>6 DEF C, ConversationOf, UserMessageOf
    <3>8. PICK u \in Started : u = UserMessageOf(m)
      BY <3>5
    <3>9. C(u)' = C(u) /\ C(u) = C(m)
      BY <1>2, <3>5, <3>8
    <3>10. C(UserMessageOf(a))' = C(u)'
      BY <3>7, <3>8 DEF C, ConversationOf
    <3>11. input'[a].at # 0
      BY <3>3, <3>4
    <3> QED
      BY <1>1, <3>5, <3>7, <3>9, <3>10, <3>11
  <2> QED
    BY <2>1, <2>2 DEF Arrive
<1>4. IdsKnown'
  <2>1. ASSUME NEW w \in Started
        PROVE  /\ input'[w].at # 0 /\ C(w)' \in Started' /\ UserMessageOf(w)' \in Started'
               /\ C(UserMessageOf(w))' = C(w)'
    <3>1. PICK u \in Started : u = UserMessageOf(w) /\ C(u) = C(w) /\ C(w) \in Started
      BY <1>0 DEF IdsKnown
    <3>2. C(u)' = C(u) /\ C(w)' = C(w) /\ UserMessageOf(w)' = u
      BY <1>2, <3>1
    <3>3. C(UserMessageOf(w))' = C(u)'
      BY <3>2 DEF C, ConversationOf
    <3> QED
      BY <1>0, <1>1, <1>2, <3>1, <3>2, <3>3 DEF IdsKnown
  <2>2. (conversations \cup deleted \subseteq Started)'
    BY <1>0, <1>1 DEF IdsKnown
  <2> QED
    BY <1>1, <1>3, <2>1, <2>2 DEF IdsKnown
<1>5. Claimed'
  <2>1. ASSUME NEW r \in Requests, claim[r] # None
        PROVE  input'[claim[r]].request = r /\ Own(claim[r])'
    <3>1. PICK w \in Started : w = claim[r] /\ input[w].request = r /\ Own(w)
      BY <1>0, <2>1 DEF Claimed, RowsKnown
    <3>2. Own(w)' /\ claim'[r] = w
      BY <1>1, <1>2, <3>1
    <3> QED
      BY <1>1, <1>2, <3>1, <3>2 DEF Own, C, ConversationOf
  <2> QED
    BY <1>1, <2>1 DEF Claimed, Own, C, ConversationOf
<1>6. Stored'
  BY <1>0, <1>1, <1>2 DEF Stored, RowsKnown, Bound
<1>7. NoOrphans'
  BY <1>0, <1>1, <1>2 DEF NoOrphans, RowsKnown
<1> QED
  BY <1>4, <1>5, <1>6, <1>7 DEF Rows

(* The claim is inserted, or another attempt has it.                       *)
LEMMA RowsInsertClaim ==
  ASSUME Typed, Remembers, Frame, NEW a \in Attempts, InsertClaim(a)
  PROVE  Rows'
<1> USE DEF At, Goto
<1>0. /\ IdsKnown /\ Claimed /\ Stored /\ NoOrphans /\ RowsKnown /\ Knows(a) /\ InputKnown
      /\ pc \in [Attempts -> Program] /\ claim \in [Requests -> Attempts \cup {None}]
  BY DEF Remembers, Rows, Typed, TypeOK
<1>1. UNCHANGED <<input, conversations, users, status, deleted>> /\ Started' = Started
  BY <1>0 DEF InsertClaim, world, Started
<1>2. claim' = [claim EXCEPT ![input[a].request] = IF @ = None THEN a ELSE @] /\ Own(a)
      /\ input[a].request \in Requests
  BY <1>0 DEF InsertClaim, Knows, Started, InputKnown, Inputs
<1>3. IdsKnown'
  BY <1>0, <1>1 DEF IdsKnown, C, ConversationOf, UserMessageOf
<1>4. Claimed'
  BY <1>0, <1>1, <1>2 DEF Claimed, Own, C, ConversationOf
<1>5. Stored'
  <2>1. ASSUME NEW m \in Attempts, status[m] # "absent"
        PROVE  Own(m)' /\ Bound(input[m].request, m)'
    <3>1. m \in Started /\ Own(m) /\ Bound(input[m].request, m)
      BY <1>0, <2>1 DEF Stored, RowsKnown
    <3>2. Own(m)'
      BY <1>0, <3>1, Stable
    <3>3. PICK r \in Requests : r = input[m].request
      BY <1>0, <3>1 DEF InputKnown, Inputs
    <3>4. Bound(r, m)'
      BY <1>0, <3>1, <3>3, Stable
    <3> QED
      BY <1>1, <3>2, <3>3, <3>4 DEF Bound, C, ConversationOf
  <2> QED
    BY <1>1, <2>1 DEF Stored
<1>6. NoOrphans'
  BY <1>0, <1>1 DEF NoOrphans, C, ConversationOf, UserMessageOf
<1> QED
  BY <1>3, <1>4, <1>5, <1>6 DEF Rows

(* The batch stores what is missing of the claimed turn.                   *)
LEMMA RowsStoreTurn ==
  ASSUME Typed, Remembers, Frame, NEW a \in Attempts, Adopt(a) \/ Materialize(a)
  PROVE  Rows'
<1> USE DEF At, Goto
<1>0. /\ IdsKnown /\ Claimed /\ Stored /\ NoOrphans /\ RowsKnown /\ TurnKnown /\ Knows(a) /\ InputKnown
      /\ pc \in [Attempts -> Program] /\ claim \in [Requests -> Attempts \cup {None}]
      /\ status \in [Attempts -> Statuses]
  BY DEF Remembers, Rows, Typed, TypeOK
<1>1. /\ UNCHANGED <<input, claim, deleted>> /\ Started' = Started
      /\ pc[a] \in Naming /\ StoreTurn(turn[a], input[a].at)
  BY <1>0 DEF Adopt, Materialize, Naming, world, Started
<1>2. PICK w \in Started : w = turn[a] /\ Same(a, w) /\ Own(w) /\ Bound(input[a].request, w)
  BY <1>0, <1>1 DEF Knows, TurnKnown, Naming
<1>3. CASE ~(MessagesOf(input[w].request) \subseteq {w})
  <2>1. UNCHANGED <<conversations, users, status>>
    BY <1>1, <1>2, <1>3 DEF StoreTurn
  <2> QED
    BY <1>1, <2>1, RowsKept
<1>4. CASE MessagesOf(input[w].request) \subseteq {w}
  <2>1. /\ conversations' = conversations \cup {C(w)}
        /\ users' = users \cup {UserMessageOf(w)}
        /\ status' = [status EXCEPT ![w] = IF @ = "absent" THEN "pending" ELSE @]
    BY <1>1, <1>2, <1>4 DEF StoreTurn, C
  <2>2. status'[w] # "absent" /\ \A m \in Attempts \ {w} : status'[m] = status[m]
    BY <1>0, <2>1 DEF Started
  <2>3. \A m \in Attempts : C(m)' = C(m) /\ UserMessageOf(m)' = UserMessageOf(m)
                            /\ Own(m)' = Own(m) /\ \A r \in Requests : Bound(r, m)' = Bound(r, m)
    BY <1>1 DEF C, ConversationOf, UserMessageOf, Own, Bound
  <2>4. IdsKnown'
    <3>1. C(w) \in Started
      BY <1>0 DEF IdsKnown
    <3>2. (conversations \cup deleted \subseteq Started)'
      BY <1>0, <1>1, <2>1, <3>1 DEF IdsKnown
    <3> QED
      BY <1>0, <1>1, <3>2 DEF IdsKnown, C, ConversationOf, UserMessageOf
  <2>5. Claimed'
    BY <1>0, <1>1 DEF Claimed, Own, C, ConversationOf
  <2>6. Stored'
    BY <1>0, <1>1, <1>2, <2>2 DEF Stored, Same, Own, Bound, C, ConversationOf
  <2>7. NoOrphans'
    <3>1. \A m \in Attempts : status'[m] # "absent" => C(m) \in conversations' /\ UserMessageOf(m) \in users'
      BY <1>0, <2>1, <2>2 DEF NoOrphans
    <3>2. \A c \in conversations' : \E m \in Attempts : C(m) = c /\ status'[m] # "absent"
      BY <1>0, <2>1, <2>2 DEF NoOrphans, Started
    <3> QED
      BY <2>3, <3>1, <3>2 DEF NoOrphans
  <2> QED
    BY <2>4, <2>5, <2>6, <2>7 DEF Rows
<1> QED
  BY <1>3, <1>4

(* A deletion removes all of a conversation. *)
LEMMA RowsDelete ==
  ASSUME Typed, Remembers, Frame, NEW c \in Attempts, DeleteConversation(c)
  PROVE  Rows'
<1>0. /\ IdsKnown /\ Claimed /\ Stored /\ NoOrphans /\ RowsKnown /\ InputKnown
      /\ claim \in [Requests -> Attempts \cup {None}] /\ status \in [Attempts -> Statuses]
      /\ users \in SUBSET Attempts
  BY DEF Remembers, Rows, Typed, TypeOK
<1> DEFINE gone == {m \in Attempts : input[m] # NoInput /\ ConversationOf(m) = c}
<1>1. /\ claim' = [r \in Requests |-> IF claim[r] \in gone THEN None ELSE claim[r]]
      /\ users' = users \ gone
      /\ status' = [m \in Attempts |-> IF m \in gone THEN "absent" ELSE status[m]]
      /\ conversations' = conversations \ {c}
      /\ deleted' = deleted \cup {c}
      /\ input' = input /\ Started' = Started /\ c \in conversations
  BY DEF DeleteConversation, Started
<1>2. \A m \in Started : m \in gone <=> C(m) = c
  BY <1>0 DEF C, IdsKnown, NoInput, Started
<1> HIDE DEF gone
<1>3. IdsKnown'
  <2>1. (conversations \cup deleted \subseteq Started)'
    BY <1>0, <1>1 DEF IdsKnown
  <2> QED
    BY <1>0, <1>1, <2>1 DEF IdsKnown, C, ConversationOf, UserMessageOf
<1>4. Claimed'
  <2>1. \A r \in Requests : claim'[r] # None => claim'[r] = claim[r]
    BY <1>1
  <2> QED
    BY <1>0, <1>1, <2>1 DEF Claimed, Own, C, ConversationOf
<1>5. \A m \in Attempts : status'[m] # "absent" => m \in Started /\ m \notin gone /\ status[m] # "absent"
  BY <1>0, <1>1 DEF RowsKnown
<1>6. Stored'
  <2>1. ASSUME NEW m \in Attempts, status'[m] # "absent"
        PROVE  Own(m)' /\ Bound(input[m].request, m)'
    <3>1. m \in Started /\ Own(m) /\ Bound(input[m].request, m)
      BY <1>0, <1>5, <2>1 DEF Stored
    <3>2. Own(m)'
      BY <1>0, <3>1, Stable
    <3>3. PICK r \in Requests : r = input[m].request
      BY <1>0, <3>1 DEF InputKnown, Inputs
    <3>4. Bound(r, m)'
      BY <1>0, <3>1, <3>3, Stable
    <3> QED
      BY <1>1, <3>2, <3>3, <3>4 DEF Bound, C, ConversationOf
  <2> QED
    BY <1>1, <2>1 DEF Stored
<1>7. NoOrphans'
  <2>1. \A m \in Attempts : C(m)' = C(m) /\ UserMessageOf(m)' = UserMessageOf(m)
    BY <1>1 DEF C, ConversationOf, UserMessageOf
  <2>2. ASSUME NEW m \in Attempts, status'[m] # "absent"
        PROVE  C(m) \in conversations' /\ UserMessageOf(m) \in users'
    <3>1. /\ m \in Started /\ C(m) # c /\ UserMessageOf(m) \in Started /\ C(UserMessageOf(m)) = C(m)
          /\ C(m) \in conversations /\ UserMessageOf(m) \in users
      BY <1>0, <1>2, <1>5, <2>2 DEF IdsKnown, NoOrphans
    <3>2. UserMessageOf(m) \notin gone
      BY <1>2, <3>1
    <3> QED
      BY <1>1, <3>1, <3>2
  <2>3. ASSUME NEW d \in conversations'
        PROVE  \E m \in Attempts : C(m) = d /\ status'[m] # "absent"
    <3>1. PICK m \in Attempts : C(m) = d /\ status[m] # "absent" /\ d # c
      BY <1>0, <1>1, <2>3 DEF NoOrphans
    <3>2. m \notin gone
      BY <1>0, <1>2, <3>1 DEF RowsKnown
    <3> QED
      BY <1>1, <3>1, <3>2
  <2> QED
    BY <2>1, <2>2, <2>3 DEF NoOrphans
<1> QED
  BY <1>3, <1>4, <1>6, <1>7 DEF Rows

(* Only an arriving question starts an attempt. *)
LEMMA StartedStays ==
  ASSUME Typed, NEW a \in Attempts,
         Quiet(a) \/ Stores(a) \/ CallsLock(a) \/ Watch(a) \/ SendWriting(a) \/ Die(a)
  PROVE  Started' = Started
<1> USE DEF At, Goto
<1>1. pc[a] # "idle" \/ pc' = pc
  BY DEF Quiet, Lookup, ReadClaim, CheckAdopted, ReadWinner, ReadBack, Replay, LockBusy, CheckHandle, AgentEnds, CheckStop,
     Complete, CheckWriter, Reload, Catch, Stores, InsertClaim, Adopt, Materialize, Refuse, Fail,
     ClaimCompletion, Commit, LoseCommitReply, CallsLock, TakeLock, GiveUp, MarkSearching, MarkReading,
     MarkWriting, ReleaseAnswered, Unlock, WritingArrives, LoseRelease, Watch, SendWriting, Die,
     Active, Claiming, Running, Ending
<1>2. \A b \in Attempts \ {a} : pc'[b] = pc[b]
  BY OnlyOneMoves
<1>3. pc[a] # "idle" => pc'[a] # "idle"
  BY NeverIdle
<1> QED
  BY <1>1, <1>2, <1>3 DEF Started

(* The rows stay whole in every step. *)
LEMMA RowsNext ==
  ASSUME Typed, Remembers, Frame, Next
  PROVE  Rows'
<1>0. status \in [Attempts -> Statuses] /\ TypeOK
  BY DEF Typed, TypeOK
<1>1. ASSUME NEW a \in Attempts, Arrive(a) \/ Step(a) \/ Aside(a) \/ Faulty(a)
      PROVE  Rows'
  <2>1. CASE Arrive(a)
    BY <2>1, RowsArrive
  <2>2. CASE InsertClaim(a) \/ Adopt(a) \/ Materialize(a)
    BY <2>2, RowsInsertClaim, RowsStoreTurn
  <2>3. CASE Quiet(a) \/ CallsLock(a) \/ Watch(a) \/ SendWriting(a) \/ Die(a)
    <3>1. UNCHANGED <<input, claim, conversations, users, status, deleted>>
      BY <2>3 DEF Quiet, Lookup, ReadClaim, CheckAdopted, ReadWinner, ReadBack, Replay, LockBusy, CheckHandle,
         AgentEnds, CheckStop, Complete, CheckWriter, Reload, Catch, CallsLock, TakeLock, GiveUp,
         MarkSearching, MarkReading, MarkWriting, ReleaseAnswered, Unlock, WritingArrives, LoseRelease,
         Watch, SendWriting, Die, rows, world
    <3>2. Started' = Started
      BY <2>3, StartedStays
    <3> QED
      BY <3>1, <3>2, RowsKept
  <2>4. CASE Refuse(a) \/ Fail(a) \/ ClaimCompletion(a) \/ Commit(a) \/ LoseCommitReply(a)
    <3>1. UNCHANGED <<input, claim, conversations, users, deleted>>
      BY <2>4 DEF Refuse, Fail, ClaimCompletion, Commit, LoseCommitReply, world
    <3>2. \/ \E code \in FailureCodes : FailTurn(a, code)
          \/ CommitAnswer(a) \/ status' = status
      BY <1>0, <2>4 DEF Refuse, Fail, ClaimCompletion, Commit, LoseCommitReply, TypeOK, FailureCodes
    <3>3. \A m \in Attempts : status'[m] # "absent" <=> status[m] # "absent"
      <4>1. ASSUME NEW code \in FailureCodes, FailTurn(a, code)
            PROVE  \A m \in Attempts : status'[m] # "absent" <=> status[m] # "absent"
        BY <1>0, <4>1 DEF FailTurn, FailureCodes
      <4>2. CommitAnswer(a) => \A m \in Attempts : status'[m] # "absent" <=> status[m] # "absent"
        BY <1>0 DEF CommitAnswer
      <4> QED
        BY <3>2, <4>1, <4>2
    <3>4. Started' = Started
      BY <2>4, StartedStays DEF Stores
    <3> QED
      BY <3>1, <3>3, <3>4, RowsKept
  <2> QED
    BY <1>1, <2>1, <2>2, <2>3, <2>4, StepsByKind DEF Stores
<1>2. CASE Others
  <2>1. PICK c \in Attempts :
          \/ StopByRequest(c) \/ StopByRun(c) \/ DeleteConversation(c)
          \/ \E r \in Attempts : OwnerLock(c, r) \/ OwnerUnlock(c, r)
    BY <1>2 DEF Others
  <2>2. Started' = Started
    BY <1>2, FrameOthers DEF Started
  <2>3. CASE DeleteConversation(c)
    BY <2>3, RowsDelete
  <2>4. CASE StopByRequest(c)
    <3>1. /\ UNCHANGED <<input, claim, conversations, users, deleted>>
          /\ FailTurn(c, "CANCELLED")
      BY <2>4 DEF StopByRequest, world
    <3>2. \A m \in Attempts : status'[m] # "absent" <=> status[m] # "absent"
      BY <1>0, <3>1 DEF FailTurn
    <3> QED
      BY <2>2, <3>1, <3>2, RowsKept
  <2>5. CASE StopByRun(c) \/ \E r \in Attempts : OwnerLock(c, r) \/ OwnerUnlock(c, r)
    <3>1. UNCHANGED <<input, claim, conversations, users, status, deleted>>
      BY <2>5 DEF StopByRun, OwnerLock, OwnerUnlock, rows, world
    <3> QED
      BY <2>2, <3>1, RowsKept
  <2> QED
    BY <2>1, <2>3, <2>4, <2>5
<1> QED
  BY <1>1, <1>2 DEF Next

(* Nothing is known where nothing happened. *)
LEMMA RemembersInit == Init => Remembers
<1> SUFFICES ASSUME Init PROVE Remembers
  OBVIOUS
<1>1. Started = {} /\ conversations = {} /\ deleted = {}
  BY DEF Init, Started
<1>2. Rows
  BY <1>1 DEF Init, Rows, IdsKnown, Claimed, Stored, NoOrphans
<1>3. \A a \in Attempts : Knows(a)
  BY DEF Init, Knows, Naming, Executing, Running, Ending
<1> QED
  BY <1>2, <1>3 DEF Remembers

(* The invariant is inductive. *)
LEMMA RemembersNext ==
  ASSUME Typed, Remembers, [Next]_vars
  PROVE  Remembers'
<1>1. ASSUME NEW a \in Attempts, Arrive(a) \/ Step(a) \/ Aside(a) \/ Faulty(a)
      PROVE  Remembers'
  <2>1. Frame
    BY <1>1, FrameAttempt
  <2>2. Rows'
    BY <1>1, <2>1, RowsNext DEF Next
  <2>3. Knows(a)'
    BY <1>1, <2>1, KnowsMoves
  <2>4. \A b \in Attempts \ {a} : pc'[b] = pc[b] /\ turn'[b] = turn[b]
    BY <1>1, StepsByKind, OnlyOneMoves
  <2>5. \A b \in Attempts \ {a} : Knows(b)'
    BY <2>1, <2>4, KnowsStays
  <2> QED
    BY <2>2, <2>3, <2>5 DEF Remembers
<1>2. CASE Others
  <2>1. Frame /\ UNCHANGED <<pc, turn>>
    BY <1>2, FrameOthers
  <2>2. Rows'
    BY <1>2, <2>1, RowsNext DEF Next
  <2>3. \A b \in Attempts : Knows(b)'
    BY <2>1, KnowsStays
  <2> QED
    BY <2>2, <2>3 DEF Remembers
<1>3. CASE UNCHANGED vars
  <2>1. UNCHANGED <<input, pc, turn, claim, conversations, users, status, deleted>>
    BY <1>3 DEF vars
  <2>2. Frame
    BY <2>1 DEF Frame, Started
  <2>3. \A b \in Attempts : Knows(b)'
    BY <2>1, <2>2, KnowsStays
  <2>4. Rows'
    BY <2>1, <2>2, RowsKept DEF Started
  <2> QED
    BY <2>3, <2>4 DEF Remembers
<1> QED
  BY <1>1, <1>2, <1>3 DEF Next

(* And so it holds in every reachable state. *)
LEMMA AlwaysRemembers == Spec => []Remembers
  BY RemembersInit, RemembersNext, AlwaysTyped, PTL DEF Spec

-----------------------------------------------------------------------------
(* A stored answer always has its question, its conversation and its       *)
(* claim, and no conversation is stored without a turn - for any number of *)
(* attempts that insert, adopt, delete and die in between, also when the   *)
(* owner frees locks by hand.                                              *)
THEOREM TurnsAreWhole == Spec => []StoredTurnsAreWhole
<1>1. Remembers => StoredTurnsAreWhole
  BY DEF Remembers, Rows, StoredTurnsAreWhole, ClaimMatchesMessage, Stored, Bound
<1> QED
  BY <1>1, AlwaysRemembers, PTL

(* No attempt speaks of a turn of another caller or another request, and   *)
(* of another question only once a turn of the request was deleted.        *)
THEOREM DuplicatesMatch == Spec => []DuplicateIsTheSameQuestion
<1>1. Typed /\ Remembers => DuplicateIsTheSameQuestion
  <2> SUFFICES ASSUME Typed, Remembers, NEW a \in Attempts, pc[a] \in {"adopted", "replay", "replayed", "acquire"}
               PROVE  /\ input[turn[a]].owner = input[a].owner
                      /\ input[turn[a]].request = input[a].request
                      /\ \/ input[turn[a]].payload = input[a].payload
                         \/ \E w \in Attempts : input[w].request = input[a].request /\ C(w) \in deleted
    BY DEF DuplicateIsTheSameQuestion
  <2>1. Knows(a)
    BY DEF Remembers
  <2>2. CASE pc[a] = "acquire"
    BY <2>1, <2>2 DEF Knows, Executing
  <2>3. CASE pc[a] \in {"adopted", "replay", "replayed"}
    BY <2>1, <2>3 DEF Knows, Same, Touched, Started
  <2> QED
    BY <2>2, <2>3
<1> QED
  BY <1>1, AlwaysTyped, AlwaysRemembers, PTL

-----------------------------------------------------------------------------
(* Stages.  "writing" is stored for runs that had a search result, and the *)
(* same is known of the runs whose call to say so is still under way.      *)

Past == Program \ (Claiming \cup {"idle", "handle", "searching", "running"})

RowStaged(c) ==
  /\ lock[c].stage = "writing" => lock[c].run \in Attempts /\ pc[lock[c].run] \in Past
  /\ lock[c].stage \in {"reading", "writing"} => lock[c].count # "readableDocuments"

StageKnown == (\A c \in Attempts : RowStaged(c)) /\ \A a \in late : pc[a] \in Past

(* What the operations of the lock do to the stage of a row. *)
LEMMA StageOfARow ==
  ASSUME LockTypeOK, NEW c \in Attempts, NEW r \in Attempts, NEW d \in Attempts
  PROVE  /\ Acquire(c, r) \/ Release(c, r) \/ Cancel(c, r) =>
              \/ lock'[d].stage = "none"
              \/ lock'[d].run = lock[d].run /\ lock'[d].stage = lock[d].stage /\ lock'[d].count = lock[d].count
         /\ \A s \in Stages : SetStage(c, r, s) =>
              \/ lock'[d] = lock[d]
              \/ /\ d = c /\ lock[c].run = r /\ lock'[c].run = r /\ lock'[c].stage = s
                 /\ lock'[c].count = StoredCount(lock[c].stage, s, lock[c].count)
<1> USE DEF LockTypeOK, LockRow
<1>1. Acquire(c, r) =>
        \/ lock'[d].stage = "none"
        \/ lock'[d].run = lock[d].run /\ lock'[d].stage = lock[d].stage /\ lock'[d].count = lock[d].count
  BY DEF Acquire, Unlocked
<1>2. Release(c, r) =>
        \/ lock'[d].stage = "none"
        \/ lock'[d].run = lock[d].run /\ lock'[d].stage = lock[d].stage /\ lock'[d].count = lock[d].count
  BY DEF Release, Unlocked
<1>3. Cancel(c, r) =>
        lock'[d].run = lock[d].run /\ lock'[d].stage = lock[d].stage /\ lock'[d].count = lock[d].count
  BY DEF Cancel
<1>4. ASSUME NEW s \in Stages, SetStage(c, r, s)
      PROVE  \/ lock'[d] = lock[d]
             \/ /\ d = c /\ lock[c].run = r /\ lock'[c].run = r /\ lock'[c].stage = s
                /\ lock'[c].count = StoredCount(lock[c].stage, s, lock[c].count)
  <2> DEFINE count == StoredCount(lock[c].stage, s, lock[c].count)
  <2>1. \/ lock' = lock
        \/ lock[c].run = r /\ lock' = [lock EXCEPT ![c].stage = s, ![c].count = count]
    BY <1>4 DEF SetStage
  <2> HIDE DEF count
  <2>2. \/ lock'[d] = lock[d]
        \/ d = c /\ lock[c].run = r /\ lock'[c].run = r /\ lock'[c].stage = s /\ lock'[c].count = count
    BY <2>1
  <2> QED
    BY <2>2 DEF count
<1> QED
  BY <1>1, <1>2, <1>3, <1>4

(* A run that got past its first search does not go back. *)
LEMMA PastStays ==
  ASSUME Typed, Next, NEW b \in Attempts, pc[b] \in Past
  PROVE  pc'[b] \in Past
<1> USE DEF At, Goto
<1>0. pc \in [Attempts -> Program] /\ pc' \in [Attempts -> Program]
  BY TypedNext DEF Typed, TypeOK
<1>1. ASSUME NEW a \in Attempts, Arrive(a) \/ Step(a) \/ Aside(a) \/ Faulty(a)
      PROVE  pc'[b] \in Past
  <2>1. CASE b # a
    BY <1>1, <2>1, StepsByKind, OnlyOneMoves
  <2>2. CASE b = a
    <3>1. CASE Complete(a) \/ CheckWriter(a)
      <4>1. pc' = [pc EXCEPT ![a] = pc'[a]]
        BY <1>0, <3>1, Zenon DEF Complete, CheckWriter
      <4>2. pc'[a] \in {"release", "claimCompletion", "commit", "catch"}
        <5>1. CASE Complete(a)
          <6>1. pc'[a] = CASE status[a] = "completed" -> "release"
                           [] status[a] = "pending"   -> "claimCompletion"
                           [] OTHER                   -> "catch"
            BY <1>0, <5>1, Zenon DEF Complete
          <6> QED
            BY <6>1, Zenon
        <5>2. CASE CheckWriter(a)
          <6>1. pc'[a] = CASE status[a] = "pending" /\ a \in completionClaims -> "commit"
                           [] status[a] = "completed"                         -> "release"
                           [] OTHER                                           -> "catch"
            BY <1>0, <5>2, Zenon DEF CheckWriter
          <6> QED
            BY <6>1, Zenon
        <5> QED
          BY <3>1, <5>1, <5>2
      <4> QED
        BY <2>2, <4>2 DEF Past, Program, Active, Running, Ending, Claiming
    <3>2. CASE Unlock(a) \/ LoseRelease(a)
      <4>1. ReplyFor(why[a]) \in {"cancelled", "unavailable", "error"}
        BY Zenon DEF ReplyFor
      <4>2. pc'[a] \in {"cancelled", "unavailable", "error", "catch"}
        BY <1>0, <3>2, <4>1 DEF Unlock, LoseRelease
      <4> QED
        BY <2>2, <4>2 DEF Past, Program, Active, Ending, Claiming, Replies
    <3>3. CASE Quiet(a) /\ ~(Complete(a) \/ CheckWriter(a))
      BY <1>0, <2>2, <3>3 DEF Quiet, Lookup, ReadClaim, CheckAdopted, ReadWinner, ReadBack, Replay, LockBusy, CheckHandle,
         AgentEnds, CheckStop, Reload, Catch, Past, Program, Active, Running, Ending, Claiming, Replies
    <3>4. CASE Stores(a)
      BY <1>0, <2>2, <3>4 DEF Stores, InsertClaim, Adopt, Materialize, Refuse, Fail, ClaimCompletion,
         Commit, LoseCommitReply, Past, Program, Active, Running, Ending, Claiming, Replies
    <3>5. CASE CallsLock(a) /\ ~(Unlock(a) \/ LoseRelease(a))
      BY <1>0, <2>2, <3>5 DEF CallsLock, TakeLock, GiveUp, MarkSearching, MarkReading, MarkWriting,
         ReleaseAnswered, WritingArrives, Past, Program, Active, Running, Ending, Claiming, Replies
    <3>6. CASE Watch(a) \/ SendWriting(a) \/ Die(a) \/ Arrive(a)
      BY <1>0, <2>2, <3>6 DEF Watch, SendWriting, Die, Arrive, Ask, Retry, Past, Program, Claiming
    <3> QED
      BY <1>1, <3>1, <3>2, <3>3, <3>4, <3>5, <3>6, StepsByKind
  <2> QED
    BY <2>1, <2>2
<1>2. CASE Others
  BY <1>2, FrameOthers
<1> QED
  BY <1>1, <1>2 DEF Next

(* The stages stay what they should be. *)
LEMMA StageNext ==
  ASSUME Typed, StageKnown, [Next]_vars
  PROVE  StageKnown'
<1> USE DEF At, Goto
<1>0. /\ LockTypeOK /\ pc \in [Attempts -> Program] /\ late \subseteq Attempts
      /\ \A b \in Attempts : C(b) \in Attempts
  BY IdsAreAttempts DEF Typed, TypeOK
<1>1. CASE UNCHANGED vars
  BY <1>1 DEF vars, StageKnown, RowStaged
<1>2. CASE Next
  <2>1. \A b \in Attempts : pc[b] \in Past => pc'[b] \in Past
    BY <1>2, PastStays
  <2>2. ASSUME NEW d \in Attempts,
               \/ lock'[d].stage = "none"
               \/ lock'[d].run = lock[d].run /\ lock'[d].stage = lock[d].stage /\ lock'[d].count = lock[d].count
        PROVE  RowStaged(d)'
    BY <2>1, <2>2 DEF StageKnown, RowStaged
  <2>3. ASSUME late' \subseteq late, lock' = lock
        PROVE  StageKnown'
    BY <1>0, <2>1, <2>2, <2>3 DEF StageKnown
  <2>4. ASSUME NEW c \in Attempts, NEW r \in Attempts, Acquire(c, r) \/ Release(c, r) \/ Cancel(c, r), late' = late
        PROVE  StageKnown'
    BY <1>0, <2>1, <2>2, <2>4, StageOfARow DEF StageKnown
  <2>5. ASSUME NEW a \in Attempts, NEW s \in Stages, SetStage(C(a), a, s), late' \subseteq late,
               s # "none", s = "writing" => pc'[a] \in Past
        PROVE  StageKnown'
    <3>1. ASSUME NEW d \in Attempts PROVE RowStaged(d)'
      <4>1. CASE lock'[d] = lock[d]
        BY <2>2, <4>1
      <4>2. CASE lock'[d] # lock[d]
        <5>1. /\ lock'[d].run = a /\ lock'[d].stage = s
              /\ lock'[d].count = StoredCount(lock[d].stage, s, lock[d].count)
          BY <1>0, <2>5, <4>2, StageOfARow
        <5>2. s \in {"reading", "writing"} => StoredCount(lock[d].stage, s, lock[d].count) # "readableDocuments"
          <6>1. s = "reading" => StoredCount(lock[d].stage, s, lock[d].count) = "passages"
            BY Zenon DEF StoredCount
          <6>2. s = "writing" => StoredCount(lock[d].stage, s, lock[d].count)
                                   = IF lock[d].stage = "reading" THEN lock[d].count ELSE "none"
            BY DEF StoredCount
          <6>3. lock[d].stage = "reading" => lock[d].count # "readableDocuments"
            BY DEF StageKnown, RowStaged
          <6> QED
            BY <6>1, <6>2, <6>3
        <5> QED
          BY <2>5, <5>1, <5>2 DEF RowStaged
      <4> QED
        BY <4>1, <4>2
    <3> QED
      BY <1>0, <2>1, <2>5, <3>1 DEF StageKnown
  <2>6. ASSUME NEW a \in Attempts, Arrive(a) \/ Step(a) \/ Aside(a) \/ Faulty(a)
        PROVE  StageKnown'
    <3>1. CASE Quiet(a) \/ Stores(a) \/ Watch(a) \/ Die(a) \/ Arrive(a)
      <4>1. late' = late /\ lock' = lock
        BY <3>1 DEF Quiet, Lookup, ReadClaim, CheckAdopted, ReadWinner, ReadBack, Replay, LockBusy, CheckHandle,
           AgentEnds, CheckStop, Complete, CheckWriter, Reload, Catch, Stores, InsertClaim, Adopt,
           Materialize, Refuse, Fail, ClaimCompletion, Commit, LoseCommitReply, Watch, Die, Arrive,
           Ask, Retry, world
      <4> QED
        BY <2>3, <4>1
    <3>2. CASE SendWriting(a)
      <4>1. late' = late \cup {a} /\ lock' = lock /\ pc' = pc /\ pc[a] \in Past
        BY <3>2 DEF SendWriting, Past, Program, Active, Running, Claiming
      <4> QED
        BY <2>1, <4>1 DEF StageKnown, RowStaged
    <3>3. CASE TakeLock(a) \/ GiveUp(a) \/ ReleaseAnswered(a) \/ Unlock(a)
      <4>1. late' = late /\ (Acquire(C(a), a) \/ Release(C(a), a))
        BY <3>3 DEF TakeLock, GiveUp, ReleaseAnswered, Unlock, world
      <4> QED
        BY <1>0, <2>4, <4>1
    <3>4. CASE LoseRelease(a)
      <4>1. late' = late /\ (lock' = lock \/ Release(C(a), a))
        BY <3>4 DEF LoseRelease
      <4> QED
        BY <1>0, <2>3, <2>4, <4>1
    <3>5. CASE MarkSearching(a) \/ MarkReading(a)
      <4>1. /\ late' = late
            /\ lock' = lock \/ SetStage(C(a), a, "searching") \/ SetStage(C(a), a, "reading")
        BY <3>5 DEF MarkSearching, MarkReading, world
      <4> QED
        BY <2>3, <2>5, <4>1 DEF Stages
    <3>6. CASE MarkWriting(a)
      <4>1. late' = late /\ SetStage(C(a), a, "writing") /\ pc'[a] = "complete"
        BY <1>0, <3>6 DEF MarkWriting, world
      <4>2. pc'[a] \in Past
        BY <4>1 DEF Past, Program, Active, Running, Claiming
      <4> QED
        BY <2>5, <4>1, <4>2 DEF Stages
    <3>7. CASE WritingArrives(a)
      <4>1. late' \subseteq late /\ SetStage(C(a), a, "writing") /\ pc' = pc /\ pc[a] \in Past
        BY <3>7 DEF WritingArrives, StageKnown
      <4> QED
        BY <2>5, <4>1 DEF Stages
    <3> QED
      BY <2>6, <3>1, <3>2, <3>3, <3>4, <3>5, <3>6, <3>7, StepsByKind DEF CallsLock
  <2>7. CASE Others
    <3>1. PICK c \in Attempts :
            \/ StopByRequest(c) \/ StopByRun(c) \/ DeleteConversation(c)
            \/ \E r \in Attempts : OwnerLock(c, r) \/ OwnerUnlock(c, r)
      BY <2>7 DEF Others
    <3>2. late' = late
      BY <3>1 DEF StopByRequest, StopByRun, DeleteConversation, OwnerLock, OwnerUnlock, world
    <3>3. CASE StopByRequest(c) \/ DeleteConversation(c)
      <4>1. lock' = lock
        BY <3>3 DEF StopByRequest, DeleteConversation
      <4> QED
        BY <2>3, <3>2, <4>1
    <3>4. CASE StopByRun(c)
      <4>1. lock[c].run \in Attempts /\ Cancel(c, lock[c].run)
        BY <1>0, <3>4 DEF StopByRun, LockTypeOK, LockRow
      <4> QED
        BY <2>4, <3>2, <4>1
    <3>5. CASE \E r \in Attempts : OwnerLock(c, r) \/ OwnerUnlock(c, r)
      <4>1. PICK r \in Attempts : Acquire(c, r) \/ Release(c, r)
        BY <3>5 DEF OwnerLock, OwnerUnlock
      <4> QED
        BY <2>4, <3>2, <4>1
    <3> QED
      BY <3>1, <3>3, <3>4, <3>5
  <2> QED
    BY <1>2, <2>6, <2>7 DEF Next
<1> QED
  BY <1>1, <1>2

(* Of the attempts under one request id at most one runs the turn, and a   *)
(* poll that says "writing" speaks of a run that had a search result and   *)
(* never counts readable documents as passages - for any number of         *)
(* attempts, and although nobody waits for the calls that say so.          *)
THEOREM OneRunShown == Spec => []OneRunIsShown
<1>1. Init => StageKnown
  BY DEF Init, LockInit, Unlocked, StageKnown, RowStaged
<1>2. Typed /\ StageKnown /\ [Next]_vars => StageKnown'
  BY StageNext
<1>3. Remembers => OneExecutorPerRequest
  BY DEF Remembers, Knows, Executing, Bound, OneExecutorPerRequest
<1>4. StageKnown => StageIsOfTheHolder
  BY DEF StageKnown, RowStaged, StageIsOfTheHolder, Past
<1>5. Remembers /\ StageKnown => OneRunIsShown
  BY <1>3, <1>4 DEF OneRunIsShown
<1> QED
  BY <1>1, <1>2, <1>5, AlwaysTyped, AlwaysRemembers, PTL DEF Spec

-----------------------------------------------------------------------------
(* How turns end, as long as the owner does not free the lock by hand.     *)

Failing == {"catch", "fail", "unlock"}

(* Whoever met a fault only has its failure left to record. *)
AfterFault == {"crashed"} \cup Failing \cup Replies

Answering == {"reload", "release", "answered"}

Releases(a) == GiveUp(a) \/ ReleaseAnswered(a) \/ Unlock(a) \/ LoseRelease(a)

Ends(a) ==
  /\ a \in faulted => pc[a] \in AfterFault
  /\ status[a] = "completed" => pc[a] \in Answering \/ a \in faulted

(* A lock names an attempt that is going to free it. *)
Frees(a) == lock[C(a)].run = a => pc[a] \in Running \cup Ending \/ a \in faulted

Outcomes ==
  /\ \A c \in Attempts : lock[c].run \in Started \cup {None}
  /\ \A a \in Attempts : Ends(a) /\ Frees(a)

(* The lock of a conversation passes to who takes it when it is free, and  *)
(* away from its holder by the holder's own release only.                  *)
LEMMA WhoMovesTheLock ==
  ASSUME Typed, "lock" \notin Allowed, [Next]_vars, NEW d \in Attempts, lock'[d].run # lock[d].run
  PROVE  \E a \in Attempts :
           /\ d = C(a)
           /\ \/ TakeLock(a) /\ lock'[d].run = a
              \/ Releases(a) /\ lock[d].run = a /\ lock'[d].run = None
<1>0. LockTypeOK /\ \A b \in Attempts : C(b) \in Attempts
  BY IdsAreAttempts DEF Typed, TypeOK
<1>1. ASSUME NEW a \in Attempts, Arrive(a) \/ Step(a) \/ Aside(a) \/ Faulty(a)
      PROVE  /\ d = C(a)
             /\ \/ TakeLock(a) /\ lock'[d].run = a
                \/ Releases(a) /\ lock[d].run = a /\ lock'[d].run = None
  <2>1. CASE Quiet(a) \/ Stores(a) \/ Watch(a) \/ SendWriting(a) \/ Die(a) \/ Arrive(a)
    <3>1. lock' = lock
      BY <2>1 DEF Quiet, Lookup, ReadClaim, CheckAdopted, ReadWinner, ReadBack, Replay, LockBusy, CheckHandle,
         AgentEnds, CheckStop, Complete, CheckWriter, Reload, Catch, Stores, InsertClaim, Adopt,
         Materialize, Refuse, Fail, ClaimCompletion, Commit, LoseCommitReply, Watch, SendWriting,
         Die, Arrive, Ask, Retry
    <3> QED
      BY <3>1
  <2>2. CASE MarkSearching(a) \/ MarkReading(a) \/ MarkWriting(a) \/ WritingArrives(a)
    <3>1. lock' = lock \/ \E s \in Stages : SetStage(C(a), a, s)
      BY <2>2 DEF MarkSearching, MarkReading, MarkWriting, WritingArrives, Stages
    <3> QED
      BY <1>0, <3>1, RunOfARow
  <2>3. CASE TakeLock(a)
    BY <1>0, <2>3, RunOfARow DEF TakeLock
  <2>4. CASE Releases(a)
    <3>1. lock' = lock \/ Release(C(a), a)
      BY <2>4 DEF Releases, GiveUp, ReleaseAnswered, Unlock, LoseRelease
    <3> QED
      BY <1>0, <2>4, <3>1, RunOfARow
  <2> QED
    BY <1>1, <2>1, <2>2, <2>3, <2>4, StepsByKind DEF CallsLock, Releases
<1>2. ~Others
  <2> SUFFICES ASSUME Others PROVE FALSE
    OBVIOUS
  <2>1. PICK c \in Attempts : StopByRequest(c) \/ StopByRun(c) \/ DeleteConversation(c)
    BY DEF Others, OwnerLock, OwnerUnlock
  <2>2. CASE StopByRequest(c) \/ DeleteConversation(c)
    BY <2>2 DEF StopByRequest, DeleteConversation
  <2>3. CASE StopByRun(c)
    <3>1. lock[c].run \in Attempts /\ Cancel(c, lock[c].run)
      BY <1>0, <2>3 DEF StopByRun, LockTypeOK, LockRow
    <3> QED
      BY <1>0, <3>1, RunOfARow
  <2> QED
    BY <2>1, <2>2, <2>3
<1>3. lock' # lock
  OBVIOUS
<1> QED
  BY <1>1, <1>2, <1>3 DEF Next, vars

(* A turn's final state is stored before its lock is given back: what an   *)
(* attempt knows where it releases says so.  Exempt are a lost call and a  *)
(* request deleted with the conversation of one of its turns.              *)
THEOREM SettlesFirst ==
  ASSUME "lock" \notin Allowed
  PROVE  Spec => SettledBeforeRelease
<1> DEFINE Gone(a) == /\ lock[C(a)].run = a /\ lock'[C(a)].run # a
                      /\ a \notin faulted'
                      /\ \A w \in Attempts : C(w) \in deleted => input[w].request # input[a].request
<1>1. Typed /\ Remembers /\ [Next]_vars => [\A a \in Attempts : Gone(a) => Settled(status'[a])]_vars
  <2> SUFFICES ASSUME Typed, Remembers, [Next]_vars, NEW a \in Attempts, Gone(a)
               PROVE  Settled(status'[a])
    OBVIOUS
  <2> USE DEF At, Goto
  <2>1. C(a) \in Attempts /\ a # None
    BY IdsAreAttempts, NoneIsNotAnAttempt DEF Typed, TypeOK
  <2>2. Releases(a)
    <3>1. PICK b \in Attempts :
            /\ C(a) = C(b)
            /\ \/ TakeLock(b) /\ lock'[C(a)].run = b
               \/ Releases(b) /\ lock[C(a)].run = b /\ lock'[C(a)].run = None
      BY <2>1, WhoMovesTheLock
    <3>2. CASE TakeLock(b)
      <4>1. CanAcquire(C(b), b)
        BY <3>2 DEF TakeLock, Acquire
      <4>2. lock'[C(a)].run = b
        BY <3>1, <3>2, <2>1 DEF TakeLock, Releases, GiveUp, ReleaseAnswered, Unlock, LoseRelease
      <4> QED
        BY <2>1, <3>1, <4>1, <4>2 DEF CanAcquire
    <3> QED
      BY <3>1, <3>2
  <2>3. /\ pc[a] \in {"giveUp", "unlock", "release"} /\ status' = status
    BY <2>2 DEF Releases, GiveUp, ReleaseAnswered, Unlock, LoseRelease, rows
  <2>4. Knows(a) /\ ~Touched(input[a].request) /\ C(a) \notin deleted
    BY DEF Remembers, Touched, Started
  <2> QED
    BY <2>3, <2>4 DEF Knows, Settled
<1> QED
  BY <1>1, AlwaysTyped, AlwaysRemembers, PTL DEF Spec, SettledBeforeRelease

(* A step of an attempt ends no other attempt's turn. *)
LEMMA OnlyOneEnds ==
  ASSUME Typed, NEW a \in Attempts, Arrive(a) \/ Step(a) \/ Aside(a) \/ Faulty(a)
  PROVE  \A b \in Attempts \ {a} :
           /\ pc'[b] = pc[b]
           /\ b \in faulted' <=> b \in faulted
           /\ status'[b] = "completed" => status[b] = "completed"
<1>0. status \in [Attempts -> Statuses] /\ TypeOK
  BY DEF Typed, TypeOK
<1>1. \A b \in Attempts \ {a} : pc'[b] = pc[b]
  BY StepsByKind, OnlyOneMoves
<1>2. \A b \in Attempts \ {a} : b \in faulted' <=> b \in faulted
  <2>1. faulted' = faulted \/ Fault(a)
    BY StepsByKind DEF Quiet, Lookup, ReadClaim, CheckAdopted, ReadWinner, ReadBack, Replay, LockBusy, CheckHandle,
       AgentEnds, CheckStop, Complete, CheckWriter, Reload, Catch, Stores, InsertClaim, Adopt,
       Materialize, Refuse, Fail, ClaimCompletion, Commit, LoseCommitReply, Watch, SendWriting,
       Die, Arrive, Ask, Retry, CallsLock, TakeLock, GiveUp, MarkSearching, MarkReading, MarkWriting,
       ReleaseAnswered, Unlock, WritingArrives, LoseRelease, world
  <2> QED
    BY <2>1 DEF Fault
<1>3. \A b \in Attempts \ {a} : status'[b] = "completed" => status[b] = "completed"
  <2>1. CASE Stores(a)
    <3>1. CASE InsertClaim(a) \/ ClaimCompletion(a)
      BY <3>1 DEF InsertClaim, ClaimCompletion
    <3>2. CASE Adopt(a) \/ Materialize(a)
      <4>1. \/ UNCHANGED status
            \/ status' = [status EXCEPT ![turn[a]] = IF @ = "absent" THEN "pending" ELSE @]
        BY <3>2 DEF Adopt, Materialize, StoreTurn
      <4> QED
        BY <1>0, <4>1
    <3>3. CASE Refuse(a) \/ Fail(a)
      BY <1>0, <3>3 DEF Refuse, Fail, FailTurn
    <3>4. CASE Commit(a) \/ LoseCommitReply(a)
      BY <1>0, <3>4 DEF Commit, LoseCommitReply, CommitAnswer
    <3> QED
      BY <2>1, <3>1, <3>2, <3>3, <3>4 DEF Stores
  <2>2. CASE ~Stores(a)
    <3>1. status' = status
      BY <2>2, StepsByKind DEF Quiet, Lookup, ReadClaim, CheckAdopted, ReadWinner, ReadBack, Replay, LockBusy, CheckHandle,
         AgentEnds, CheckStop, Complete, CheckWriter, Reload, Catch, Watch, SendWriting,
         Die, Arrive, Ask, Retry, CallsLock, TakeLock, GiveUp, MarkSearching, MarkReading, MarkWriting,
         ReleaseAnswered, Unlock, WritingArrives, LoseRelease, rows
    <3> QED
      BY <3>1
  <2> QED
    BY <2>1, <2>2
<1> QED
  BY <1>1, <1>2, <1>3

(* A step of an attempt keeps what is said of its own end. *)
LEMMA EndsMoves ==
  ASSUME Typed, HolderOwnsLock, NEW a \in Attempts, Ends(a),
         Arrive(a) \/ Step(a) \/ Aside(a) \/ Faulty(a)
  PROVE  Ends(a)'
<1> USE DEF At, Goto
<1>0. pc \in [Attempts -> Program] /\ status \in [Attempts -> Statuses] /\ TypeOK
  BY DEF Typed, TypeOK
<1>1. ReplyFor(why[a]) \in {"cancelled", "unavailable", "error"}
  BY Zenon DEF ReplyFor
(* Only a commit completes a turn, and only a fault is a fault. *)
<1>2. ASSUME faulted' = faulted, status'[a] = "completed" => status[a] = "completed",
             a \in faulted => pc'[a] \in AfterFault,
             status[a] = "completed" => pc'[a] \in Answering \/ a \in faulted
      PROVE  Ends(a)'
  BY <1>2 DEF Ends
<1>3. CASE Arrive(a)
  <2>1. faulted' = faulted /\ status' = status /\ pc[a] = "idle"
    BY <1>3 DEF Arrive, Ask, Retry, rows, world
  <2> QED
    BY <1>2, <2>1 DEF Ends, AfterFault, Answering, Failing, Replies
<1>4. CASE Quiet(a) /\ ~(Complete(a) \/ CheckWriter(a) \/ CheckStop(a) \/ Reload(a))
  <2>1. faulted' = faulted /\ status' = status
    BY <1>4 DEF Quiet, Lookup, ReadClaim, CheckAdopted, ReadWinner, ReadBack, Replay, LockBusy, CheckHandle,
       AgentEnds, Catch, rows, world
  <2>2. /\ a \in faulted => pc'[a] \in AfterFault
        /\ status[a] = "completed" => pc'[a] \in Answering \/ a \in faulted
    BY <1>0, <1>4 DEF Quiet, Lookup, ReadClaim, CheckAdopted, ReadWinner, ReadBack, Replay, LockBusy, CheckHandle,
       AgentEnds, Catch, Ends, AfterFault, Answering, Failing, Replies
  <2> QED
    BY <1>2, <2>1, <2>2
<1>5. CASE CheckStop(a) \/ Reload(a)
  <2>1. faulted' = faulted /\ status' = status
    BY <1>5 DEF CheckStop, Reload, rows, world
  <2>2. /\ a \in faulted => pc'[a] \in AfterFault
        /\ status[a] = "completed" => pc'[a] \in Answering \/ a \in faulted
    BY <1>0, <1>5 DEF CheckStop, Reload, Ends, AfterFault, Answering, Failing, Replies
  <2> QED
    BY <1>2, <2>1, <2>2
<1>6. CASE Complete(a) \/ CheckWriter(a)
  <2>1. faulted' = faulted /\ status' = status /\ pc[a] \in {"complete", "checkWriter"}
    BY <1>6 DEF Complete, CheckWriter, rows, world
  <2>2. a \notin faulted /\ status[a] # "completed"
    BY <2>1 DEF Ends, AfterFault, Answering, Failing, Replies
  <2> QED
    BY <1>2, <2>1, <2>2
<1>7. CASE InsertClaim(a) \/ Adopt(a) \/ Materialize(a) \/ Refuse(a) \/ ClaimCompletion(a)
  <2>1. /\ faulted' = faulted
        /\ pc[a] \in {"insertClaim", "adopt", "materialize", "refuse", "claimCompletion"}
    BY <1>7 DEF InsertClaim, Adopt, Materialize, Refuse, ClaimCompletion, world
  <2>2. a \notin faulted /\ status[a] # "completed"
    BY <2>1 DEF Ends, AfterFault, Answering, Failing, Replies
  <2>3. status'[a] # "completed"
    <3>1. CASE InsertClaim(a) \/ ClaimCompletion(a)
      BY <2>2, <3>1 DEF InsertClaim, ClaimCompletion
    <3>2. CASE Adopt(a) \/ Materialize(a)
      <4>1. \/ UNCHANGED status
            \/ status' = [status EXCEPT ![turn[a]] = IF @ = "absent" THEN "pending" ELSE @]
        BY <3>2 DEF Adopt, Materialize, StoreTurn
      <4> QED
        BY <1>0, <2>2, <4>1
    <3>3. CASE Refuse(a)
      BY <1>0, <2>2, <3>3 DEF Refuse, FailTurn
    <3> QED
      BY <1>7, <3>1, <3>2, <3>3
  <2> QED
    BY <1>2, <2>1, <2>2, <2>3
<1>8. CASE Fail(a)
  <2>1. /\ faulted' = faulted /\ pc[a] = "fail" /\ pc'[a] = "unlock"
        /\ FailTurn(a, why[a]) /\ why[a] \in FailureCodes
    BY <1>0, <1>8 DEF Fail, world, TypeOK
  <2>2. status'[a] = "completed" => status[a] = "completed"
    BY <1>0, <2>1 DEF FailTurn, FailureCodes
  <2> QED
    BY <1>2, <2>1, <2>2 DEF Ends, AfterFault, Answering, Failing, Replies
<1>9. CASE Commit(a)
  <2>1. /\ faulted' = faulted /\ pc[a] = "commit" /\ pc'[a] = "reload"
    BY <1>0, <1>9 DEF Commit, world
  <2>2. a \notin faulted
    BY <2>1 DEF Ends, AfterFault, Failing, Replies
  <2> QED
    BY <2>1, <2>2 DEF Ends, Answering
<1>10. CASE LoseCommitReply(a)
  <2>1. /\ a \in faulted' /\ pc[a] = "commit" /\ pc'[a] = "catch"
    BY <1>0, <1>10 DEF LoseCommitReply, Fault
  <2> QED
    BY <2>1 DEF Ends, AfterFault, Failing
<1>11. CASE Die(a)
  <2>1. a \in faulted' /\ status' = status /\ pc'[a] = "crashed"
    BY <1>0, <1>11 DEF Die, Fault, rows
  <2> QED
    BY <2>1 DEF Ends, AfterFault
<1>12. CASE LoseRelease(a)
  <2>1. /\ a \in faulted' /\ status' = status
        /\ pc'[a] \in {"catch", "cancelled", "unavailable", "error"}
    BY <1>0, <1>1, <1>12 DEF LoseRelease, Fault, rows
  <2> QED
    BY <2>1 DEF Ends, AfterFault, Failing, Replies
<1>13. CASE TakeLock(a) \/ GiveUp(a) \/ MarkSearching(a) \/ MarkReading(a) \/ MarkWriting(a)
            \/ WritingArrives(a) \/ Unlock(a)
  <2>1. faulted' = faulted /\ status' = status
    BY <1>13 DEF TakeLock, GiveUp, MarkSearching, MarkReading, MarkWriting, WritingArrives, Unlock, rows, world
  <2>2. /\ a \in faulted => pc'[a] \in AfterFault
        /\ status[a] = "completed" => pc'[a] \in Answering \/ a \in faulted
    BY <1>0, <1>1, <1>13 DEF TakeLock, GiveUp, MarkSearching, MarkReading, MarkWriting, WritingArrives, Unlock,
       Ends, AfterFault, Answering, Failing, Replies
  <2> QED
    BY <1>2, <2>1, <2>2
<1>14. CASE ReleaseAnswered(a)
  <2>1. /\ faulted' = faulted /\ status' = status /\ pc[a] = "release"
    BY <1>14 DEF ReleaseAnswered, rows, world
  <2>2. lock[C(a)].run = a
    BY <2>1 DEF HolderOwnsLock, Running
  <2>3. pc'[a] = "answered"
    BY <1>0, <1>14, <2>2 DEF ReleaseAnswered, CanRelease
  <2> QED
    BY <1>2, <2>1, <2>3 DEF Ends, AfterFault, Answering, Failing, Replies
<1>15. CASE Watch(a)
  <2>1. faulted' = faulted /\ pc' = pc /\ status' = status
    BY <1>15 DEF Watch, rows, world
  <2> QED
    BY <2>1 DEF Ends
<1>16. CASE SendWriting(a)
  BY <1>16 DEF SendWriting, rows, Ends
<1> QED
  BY <1>3, <1>4, <1>5, <1>6, <1>7, <1>8, <1>9, <1>10, <1>11, <1>12, <1>13, <1>14, <1>15, <1>16,
     StepsByKind DEF Stores, CallsLock

(* Nor do stops and deletions change how a turn ends: they fail or remove  *)
(* it.                                                                     *)
LEMMA EndsOthers ==
  ASSUME Typed, Others, NEW b \in Attempts, Ends(b)
  PROVE  Ends(b)'
<1>0. status \in [Attempts -> Statuses]
  BY DEF Typed, TypeOK
<1>1. PICK c \in Attempts :
        \/ StopByRequest(c) \/ StopByRun(c) \/ DeleteConversation(c)
        \/ \E r \in Attempts : OwnerLock(c, r) \/ OwnerUnlock(c, r)
  BY DEF Others
<1>2. pc' = pc /\ faulted' = faulted
  BY <1>1 DEF StopByRequest, StopByRun, DeleteConversation, OwnerLock, OwnerUnlock, world
<1>3. status'[b] = "completed" => status[b] = "completed"
  <2>1. CASE StopByRequest(c)
    BY <1>0, <2>1 DEF StopByRequest, FailTurn
  <2>2. CASE DeleteConversation(c)
    <3>1. status'[b] \in {"absent", status[b]}
      BY <2>2 DEF DeleteConversation
    <3> QED
      BY <3>1
  <2>3. CASE StopByRun(c) \/ \E r \in Attempts : OwnerLock(c, r) \/ OwnerUnlock(c, r)
    BY <2>3 DEF StopByRun, OwnerLock, OwnerUnlock, rows
  <2> QED
    BY <1>1, <2>1, <2>2, <2>3
<1> QED
  BY <1>2, <1>3 DEF Ends

(* Nobody leaves a turn behind whose lock it still holds. *)
LEMMA FreesNext ==
  ASSUME Typed, Remembers, Outcomes, "lock" \notin Allowed, Next
  PROVE  /\ \A c \in Attempts : lock'[c].run \in Started' \cup {None}
         /\ \A b \in Attempts : Frees(b)'
<1> USE DEF At, Goto
<1>0. /\ LockTypeOK /\ pc \in [Attempts -> Program] /\ IdsKnown /\ \A b \in Attempts : C(b) \in Attempts
  BY IdsAreAttempts DEF Typed, TypeOK, Remembers, Rows
<1>1. Frame
  BY FrameAttempt, FrameOthers DEF Next
<1>2. \A c \in Attempts : lock[c].run \in Started \cup {None}
  BY DEF Outcomes
<1>3. ASSUME NEW c \in Attempts, lock'[c].run # lock[c].run
      PROVE  \/ \E a \in Started : c = C(a) /\ TakeLock(a) /\ lock'[c].run = a
             \/ lock'[c].run = None
  BY <1>3, WhoMovesTheLock DEF TakeLock, Started
<1>4. \A c \in Attempts : lock'[c].run \in Started' \cup {None}
  BY <1>1, <1>2, <1>3 DEF Frame
<1>5. ASSUME NEW b \in Attempts, lock'[C(b)'].run = b
      PROVE  pc'[b] \in Running \cup Ending \/ b \in faulted'
  <2>0. b # None
    BY NoneIsNotAnAttempt
  <2>1. C(b)' \in Attempts
    BY TypedNext, IdsAreAttempts DEF Typed, TypeOK, C, ConversationOf, Inputs, NoInput
  <2>2. b \in Started
    BY <1>2, <1>3, <1>5, <2>0, <2>1
  <2>3. C(b)' = C(b)
    BY <1>0, <1>1, <2>2, Stable
  <2>4. PICK d \in Attempts : d = C(b) /\ lock'[d].run = b
    BY <1>5, <2>1, <2>3
  <2>5. CASE lock[d].run # b
    <3>1. TakeLock(b)
      BY <1>3, <2>0, <2>4, <2>5
    <3>2. pc'[b] = "handle"
      BY <1>0, <3>1 DEF TakeLock
    <3> QED
      BY <3>2 DEF Running
  <2>6. CASE lock[d].run = b
    <3>1. pc[b] \in Running \cup Ending \/ b \in faulted
      BY <2>4, <2>6 DEF Outcomes, Frees
    <3>2. CASE Others
      <4>1. pc' = pc
        BY <3>2, FrameOthers
      <4>2. faulted' = faulted
        BY <3>2 DEF Others, StopByRequest, StopByRun, DeleteConversation, OwnerLock, OwnerUnlock, world
      <4> QED
        BY <3>1, <4>1, <4>2
    <3>3. ASSUME NEW a \in Attempts, Arrive(a) \/ Step(a) \/ Aside(a) \/ Faulty(a)
          PROVE  pc'[b] \in Running \cup Ending \/ b \in faulted'
      <4>1. CASE a # b
        BY <3>1, <3>3, <4>1, OnlyOneEnds
      <4>2. CASE a = b
        <5>1. CASE GiveUp(b) \/ ReleaseAnswered(b) \/ Unlock(b)
          <6>1. Release(C(b), b)
            BY <5>1 DEF GiveUp, ReleaseAnswered, Unlock
          <6>2. lock'[d].run = None
            BY <1>0, <2>4, <2>6, <6>1, RunOfARow
          <6> QED
            BY <2>0, <2>4, <6>2
        <5>2. CASE Die(b) \/ LoseRelease(b) \/ LoseCommitReply(b)
          BY <5>2 DEF Die, LoseRelease, LoseCommitReply, Fault
        <5>3. CASE Complete(b) \/ CheckWriter(b)
          <6>1. pc'[b] \in {"release", "claimCompletion", "commit", "catch"}
            <7>1. CASE Complete(b)
              <8>1. pc'[b] = CASE status[b] = "completed" -> "release"
                               [] status[b] = "pending"   -> "claimCompletion"
                               [] OTHER                   -> "catch"
                BY <1>0, <7>1, Zenon DEF Complete
              <8> QED
                BY <8>1, Zenon
            <7>2. CASE CheckWriter(b)
              <8>1. pc'[b] = CASE status[b] = "pending" /\ b \in completionClaims -> "commit"
                               [] status[b] = "completed"                         -> "release"
                               [] OTHER                                           -> "catch"
                BY <1>0, <7>2, Zenon DEF CheckWriter
              <8> QED
                BY <8>1, Zenon
            <7> QED
              BY <5>3, <7>1, <7>2
          <6> QED
            BY <6>1 DEF Running, Ending
        <5>4. CASE CheckHandle(b) \/ AgentEnds(b) \/ CheckStop(b) \/ Reload(b) \/ Catch(b)
          BY <1>0, <5>4 DEF CheckHandle, AgentEnds, CheckStop, Reload, Catch, Running, Ending
        <5>5. CASE Lookup(b) \/ ReadClaim(b) \/ CheckAdopted(b) \/ ReadWinner(b) \/ ReadBack(b) \/ Replay(b) \/ LockBusy(b)
                   \/ InsertClaim(b) \/ Adopt(b) \/ Materialize(b) \/ Refuse(b) \/ Arrive(b)
          <6>1. faulted' = faulted /\ pc[b] \notin Running \cup Ending
            BY <5>5 DEF Lookup, ReadClaim, CheckAdopted, ReadWinner, ReadBack, Replay, LockBusy, InsertClaim, Adopt,
               Materialize, Refuse, Arrive, Ask, Retry, world, Running, Ending
          <6> QED
            BY <3>1, <6>1
        <5>6. CASE Fail(b) \/ ClaimCompletion(b) \/ Commit(b)
          BY <1>0, <5>6 DEF Fail, ClaimCompletion, Commit, Running, Ending
        <5>7. CASE TakeLock(b) \/ MarkSearching(b) \/ MarkReading(b) \/ MarkWriting(b)
          BY <1>0, <5>7 DEF TakeLock, MarkSearching, MarkReading, MarkWriting, Running
        <5>8. CASE Watch(b) \/ SendWriting(b) \/ WritingArrives(b)
          BY <3>1, <5>8 DEF Watch, SendWriting, WritingArrives, world
        <5> QED
          BY <3>3, <4>2, <5>1, <5>2, <5>3, <5>4, <5>5, <5>6, <5>7, <5>8 DEF Step, Aside, Faulty
      <4> QED
        BY <4>1, <4>2
    <3> QED
      BY <3>2, <3>3 DEF Next
  <2> QED
    BY <2>5, <2>6
<1>6. \A b \in Attempts : Frees(b)'
  BY <1>5 DEF Frees
<1> QED
  BY <1>4, <1>6

(* The outcomes are inductive. *)
LEMMA OutcomesNext ==
  ASSUME Typed, Remembers, HolderOwnsLock, Outcomes, "lock" \notin Allowed, [Next]_vars
  PROVE  Outcomes'
<1>1. CASE UNCHANGED vars
  BY <1>1 DEF vars, Outcomes, Ends, Frees, Started, C, ConversationOf
<1>2. CASE Next
  <2>1. /\ \A c \in Attempts : lock'[c].run \in Started' \cup {None}
        /\ \A b \in Attempts : Frees(b)'
    BY <1>2, FreesNext
  <2>2. ASSUME NEW b \in Attempts
        PROVE  Ends(b)'
    <3>0. Ends(b)
      BY DEF Outcomes
    <3>1. CASE Others
      BY <3>0, <3>1, EndsOthers
    <3>2. ASSUME NEW a \in Attempts, Arrive(a) \/ Step(a) \/ Aside(a) \/ Faulty(a)
          PROVE  Ends(b)'
      <4>1. CASE a = b
        BY <3>0, <3>2, <4>1, EndsMoves
      <4>2. CASE a # b
        BY <3>0, <3>2, <4>2, OnlyOneEnds DEF Ends
      <4> QED
        BY <4>1, <4>2
    <3> QED
      BY <1>2, <3>1, <3>2 DEF Next
  <2> QED
    BY <2>1, <2>2 DEF Outcomes
<1> QED
  BY <1>1, <1>2

(* What a member is told is so: an answer it is told of is stored, a       *)
(* failure it is told of did not store one, and nobody is told anything    *)
(* while its lock is still held - in every race of a stop, a completion, a *)
(* deletion and a death, as long as the owner does not free the lock by    *)
(* hand.                                                                   *)
THEOREM RepliesHold ==
  ASSUME "lock" \notin Allowed
  PROVE  Spec => []RepliesAreTrue
<1>1. Init => Outcomes
  <2> SUFFICES ASSUME Init PROVE Outcomes
    OBVIOUS
  <2>1. \A a \in Attempts : C(a) \in Attempts /\ a # None
    BY TypedInit, IdsAreAttempts, NoneIsNotAnAttempt DEF Typed, TypeOK
  <2>2. \A c \in Attempts : lock[c].run = None
    BY DEF Init, LockInit, Unlocked
  <2>3. \A a \in Attempts : Ends(a)
    BY DEF Init, Ends
  <2> QED
    BY <2>1, <2>2, <2>3 DEF Outcomes, Frees
<1>2. Typed /\ Remembers /\ HolderOwnsLock /\ Outcomes /\ [Next]_vars => Outcomes'
  BY OutcomesNext
<1>3. Typed /\ Remembers /\ Outcomes => RepliesAreTrue
  <2> SUFFICES ASSUME Typed, Remembers, Outcomes PROVE RepliesAreTrue
    OBVIOUS
  <2>1. \A a \in Attempts : Knows(a) /\ Ends(a) /\ Frees(a)
    BY DEF Remembers, Outcomes
  <2>2. ReplyAgreesWithStore
    BY <2>1 DEF ReplyAgreesWithStore, Knows, Executing, Ends, Answering
  <2>3. RepliedIsReleased
    BY <2>1 DEF RepliedIsReleased, Frees, Replies, Running, Ending
  <2> QED
    BY <2>2, <2>3 DEF RepliesAreTrue
<1> QED
  BY <1>1, <1>2, <1>3, AlwaysTyped, AlwaysRemembers, RunMutex, PTL DEF Spec

=============================================================================
