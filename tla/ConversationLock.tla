-------------------------- MODULE ConversationLock --------------------------
(***************************************************************************)
(* The run lock of a conversation: one Durable Object per conversation,    *)
(* whose SQLite storage holds at most one row (id = 1) naming the run that *)
(* owns the conversation, whether a stop was asked of it, and how far it   *)
(* has come.  The object runs one call at a time, so every operation is    *)
(* one step.  A caller learns from the guard whether its call was granted. *)
(***************************************************************************)
EXTENDS Naturals

CONSTANTS Conversations,   \* names of the Durable Objects
          Runs,            \* run ids: the assistant message ids of turns
          NoRun            \* no row is stored

VARIABLE lock              \* the stored row of every conversation

Stages == {"none", "searching", "reading", "writing"}

(* What the stored count counts; "none" is a NULL stage_n. *)
Counts == {"none", "readableDocuments", "passages"}

LockRow == [run: Runs \cup {NoRun}, cancelled: BOOLEAN, stage: Stages, count: Counts]

Unlocked == [run |-> NoRun, cancelled |-> FALSE, stage |-> "none", count |-> "none"]

LockTypeOK == lock \in [Conversations -> LockRow]

LockInit == lock = [c \in Conversations |-> Unlocked]

-----------------------------------------------------------------------------
(* Acquiring is granted when nobody holds the lock, and again to its       *)
(* holder; it always stores a fresh row, which also forgets a stop that    *)
(* was asked of the holder.                                                *)

CanAcquire(c, r) == lock[c].run \in {NoRun, r}

MutAcquireAnyTime(c, r) ==
  lock' = [lock EXCEPT ![c] = [Unlocked EXCEPT !.run = r]]

Acquire(c, r) ==
  /\ CanAcquire(c, r)
  /\ lock' = [lock EXCEPT ![c] = [Unlocked EXCEPT !.run = r]]

(* Releasing is granted to the holder only and deletes the row. *)

CanRelease(c, r) == lock[c].run = r

Release(c, r) ==
  lock' = IF CanRelease(c, r) THEN [lock EXCEPT ![c] = Unlocked] ELSE lock

(* A stop is recorded only for the run that holds the lock. *)

Cancel(c, r) ==
  lock' = IF lock[c].run = r THEN [lock EXCEPT ![c].cancelled = TRUE] ELSE lock

(* cancelled() answers for the row, whichever run it belongs to. *)

Cancelled(c) == lock[c].cancelled

-----------------------------------------------------------------------------
(* Progress: the holder may advance its stage, never move it back, and a   *)
(* write that is refused or repeats the stage changes nothing.  "writing"  *)
(* has no count of its own and keeps the passages of "reading".            *)

StageRank == [none |-> 0, searching |-> 1, reading |-> 2, writing |-> 3]

StoredCount(from, to, count) ==
  CASE to = "searching" -> "readableDocuments"
    [] to = "reading"   -> "passages"
    [] OTHER            -> IF from = "reading" THEN count ELSE "none"

SetStage(c, r, s) ==
  LET row == lock[c] IN
  lock' = IF row.run = r /\ StageRank[s] > StageRank[row.stage]
          THEN [lock EXCEPT ![c].stage = s,
                            ![c].count = StoredCount(row.stage, s, row.count)]
          ELSE lock

=============================================================================
