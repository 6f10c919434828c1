----------------------------- MODULE DraftChecks -----------------------------
(***************************************************************************)
(* The checks of one sealed draft: reconcileDraft compares the draft's D1  *)
(* ledger with the vector index, through the binding and, where a token is *)
(* configured, through a listing of the whole index; then the ACL probe,   *)
(* the retrieval guard and the decision.                                   *)
(*                                                                         *)
(* The index answers late: a mutation it accepted shows up in the binding  *)
(* and in the listing at two moments of its own.  The Workflow steps that  *)
(* claim and end the checks are in DraftPipeline.                          *)
(***************************************************************************)
EXTENDS Integers, FiniteSets

CONSTANTS Ledger,         \* vectors the draft's chunk rows name
          Leftovers,      \* vectors of the draft's namespace without a row
          Strays,         \* vectors of other namespaces without a chunk row
          OrphanResolveCap,
          MaxRetries      \* bound: retries of the reconcile step (12 in the code)

VARIABLES
  settled,    \* vectors the index holds once it has processed every mutation
  binding,    \* vectors getByIds returns now
  listing,    \* vectors a listing begun now returns
  tombstones, \* strays a discarded draft still has a tombstone for
  mislabelled,\* ledger vectors whose metadata has another acl_group
  widened,    \* chunk rows whose stored ACL is not the uploader's selection
  settings,   \* which of the inventory's settings are present, or keyword_only:
              \* no index is bound
  plain,      \* history: rowless vectors of the namespace both views showed at first
  at,         \* where the checks are
  retry,      \* retries of the reconcile step; more than MaxRetries: the final step
  present, ids, rest, restarted, \* the attempt: verified ids, the listing read so far
  orphans,    \* what an attempt found out about the index
  outcome, decision

indexVars    == <<settled, binding, listing, tombstones>>
fixed        == <<mislabelled, widened, settings, plain>>
attemptVars  == <<present, ids, rest, restarted, orphans>>
checkVars    == <<indexVars, fixed, attemptVars, at, retry, outcome, decision>>

Vectors == Ledger \cup Leftovers \cup Strays

NoOrphans == [inDraft |-> {}, tooMany |-> FALSE, checked |-> FALSE]
Open      == "open"

ChecksInit ==
  /\ settled \in SUBSET Vectors
  /\ binding \in SUBSET Vectors
  /\ listing \in {binding, settled}
  /\ tombstones \in {{}, Strays}
  /\ mislabelled \in {{}, Ledger}
  /\ widened \in {{}, Ledger}
  /\ settings \in {"none", "partly", "all", "keyword_only"}
  /\ plain = Leftovers \cap settled \cap binding \cap listing
  /\ at = "get" /\ retry = 0
  /\ present = {} /\ ids = {} /\ rest = {} /\ restarted = FALSE
  /\ orphans = NoOrphans
  /\ outcome = Open /\ decision = Open

-----------------------------------------------------------------------------

(* The index catches up, one vector and one view at a time; the purge of   *)
(* another draft drops a tombstone once its vector is deleted.             *)
Settle(view, v) == IF v \in settled THEN view \cup {v} ELSE view \ {v}

BindingCatchesUp(v) ==
  /\ binding' = Settle(binding, v)
  /\ UNCHANGED <<settled, listing, tombstones, fixed, attemptVars, at, retry, outcome, decision>>

ListingCatchesUp(v) ==
  /\ listing' = Settle(listing, v)
  /\ UNCHANGED <<settled, binding, tombstones, fixed, attemptVars, at, retry, outcome, decision>>

DropTombstone(v) ==
  /\ v \notin settled
  /\ tombstones' = tombstones \ {v}
  /\ UNCHANGED <<settled, binding, listing, fixed, attemptVars, at, retry, outcome, decision>>

-----------------------------------------------------------------------------

Pending == retry <= MaxRetries

Goto(place) == at' = place
Begin       == /\ present' = {} /\ ids' = {} /\ rest' = {} /\ restarted' = FALSE
               /\ orphans' = NoOrphans

Record(reconciled) == outcome' = (IF reconciled THEN "reconciled" ELSE "failed") /\ Goto("probe")

(* A throw: the step is retried until its retries run out, and then the    *)
(* final step records what it can.  The final step records a partial audit *)
(* when the index cannot be read, and reconcileWithFinalRecord a synthetic *)
(* one when the final step cannot record.                                  *)
Throw ==
  \/ /\ Pending
     /\ retry' = retry + 1 /\ Goto("get") /\ Begin
     /\ UNCHANGED outcome
  \/ /\ ~Pending
     /\ Record(FALSE)
     /\ UNCHANGED <<retry, attemptVars>>

(* getByIds returns the vector, in the draft's namespace and with the ACL  *)
(* group of its chunk row.                                                 *)
Visible(v) == v \in binding /\ v \notin mislabelled

(* The binding is asked for every ledger id; the listing begins once all   *)
(* of them are visible.                                                    *)
GetLedger ==
  /\ at = "get"
  /\ settings \in {"none", "all"}
  /\ present' = {v \in Ledger : Visible(v)}
  /\ IF settings = "all" /\ present' = Ledger
     THEN ids' = {} /\ rest' = listing /\ Goto("list")
     ELSE Goto("audit") /\ UNCHANGED <<ids, rest>>
  /\ UNCHANGED <<indexVars, fixed, restarted, orphans, retry, outcome, decision>>

(* With no index bound there are no vectors to compare the ledger with: an *)
(* empty and clean audit is recorded.                                      *)
NoBinding ==
  /\ at = "get"
  /\ settings = "keyword_only"
  /\ Record(TRUE)
  /\ UNCHANGED <<indexVars, fixed, attemptVars, retry, decision>>

PartlyConfigured ==
  /\ at = "get"
  /\ settings = "partly"
  /\ Record(FALSE)
  /\ UNCHANGED <<indexVars, fixed, attemptVars, retry, decision>>

-----------------------------------------------------------------------------

(* listAll: pages of one snapshot, as short as the API likes; a cursor     *)
(* that expired restarts once, from a new snapshot.                        *)

NextPage ==
  /\ at = "list"
  /\ \E page \in SUBSET rest \ {{}} : ids' = ids \cup page /\ rest' = rest \ page
  /\ UNCHANGED <<indexVars, fixed, present, restarted, orphans, at, retry, outcome, decision>>

StartOver == rest' = listing /\ ids' = {}

CursorExpires ==
  /\ at = "list" /\ ids # {} /\ rest # {}
  /\ \/ /\ ~restarted
        /\ restarted' = TRUE
        /\ StartOver
        /\ UNCHANGED <<present, orphans, at, retry, outcome>>
     \/ restarted /\ Throw
  /\ UNCHANGED <<indexVars, fixed, decision>>

(* A 429 beyond the budget, the deadline, a malformed page, no network; or *)
(* the binding, or D1, fails.                                              *)
ScanFails ==
  /\ at \in {"get", "list", "resolve"}
  /\ settings # "partly"
  /\ Throw
  /\ UNCHANGED <<indexVars, fixed, decision>>

(* removeKnownVectorIds: what no chunk row and no tombstone accounts for.  *)
Unknown == ids \ (Ledger \cup tombstones)

TooMany == Cardinality(Unknown) > OrphanResolveCap

Listed ==
  /\ at = "list" /\ rest = {}
  /\ present' = present \cap ids
  /\ \/ ~TooMany /\ ids' = Unknown /\ Goto("resolve") /\ UNCHANGED <<retry, restarted, orphans, rest, outcome>>
     \/ ~Pending /\ TooMany
          /\ orphans' = [inDraft |-> {}, tooMany |-> TRUE, checked |-> TRUE]
          /\ Goto("audit") /\ UNCHANGED <<ids, rest, restarted, retry, outcome>>
  /\ UNCHANGED <<indexVars, fixed, decision>>

ListedTooMany ==
  /\ at = "list" /\ rest = {}
  /\ Pending /\ TooMany
  /\ Throw
  /\ UNCHANGED <<indexVars, fixed, decision>>

(* The unknown ids are resolved through the binding: an orphan of the      *)
(* draft, or one that does not resolve, is lag until the final attempt.    *)
Resolved   == ids \cap binding
Unresolved == ids \ binding

Resolve ==
  /\ at = "resolve"
  /\ Pending => Resolved \cap Leftovers = {} /\ Unresolved = {}
  /\ orphans' = [inDraft |-> Resolved \cap Leftovers, tooMany |-> FALSE, checked |-> TRUE]
  /\ Goto("audit")
  /\ UNCHANGED <<indexVars, fixed, present, ids, rest, restarted, retry, outcome, decision>>

ResolveAgain ==
  /\ at = "resolve"
  /\ Pending /\ (Resolved \cap Leftovers # {} \/ Unresolved # {})
  /\ Throw
  /\ UNCHANGED <<indexVars, fixed, decision>>

MutCleanAboveCap == present = Ledger /\ orphans.inDraft = {}

(* auditStoreConsistency over what was verified.                           *)
Clean == present = Ledger /\ orphans.inDraft = {} /\ ~orphans.tooMany

Audit ==
  /\ at = "audit"
  /\ IF Pending /\ present # Ledger
     THEN Throw
     ELSE Record(Clean) /\ UNCHANGED <<attemptVars, retry>>
  /\ UNCHANGED <<indexVars, fixed, decision>>

-----------------------------------------------------------------------------

(* The ACL probe compares every uploaded chunk row with the selection; the *)
(* retrieval guard asks the locked questions, when reconciliation passed;  *)
(* decideChecks needs all of them.                                         *)

Leaks == widened # {}

(* What comes of the questions: the recall, hits their asker may not read, *)
(* or no answer.                                                           *)
Guarded == IF outcome = "reconciled" THEN {"enough", "low", "leaked", "unavailable"} ELSE {"unavailable"}

Decide(guarded, added) ==
  outcome = "reconciled" /\ ~Leaks /\ guarded = "enough" /\ added

FinishChecks ==
  /\ at = "probe"
  /\ \E guarded \in Guarded, added \in BOOLEAN :
       decision' = (IF Decide(guarded, added) THEN "passed" ELSE "failed")
  /\ Goto("done")
  /\ UNCHANGED <<indexVars, fixed, attemptVars, retry, outcome>>

IndexStep ==
  \/ \E v \in Vectors : BindingCatchesUp(v) \/ ListingCatchesUp(v)
  \/ \E v \in tombstones : DropTombstone(v)

CheckStep ==
  \/ GetLedger \/ NoBinding \/ PartlyConfigured \/ NextPage \/ CursorExpires \/ ScanFails
  \/ Listed \/ ListedTooMany \/ Resolve \/ ResolveAgain \/ Audit \/ FinishChecks

ChecksNext == IndexStep \/ CheckStep

-----------------------------------------------------------------------------

(* A draft that passed its checks is what it says: no chunk is stored with *)
(* an ACL the uploader did not choose; where an index is bound, every      *)
(* vector the draft names was readable with the ACL of its row; and where  *)
(* the index can be listed, no rowless vector of the namespace was there   *)
(* from the start: however late the index, however the listing was cut     *)
(* off, whatever was purged.                                               *)
PassedIsClean ==
  decision = "passed" =>
    /\ widened = {}
    /\ settings # "keyword_only" => mislabelled = {} /\ Ledger \cap settled \subseteq binding
    /\ settings = "all" => plain = {}

=============================================================================
