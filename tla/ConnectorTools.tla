---------------------------- MODULE ConnectorTools ----------------------------
(***************************************************************************)
(* The connector tools (connectors/tools.ts): every call asks the policy   *)
(* gateway, all but create_ticket ask the connector registry, and a write  *)
(* runs once per idempotency key through IdempotentExecutor.  The external *)
(* service of mcp_create_ticket does what it is told when it likes: a call *)
(* given up at its deadline may still be carried out.                      *)
(*                                                                         *)
(* One connector stands for all of them, and one read tool for             *)
(* fetch_allowlisted_http and mcp_lookup; the claims are in memory or in   *)
(* D1, and calls of several isolates meet only in D1.                      *)
(***************************************************************************)
EXTENDS Integers, FiniteSetsExt

CONSTANTS Calls,
          Keys,         \* idempotency keys: one per attempt, tool and arguments
          ToolOf,       \* the writing tool a key is of
          RateLimit,
          Window,       \* length of the rate window
          ApprovalTime, \* lifetime of an approval
          MaxTime       \* bound: clock

VARIABLES
  time,
  revoked,     \* the connector is revoked
  log,         \* how many calls the registry let through, at each time
  calls,
  claims,      \* idempotent_effects: status and the result of a key
  outside,     \* requests the service has received and not carried out
  effects      \* history: what was done, a bag of keys

toolVars == <<time, revoked, log, calls, claims, outside, effects>>

None        == 0
Unclaimed   == [status |-> "none", result |-> None]
InProgress  == [status |-> "in_progress", result |-> None]
NotApproved == [key |-> None, expires |-> 0]

NewCall == [at |-> "idle", tool |-> "read", key |-> None, approval |-> NotApproved, said |-> "nothing"]

Writes == {"mcp_create_ticket", "create_ticket", "action_sink_write"}
Reads  == {"read", "plugin_echo"}

ToolsInit ==
  /\ time = 0
  /\ revoked = FALSE
  /\ log = [t \in 0..MaxTime |-> 0]
  /\ calls = [c \in Calls |-> NewCall]
  /\ claims = [k \in Keys |-> Unclaimed]
  /\ outside = {}
  /\ effects = [k \in Keys |-> 0]

Goto(c, place)   == calls' = [calls EXCEPT ![c].at = place]
Answer(c, words) == calls' = [calls EXCEPT ![c].at = "done", ![c].said = words]

-----------------------------------------------------------------------------

(* The model calls a tool; the host of a write holds no approval, that of  *)
(* this attempt, or one of another attempt or of an earlier time.          *)
Begin(c) ==
  /\ calls[c].at = "idle"
  /\ \E key \in Keys, tool \in Reads \cup Writes,
        approval \in {NotApproved} \cup [key : Keys, expires : {0, ApprovalTime}] :
       /\ IF tool \in Writes THEN tool = ToolOf[key] ELSE approval = NotApproved
       /\ calls' = [calls EXCEPT ![c] = [NewCall EXCEPT !.at = "gate", !.tool = tool, !.key = key,
                                                        !.approval = approval]]
  /\ UNCHANGED <<time, revoked, log, claims, outside, effects>>

(* evaluateToolPolicy and approvalsMatch.                                  *)
Allowed(call) ==
  \/ call.tool \in Reads
  \/ call.approval.key = call.key /\ time <= call.approval.expires

Gate(c) ==
  /\ calls[c].at = "gate"
  /\ \/ /\ Allowed(calls[c])
        /\ calls' = [calls EXCEPT ![c].at = IF calls[c].tool = "create_ticket" THEN "load" ELSE "registry",
                                  ![c].approval = NotApproved]
     \/ ~Allowed(calls[c]) /\ calls[c].approval = NotApproved /\ Answer(c, "pending")
     \/ ~Allowed(calls[c]) /\ calls[c].approval # NotApproved /\ Answer(c, "denied")
  /\ UNCHANGED <<time, revoked, log, claims, outside, effects>>

-----------------------------------------------------------------------------

(* assertUsable: a revoked connector, or one that was called too often in  *)
(* the last minute, refuses; a call it lets through is logged, whatever    *)
(* becomes of it.                                                          *)
Recent == MapThenSumSet(LAMBDA t : log[t], {t \in 0..MaxTime : t >= time - Window})

Usable == ~revoked /\ Recent < RateLimit

AssertUsable(c) ==
  /\ calls[c].at = "registry"
  /\ IF Usable
     THEN /\ log' = [log EXCEPT ![time] = @ + 1]
          /\ \/ calls[c].tool = "read" /\ Goto(c, "read")
             \/ calls[c].tool = "plugin_echo" /\ Answer(c, "read")
             \/ calls[c].tool \in Writes /\ Goto(c, "load")
     ELSE Answer(c, "refused") /\ UNCHANGED log
  /\ UNCHANGED <<time, revoked, claims, outside, effects>>

Read(c) ==
  /\ calls[c].at = "read"
  /\ Answer(c, "read") \/ Answer(c, "aborted")
  /\ UNCHANGED <<time, revoked, log, claims, outside, effects>>

-----------------------------------------------------------------------------

(* IdempotentExecutor.run: a completed key gives its stored result again,  *)
(* a key claimed by another call is refused, and so is, for good, the key  *)
(* of a call that ended without a result.                                  *)
Load(c) ==
  /\ calls[c].at = "load"
  /\ IF claims[calls[c].key].status = "completed" THEN Answer(c, "created") ELSE Goto(c, "claim")
  /\ UNCHANGED <<time, revoked, log, claims, outside, effects>>

MutTake(key) == claims[key].status # "completed"

Take(key) == claims[key].status = "none"

Claim(c) ==
  /\ calls[c].at = "claim"
  /\ LET key == calls[c].key
     IN  IF Take(key)
         THEN claims' = [claims EXCEPT ![key] = InProgress] /\ Goto(c, "call")
         ELSE Goto(c, "reload") /\ UNCHANGED claims
  /\ UNCHANGED <<time, revoked, log, outside, effects>>

Reload(c) ==
  /\ calls[c].at = "reload"
  /\ Answer(c, IF claims[calls[c].key].status = "completed" THEN "created" ELSE "in progress")
  /\ UNCHANGED <<time, revoked, log, claims, outside, effects>>

CallService(c) ==
  /\ calls[c].at = "call" /\ calls[c].tool = "mcp_create_ticket"
  /\ outside' = outside \cup {c}
  /\ Goto(c, "wait")
  /\ UNCHANGED <<time, revoked, log, claims, effects>>

ServiceActs(c) ==
  /\ c \in outside
  /\ outside' = outside \ {c}
  /\ effects' = [effects EXCEPT ![calls[c].key] = @ + 1]
  /\ calls' = IF calls[c].at = "wait" THEN [calls EXCEPT ![c].at = "complete"] ELSE calls
  /\ UNCHANGED <<time, revoked, log, claims>>

ServiceDrops(c) ==
  /\ c \in outside
  /\ outside' = outside \ {c}
  /\ UNCHANGED <<time, revoked, log, claims, effects, calls>>

(* awaitWithDeadline gives up, whatever the service does later.            *)
Deadline(c) ==
  /\ calls[c].at = "wait"
  /\ Answer(c, "aborted")
  /\ UNCHANGED <<time, revoked, log, claims, outside, effects>>

(* The ticket is created, or the sink written, without another service.    *)
ActLocally(c) ==
  /\ calls[c].at = "call" /\ calls[c].tool \in {"create_ticket", "action_sink_write"}
  /\ effects' = [effects EXCEPT ![calls[c].key] = @ + 1]
  /\ Goto(c, "complete")
  /\ UNCHANGED <<time, revoked, log, claims, outside>>

(* complete: only a claim in progress is completed.                        *)
Complete(c) ==
  /\ calls[c].at = "complete"
  /\ claims' = [claims EXCEPT ![calls[c].key] = [status |-> "completed", result |-> c]]
  /\ Answer(c, "created")
  /\ UNCHANGED <<time, revoked, log, outside, effects>>

(* The isolate dies, or D1 fails, between two awaits.                      *)
CallDies(c) ==
  /\ calls[c].at \in {"load", "claim", "reload", "call", "wait", "complete"}
  /\ Answer(c, "failed")
  /\ UNCHANGED <<time, revoked, log, claims, outside, effects>>

-----------------------------------------------------------------------------

Revoke ==
  /\ ~revoked
  /\ revoked' = TRUE
  /\ UNCHANGED <<time, log, calls, claims, outside, effects>>

Elapse ==
  /\ time < MaxTime
  /\ time' = time + 1
  /\ UNCHANGED <<revoked, log, calls, claims, outside, effects>>

ToolsNext ==
  \/ \E c \in Calls :
       \/ Begin(c) \/ Gate(c) \/ AssertUsable(c) \/ Read(c)
       \/ Load(c) \/ Claim(c) \/ Reload(c) \/ CallService(c) \/ ActLocally(c)
       \/ ServiceActs(c) \/ ServiceDrops(c) \/ Deadline(c) \/ Complete(c) \/ CallDies(c)
  \/ Revoke \/ Elapse

-----------------------------------------------------------------------------

(* A write happens at most once per key, and a call that says it happened  *)
(* is right: however many calls carry the key, whoever gives up at the     *)
(* deadline of a request that is then carried out, and whichever isolate   *)
(* dies between the claim, the effect and its record.                      *)
WritesHappenOnce ==
  /\ \A k \in Keys : effects[k] <= 1
  /\ \A c \in Calls : calls[c].said = "created" => effects[calls[c].key] = 1

=============================================================================
