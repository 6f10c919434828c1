---------------------------- MODULE SerialTurns -----------------------------
(***************************************************************************)
(* What answering a question promises, whatever the interleaving: a turn   *)
(* is opened once, and ends once, as an answer or as a failure, unless it  *)
(* is forgotten with its conversation; and an answer is written only by    *)
(* the run that owns a conversation, which one run does at a time.         *)
(***************************************************************************)
CONSTANTS Messages,        \* assistant messages, which are also the runs
          Conversations,
          Nobody,          \* no run owns the conversation
          Codes            \* the ways a turn fails

VARIABLES outcome,         \* what is stored of every message
          owner            \* the run that owns each conversation

vars == <<outcome, owner>>

Init ==
  /\ outcome = [m \in Messages |-> "absent"]
  /\ owner = [c \in Conversations |-> Nobody]

Open(m) ==
  /\ outcome[m] = "absent"
  /\ outcome' = [outcome EXCEPT ![m] = "pending"]
  /\ UNCHANGED owner

Begin(c, m) ==
  /\ owner[c] = Nobody
  /\ owner' = [owner EXCEPT ![c] = m]
  /\ UNCHANGED outcome

Answer(c, m) ==
  /\ owner[c] = m
  /\ outcome[m] = "pending"
  /\ outcome' = [outcome EXCEPT ![m] = "completed"]
  /\ UNCHANGED owner

Fail(m, code) ==
  /\ outcome[m] = "pending"
  /\ outcome' = [outcome EXCEPT ![m] = code]
  /\ UNCHANGED owner

End(c) ==
  /\ owner' = [owner EXCEPT ![c] = Nobody]
  /\ UNCHANGED outcome

Forget(gone) ==
  /\ outcome' = [m \in Messages |-> IF m \in gone THEN "absent" ELSE outcome[m]]
  /\ UNCHANGED owner

Next ==
  \/ \E gone \in SUBSET Messages : Forget(gone)
  \/ \E m \in Messages :
       \/ Open(m)
       \/ \E code \in Codes : Fail(m, code)
       \/ \E c \in Conversations : Begin(c, m) \/ Answer(c, m)
  \/ \E c \in Conversations : End(c)

Spec == Init /\ [][Next]_vars

=============================================================================
