-------------------------- MODULE MCTurnLifecycle ---------------------------
EXTENDS TurnLifecycle, TLC

Symmetry == Permutations(Attempts) \cup Permutations(Requests) \cup Permutations(Principals) \cup Permutations(Payloads)

(* Bound: two attempts share a request id, where the caller or the question*)
(* may differ, or are of one caller with one question and speak of a       *)
(* conversation that was there.                                            *)
Meet ==
  \A a, b \in {d \in Attempts : input[d] # NoInput} :
    LET i == input[a]
        j == input[b]
    IN  \/ i.owner = j.owner /\ i.payload = j.payload /\ {i.conversation, j.conversation} # {None}
        \/ i.request = j.request /\ (i.owner = j.owner \/ i.payload = j.payload)

=============================================================================
