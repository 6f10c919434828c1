-------------------------- MODULE ConsentedAction --------------------------
(***************************************************************************)
(* What an action that needs approval promises: it is performed at most    *)
(* once, only after its owner consented, never after it was refused, and a *)
(* performed action stays performed even when the conversation that        *)
(* proposed it is forgotten.                                               *)
(***************************************************************************)
CONSTANT Runs              \* agent runs, each proposing one action

VARIABLE phase             \* how far each action has come

Init == phase = [r \in Runs |-> "none"]

Move(r, from, to) == phase[r] \in from /\ phase' = [phase EXCEPT ![r] = to]

Propose(r) == Move(r, {"none"}, "proposed")
Consent(r) == Move(r, {"proposed"}, "consented")
Perform(r) == Move(r, {"consented"}, "done")
Refuse(r)  == Move(r, {"none", "proposed", "consented"}, "refused")
Forget(r)  == Move(r, {"none", "proposed", "consented", "refused"}, "forgotten")

Next == \E r \in Runs : Propose(r) \/ Consent(r) \/ Perform(r) \/ Refuse(r) \/ Forget(r)

Spec == Init /\ [][Next]_phase

=============================================================================
