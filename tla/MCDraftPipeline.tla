--------------------------- MODULE MCDraftPipeline ---------------------------
(* The bounds of the checks of DraftPipeline, and the symmetry of drafts,   *)
(* files and requests.                                                      *)
EXTENDS DraftPipeline, TLC

Symmetry == Permutations(Drafts) \cup Permutations(Files) \cup Permutations(Puts)

(* Several files go through one draft without faults, or several drafts     *)
(* without files of their own, and with faults.                             *)
OneSided ==
  \/ Cardinality({d \in Drafts : state[d] # "none"}) <= 1 /\ faults = 0
  \/ \A f \in Files : draftOf[f] = None

=============================================================================
