-------------------------- MODULE MCApprovalResume --------------------------
EXTENDS ApprovalResume, TLC

Symmetry == Permutations(Runs) \cup Permutations(Consumers)

=============================================================================
