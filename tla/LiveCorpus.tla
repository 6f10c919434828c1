----------------------------- MODULE LiveCorpus -----------------------------
(***************************************************************************)
(* What the knowledge pipeline promises to readers.  One generation is     *)
(* live.  A generation is sealed with its content, which never changes     *)
(* afterwards; only a sealed one goes live, it does so once, and the one   *)
(* it replaces stays as it was.  A sealed generation that never went live  *)
(* may be withdrawn, for good.                                             *)
(***************************************************************************)
EXTENDS Naturals

CONSTANTS Generations, Seed, Contents, Nothing

VARIABLES current,   \* the live generation
          corpus,    \* the content of the sealed generations
          past       \* generations that were live, or were withdrawn

Sealed == {g \in Generations : corpus[g] # Nothing}

LiveInit ==
  /\ current = Seed
  /\ corpus \in [Generations -> Contents \cup {Nothing}]
  /\ Sealed = {Seed}
  /\ past = {}

Seal(g) ==
  /\ g \notin Sealed \cup past
  /\ \E c \in Contents : corpus' = [corpus EXCEPT ![g] = c]
  /\ UNCHANGED <<current, past>>

GoLive(g) ==
  /\ g \in Sealed \ (past \cup {current})
  /\ current' = g
  /\ past' = past \cup {current}
  /\ UNCHANGED corpus

Withdraw(g) ==
  /\ g \in Generations \ (past \cup {current})
  /\ corpus' = [corpus EXCEPT ![g] = Nothing]
  /\ past' = past \cup {g}
  /\ UNCHANGED current

LiveNext == \E g \in Generations : Seal(g) \/ GoLive(g) \/ Withdraw(g)

LiveSpec == LiveInit /\ [][LiveNext]_<<current, corpus, past>>

=============================================================================
