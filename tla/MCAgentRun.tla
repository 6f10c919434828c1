----------------------------- MODULE MCAgentRun -----------------------------
(* The texts, extracts and messages the runs of AgentRun choose from.       *)
EXTENDS AgentRun, TLC

CONSTANTS k1, k2

Symmetry == Permutations(Ids)

P(stated, mood, cites) == [stated |-> stated, mood |-> mood, cites |-> cites]

(* Grounded, under-cited, cited wrongly, invented, empty and refusing texts, *)
(* alone and beside each other.                                              *)
MCDrafts ==
  {Prose({}), Host("refusal"),
   Prose({P({k1}, "asserts", {1})}),
   Prose({P({k1, k2}, "asserts", {2})}),
   Prose({P({k1}, "asserts", {})}),
   Prose({P({}, "asserts", {1})}),
   Prose({P({}, "declines", {})}),
   Prose({P({}, "narrates", {}), P({k2}, "asserts", {})}),
   Prose({P({k2}, "asserts", {2}), P({}, "asserts", {1})})}

MCExtracts ==
  {[readable |-> FALSE, quotes |-> {}],
   [readable |-> TRUE,  quotes |-> {}],
   [readable |-> TRUE,  quotes |-> {P({k1}, "asserts", {1})}],
   [readable |-> TRUE,  quotes |-> {P({k2}, "asserts", {1}), P({k2}, "asserts", {2})}]}

MCBatches ==
  {<<"search">>, <<"search", "search">>, <<"search", "ticket">>, <<"ticket", "search">>, <<"ticket", "ticket">>, <<"other">>}

=============================================================================
