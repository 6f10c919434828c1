----------------------------- MODULE Retrieval ------------------------------
(***************************************************************************)
(* The searches of one turn over the generation it is pinned to            *)
(* (CloudflareKnowledgePipeline): two channels run together, what they     *)
(* return is authorized again from the database, fused, reranked and cut.  *)
(*                                                                         *)
(* A passage is named by a number, in the order of the chunk ids.  Scores  *)
(* are small numbers; the weights are kept as whole numbers, so merged     *)
(* scores are compared after multiplying by MaxScore and the best score of *)
(* the keyword channel.                                                    *)
(***************************************************************************)
EXTENDS AccessControl

CONSTANTS People,         \* principals that ask
          Passages,       \* the numbers of the passages
          Corpus,         \* of each passage: its document, generation and acl
          TurnGeneration, \* the generation of the turn
          VectorWeight, KeywordWeight, OverlapBonus, KeywordRescue,
          CandidateLimit, RerankCandidates, TopK, RelevanceFloor,
          MaxScore,       \* bound: scores
          MaxSearches     \* bound: searches of the turn

VARIABLES
  searches, \* searches begun
  shapes,   \* the memo of the ACL shapes: "none" or "loaded"
  embedder, \* the memo of generationEmbedderMatches
  search,   \* the search that runs
  rows,     \* keywordRows: pending, failed, or the scores of what it found
  vectors,  \* the vector channel, likewise
  head,     \* what the reranker is asked to score
  hits      \* what the search returned

retrievalVars == <<searches, shapes, embedder, search, rows, vectors, head, hits>>

None == "none"

(* A channel: what it found are scores of some passages.                   *)
NoScores      == [c \in {} |-> 0]
Pending       == [state |-> "pending", scores |-> NoScores]
Failed        == [state |-> "failed", scores |-> NoScores]
Found(scores) == [state |-> "found", scores |-> scores]

Idle == [stage |-> "idle", principal |-> CHOOSE p \in People : TRUE, document |-> None]

ScoresOf(set) == UNION {[found -> 0..MaxScore] : found \in SUBSET set}

Documents == {Corpus[c].document : c \in Passages}

RetrievalInit ==
  /\ searches = 0 /\ shapes = "none" /\ embedder = "unknown"
  /\ search = Idle /\ rows = Pending /\ vectors = Pending /\ head = {} /\ hits = {}

-----------------------------------------------------------------------------
InScope(c) == search.document \in {None, Corpus[c].document}

(* A principal of too many terms is refused before anything is read.       *)
Begin ==
  /\ search.stage \in {"idle", "done", "failed"} /\ searches < MaxSearches
  /\ searches' = searches + 1
  /\ \E p \in People, d \in Documents \cup {None} :
       search' = [stage |-> IF TooWide(p) THEN "failed" ELSE "shapes", principal |-> p, document |-> d]
  /\ rows' = Pending /\ vectors' = Pending /\ head' = {} /\ hits' = {}
  /\ UNCHANGED <<shapes, embedder>>

(* memoizedAclShapes: a load that fails is not kept.                       *)
LoadShapes ==
  /\ search.stage = "shapes"
  /\ \E ok \in BOOLEAN :
       /\ shapes = "loaded" => ok
       /\ shapes' = IF ok THEN "loaded" ELSE "none"
       /\ search' = [search EXCEPT !.stage = IF ok THEN "channels" ELSE "failed"]
  /\ UNCHANGED <<searches, embedder, rows, vectors, head, hits>>

ShapesOf(generation) == {Corpus[c].acl : c \in {d \in Passages : Corpus[d].generation = generation}}

Groups == AllowedGroups(FilterFor(search.principal), ShapesOf(TurnGeneration))

(* The full text query carries the generation, the ACL and the document.   *)
KeywordAllows(c) ==
  Corpus[c].generation = TurnGeneration /\ InScope(c) /\ SqlAllows(FilterFor(search.principal), Corpus[c].acl)

KeywordChannel ==
  /\ search.stage = "channels" /\ rows = Pending
  /\ \/ \E scores \in ScoresOf({c \in Passages : KeywordAllows(c)}) : rows' = Found(scores)
     \/ rows' = Failed
  /\ UNCHANGED <<searches, shapes, embedder, search, vectors, head, hits>>

(* The memo keeps a rejected promise: the channel is lost for the turn.    *)
CheckEmbedder ==
  /\ search.stage = "channels" /\ vectors = Pending /\ embedder = "unknown" /\ Groups # {}
  /\ embedder' \in {"same", "other", "broken"}
  /\ UNCHANGED <<searches, shapes, search, rows, vectors, head, hits>>

(* The index is asked for the groups, but is an external service: what it  *)
(* returns is any vector of the namespace.  Without a group it is not      *)
(* asked; a failure of it leaves the keyword channel alone.                *)
VectorChannel ==
  /\ search.stage = "channels" /\ vectors = Pending
  /\ \/ Groups = {} /\ vectors' = Found(NoScores)
     \/ /\ Groups # {} /\ embedder = "same"
        /\ \E scores \in ScoresOf({c \in Passages : Corpus[c].generation = TurnGeneration}) :
             vectors' = Found(scores)
     \/ Groups # {} /\ embedder # "unknown" /\ vectors' = Found(NoScores)
  /\ UNCHANGED <<searches, shapes, embedder, search, rows, head, hits>>

(* The caller's signal, or a vector id the generation does not have.       *)
GiveUp ==
  /\ search.stage \in {"channels", "reranking"}
  /\ search' = [search EXCEPT !.stage = "failed"]
  /\ UNCHANGED <<searches, shapes, embedder, rows, vectors, head, hits>>

-----------------------------------------------------------------------------
(* Mutant: what the channels return is not authorized again.               *)
MutAllowed(c) == InScope(c)

Allowed(c) == CanAccess(search.principal, Corpus[c].acl) /\ InScope(c)

VectorHits  == {c \in DOMAIN vectors.scores : Allowed(c)}
KeywordHits == {c \in DOMAIN rows.scores : Allowed(c)}

TopKeyword == LET scores == {rows.scores[c] : c \in KeywordHits} \cup {0}
              IN  CHOOSE s \in scores : \A t \in scores : t <= s

(* normalizeVector, normalizeKeyword and the weighted sum of fuseCandidates*)
Merged(c) ==
  LET top == IF TopKeyword = 0 THEN 1 ELSE TopKeyword
  IN  (IF c \in VectorHits THEN VectorWeight * vectors.scores[c] * top ELSE 0)
      + (IF c \in KeywordHits THEN KeywordWeight * rows.scores[c] * MaxScore ELSE 0)

KeywordOnly(c) == c \in KeywordHits /\ c \notin VectorHits

(* What sorting by score, ties by chunk id, puts before c; the first n.    *)
Ahead(set, score, c) == {d \in set : score[d] > score[c] \/ (score[d] = score[c] /\ d < c)}

Best(set, score, n) == {c \in set : Cardinality(Ahead(set, score, c)) < n}

(* The slice, and the best keyword-only hits that did not make it.         *)
FuseCandidates ==
  LET found  == VectorHits \cup KeywordHits
      merged == [c \in found |-> Merged(c)]
      slice  == Best(found, merged, CandidateLimit)
  IN  slice \cup Best({c \in found \ slice : KeywordOnly(c)}, merged, KeywordRescue)

(* simpleRerank adds a bonus (hundredths of a whole score) to what both    *)
(* channels found.                                                         *)
Reordered(c) ==
  100 * Merged(c) + (IF c \in VectorHits \cap KeywordHits
                     THEN OverlapBonus * MaxScore * (VectorWeight + KeywordWeight)
                          * (IF TopKeyword = 0 THEN 1 ELSE TopKeyword)
                     ELSE 0)

(* The rescued ones come first, then the others, up to the cap.            *)
SelectRerankHead(candidates) ==
  LET score   == [c \in candidates |-> Reordered(c)]
      rescued == Best({c \in candidates : KeywordOnly(c)}, score, KeywordRescue)
  IN  Best(rescued, score, RerankCandidates)
      \cup Best(candidates \ rescued, score, RerankCandidates - Cardinality(rescued))

Fuse ==
  /\ search.stage = "channels" /\ rows # Pending /\ vectors # Pending
  /\ IF rows = Failed
     THEN search' = [search EXCEPT !.stage = "failed"] /\ UNCHANGED head
     ELSE /\ search' = [search EXCEPT !.stage = "reranking"]
          /\ head' = SelectRerankHead(FuseCandidates)
  /\ UNCHANGED <<searches, shapes, embedder, rows, vectors, hits>>

(* The floor and topK cut what the reranker scored, ties as they come.     *)
Rerank ==
  /\ search.stage = "reranking"
  /\ \E score \in [head -> 0..MaxScore], kept \in SUBSET head :
       /\ \A c \in kept : score[c] >= RelevanceFloor
       /\ \A c \in kept, d \in head \ kept : score[c] >= score[d]
       /\ Cardinality(kept) <= TopK
       /\ Cardinality(kept) < TopK => \A d \in head \ kept : score[d] < RelevanceFloor
       /\ hits' = kept
  /\ search' = [search EXCEPT !.stage = "done"]
  /\ UNCHANGED <<searches, shapes, embedder, rows, vectors, head>>

RetrievalNext ==
  \/ Begin \/ LoadShapes \/ KeywordChannel \/ CheckEmbedder \/ VectorChannel
  \/ GiveUp \/ Fuse \/ Rerank

-----------------------------------------------------------------------------
(* What reaches the model is readable by the member, of the turn's         *)
(* generation and in the document asked about, whatever the index returns; *)
(* and the two channels ask for every passage the member may read, so none *)
(* is hidden by one of the three forms of the rule (filterChunks,          *)
(* aclSqlAndParams, enumerateAllowedAclGroups).                            *)
HitsAreReadable ==
  /\ \A c \in head \cup hits :
       CanAccess(search.principal, Corpus[c].acl) /\ Corpus[c].generation = TurnGeneration /\ InScope(c)
  /\ \A c \in Passages :
       Corpus[c].generation = TurnGeneration /\ ~TooWide(search.principal) =>
         /\ SqlAllows(FilterFor(search.principal), Corpus[c].acl) <=> CanAccess(search.principal, Corpus[c].acl)
         /\ AclGroup(Corpus[c].acl) \in Groups <=> CanAccess(search.principal, Corpus[c].acl)

(* The best keyword hits the vector channel missed are always scored: a    *)
(* slice full of vector hits, or the cap of the reranker, does not drop    *)
(* them (fingerprint.ts: "guaranteed a rerank slot").                      *)
BestKeywordHitsAreScored ==
  search.stage \in {"reranking", "done"} =>
    \A c \in {d \in KeywordHits : KeywordOnly(d)} :
      Cardinality({d \in KeywordHits :
                     /\ KeywordOnly(d)
                     /\ rows.scores[d] > rows.scores[c] \/ (rows.scores[d] = rows.scores[c] /\ d < c)})
        < KeywordRescue
      => c \in head
=============================================================================
