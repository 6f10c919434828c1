--------------------------- MODULE KnowledgeBase ----------------------------
(***************************************************************************)
(* The corpus as whole generations: seeding, merging one upload, removing  *)
(* a document and reindexing each build a new generation from the one they *)
(* read (seedNorthwindCorpus); a promotion makes one of them the served    *)
(* one; the catalog of documents that lack it is filled in meanwhile       *)
(* (backfillDocumentCatalog).  What the library shows is read from the     *)
(* served generation.                                                      *)
(*                                                                         *)
(* A document has Size passages, written one batch after another.  A       *)
(* generation is named by its number: it is stamped with the time its      *)
(* build begins, so the newest is the one of the largest number.           *)
(* Generation 1 is one from before the catalog.                            *)
(***************************************************************************)
EXTENDS AccessControl, Sequences

CONSTANTS People,     \* principals: [user, roles, departments]
          Operators,  \* those with operator access
          Documents,  \* numbers
          Accesses,   \* what an operator may set
          UploadsOf,  \* the document ids a member's uploads are given
          Legacy,     \* the passages of generation 1
          Size,
          Workers,        \* calls in flight
          MaxGenerations, \* bound
          MaxCalls        \* bound: calls made

VARIABLES
  states,   \* corpus_generations.state
  passages, \* chunks, of each generation and document, in order
  rows,     \* document_catalog: the access of the row
  bodies,   \* document_bodies: how many passages it holds, and if it is the original
  active,   \* corpus_state.active_generation_id
  promoter, \* history: who promoted the served generation
  job,      \* the calls in flight
  calls     \* how many were made

kbVars == <<states, passages, rows, bodies, active, promoter, job, calls>>

Generations == 1..MaxGenerations
Idle     == [op |-> "idle"]
NoRow    == [scope |-> "none", roles |-> {}, departments |-> {}, owner |-> Nobody]
NoBody   == [passages |-> 0, original |-> FALSE]
Original == [passages |-> Size, original |-> TRUE]

KbInit ==
  /\ states = [g \in Generations |-> IF g = 1 THEN "active" ELSE "absent"]
  /\ passages = [g \in Generations |-> [d \in Documents |-> IF g = 1 THEN Legacy[d] ELSE <<>>]]
  /\ rows = [g \in Generations |-> [d \in Documents |-> NoRow]]
  /\ bodies = [g \in Generations |-> [d \in Documents |-> NoBody]]
  /\ active = 1 /\ promoter = "operator"
  /\ job = [w \in Workers |-> Idle] /\ calls = 0

-----------------------------------------------------------------------------
Go(w, next) == job' = [job EXCEPT ![w] = next]
End(w)      == Go(w, Idle)

Accept(w) == job[w] = Idle /\ calls < MaxCalls /\ calls' = calls + 1

tables == <<states, passages, rows, bodies, active, promoter>>

(* latestReadyOrActiveGenerationId: a ready one goes before the served one.*)
LatestReadyOrActive ==
  LET ready == {g \in Generations : states[g] = "ready"}
  IN  IF ready = {} THEN active ELSE CHOOSE g \in ready : \A h \in ready : h <= g

(* loadSeedDocumentsFromGeneration: the access is that of the first chunk. *)
StoredDocuments(g) == {d \in Documents : passages[g][d] # <<>>}
SeedDocuments(g)   == [d \in StoredDocuments(g) |-> passages[g][d][1]]

Owner(acl) == acl.owner

PrivateTo(p) == [scope |-> "private", roles |-> {}, departments |-> {}, owner |-> p.user]

(* POST /knowledge/seed without merge, an operator's.                      *)
BeginSeed(w) ==
  /\ Accept(w)
  /\ \E d \in Documents, acl \in Accesses :
       Go(w, [op |-> "create", documents |-> [x \in {d} |-> acl]])
  /\ UNCHANGED tables

(* With merge: a member's document gets an id of its own and is private.   *)
BeginMerge(w) ==
  /\ Accept(w)
  /\ \E p \in People :
       \E d \in IF p \in Operators THEN Documents ELSE UploadsOf[p],
          acl \in IF p \in Operators THEN Accesses ELSE {PrivateTo(p)} :
         Go(w, [op |-> "merge", by |-> p, document |-> d, access |-> acl, base |-> LatestReadyOrActive])
  /\ UNCHANGED tables

LoadAndMerge(w) ==
  /\ job[w].op = "merge"
  /\ LET existing == SeedDocuments(job[w].base)
         d == job[w].document
     IN  IF d \in DOMAIN existing /\ Owner(existing[d]) \notin {Nobody, job[w].by.user}
         THEN End(w)
         ELSE Go(w, [op |-> "create",
                     documents |-> [x \in DOMAIN existing \cup {d} |->
                                      IF x = d THEN job[w].access ELSE existing[x]]])
  /\ UNCHANGED <<tables, calls>>

(* DELETE /knowledge/documents/:id, and POST /knowledge/reindex, which     *)
(* removes none.                                                           *)
BeginRebuild(w) ==
  /\ Accept(w)
  /\ \E p \in People, removed \in {{}} \cup {{d} : d \in Documents} :
       /\ removed = {} => p \in Operators
       /\ Go(w, [op |-> "rebuild", by |-> p, removed |-> removed, base |-> LatestReadyOrActive])
  /\ UNCHANGED tables

LoadAndRemove(w) ==
  /\ job[w].op = "rebuild"
  /\ LET existing == SeedDocuments(job[w].base)
         remaining == DOMAIN existing \ job[w].removed
         may == \A d \in job[w].removed :
                  d \in DOMAIN existing
                  /\ (job[w].by \in Operators \/ Owner(existing[d]) = job[w].by.user)
     IN  IF may /\ remaining # {}
         THEN Go(w, [op |-> "create", documents |-> [d \in remaining |-> existing[d]]])
         ELSE End(w)
  /\ UNCHANGED <<tables, calls>>

-----------------------------------------------------------------------------
(* seedNorthwindCorpus, after the documents were validated.                *)
Create(w) ==
  /\ job[w].op = "create"
  /\ \E g \in Generations :
       /\ states[g] = "absent" /\ \A h \in Generations : h < g => states[h] # "absent"
       /\ states' = [states EXCEPT ![g] = "indexing"]
       /\ Go(w, [op |-> "write", generation |-> g, documents |-> job[w].documents,
                  left |-> DOMAIN job[w].documents])
  /\ UNCHANGED <<passages, rows, bodies, active, promoter, calls>>

(* The documents are written in their order, the passages of each first.   *)
At(w) == CHOOSE d \in job[w].left : \A x \in job[w].left : d <= x

WritePassage(w) ==
  /\ job[w].op = "write" /\ job[w].left # {}
  /\ LET g == job[w].generation
         d == At(w)
     IN  /\ Len(passages[g][d]) < Size
         /\ passages' = [passages EXCEPT ![g][d] = Append(@, job[w].documents[d])]
  /\ UNCHANGED <<states, rows, bodies, active, promoter, job, calls>>

MutSeedBody(body) == IF body = NoBody THEN Original ELSE body

(* The body replaces one a backfill made of the first batches.             *)
SeedBody(body) == Original

WriteCatalog(w) ==
  /\ job[w].op = "write" /\ job[w].left # {}
  /\ LET g == job[w].generation
         d == At(w)
     IN  /\ Len(passages[g][d]) = Size
         /\ rows' = [rows EXCEPT ![g][d] = job[w].documents[d]]
         /\ bodies' = [bodies EXCEPT ![g][d] = SeedBody(@)]
         /\ Go(w, [job[w] EXCEPT !.left = @ \ {d}])
  /\ UNCHANGED <<states, passages, active, promoter, calls>>

(* Embedding or the vector index fails, or the generation is ready.        *)
Finish(w) ==
  /\ job[w].op = "write" /\ job[w].left = {}
  /\ \E s \in {"ready", "failed"} : states' = [states EXCEPT ![job[w].generation] = s]
  /\ End(w)
  /\ UNCHANGED <<passages, rows, bodies, active, promoter, calls>>

-----------------------------------------------------------------------------

(* POST /knowledge/promote of any generation.  A member's must be ready    *)
(* already when it is read.                                                *)
BeginPromote(w) ==
  /\ Accept(w)
  /\ \E p \in People, g \in Generations :
       /\ states[g] # "absent"
       /\ \/ /\ p \in Operators
             /\ Go(w, [op |-> "list", generation |-> g, next |-> "check", by |-> p])
          \/ /\ p \notin Operators /\ states[g] = "ready"
             /\ Go(w, [op |-> "authorize", generation |-> g, next |-> "check", by |-> p])
  /\ UNCHANGED tables

(* mayPromoteGeneration                                                    *)
MayPromote(p, documents) ==
  /\ DOMAIN documents # {}
  /\ \A d \in DOMAIN documents :
       \/ Owner(documents[d]) = Nobody /\ documents[d].scope = "public"
       \/ Owner(documents[d]) = p.user

Authorize(w) ==
  /\ job[w].op = "authorize"
  /\ IF MayPromote(job[w].by, SeedDocuments(job[w].generation))
     THEN Go(w, [job[w] EXCEPT !.op = "list"])
     ELSE End(w)
  /\ UNCHANGED <<tables, calls>>

(* POST /admin/catalog/backfill and the cron, on the served generation.    *)
BeginBackfill(w) ==
  /\ Accept(w)
  /\ Go(w, [op |-> "list", generation |-> active, next |-> "idle", by |-> Nobody])
  /\ UNCHANGED tables

Missing(g) == {d \in StoredDocuments(g) : rows[g][d] = NoRow \/ bodies[g][d] = NoBody}

ListMissing(w) ==
  /\ job[w].op = "list"
  /\ Go(w, [op |-> "validate", generation |-> job[w].generation, next |-> job[w].next, by |-> job[w].by,
            missing |-> Missing(job[w].generation), validated |-> <<>>, read |-> <<>>])
  /\ UNCHANGED <<tables, calls>>

(* documentAclKey: every passage has the access of the first, and a        *)
(* private one has an owner; otherwise nothing is written.                 *)
ValidAcl(acl) == acl.scope = "private" => Owner(acl) # Nobody

Consistent(s) == \A i \in DOMAIN s : s[i] = s[1] /\ ValidAcl(s[i])

Validate(w) ==
  /\ job[w].op = "validate"
  /\ LET g == job[w].generation
         left == job[w].missing \ DOMAIN job[w].validated
     IN  IF left = {} THEN Go(w, [job[w] EXCEPT !.op = "reread"])
         ELSE \E d \in left :
                IF Consistent(passages[g][d])
                THEN Go(w, [job[w] EXCEPT !.validated =
                              [x \in DOMAIN @ \cup {d} |-> IF x = d THEN passages[g][d][1] ELSE @[x]]])
                ELSE End(w)
  /\ UNCHANGED <<tables, calls>>

(* Each document is read again, with its passages, and must be unchanged.  *)
Reread(w) ==
  /\ job[w].op = "reread"
  /\ LET g == job[w].generation
     IN  IF job[w].missing = {}
         THEN IF job[w].next = "idle" THEN End(w)
              ELSE Go(w, [op |-> "check", generation |-> g, by |-> job[w].by])
         ELSE \E d \in job[w].missing :
                IF \A i \in DOMAIN passages[g][d] :
                     ValidAcl(passages[g][d][i]) /\ passages[g][d][i] = job[w].validated[d]
                THEN Go(w, [job[w] EXCEPT !.op = "fill", !.missing = @ \ {d}, !.read = <<d, Len(passages[g][d])>>])
                ELSE End(w)
  /\ UNCHANGED <<tables, calls>>

(* One batch of two inserts, ON CONFLICT DO NOTHING.                       *)
Fill(w) ==
  /\ job[w].op = "fill"
  /\ LET g == job[w].generation
         d == job[w].read[1]
     IN  /\ rows' = [rows EXCEPT ![g][d] = IF @ = NoRow THEN job[w].validated[d] ELSE @]
         /\ bodies' = [bodies EXCEPT ![g][d] =
                         IF @ = NoBody THEN [passages |-> job[w].read[2], original |-> FALSE] ELSE @]
  /\ Go(w, [job[w] EXCEPT !.op = "reread", !.read = <<>>])
  /\ UNCHANGED <<states, passages, active, promoter, calls>>

(* promoteGeneration: a read, then a batch whose statements are guarded.   *)
CheckReady(w) ==
  /\ job[w].op = "check"
  /\ IF states[job[w].generation] = "ready" THEN Go(w, [job[w] EXCEPT !.op = "activate"]) ELSE End(w)
  /\ UNCHANGED <<tables, calls>>

Activated(g) == [states EXCEPT ![g] = IF @ = "ready" THEN "active" ELSE @]

Activate(w) ==
  /\ job[w].op = "activate"
  /\ LET g == job[w].generation
         on == Activated(g)
     IN  IF on[g] = "active"
         THEN /\ active' = g
              /\ states' = [h \in Generations |-> IF h # g /\ on[h] = "active" THEN "archived" ELSE on[h]]
              /\ promoter' = IF states[g] = "ready" THEN job[w].by.user ELSE promoter
         ELSE UNCHANGED <<active, states, promoter>>
  /\ End(w)
  /\ UNCHANGED <<passages, rows, bodies, calls>>

(* The Worker dies, or a statement of it fails.                            *)
Die(w) ==
  /\ job[w] # Idle /\ End(w)
  /\ UNCHANGED <<tables, calls>>

KbStep(w) ==
  \/ BeginSeed(w) \/ BeginMerge(w) \/ LoadAndMerge(w) \/ BeginRebuild(w) \/ LoadAndRemove(w)
  \/ Create(w) \/ WritePassage(w) \/ WriteCatalog(w) \/ Finish(w)
  \/ BeginPromote(w) \/ Authorize(w) \/ BeginBackfill(w) \/ ListMissing(w)
  \/ Validate(w) \/ Reread(w) \/ Fill(w) \/ CheckReady(w) \/ Activate(w) \/ Die(w)

KbNext == \E w \in Workers : KbStep(w)

-----------------------------------------------------------------------------
Library(p) ==
  {d \in StoredDocuments(active) :
     rows[active][d] # NoRow /\
     ReadableDocument(p, rows[active][d], bodies[active][d] # NoBody, {passages[active][d][i] : i \in DOMAIN passages[active][d]})}

MayRead(p, d) == \A i \in DOMAIN passages[active][d] : CanAccess(p, passages[active][d][i])

(* The served generation is the one active one, and it was built to the    *)
(* end: all passages, the original bodies and a row of the same access,    *)
(* also when a promotion filled its catalog while it was being built.  So  *)
(* the library shows a member just the documents of which he may read      *)
(* every passage; of the one from before the catalog, none but those.      *)
ServedIsWhole ==
  /\ \A g \in Generations : states[g] = "active" <=> g = active
  /\ active # 1 =>
       \A d \in StoredDocuments(active) :
         Len(passages[active][d]) = Size /\ bodies[active][d] = Original /\ rows[active][d] = passages[active][d][1]
  /\ \A p \in People :
       /\ \A d \in Library(p) : MayRead(p, d)
       /\ active # 1 => \A d \in StoredDocuments(active) : MayRead(p, d) => d \in Library(p)

(* A generation a member promoted holds public documents and his own only: *)
(* it cannot change between the check of its documents and the switch      *)
(* (promote-auth.ts).                                                      *)
MembersPromoteTheirOwn ==
  \A p \in People \ Operators : promoter = p.user =>
    \A d \in StoredDocuments(active) :
      Owner(passages[active][d][1]) = p.user \/ passages[active][d][1].scope = "public"
=============================================================================
