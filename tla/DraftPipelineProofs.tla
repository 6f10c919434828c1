------------------------- MODULE DraftPipelineProofs -------------------------
(***************************************************************************)
(* Proofs about DraftPipeline for any finite set of drafts, any files,     *)
(* documents and requests, any budget and any faults.                      *)
(***************************************************************************)
EXTENDS DraftPipeline, FiniteSetTheorems, TLAPS

-----------------------------------------------------------------------------
(* The inductive invariant, first part: types, and what a job, a file or a *)
(* request is about is known once it started.                              *)

FilesKnown ==
  \A f \in Files :
    /\ stage[f] # "none" => draftOf[f] \in Drafts
    /\ draftOf[f] \in Drafts => document[f] \in Documents /\ state[draftOf[f]] # "none"

DraftsKnown ==
  /\ \A d \in Drafts : state[d] # "none" => base[d] \in Generations
  /\ \A d \in open : state[d] # "none"

Begun(j) == IF j[1] = "draft" THEN state[j[2]] # "none" ELSE stage[j[2]] # "none"

JobsKnown ==
  \A j \in Jobs :
    /\ job[j] # "none" => Begun(j)
    /\ job[j] \in DraftSteps => j[1] = "draft"
    /\ job[j] \in FileSteps => j[1] = "file"
    /\ job[j] = "expire" => j[1] = "sweep"

PutsKnown ==
  \A p \in Puts :
    /\ put[p].at # "idle" => put[p].file \in Files /\ stage[put[p].file] # "none"
    /\ put[p].at = "enqueue" => put[p].file \in received

Typed == TypeOK /\ FilesKnown /\ DraftsKnown /\ JobsKnown /\ PutsKnown

LEMMA TypedInit == Init => Typed
  BY SeedIsNoDraft, SeedHoldsDocuments DEF Init, Typed, TypeOK, FilesKnown, DraftsKnown, JobsKnown, PutsKnown,
     Generations, Jobs, States, Stages, Sources, JobSteps, DraftSteps, FileSteps, PutSteps, PromotionSteps

(* The two kinds of jobs. *)
LEMMA JobForms ==
  ASSUME NEW j \in Jobs
  PROVE  \/ j[1] \in {"file", "sweep"} /\ j[2] \in Files /\ j = <<j[1], j[2]>>
         \/ j[1] = "draft" /\ j[2] \in Drafts /\ j = <<j[1], j[2]>>
  BY DEF Jobs

(* A job that started knows its draft, its file and its document. *)
LEMMA JobSubject ==
  ASSUME Typed, NEW j \in Jobs, job[j] # "none"
  PROVE  /\ DraftOf(j) \in Drafts /\ DraftOf(j) \in Generations
         /\ state[DraftOf(j)] # "none" /\ base[DraftOf(j)] \in Generations
         /\ j[1] # "draft" => j[2] \in Files /\ stage[j[2]] # "none" /\ document[j[2]] \in Documents
  BY JobForms DEF Typed, TypeOK, FilesKnown, DraftsKnown, JobsKnown, Begun, DraftOf, Generations

-----------------------------------------------------------------------------
(* How a generation's state moves.                                         *)

StateMoves(g) ==
  \/ state'[g] = state[g]
  \/ g \in Drafts /\ state[g] = "none" /\ state'[g] = "draft"
  \/ g \in Drafts /\ state[g] = "draft" /\ state'[g] = "indexing"
  \/ state[g] \in PreLive /\ state'[g] = "failed"
  \/ state[g] \in PreLive \cup Failed /\ state'[g] = "discarded"
  \/ state[g] = "indexing" /\ state'[g] = "reconciling"
  \/ state[g] = "reconciling" /\ state'[g] = "ready"
  \/ state[g] \in {"ready", "active"} /\ state'[g] = "active"
  \/ state[g] = "active" /\ state'[g] = "archived"

Opened(d) == OpenDraft(d) /\ reindex' \in {reindex, reindex \cup {d}}

(* The actions that change a generation or its draft row. *)
LEMMA GenerationSteps ==
  ASSUME Next
  PROVE  \/ UNCHANGED generations
         \/ \E d \in Drafts : \/ Opened(d) \/ PublishFails(d) \/ Promote(d) \/ PromoteCloses(d)
                              \/ ClaimDiscard(d) \/ FinalPurge(d)
         \/ \E j \in Jobs : \/ Load(j) \/ MarkBaseCopied(j) \/ Abort(j) \/ Close(j)
                            \/ FailOnCleanup(j) \/ ClaimFinalize(j) \/ MarkDraftReady(j)
<1>1. ASSUME NEW f \in Files, UploadCreates(f) \/ \E k \in Documents : UploadStarts(f, k)
      PROVE  UNCHANGED generations \/ \E d \in Drafts : Opened(d)
  BY <1>1 DEF Opened, UploadCreates, UploadStarts
<1>2. ASSUME NEW p \in Puts, PutStep(p) \/ PutDies(p) \/ \E f \in Files : PutStarts(p, f)
      PROVE  UNCHANGED generations
  BY <1>2 DEF PutStep, PutStores, PutRecords, PutDeletes, PutEnqueues, PutDies, PutStarts
<1>3. ASSUME NEW d \in Drafts, \/ Reindex(d) \/ PublishFails(d) \/ \E j \in Jobs : Publish(d, j)
                               \/ PromoteStarts(d) \/ PromotionStep(d) \/ PromoteDies(d)
                               \/ ClaimDiscard(d) \/ Purge(d)
      PROVE  \/ UNCHANGED generations
             \/ Opened(d) \/ PublishFails(d) \/ Promote(d) \/ PromoteCloses(d)
             \/ ClaimDiscard(d) \/ FinalPurge(d)
  BY <1>3 DEF Opened, Reindex, Publish, PromoteStarts, PromotionStep, PromoteVerifies, PromoteDies, Purge,
     PurgeRows, PurgeVectors
<1>4. ASSUME NEW j \in Jobs, JobStep(j) \/ JobErrors(j)
      PROVE  \/ UNCHANGED generations
             \/ Load(j) \/ MarkBaseCopied(j) \/ Abort(j) \/ Close(j)
             \/ FailOnCleanup(j) \/ ClaimFinalize(j) \/ MarkDraftReady(j)
  BY <1>4 DEF JobStep, JobErrors, Throws, Copy, CopyVectors, WaitForBase, Fetch, Chunk, Write, Embed,
     Upsert, MarkReady, Remove, Restore, RestoreVectors, MarkFailed, Expire, Reserve, StartChecks,
     Pause, GiveUpWaiting, Reconcile, FinishChecks
<1>5. CASE NewDay
  BY <1>5 DEF NewDay
<1> QED
  BY <1>1, <1>2, <1>3, <1>4, <1>5 DEF Next

StatesMove == state' \in [Generations -> States] /\ \A g \in Generations : StateMoves(g)

LEMMA StateSteps == ASSUME Typed, Next PROVE StatesMove
<1> USE DEF Typed, TypeOK, StatesMove, StateMoves, States, PreLive, Failed, Generations
<1>1. CASE UNCHANGED generations
  BY <1>1 DEF generations
<1>2. ASSUME NEW d \in Drafts, Opened(d) PROVE StatesMove
  BY <1>2, SeedIsNoDraft DEF Opened, OpenDraft
<1>3. ASSUME NEW d \in Drafts, PublishFails(d) PROVE StatesMove
  BY <1>3 DEF PublishFails, FailGeneration
<1>4. ASSUME NEW d \in Drafts, Promote(d) PROVE StatesMove
  BY <1>4 DEF Promote, Promotable
<1>5. ASSUME NEW d \in Drafts, PromoteCloses(d) \/ FinalPurge(d) PROVE StatesMove
  BY <1>5 DEF PromoteCloses, FinalPurge
<1>6. ASSUME NEW d \in Drafts, ClaimDiscard(d) PROVE StatesMove
  BY <1>6 DEF ClaimDiscard, Discardable
<1>7. ASSUME NEW j \in Jobs, MarkBaseCopied(j) \/ Close(j) PROVE StatesMove
  BY <1>7 DEF MarkBaseCopied, Close
<1>8. ASSUME NEW j \in Jobs, Load(j) PROVE StatesMove
  <2>1. DraftOf(j) \in Drafts
    BY <1>8, JobSubject DEF Load, At
  <2>2. state' = state \/ state' = [state EXCEPT ![DraftOf(j)] = IF @ = "draft" THEN "indexing" ELSE @]
    BY <1>8 DEF Load
  <2> QED
    BY <2>1, <2>2
<1>9. ASSUME NEW j \in Jobs, Abort(j) \/ FailOnCleanup(j) PROVE StatesMove
  <2>1. DraftOf(j) \in Drafts
    BY <1>9, JobSubject DEF Abort, FailOnCleanup, At
  <2> QED
    BY <2>1, <1>9 DEF Abort, FailOnCleanup, FailGeneration
<1>10. ASSUME NEW j \in Jobs, ClaimFinalize(j) PROVE StatesMove
  <2>1. DraftOf(j) \in Drafts
    BY <1>10, JobSubject DEF ClaimFinalize, At
  <2>2. \/ state' = state
        \/ state' = [state EXCEPT ![DraftOf(j)] = "reconciling"] /\ state[DraftOf(j)] = "indexing"
    BY <1>10 DEF ClaimFinalize, MayFinalize
  <2> QED
    BY <2>1, <2>2
<1>11. ASSUME NEW j \in Jobs, MarkDraftReady(j) PROVE StatesMove
  <2>1. DraftOf(j) \in Drafts
    BY <1>11, JobSubject DEF MarkDraftReady, At
  <2> QED
    BY <2>1, <1>11 DEF MarkDraftReady, Ready
<1> QED
  BY <1>1, <1>2, <1>3, <1>4, <1>5, <1>6, <1>7, <1>8, <1>9, <1>10, <1>11, GenerationSteps

LEMMA StatesLast ==
  ASSUME Typed, Next, NEW g \in Generations
  PROVE  /\ state[g] # "none" => state'[g] # "none"
         /\ state[g] \in Failed => state'[g] \in Failed
         /\ state[g] \notin PreLive \cup {"none"} => state'[g] \notin PreLive
         /\ state[g] \in {"active", "archived"} => state'[g] \in {"active", "archived"}
         /\ state[g] \notin {"none", "draft", "indexing"} => state'[g] \notin {"none", "draft", "indexing"}
  BY StateSteps DEF StatesMove, StateMoves, PreLive, Failed, Generations

GenerationsOK ==
  /\ live \in Generations
  /\ open \in SUBSET Drafts
  /\ base \in [Drafts -> Generations \cup {None}]
  /\ reindex \in SUBSET Drafts
  /\ copied \in SUBSET Drafts
  /\ owner \in [Drafts -> Jobs \cup {None}]
  /\ purged \in SUBSET Drafts
  /\ DraftsKnown

LEMMA GenerationsTyped == ASSUME Typed, Next PROVE GenerationsOK'
<1> USE DEF GenerationsOK, DraftsKnown
<1>0. GenerationsOK /\ \A d \in Drafts : state[d] # "none" => state'[d] # "none"
  BY StatesLast DEF Typed, TypeOK, Generations
<1>1. CASE UNCHANGED generations
  BY <1>0, <1>1 DEF generations
<1>2. ASSUME NEW d \in Drafts, Opened(d) PROVE GenerationsOK'
  <2>1. /\ state' = [state EXCEPT ![d] = "draft"] /\ base' = [base EXCEPT ![d] = live]
        /\ open' = {d} /\ live' = live /\ reindex' \in {reindex, reindex \cup {d}}
        /\ UNCHANGED <<copied, owner, purged>>
    BY <1>2 DEF Opened, OpenDraft
  <2> QED
    BY <1>0, <2>1 DEF Typed, TypeOK, Generations
<1>3. ASSUME NEW d \in Drafts, PublishFails(d) PROVE GenerationsOK'
  BY <1>0, <1>3 DEF PublishFails, CloseDraft, FailGeneration, PreLive, Typed, TypeOK, Generations
<1>4. ASSUME NEW d \in Drafts, Promote(d) PROVE GenerationsOK'
  BY <1>0, <1>4 DEF Promote, Promotable, Typed, TypeOK, Generations
<1>5. ASSUME NEW d \in Drafts, PromoteCloses(d) \/ FinalPurge(d) PROVE GenerationsOK'
  BY <1>0, <1>5 DEF PromoteCloses, FinalPurge
<1>6. ASSUME NEW d \in Drafts, ClaimDiscard(d) PROVE GenerationsOK'
  BY <1>0, <1>6 DEF ClaimDiscard, Discardable, PreLive, Failed, Typed, TypeOK, Generations
<1>7. ASSUME NEW j \in Jobs, MarkBaseCopied(j) PROVE GenerationsOK'
  BY <1>0, <1>7, JobSubject DEF MarkBaseCopied, At
<1>8. ASSUME NEW j \in Jobs, Close(j) PROVE GenerationsOK'
  BY <1>0, <1>8 DEF Close, CloseDraft
<1>9. ASSUME NEW j \in Jobs, Load(j) \/ Abort(j) \/ FailOnCleanup(j) \/ MarkDraftReady(j) PROVE GenerationsOK'
  <2>1. UNCHANGED <<live, open, base, reindex, copied, owner, purged>>
    BY <1>9 DEF Load, Abort, FailOnCleanup, MarkDraftReady
  <2>2. \A d \in Drafts : state'[d] # "none" => state[d] # "none"
    BY <1>9 DEF Load, Abort, FailOnCleanup, MarkDraftReady, FailGeneration, Ready, PreLive, Typed,
       TypeOK, Generations
  <2> QED
    BY <1>0, <2>1, <2>2
<1>10. ASSUME NEW j \in Jobs, ClaimFinalize(j) PROVE GenerationsOK'
  <2>1. UNCHANGED <<live, open, base, reindex, copied, purged>>
    BY <1>10 DEF ClaimFinalize
  <2>2. owner' \in [Drafts -> Jobs \cup {None}]
    BY <1>0, <1>10 DEF ClaimFinalize
  <2>3. \A d \in Drafts : state'[d] # "none" => state[d] # "none"
    BY <1>10 DEF ClaimFinalize, MayFinalize, Typed, TypeOK, Generations
  <2> QED
    BY <1>0, <2>1, <2>2, <2>3
<1> QED
  BY <1>1, <1>2, <1>3, <1>4, <1>5, <1>6, <1>7, <1>8, <1>9, <1>10, GenerationSteps

-----------------------------------------------------------------------------
(* How an upload moves.                                                    *)


Working == {"waitBase", "fetch", "chunk", "write", "embed", "upsert", "restore", "restoreVectors"}

(* A file keeps its draft and its document while it has a stage, and it    *)
(* ends once: by its own job, because it was never received, or with its   *)
(* draft.                                                                  *)
UploadMoves(f) ==
  \/ draftOf'[f] = draftOf[f] /\ document'[f] = document[f] /\ stage'[f] = stage[f]
  \/ /\ stage[f] = "none" /\ stage'[f] = "none" /\ draftOf[f] = None
     /\ draftOf'[f] \in Drafts /\ document'[f] \in Documents /\ state'[draftOf'[f]] \in Building
  \/ stage[f] = "none" /\ stage'[f] = "none" /\ draftOf'[f] = None
  \/ /\ draftOf'[f] = draftOf[f] /\ document'[f] = document[f]
     /\ stage[f] = "none" /\ stage'[f] = "parsing" /\ draftOf[f] \in Drafts
     /\ state' = state /\ state[draftOf[f]] \in Building
  \/ /\ draftOf'[f] = draftOf[f] /\ document'[f] = document[f]
     /\ stage[f] \notin Ended \cup {"none"} /\ stage'[f] # "none"
     /\ stage'[f] \in Ended => \/ job[<<"file", f>>] \in {"finish", "mark"}
                               \/ f \notin received
                               \/ state'[draftOf[f]] \in Failed

UploadsMove ==
  /\ stage' \in [Files -> Stages]
  /\ draftOf' \in [Files -> Drafts \cup {None}]
  /\ document' \in [Files -> Documents \cup {None}]
  /\ \A f \in Files : UploadMoves(f)

LEMMA OneUploadMoves ==
  ASSUME Typed, UNCHANGED <<draftOf, document>>, NEW f \in Files, NEW s \in Stages,
         stage' = [stage EXCEPT ![f] = s],
         s # stage[f] =>
           /\ stage[f] \notin Ended \cup {"none"} /\ s # "none"
           /\ s \in Ended => job[<<"file", f>>] \in {"finish", "mark"} \/ f \notin received
  PROVE  UploadsMove
<1>1. TypeOK
  BY DEF Typed
<1>2. stage' \in [Files -> Stages] /\ stage'[f] = s /\ \A g \in Files : g # f => stage'[g] = stage[g]
  BY <1>1 DEF TypeOK
<1>3. \A g \in Files : UploadMoves(g)
  BY <1>2 DEF UploadMoves
<1> QED
  BY <1>1, <1>2, <1>3 DEF UploadsMove, TypeOK

LEMMA UploadSteps == ASSUME Typed, Next PROVE UploadsMove
<1>0. TypeOK /\ FilesKnown /\ DraftsKnown /\ JobsKnown
  BY DEF Typed
<1>1. CASE UNCHANGED <<stage, draftOf, document>>
  BY <1>0, <1>1 DEF TypeOK, UploadsMove, UploadMoves
<1>2. ASSUME NEW f \in Files, UploadCreates(f) PROVE UploadsMove
  <2>1. state' = state /\ document' \in [Files -> Documents \cup {None}]
    BY <1>0, <1>2 DEF UploadCreates, generations, TypeOK
  <2>2. draftOf[f] \in Drafts /\ stage[f] = "none"
    BY <1>0, <1>2 DEF UploadCreates, TypeOK
  <2>3. CASE stage' = [stage EXCEPT ![f] = "parsing"] /\ UNCHANGED <<draftOf, document>>
    <3>1. state[draftOf[f]] \in Building
      BY <1>2, <2>2, <2>3, <1>0 DEF UploadCreates, TypeOK, Stages
    <3> QED
      BY <1>0, <2>1, <2>2, <2>3, <3>1 DEF UploadsMove, UploadMoves, TypeOK, Stages
  <2>4. CASE /\ draftOf' = [draftOf EXCEPT ![f] = None] /\ document' = [document EXCEPT ![f] = None]
             /\ UNCHANGED stage
    BY <1>0, <2>1, <2>2, <2>4 DEF UploadsMove, UploadMoves, TypeOK
  <2> QED
    BY <1>2, <2>3, <2>4 DEF UploadCreates
<1>3. ASSUME NEW f \in Files, NEW k \in Documents, UploadStarts(f, k) PROVE UploadsMove
  <2>1. PICK d \in Drafts :
          /\ \/ OpenDraft(d)
             \/ d \in open \ reindex /\ state[d] \in Building /\ UNCHANGED generations
          /\ draftOf' = [draftOf EXCEPT ![f] = d]
    BY <1>3 DEF UploadStarts
  <2>2. state'[d] \in Building
    BY <1>0, <2>1 DEF OpenDraft, generations, Building, TypeOK, Generations
  <2>3. draftOf[f] = None /\ document' = [document EXCEPT ![f] = k] /\ stage' = stage
    BY <1>3 DEF UploadStarts
  <2>4. stage[f] = "none"
    BY <1>0, <2>3, SeedIsNoDraft DEF FilesKnown
  <2> QED
    BY <1>0, <2>1, <2>2, <2>3, <2>4 DEF UploadsMove, UploadMoves, TypeOK
<1>4. ASSUME NEW j \in Jobs, Chunk(j) \/ Write(j) \/ MarkReady(j) \/ MarkFailed(j) PROVE UploadsMove
  <2>1. UNCHANGED <<draftOf, document>>
    BY <1>4 DEF Chunk, Write, MarkReady, MarkFailed
  <2>2. job[j] \in FileSteps /\ job[j] # "none"
    BY <1>4 DEF Chunk, Write, MarkReady, MarkFailed, At, FileSteps
  <2>3. j[2] \in Files /\ j = <<"file", j[2]>> /\ stage[j[2]] # "none"
    BY <1>0, <2>2, JobForms, JobSubject DEF JobsKnown, Typed
  <2>4. \/ stage' = stage
        \/ stage' = [stage EXCEPT ![j[2]] = IF @ = "parsing" THEN "chunking" ELSE @]
        \/ stage' = [stage EXCEPT ![j[2]] = IF @ = "chunking" THEN "embedding" ELSE @]
        \/ job[j] = "finish" /\ stage' = [stage EXCEPT ![j[2]] = IF @ = "failed" THEN @ ELSE "ready"]
        \/ job[j] = "mark" /\ stage' = [stage EXCEPT ![j[2]] = IF @ \in Ended THEN @ ELSE "failed"]
    BY <1>4 DEF Chunk, Write, MarkReady, MarkFailed, At
  <2>5. stage[j[2]] \in Stages /\ job[j] = job[<<"file", j[2]>>]
    BY <1>0, <2>3 DEF TypeOK
  <2>6. PICK s \in Stages :
          /\ stage' = [stage EXCEPT ![j[2]] = s]
          /\ s # stage[j[2]] =>
               /\ stage[j[2]] \notin Ended \cup {"none"} /\ s # "none"
               /\ s \in Ended => job[j] \in {"finish", "mark"}
    <3>1. CASE stage' = stage
      BY <1>0, <2>5, <3>1 DEF TypeOK
    <3>2. CASE stage' # stage
      BY <1>0, <2>3, <2>4, <2>5, <3>2 DEF TypeOK, Stages, Ended
    <3> QED
      BY <3>1, <3>2
  <2> QED
    BY <2>1, <2>3, <2>5, <2>6, OneUploadMoves
<1>5. ASSUME NEW j \in Jobs, Expire(j) PROVE UploadsMove
  <2>1. UNCHANGED <<draftOf, document>>
    BY <1>5 DEF Expire
  <2>2. j[2] \in Files /\ stage[j[2]] # "none"
    <3>1. job[j] = "expire"
      BY <1>5 DEF Expire, At
    <3> QED
      BY <1>0, <3>1, JobForms, JobSubject DEF JobsKnown, Typed
  <2>3. stage' = stage \/ stage' = [stage EXCEPT ![j[2]] = IF Undelivered(j[2]) THEN "failed" ELSE @]
    BY <1>5 DEF Expire
  <2>4. stage' = stage \/ (Undelivered(j[2]) /\ stage' = [stage EXCEPT ![j[2]] = "failed"])
    BY <1>0, <2>2, <2>3 DEF TypeOK
  <2>5. CASE stage' = stage
    BY <1>1, <2>1, <2>5
  <2>6. CASE Undelivered(j[2]) /\ stage' = [stage EXCEPT ![j[2]] = "failed"]
    BY <2>1, <2>2, <2>6, OneUploadMoves DEF Undelivered, Stages, Ended
  <2> QED
    BY <2>4, <2>5, <2>6
<1>6. ASSUME NEW d \in Drafts, ClaimDiscard(d) PROVE UploadsMove
  <2>1. UNCHANGED <<draftOf, document>> /\ state'[d] \in Failed
    BY <1>0, <1>6 DEF ClaimDiscard, TypeOK, Generations, Failed
  <2>2. stage' = [f \in Files |-> IF draftOf[f] = d /\ stage[f] \notin Ended \cup {"none"}
                                  THEN "failed" ELSE stage[f]]
    BY <1>6 DEF ClaimDiscard
  <2> QED
    BY <1>0, <2>1, <2>2 DEF UploadsMove, UploadMoves, TypeOK, Stages, Ended
<1>7. ASSUME NEW p \in Puts, PutStep(p) \/ PutDies(p) \/ \E f \in Files : PutStarts(p, f)
      PROVE  UNCHANGED <<stage, draftOf, document>>
  BY <1>7 DEF PutStep, PutStores, PutRecords, PutDeletes, PutEnqueues, PutDies, PutStarts, uploads
<1>8. ASSUME NEW d \in Drafts, \/ Reindex(d) \/ PublishFails(d) \/ \E j \in Jobs : Publish(d, j)
                               \/ PromoteStarts(d) \/ PromotionStep(d) \/ PromoteDies(d)
                               \/ ClaimDiscard(d) \/ Purge(d)
      PROVE  UNCHANGED <<stage, draftOf, document>> \/ ClaimDiscard(d)
  BY <1>8 DEF Reindex, Publish, PublishFails, PromoteStarts, PromotionStep, Promote, PromoteVerifies,
     PromoteCloses, PromoteDies, Purge, PurgeRows, PurgeVectors, FinalPurge, uploads
<1>9. ASSUME NEW j \in Jobs, JobStep(j) \/ JobErrors(j)
      PROVE  \/ UNCHANGED <<stage, draftOf, document>>
             \/ Chunk(j) \/ Write(j) \/ MarkReady(j) \/ MarkFailed(j) \/ Expire(j)
  BY <1>9 DEF JobStep, JobErrors, Load, Throws, Copy, CopyVectors, MarkBaseCopied, Abort, Close,
     WaitForBase, Fetch, Embed, Upsert, Remove, Restore, RestoreVectors, FailOnCleanup, ClaimFinalize,
     Reserve, StartChecks, Pause, GiveUpWaiting, Reconcile, FinishChecks, MarkDraftReady, uploads
<1>10. CASE NewDay
  BY <1>10, <1>1 DEF NewDay, uploads
<1> QED
  BY <1>1, <1>2, <1>3, <1>4, <1>5, <1>6, <1>7, <1>8, <1>9, <1>10 DEF Next

-----------------------------------------------------------------------------
(* How a job moves.                                                        *)

JobMoves(j) ==
  \/ job'[j] = job[j]
  \/ /\ job[j] = "none" /\ job'[j] = "load"
     /\ Begun(j) /\ (j[1] = "file" => j[2] \in received)
  \/ job[j] # "none" /\ job'[j] = "done"
  \/ job[j] = "load" /\ job'[j] = "waitBase" /\ j[1] = "file" /\ stage[j[2]] \notin Ended
  \/ job[j] = "load" /\ job'[j] = "expire" /\ j[1] = "sweep"
  \/ job[j] = "load" /\ job'[j] = "copy" /\ j[1] = "draft"
  \/ job[j] \in {"copy", "copyVectors"} /\ job'[j] \in {"copy", "copyVectors", "copied", "abort"}
  \/ job[j] = "abort" /\ job'[j] = "closeAborted" /\ state'[DraftOf(j)] \notin PreLive
  \/ job[j] = "closeAborted" /\ job'[j] = "abort"
  \/ job[j] \in {"copied", "mark", "finish", "expire"} /\ job'[j] = "claim"
  \/ job[j] \in Working /\ job'[j] \in Working \cup {"finish", "remove", "mark", "failDraft"}
  \/ job[j] = "finish" /\ job'[j] = "remove"
  \/ job[j] = "remove" /\ job'[j] = "restore" /\ stage[j[2]] \in {"chunking", "embedding"}
  \/ job[j] \in {"remove", "closeDraft"} /\ job'[j] \in {"mark", "failDraft"}
  \/ job[j] = "failDraft" /\ job'[j] = "closeDraft" /\ state'[DraftOf(j)] \notin PreLive
  \/ job[j] = "claim" /\ job'[j] = "reserve" /\ owner'[DraftOf(j)] = j
  \/ job[j] \in CheckSteps \ {"pass", "ready"} /\ job'[j] \in CheckSteps \ {"ready", "start", "restart"}
  \/ /\ job[j] \in {"reserve", "recount"} /\ job'[j] \in {"start", "restart"}
     /\ ~BudgetSpent(DraftOf(j)) /\ used' = used
  \/ job[j] = "pass" /\ job'[j] = "ready" /\ checks'[DraftOf(j)] = "passed"
  \/ job[j] = "ready" /\ job'[j] = "pass"

JobsMove == job' \in [Jobs -> JobSteps] /\ \A j \in Jobs : JobMoves(j)

LEMMA OneJobMoves ==
  ASSUME TypeOK, NEW j \in Jobs, NEW s \in JobSteps, job' = [job EXCEPT ![j] = s], JobMoves(j)
  PROVE  JobsMove
<1>1. \A i \in Jobs : i = j \/ job'[i] = job[i]
  BY DEF TypeOK
<1>2. job' \in [Jobs -> JobSteps]
  BY DEF TypeOK
<1> QED
  BY <1>1, <1>2 DEF JobsMove, JobMoves

(* A job that nothing moves, or that ends. *)
LEMMA JobsStay ==
  ASSUME TypeOK, job' = job
  PROVE  JobsMove
  BY DEF TypeOK, JobsMove, JobMoves

LEMMA JobEnds ==
  ASSUME TypeOK, NEW j \in Jobs, job[j] # "none", job' = [job EXCEPT ![j] = "done"]
  PROVE  JobsMove
<1>1. "done" \in JobSteps
  BY DEF JobSteps
<1>2. JobMoves(j)
  BY DEF TypeOK, JobMoves
<1> QED
  BY <1>1, <1>2, OneJobMoves

LEMMA JobLaunches ==
  ASSUME TypeOK, NEW j \in Jobs, Launched(j), Begun(j), j[1] = "file" => j[2] \in received
  PROVE  JobsMove
<1>1. CASE job[j] = "none"
  <2>1. "load" \in JobSteps /\ job' = [job EXCEPT ![j] = "load"]
    BY <1>1 DEF JobSteps, Launched, TypeOK
  <2>2. JobMoves(j)
    BY <1>1, <2>1 DEF TypeOK, JobMoves
  <2> QED
    BY <2>1, <2>2, OneJobMoves
<1>2. CASE job[j] # "none"
  BY <1>2, JobsStay DEF Launched, TypeOK
<1> QED
  BY <1>1, <1>2

(* The draft's own job. *)
LEMMA DraftJobSteps ==
  ASSUME Typed, NEW j \in Jobs, Copy(j) \/ CopyVectors(j) \/ MarkBaseCopied(j) \/ Abort(j) \/ Close(j)
  PROVE  JobsMove
<1>0. TypeOK /\ JobsKnown
  BY DEF Typed
<1> DEFINE Moves(s) == job' = [job EXCEPT ![j] = s]
<1>1. CASE Copy(j) \/ CopyVectors(j)
  <2>1. PICK s \in {"copy", "copyVectors", "copied", "abort"} : Moves(s)
    BY <1>1 DEF Copy, CopyVectors, At, Goto, Then, Retried
  <2>2. s \in JobSteps /\ job'[j] = s /\ job[j] \in {"copy", "copyVectors"}
    BY <1>0, <1>1, <2>1 DEF JobSteps, DraftSteps, TypeOK, Copy, CopyVectors, At
  <2>3. JobMoves(j)
    BY <2>2 DEF JobMoves
  <2> QED
    BY <1>0, <2>1, <2>2, <2>3, OneJobMoves
<1>2. CASE MarkBaseCopied(j)
  <2>1. PICK s \in {"copied", "claim"} : Moves(s)
    BY <1>2 DEF MarkBaseCopied, At, Goto, Then, Retried
  <2>2. s \in JobSteps /\ job'[j] = s /\ job[j] = "copied"
    BY <1>0, <1>2, <2>1 DEF JobSteps, DraftSteps, TypeOK, MarkBaseCopied, At
  <2>3. JobMoves(j)
    BY <2>2 DEF JobMoves
  <2> QED
    BY <1>0, <2>1, <2>2, <2>3, OneJobMoves
<1>3. CASE Abort(j)
  <2>1. Moves("closeAborted") /\ job[j] = "abort" /\ FailGeneration(DraftOf(j))
    BY <1>3 DEF Abort, At, Goto
  <2>2. DraftOf(j) \in Generations
    BY <2>1, JobSubject
  <2>3. "closeAborted" \in JobSteps /\ job'[j] = "closeAborted" /\ state'[DraftOf(j)] \notin PreLive
    BY <1>0, <2>1, <2>2 DEF JobSteps, DraftSteps, TypeOK, FailGeneration, PreLive
  <2>4. JobMoves(j)
    BY <2>1, <2>3 DEF JobMoves
  <2> QED
    BY <1>0, <2>1, <2>3, <2>4, OneJobMoves
<1>4. CASE Close(j)
  <2>1. CASE job[j] = "closeAborted"
    <3>1. PICK s \in {"done", "abort"} : Moves(s)
      BY <1>4, <2>1 DEF Close, At, Goto, Retried
    <3>2. s \in JobSteps /\ job'[j] = s
      BY <1>0, <3>1 DEF JobSteps, DraftSteps, TypeOK
    <3>3. JobMoves(j)
      BY <2>1, <3>2 DEF JobMoves
    <3> QED
      BY <1>0, <3>1, <3>2, <3>3, OneJobMoves
  <2>2. CASE job[j] = "closeDraft"
    <3>1. PICK s \in {"mark", "failDraft"} : Moves(s)
      BY <1>4, <2>2 DEF Close, At, Goto, Retried
    <3>2. s \in JobSteps /\ job'[j] = s
      BY <1>0, <3>1 DEF JobSteps, FileSteps, TypeOK
    <3>3. JobMoves(j)
      BY <2>2, <3>2 DEF JobMoves
    <3> QED
      BY <1>0, <3>1, <3>2, <3>3, OneJobMoves
  <2> QED
    BY <1>4, <2>1, <2>2 DEF Close
<1> QED
  BY <1>1, <1>2, <1>3, <1>4

(* A file's job. *)
LEMMA FileJobSteps ==
  ASSUME Typed, NEW j \in Jobs,
         \/ Throws(j) \/ WaitForBase(j) \/ Fetch(j) \/ Chunk(j) \/ Write(j) \/ Embed(j) \/ Upsert(j)
         \/ MarkReady(j) \/ Remove(j) \/ Restore(j) \/ RestoreVectors(j) \/ FailOnCleanup(j)
         \/ MarkFailed(j)
  PROVE  JobsMove
<1>0. TypeOK /\ JobsKnown
  BY DEF Typed
<1> DEFINE Moves(s) == job' = [job EXCEPT ![j] = s]
<1> DEFINE Worked == Working \cup {"finish", "remove", "mark", "failDraft"}
<1>1. ASSUME job[j] \in Working, NEW s \in Worked, Moves(s) PROVE JobsMove
  <2>1. s \in JobSteps /\ job'[j] = s
    BY <1>0, <1>1 DEF JobSteps, FileSteps, TypeOK, Working
  <2>2. JobMoves(j)
    BY <1>1, <2>1 DEF JobMoves
  <2> QED
    BY <1>0, <1>1, <2>1, <2>2, OneJobMoves
<1>2. CASE WaitForBase(j) \/ Fetch(j) \/ Chunk(j) \/ Write(j)
  <2>1. job[j] \in Working /\ \E s \in Worked : Moves(s)
    BY <1>2 DEF WaitForBase, Fetch, Chunk, Write, At, Goto, Try, Retried, Working
  <2> QED
    BY <1>1, <2>1
<1>3. CASE Embed(j) \/ Upsert(j) \/ Restore(j) \/ RestoreVectors(j)
  <2>1. job[j] \in Working /\ \E s \in Worked : Moves(s)
    BY <1>3 DEF Embed, Upsert, Restore, RestoreVectors, At, Goto, Then, Try, Retried, Working
  <2> QED
    BY <1>1, <2>1
<1>4. CASE Throws(j)
  <2>1. Moves("remove") /\ (job[j] \in Working \/ job[j] = "finish")
    BY <1>4 DEF Throws, Goto, Working
  <2>2. CASE job[j] = "finish"
    <3>1. "remove" \in JobSteps /\ job'[j] = "remove"
      BY <1>0, <2>1 DEF JobSteps, FileSteps, TypeOK
    <3>2. JobMoves(j)
      BY <2>2, <3>1 DEF JobMoves
    <3> QED
      BY <1>0, <2>1, <3>1, <3>2, OneJobMoves
  <2> QED
    BY <1>1, <2>1, <2>2
<1>5. CASE MarkReady(j) \/ MarkFailed(j)
  <2>1. job[j] \in {"finish", "mark"} /\ \E s \in {"claim", "finish", "mark", "remove"} :
          Moves(s) /\ (s \in {"finish", "mark"} => s = job[j]) /\ (s = "remove" => job[j] = "finish")
    BY <1>5 DEF MarkReady, MarkFailed, At, Goto, Then, Try, Retried
  <2>2. PICK s \in {"claim", "finish", "mark", "remove"} :
          Moves(s) /\ (s \in {"finish", "mark"} => s = job[j]) /\ (s = "remove" => job[j] = "finish")
    BY <2>1
  <2>3. s \in JobSteps /\ job'[j] = s
    BY <1>0, <2>2 DEF JobSteps, FileSteps, TypeOK
  <2>4. JobMoves(j)
    BY <2>1, <2>2, <2>3 DEF JobMoves
  <2> QED
    BY <1>0, <2>2, <2>3, <2>4, OneJobMoves
<1>6. CASE Remove(j)
  <2>1. job[j] = "remove" /\ \E s \in {"mark", "restore", "remove", "failDraft"} :
          Moves(s) /\ (s = "restore" => stage[j[2]] \in {"chunking", "embedding"})
    BY <1>6 DEF Remove, At, Goto, Then, Retried
  <2>2. PICK s \in {"mark", "restore", "remove", "failDraft"} :
          Moves(s) /\ (s = "restore" => stage[j[2]] \in {"chunking", "embedding"})
    BY <2>1
  <2>3. s \in JobSteps /\ job'[j] = s
    BY <1>0, <2>2 DEF JobSteps, FileSteps, TypeOK
  <2>4. JobMoves(j)
    BY <2>1, <2>2, <2>3 DEF JobMoves
  <2> QED
    BY <1>0, <2>2, <2>3, <2>4, OneJobMoves
<1>7. CASE FailOnCleanup(j)
  <2>1. Moves("closeDraft") /\ job[j] = "failDraft" /\ FailGeneration(DraftOf(j))
    BY <1>7 DEF FailOnCleanup, At, Goto
  <2>2. DraftOf(j) \in Generations
    BY <2>1, JobSubject
  <2>3. "closeDraft" \in JobSteps /\ job'[j] = "closeDraft" /\ state'[DraftOf(j)] \notin PreLive
    BY <1>0, <2>1, <2>2 DEF JobSteps, FileSteps, TypeOK, FailGeneration, PreLive
  <2>4. JobMoves(j)
    BY <2>1, <2>3 DEF JobMoves
  <2> QED
    BY <1>0, <2>1, <2>3, <2>4, OneJobMoves
<1> QED
  BY <1>2, <1>3, <1>4, <1>5, <1>6, <1>7

(* The checks. *)
LEMMA CheckJobSteps ==
  ASSUME Typed, NEW j \in Jobs,
         \/ ClaimFinalize(j) \/ Reserve(j) \/ StartChecks(j) \/ Pause(j) \/ GiveUpWaiting(j)
         \/ Reconcile(j) \/ FinishChecks(j) \/ MarkDraftReady(j)
  PROVE  JobsMove
<1>0. TypeOK
  BY DEF Typed
<1> DEFINE Moves(s) == job' = [job EXCEPT ![j] = s]
<1>1. ASSUME NEW s \in CheckSteps \cup {"claim"}, Moves(s), JobMoves(j) PROVE JobsMove
  BY <1>0, <1>1, OneJobMoves DEF JobSteps
<1>2. ASSUME NEW s, Moves(s) PROVE job'[j] = s
  BY <1>0, <1>2 DEF TypeOK
<1>3. CASE ClaimFinalize(j)
  <2>1. job[j] = "claim" /\ DraftOf(j) \in Drafts
    BY <1>3, JobSubject DEF ClaimFinalize, At
  <2>2. \E s \in {"reserve", "claim", "done"} : Moves(s) /\ (s = "reserve" => owner'[DraftOf(j)] = j)
    BY <1>0, <1>3, <2>1 DEF ClaimFinalize, At, Goto, Then, Retried, TypeOK
  <2>3. PICK s \in {"reserve", "claim", "done"} : Moves(s) /\ (s = "reserve" => owner'[DraftOf(j)] = j)
    BY <2>2
  <2>4. CASE s = "done"
    BY <1>0, <2>1, <2>3, <2>4, JobEnds
  <2>5. CASE s # "done"
    <3>1. JobMoves(j)
      BY <1>2, <2>1, <2>3, <2>5 DEF JobMoves
    <3> QED
      BY <1>1, <2>3, <2>5, <3>1 DEF CheckSteps
  <2> QED
    BY <2>4, <2>5
<1>4. CASE Reserve(j)
  <2>1. job[j] \in {"reserve", "recount"} /\ used' = used
    BY <1>4 DEF Reserve, checking
  <2>2. \E s \in {"done", "reconcile", "pause", "start", "restart"} :
          Moves(s) /\ (s \in {"start", "restart"} => ~BudgetSpent(DraftOf(j)))
    BY <1>4 DEF Reserve, At, Goto
  <2>3. PICK s \in {"done", "reconcile", "pause", "start", "restart"} :
          Moves(s) /\ (s \in {"start", "restart"} => ~BudgetSpent(DraftOf(j)))
    BY <2>2
  <2>4. CASE s = "done"
    BY <1>0, <2>1, <2>3, <2>4, JobEnds
  <2>5. CASE s # "done"
    <3>1. JobMoves(j)
      BY <1>2, <2>1, <2>3, <2>5 DEF JobMoves, CheckSteps
    <3> QED
      BY <1>1, <2>3, <2>5, <3>1 DEF CheckSteps
  <2> QED
    BY <2>4, <2>5
<1>5. CASE StartChecks(j) \/ Pause(j) \/ Reconcile(j)
  <2>1. /\ job[j] \in CheckSteps \ {"pass", "ready"}
        /\ \E s \in CheckSteps \ {"ready", "start", "restart"} : Moves(s)
    BY <1>5 DEF StartChecks, Pause, Reconcile, At, Goto, Retried, CheckSteps
  <2>2. PICK s \in CheckSteps \ {"ready", "start", "restart"} : Moves(s)
    BY <2>1
  <2>3. JobMoves(j)
    BY <1>2, <2>1, <2>2 DEF JobMoves
  <2> QED
    BY <1>1, <2>2, <2>3
<1>6. CASE GiveUpWaiting(j)
  BY <1>0, <1>6, JobEnds DEF GiveUpWaiting, At, Goto
<1>7. CASE FinishChecks(j)
  <2>1. job[j] \in {"pass", "reject"} /\ DraftOf(j) \in Drafts
    BY <1>7, JobSubject DEF FinishChecks
  <2>2. \/ Moves(job[j])
        \/ job[j] = "pass" /\ Moves("ready") /\ checks'[DraftOf(j)] = "passed"
        \/ Moves("done")
    BY <1>0, <1>7, <2>1 DEF FinishChecks, At, Then, Goto, Retried, TypeOK
  <2>3. CASE Moves(job[j])
    BY <1>0, <2>3, JobsStay DEF TypeOK
  <2>4. CASE job[j] = "pass" /\ Moves("ready") /\ checks'[DraftOf(j)] = "passed"
    <3>1. JobMoves(j)
      BY <1>2, <2>4 DEF JobMoves
    <3> QED
      BY <1>1, <2>4, <3>1 DEF CheckSteps
  <2>5. CASE Moves("done")
    BY <1>0, <2>1, <2>5, JobEnds
  <2> QED
    BY <2>2, <2>3, <2>4, <2>5
<1>8. CASE MarkDraftReady(j)
  <2>1. job[j] = "ready" /\ (Moves("done") \/ Moves("pass"))
    BY <1>8 DEF MarkDraftReady, At, Goto, Retried
  <2>2. CASE Moves("pass")
    <3>1. JobMoves(j)
      BY <1>2, <2>1, <2>2 DEF JobMoves
    <3> QED
      BY <1>1, <2>2, <3>1 DEF CheckSteps
  <2> QED
    BY <1>0, <2>1, <2>2, JobEnds
<1> QED
  BY <1>3, <1>4, <1>5, <1>6, <1>7, <1>8

LEMMA LoadSteps == ASSUME Typed, NEW j \in Jobs, Load(j) PROVE JobsMove
<1>0. TypeOK
  BY DEF Typed
<1>1. \/ job' = [job EXCEPT ![j] = "done"]
      \/ job' = job
      \/ job' = [job EXCEPT ![j] = "waitBase"] /\ j[1] = "file" /\ stage[j[2]] \notin Ended
      \/ job' = [job EXCEPT ![j] = "expire"] /\ j[1] = "sweep"
      \/ job' = [job EXCEPT ![j] = "copy"] /\ j[1] = "draft"
  BY <1>0 DEF Load, At, Goto, Then, Retried, TypeOK
<1>2. job[j] = "load"
  BY DEF Load, At
<1>3. CASE job' = [job EXCEPT ![j] = "done"]
  BY <1>0, <1>2, <1>3, JobEnds
<1>4. CASE job' = job
  BY <1>0, <1>4, JobsStay
<1>5. ASSUME NEW s \in {"waitBase", "expire", "copy"}, job' = [job EXCEPT ![j] = s],
             s = "waitBase" => j[1] = "file" /\ stage[j[2]] \notin Ended,
             s = "expire" => j[1] = "sweep", s = "copy" => j[1] = "draft"
      PROVE  JobsMove
  <2>1. s \in JobSteps /\ job'[j] = s
    BY <1>0, <1>5 DEF TypeOK, JobSteps, FileSteps, DraftSteps
  <2>2. JobMoves(j)
    BY <1>2, <1>5, <2>1 DEF JobMoves
  <2> QED
    BY <1>0, <1>5, <2>1, <2>2, OneJobMoves
<1> QED
  BY <1>1, <1>3, <1>4, <1>5

LEMMA JobsStep == ASSUME Typed, Next PROVE JobsMove
<1>0. TypeOK /\ FilesKnown /\ DraftsKnown /\ JobsKnown /\ PutsKnown
  BY DEF Typed
<1>1. ASSUME NEW f \in Files, UploadCreates(f) \/ \E k \in Documents : UploadStarts(f, k)
      PROVE  JobsMove
  <2>1. job' = job
    BY <1>1 DEF UploadCreates, UploadStarts
  <2> QED
    BY <1>0, <2>1, JobsStay
<1>2. ASSUME NEW p \in Puts, PutStep(p) \/ PutDies(p) \/ \E f \in Files : PutStarts(p, f)
      PROVE  JobsMove
  <2>1. job' = job \/ PutEnqueues(p)
    BY <1>2 DEF PutStep, PutStores, PutRecords, PutDeletes, PutDies, PutStarts
  <2>2. CASE PutEnqueues(p)
    <3> DEFINE j == <<"file", put[p].file>>
    <3>1. put[p].file \in Files /\ stage[put[p].file] # "none" /\ put[p].file \in received
      BY <1>0, <2>2 DEF PutEnqueues, PutsKnown
    <3>2. j \in Jobs /\ Begun(j) /\ j[1] = "file" /\ j[2] \in received
      BY <3>1 DEF Jobs, Begun
    <3>3. Launched(j)
      BY <2>2 DEF PutEnqueues
    <3> HIDE DEF j
    <3> QED
      BY <1>0, <3>2, <3>3, JobLaunches
  <2> QED
    BY <1>0, <2>1, <2>2, JobsStay
<1>3. ASSUME NEW d \in Drafts, \/ Reindex(d) \/ PublishFails(d) \/ \E j \in Jobs : Publish(d, j)
                               \/ PromoteStarts(d) \/ PromotionStep(d) \/ PromoteDies(d)
                               \/ ClaimDiscard(d) \/ Purge(d)
      PROVE  JobsMove
  <2>1. job' = job \/ \E j \in Jobs : Publish(d, j)
    BY <1>3 DEF Reindex, PublishFails, PromoteStarts, PromotionStep, Promote, PromoteVerifies,
       PromoteCloses, PromoteDies, ClaimDiscard, Purge, PurgeRows, PurgeVectors, FinalPurge
  <2>2. ASSUME NEW j \in Jobs, Publish(d, j) PROVE JobsMove
    <3>1. Launched(j) /\ j \in Intents(d) /\ d \in open
      BY <2>2 DEF Publish
    <3>2. Begun(j) /\ j[1] # "file"
      BY <1>0, <3>1 DEF Intents, Begun, DraftsKnown
    <3> QED
      BY <1>0, <3>1, <3>2, JobLaunches
  <2> QED
    BY <1>0, <2>1, <2>2, JobsStay
<1>4. ASSUME NEW j \in Jobs, JobErrors(j) PROVE JobsMove
  <2>1. job[j] # "none" /\ job' = [job EXCEPT ![j] = "done"]
    BY <1>4 DEF JobErrors, CheckSteps
  <2> QED
    BY <1>0, <2>1, JobEnds
<1>5. ASSUME NEW j \in Jobs, Expire(j) PROVE JobsMove
  <2>1. job[j] = "expire" /\ \E s \in {"claim", "expire", "done"} : job' = [job EXCEPT ![j] = s]
    BY <1>5 DEF Expire, At, Goto, Then, Retried
  <2>2. PICK s \in {"claim", "expire", "done"} : job' = [job EXCEPT ![j] = s]
    BY <2>1
  <2>3. s \in JobSteps /\ job'[j] = s
    BY <1>0, <2>2 DEF JobSteps, TypeOK
  <2>4. JobMoves(j)
    BY <2>1, <2>3 DEF JobMoves
  <2> QED
    BY <1>0, <2>2, <2>3, <2>4, OneJobMoves
<1>6. CASE NewDay
  <2>1. job' = [j \in Jobs |-> IF job[j] = "sleepDay" THEN "recount" ELSE job[j]]
    BY <1>6 DEF NewDay, At
  <2> QED
    BY <1>0, <2>1 DEF JobsMove, JobMoves, TypeOK, JobSteps, CheckSteps
<1>7. ASSUME NEW j \in Jobs, JobStep(j) PROVE JobsMove
  BY <1>5, <1>7, LoadSteps, DraftJobSteps, FileJobSteps, CheckJobSteps DEF JobStep
<1> QED
  BY <1>1, <1>2, <1>3, <1>4, <1>6, <1>7 DEF Next

-----------------------------------------------------------------------------
(* The rest of the types.                                                  *)

(* The actions that change the checks. *)
LEMMA CheckActions ==
  ASSUME Next
  PROVE  \/ UNCHANGED checking \/ NewDay
         \/ \E j \in Jobs : StartChecks(j) \/ Pause(j) \/ FinishChecks(j)
<1>1. ASSUME NEW j \in Jobs, JobStep(j) \/ JobErrors(j)
      PROVE  UNCHANGED checking \/ StartChecks(j) \/ Pause(j) \/ FinishChecks(j)
  BY <1>1 DEF JobStep, JobErrors, Load, Throws, Copy, CopyVectors, MarkBaseCopied, Abort, Close,
     WaitForBase, Fetch, Chunk, Write, Embed, Upsert, MarkReady, Remove, Restore, RestoreVectors,
     FailOnCleanup, MarkFailed, Expire, ClaimFinalize, Reserve, GiveUpWaiting, Reconcile, MarkDraftReady
<1>2. ASSUME NEW d \in Drafts, \/ Reindex(d) \/ PublishFails(d) \/ \E j \in Jobs : Publish(d, j)
                               \/ PromoteStarts(d) \/ PromotionStep(d) \/ PromoteDies(d)
                               \/ ClaimDiscard(d) \/ Purge(d)
      PROVE  UNCHANGED checking
  BY <1>2 DEF Reindex, PublishFails, Publish, PromoteStarts, PromotionStep, Promote, PromoteVerifies,
     PromoteCloses, PromoteDies, ClaimDiscard, Purge, PurgeRows, PurgeVectors, FinalPurge
<1>3. ASSUME NEW p \in Puts, PutStep(p) \/ PutDies(p) \/ \E f \in Files : PutStarts(p, f)
      PROVE  UNCHANGED checking
  BY <1>3 DEF PutStep, PutStores, PutRecords, PutDeletes, PutEnqueues, PutDies, PutStarts
<1>4. ASSUME NEW f \in Files, UploadCreates(f) \/ \E k \in Documents : UploadStarts(f, k)
      PROVE  UNCHANGED checking
  BY <1>4 DEF UploadCreates, UploadStarts
<1> QED
  BY <1>1, <1>2, <1>3, <1>4 DEF Next

ChecksOK == checks \in [Drafts -> {"none", "paused", "running", "passed", "failed"}] /\ used \in SUBSET Drafts

LEMMA ChecksTyped == ASSUME Typed, Next PROVE ChecksOK'
<1>0. TypeOK
  BY DEF Typed
<1>1. CASE UNCHANGED checking
  BY <1>0, <1>1 DEF TypeOK, checking, ChecksOK
<1>2. ASSUME NEW j \in Jobs, StartChecks(j) \/ Pause(j) \/ FinishChecks(j) PROVE ChecksOK'
  <2>1. DraftOf(j) \in Drafts
    BY <1>2, JobSubject DEF StartChecks, Pause, FinishChecks, At
  <2> QED
    BY <1>0, <1>2, <2>1 DEF StartChecks, Pause, FinishChecks, TypeOK, ChecksOK
<1>3. CASE NewDay
  BY <1>0, <1>3 DEF NewDay, TypeOK, ChecksOK
<1> QED
  BY <1>1, <1>2, <1>3, CheckActions

(* The requests, and what they delivered. *)
RequestsOK ==
  /\ received \in SUBSET Files
  /\ objects \in SUBSET Files
  /\ published \in SUBSET Jobs
  /\ put \in [Puts -> [at : PutSteps, file : Files \cup {None}]]
  /\ promotion \in [Drafts -> PromotionSteps]

RequestsMove == RequestsOK' /\ received \subseteq received' /\ PutsKnown'

LEMMA RequestSteps == ASSUME Typed, Next PROVE RequestsMove
<1>0. TypeOK /\ PutsKnown /\ RequestsOK
  BY DEF Typed, TypeOK, RequestsOK
<1>1. \A f \in Files : stage[f] # "none" => stage'[f] # "none"
  BY UploadSteps DEF UploadsMove, UploadMoves, Ended
<1>2. ASSUME UNCHANGED <<received, objects, put>>, published' \in SUBSET Jobs,
             promotion' \in [Drafts -> PromotionSteps]
      PROVE  RequestsMove
  BY <1>0, <1>1, <1>2 DEF RequestsMove, RequestsOK, PutsKnown
<1>3. ASSUME NEW f \in Files, UploadCreates(f) \/ \E k \in Documents : UploadStarts(f, k)
      PROVE  UNCHANGED <<received, objects, put, published, promotion>>
  BY <1>3 DEF UploadCreates, UploadStarts, requests
<1>4. ASSUME NEW j \in Jobs, JobStep(j) \/ JobErrors(j)
      PROVE  UNCHANGED <<received, objects, put, published, promotion>>
  BY <1>4 DEF JobStep, JobErrors, Load, Throws, Copy, CopyVectors, MarkBaseCopied, Abort, Close,
     WaitForBase, Fetch, Chunk, Write, Embed, Upsert, MarkReady, Remove, Restore, RestoreVectors,
     FailOnCleanup, MarkFailed, Expire, ClaimFinalize, Reserve, StartChecks, Pause, GiveUpWaiting,
     Reconcile, FinishChecks, MarkDraftReady, requests, uploads
<1>5. ASSUME NEW d \in Drafts, \/ Reindex(d) \/ PublishFails(d) \/ \E j \in Jobs : Publish(d, j)
                               \/ ClaimDiscard(d) \/ Purge(d)
      PROVE  UNCHANGED <<received, objects, put, promotion>> /\ published' \in SUBSET Jobs
  <2>1. CASE \E j \in Jobs : Publish(d, j)
    BY <1>0, <2>1 DEF Publish, uploads, RequestsOK
  <2>2. CASE Reindex(d) \/ PublishFails(d) \/ ClaimDiscard(d) \/ Purge(d)
    BY <1>0, <2>2 DEF Reindex, PublishFails, ClaimDiscard, Purge, PurgeRows, PurgeVectors, FinalPurge,
       uploads, requests, RequestsOK
  <2> QED
    BY <1>5, <2>1, <2>2
<1>6. ASSUME NEW d \in Drafts, PromoteStarts(d) \/ PromotionStep(d) \/ PromoteDies(d)
      PROVE  UNCHANGED <<received, objects, put, published>> /\ promotion' \in [Drafts -> PromotionSteps]
  <2>1. UNCHANGED <<received, objects, put, published>> /\ \E s \in PromotionSteps : PromoteGoto(d, s)
    BY <1>6 DEF PromoteStarts, PromotionStep, Promote, PromoteVerifies, PromoteCloses, PromoteDies,
       uploads, PromotionSteps
  <2> QED
    BY <1>0, <2>1 DEF PromoteGoto, RequestsOK
<1>7. ASSUME NEW p \in Puts, NEW f \in Files, PutStarts(p, f) PROVE RequestsMove
  BY <1>0, <1>7 DEF RequestsMove, PutStarts, uploads, RequestsOK, PutsKnown, PutSteps
<1>8. ASSUME NEW p \in Puts, PutStep(p) \/ PutDies(p) PROVE RequestsMove
  <2>1. put[p].at # "idle" /\ published' = published /\ promotion' = promotion /\ stage' = stage
    BY <1>8 DEF PutStep, PutStores, PutRecords, PutDeletes, PutEnqueues, PutDies, uploads
  <2>2. put[p].file \in Files /\ stage[put[p].file] # "none"
    BY <1>0, <2>1 DEF PutsKnown
  <2>3. received' \in SUBSET Files /\ received \subseteq received' /\ objects' \in SUBSET Files
    BY <1>0, <1>8, <2>2 DEF PutStep, PutStores, PutRecords, PutDeletes, PutEnqueues, PutDies, uploads,
       RequestsOK
  <2>4. \E s \in PutSteps : PutGoto(p, s) /\ (s = "enqueue" => put[p].file \in received')
    BY <1>8 DEF PutStep, PutStores, PutRecords, PutDeletes, PutEnqueues, PutDies, PutSteps
  <2>5. PICK s \in PutSteps : PutGoto(p, s) /\ (s = "enqueue" => put[p].file \in received')
    BY <2>4
  <2>6. /\ put' \in [Puts -> [at : PutSteps, file : Files \cup {None}]]
        /\ \A q \in Puts : put'[q].file = put[q].file /\ put'[q].at = IF q = p THEN s ELSE put[q].at
    BY <1>0, <2>5 DEF PutGoto, RequestsOK
  <2> QED
    BY <1>0, <2>1, <2>2, <2>3, <2>5, <2>6 DEF RequestsMove, RequestsOK, PutsKnown
<1>9. CASE NewDay
  BY <1>0, <1>2, <1>9 DEF NewDay, uploads, requests, RequestsOK
<1>10. ASSUME UNCHANGED <<received, objects, put, published, promotion>> PROVE RequestsMove
  BY <1>0, <1>2, <1>10 DEF RequestsMove, RequestsOK
<1>11. ASSUME NEW f \in Files, UploadCreates(f) \/ \E k \in Documents : UploadStarts(f, k) PROVE RequestsMove
  BY <1>3, <1>10, <1>11
<1>12. ASSUME NEW j \in Jobs, JobStep(j) \/ JobErrors(j) PROVE RequestsMove
  BY <1>4, <1>10, <1>12
<1>13. ASSUME NEW d \in Drafts, \/ Reindex(d) \/ PublishFails(d) \/ \E j \in Jobs : Publish(d, j)
                                \/ PromoteStarts(d) \/ PromotionStep(d) \/ PromoteDies(d)
                                \/ ClaimDiscard(d) \/ Purge(d)
      PROVE  RequestsMove
  BY <1>0, <1>2, <1>5, <1>6, <1>13 DEF RequestsMove, RequestsOK
<1> QED
  BY <1>7, <1>8, <1>9, <1>11, <1>12, <1>13 DEF Next

-----------------------------------------------------------------------------
(* The content.                                                            *)

(* The actions that change rows, vectors or tombstones. *)
LEMMA ContentSteps ==
  ASSUME Next
  PROVE  \/ UNCHANGED content
         \/ \E d \in Drafts : PurgeRows(d) \/ PurgeVectors(d) \/ FinalPurge(d)
         \/ \E j \in Jobs : \/ Copy(j) \/ CopyVectors(j) \/ Write(j) \/ Upsert(j) \/ Remove(j)
                            \/ Restore(j) \/ RestoreVectors(j)
<1>1. ASSUME NEW f \in Files, UploadCreates(f) \/ \E k \in Documents : UploadStarts(f, k)
      PROVE  UNCHANGED content
  BY <1>1 DEF UploadCreates, UploadStarts
<1>2. ASSUME NEW p \in Puts, PutStep(p) \/ PutDies(p) \/ \E f \in Files : PutStarts(p, f)
      PROVE  UNCHANGED content
  BY <1>2 DEF PutStep, PutStores, PutRecords, PutDeletes, PutEnqueues, PutDies, PutStarts
<1>3. ASSUME NEW d \in Drafts, \/ Reindex(d) \/ PublishFails(d) \/ \E j \in Jobs : Publish(d, j)
                               \/ PromoteStarts(d) \/ PromotionStep(d) \/ PromoteDies(d)
                               \/ ClaimDiscard(d) \/ Purge(d)
      PROVE  UNCHANGED content \/ PurgeRows(d) \/ PurgeVectors(d) \/ FinalPurge(d)
  BY <1>3 DEF Reindex, PublishFails, Publish, PromoteStarts, PromotionStep, Promote, PromoteVerifies,
     PromoteCloses, PromoteDies, ClaimDiscard, Purge
<1>4. ASSUME NEW j \in Jobs, JobStep(j) \/ JobErrors(j)
      PROVE  \/ UNCHANGED content
             \/ Copy(j) \/ CopyVectors(j) \/ Write(j) \/ Upsert(j) \/ Remove(j)
             \/ Restore(j) \/ RestoreVectors(j)
  BY <1>4 DEF JobStep, JobErrors, Load, Throws, MarkBaseCopied, Abort, Close, WaitForBase, Fetch,
     Chunk, Embed, MarkReady, FailOnCleanup, MarkFailed, Expire, ClaimFinalize, Reserve, StartChecks,
     Pause, GiveUpWaiting, Reconcile, FinishChecks, MarkDraftReady
<1>5. CASE NewDay
  BY <1>5 DEF NewDay
<1> QED
  BY <1>1, <1>2, <1>3, <1>4, <1>5 DEF Next

ContentOK ==
  /\ rows \in [Generations -> [Documents -> Sources]]
  /\ vectors \in [Generations -> SUBSET (Documents \X Sources)]
  /\ tombstones \in [Generations -> SUBSET (Documents \X Sources)]

LEMMA NamedTyped ==
  ASSUME ContentOK, NEW g \in Generations
  PROVE  Named(g) \in SUBSET (Documents \X Sources)
  BY DEF Named, ContentOK

LEMMA RowTyped ==
  ASSUME ContentOK, NEW d \in Generations, NEW k \in Documents, NEW s \in Sources
  PROVE  [rows EXCEPT ![d][k] = s] \in [Generations -> [Documents -> Sources]]
<1>1. [rows[d] EXCEPT ![k] = s] \in [Documents -> Sources]
  BY DEF ContentOK
<1>2. [rows EXCEPT ![d] = [rows[d] EXCEPT ![k] = s]] \in [Generations -> [Documents -> Sources]]
  BY <1>1 DEF ContentOK
<1> QED
  BY <1>2

(* A job writes content of a draft, whose base is known. *)
LEMMA WriterKnows ==
  ASSUME Typed, NEW j \in Jobs,
         \/ Copy(j) \/ CopyVectors(j) \/ Write(j) \/ Upsert(j) \/ Remove(j) \/ Restore(j)
         \/ RestoreVectors(j)
  PROVE  /\ DraftOf(j) \in Drafts /\ DraftOf(j) \in Generations /\ base[DraftOf(j)] \in Generations
         /\ job[j] \in DraftSteps => j[1] = "draft" /\ j[2] = DraftOf(j) /\ j = <<"draft", DraftOf(j)>>
         /\ job[j] \in FileSteps =>
              /\ j = <<"file", j[2]>> /\ j[2] \in Files /\ stage[j[2]] # "none"
              /\ document[j[2]] \in Documents /\ DraftOf(j) = draftOf[j[2]]
<1>1. job[j] # "none"
  BY DEF Copy, CopyVectors, Write, Upsert, Remove, Restore, RestoreVectors, At
<1>2. /\ job[j] \in DraftSteps => j[1] = "draft"
      /\ job[j] \in FileSteps => j[1] = "file"
  BY DEF Typed, JobsKnown
<1> QED
  BY <1>1, <1>2, JobSubject, JobForms DEF DraftOf

LEMMA ContentTyped == ASSUME Typed, Next PROVE ContentOK'
<1>0. ContentOK
  BY DEF Typed, TypeOK, ContentOK
<1>1. CASE UNCHANGED content
  BY <1>0, <1>1 DEF content, ContentOK
<1>2. ASSUME NEW d \in Drafts, PurgeRows(d) \/ PurgeVectors(d) \/ FinalPurge(d) PROVE ContentOK'
  <2>1. d \in Generations /\ Named(d) \in SUBSET (Documents \X Sources)
    BY <1>0, NamedTyped DEF Generations
  <2>2. "none" \in Sources
    BY DEF Sources
  <2>3. CASE PurgeRows(d)
    BY <1>0, <2>1, <2>2, <2>3 DEF PurgeRows, EmptyRows, ContentOK
  <2>4. CASE PurgeVectors(d)
    BY <1>0, <2>1, <2>4 DEF PurgeVectors, ContentOK
  <2>5. CASE FinalPurge(d)
    BY <1>0, <2>1, <2>2, <2>5 DEF FinalPurge, ContentOK
  <2> QED
    BY <1>2, <2>3, <2>4, <2>5
<1>3. ASSUME NEW j \in Jobs, Copy(j) \/ CopyVectors(j) PROVE ContentOK'
  <2>1. DraftOf(j) \in Generations /\ base[DraftOf(j)] \in Generations
    BY <1>3, WriterKnows
  <2>2. CASE Copy(j)
    <3> DEFINE d == DraftOf(j)
               copy == [k \in Documents |-> IF rows[base[d]][k] = "none" THEN rows[d][k] ELSE rows[base[d]][k]]
    <3>1. copy \in [Documents -> Sources]
      BY <1>0, <2>1 DEF ContentOK
    <3>2. rows' = rows \/ rows' = [rows EXCEPT ![d] = copy]
      BY <2>2 DEF Copy
    <3>3. UNCHANGED <<vectors, tombstones>>
      BY <2>2 DEF Copy
    <3> HIDE DEF copy
    <3> QED
      BY <1>0, <2>1, <3>1, <3>2, <3>3 DEF ContentOK
  <2>3. CASE CopyVectors(j)
    BY <1>0, <2>1, <2>3 DEF CopyVectors, ContentOK
  <2> QED
    BY <1>3, <2>2, <2>3
<1>4. ASSUME NEW j \in Jobs, Write(j) \/ Upsert(j) \/ Remove(j) \/ Restore(j) \/ RestoreVectors(j)
      PROVE  ContentOK'
  <2> DEFINE d == DraftOf(j)
             k == document[j[2]]
  <2>1. job[j] \in FileSteps
    BY <1>4 DEF Write, Upsert, Remove, Restore, RestoreVectors, At, FileSteps
  <2>2. d \in Generations /\ base[d] \in Generations /\ k \in Documents /\ j[2] \in Files
    BY <1>4, <2>1, WriterKnows
  <2>3. j[2] \in Sources /\ "none" \in Sources /\ rows[base[d]][k] \in Sources
    BY <1>0, <2>2 DEF Sources, ContentOK
  <2>4. tombstones' = tombstones
    BY <1>4 DEF Write, Upsert, Remove, Restore, RestoreVectors, content
  <2>5. \/ rows' = rows
        \/ rows' = [rows EXCEPT ![d][k] = j[2]]
        \/ rows' = [rows EXCEPT ![d][k] = "none"]
        \/ rows' = [rows EXCEPT ![d][k] = rows[base[d]][k]]
    BY <1>4 DEF Write, Upsert, Remove, Restore, RestoreVectors
  <2>6. \/ vectors' = vectors
        \/ vectors' = [vectors EXCEPT ![d] = @ \ {<<k, rows[d][k]>>}]
        \/ vectors' = [vectors EXCEPT ![d] = @ \cup {<<k, j[2]>>}]
        \/ vectors' = [vectors EXCEPT ![d] = @ \cup {v \in vectors[base[d]] : v[1] = k}]
    BY <1>4 DEF Write, Upsert, Remove, Restore, RestoreVectors
  <2>7. rows' \in [Generations -> [Documents -> Sources]]
    <3>1. \A s \in Sources : [rows EXCEPT ![d][k] = s] \in [Generations -> [Documents -> Sources]]
      BY <1>0, <2>2, RowTyped
    <3>2. rows \in [Generations -> [Documents -> Sources]]
      BY <1>0 DEF ContentOK
    <3> HIDE DEF d, k
    <3>3. /\ [rows EXCEPT ![d][k] = j[2]] \in [Generations -> [Documents -> Sources]]
          /\ [rows EXCEPT ![d][k] = "none"] \in [Generations -> [Documents -> Sources]]
          /\ [rows EXCEPT ![d][k] = rows[base[d]][k]] \in [Generations -> [Documents -> Sources]]
      BY <2>3, <3>1
    <3> QED
      BY <2>5, <3>2, <3>3
  <2>8. vectors' \in [Generations -> SUBSET (Documents \X Sources)]
    BY <1>0, <2>2, <2>3, <2>6 DEF ContentOK
  <2> QED
    BY <1>0, <2>4, <2>7, <2>8 DEF ContentOK
<1> QED
  BY <1>1, <1>2, <1>3, <1>4, ContentSteps

FaultsMove == faults' \in {faults, faults + 1}

LEMMA FaultsTyped == ASSUME Typed, Next PROVE faults' \in Nat
<1>0. faults \in Nat
  BY DEF Typed, TypeOK
<1>1. ASSUME NEW f \in Files, UploadCreates(f) \/ \E k \in Documents : UploadStarts(f, k)
      PROVE  FaultsMove
  BY <1>1 DEF FaultsMove, UploadCreates, UploadStarts
<1>2. ASSUME NEW p \in Puts, PutStep(p) \/ PutDies(p) \/ \E f \in Files : PutStarts(p, f)
      PROVE  FaultsMove
  BY <1>2 DEF FaultsMove, PutStep, PutStores, PutRecords, PutDeletes, PutEnqueues, PutDies, PutStarts, Fault
<1>3. ASSUME NEW d \in Drafts, \/ Reindex(d) \/ PublishFails(d) \/ \E j \in Jobs : Publish(d, j)
                               \/ PromoteStarts(d) \/ PromotionStep(d) \/ PromoteDies(d)
                               \/ ClaimDiscard(d) \/ Purge(d)
      PROVE  FaultsMove
  BY <1>3 DEF FaultsMove, Reindex, PublishFails, Publish, PromoteStarts, PromotionStep, Promote, PromoteVerifies,
     PromoteCloses, PromoteDies, ClaimDiscard, Purge, PurgeRows, PurgeVectors, FinalPurge, Fault
<1>4. ASSUME NEW j \in Jobs, JobStep(j) \/ JobErrors(j)
      PROVE  FaultsMove
  <2>1. ASSUME NEW i \in Jobs, NEW s, Goto(i, s) \/ Retried(i, s) \/ Then(i, s)
        PROVE  FaultsMove
    BY <2>1 DEF FaultsMove, Goto, Retried, Then, Fault
  <2>2. ASSUME NEW i \in Jobs, NEW s, NEW r, Try(i, s, r)
        PROVE  FaultsMove
    BY <2>1, <2>2 DEF Try
  <2>3. CASE Load(j) \/ Throws(j) \/ Copy(j) \/ CopyVectors(j) \/ MarkBaseCopied(j) \/ Abort(j) \/ Close(j)
    BY <2>1, <2>2, <2>3 DEF FaultsMove, Load, Throws, Copy, CopyVectors, MarkBaseCopied, Abort, Close
  <2>4. CASE WaitForBase(j) \/ Fetch(j) \/ Chunk(j) \/ Write(j) \/ Embed(j) \/ Upsert(j) \/ MarkReady(j)
    BY <2>1, <2>2, <2>4 DEF FaultsMove, WaitForBase, Fetch, Chunk, Write, Embed, Upsert, MarkReady
  <2>5. CASE Remove(j) \/ Restore(j) \/ RestoreVectors(j) \/ FailOnCleanup(j) \/ MarkFailed(j) \/ Expire(j)
    BY <2>1, <2>2, <2>5 DEF FaultsMove, Remove, Restore, RestoreVectors, FailOnCleanup, MarkFailed, Expire
  <2>6. CASE ClaimFinalize(j) \/ Reserve(j) \/ StartChecks(j) \/ Pause(j) \/ GiveUpWaiting(j)
    BY <2>1, <2>2, <2>6 DEF FaultsMove, ClaimFinalize, Reserve, StartChecks, Pause, GiveUpWaiting
  <2>7. CASE Reconcile(j) \/ FinishChecks(j) \/ MarkDraftReady(j) \/ JobErrors(j)
    BY <2>1, <2>2, <2>7 DEF FaultsMove, Reconcile, FinishChecks, MarkDraftReady, JobErrors, Fault
  <2> QED
    BY <1>4, <2>3, <2>4, <2>5, <2>6, <2>7 DEF JobStep
<1>5. ASSUME NewDay PROVE FaultsMove
  BY <1>5 DEF FaultsMove, NewDay
<1>6. FaultsMove
  BY <1>1, <1>2, <1>3, <1>4, <1>5 DEF Next
<1> QED
  BY <1>0, <1>6 DEF FaultsMove

LEMMA TypedStep == Typed /\ [Next]_vars => Typed'
<1> SUFFICES ASSUME Typed, [Next]_vars PROVE Typed'
  OBVIOUS
<1>1. CASE UNCHANGED vars
  BY <1>1 DEF vars, generations, checking, uploads, content, requests, Typed, TypeOK, FilesKnown,
     DraftsKnown, JobsKnown, Begun, PutsKnown
<1>2. CASE Next
  <2>1. StatesMove /\ GenerationsOK' /\ UploadsMove /\ JobsMove /\ RequestsMove /\ ContentOK'
    BY <1>2, StateSteps, GenerationsTyped, UploadSteps, JobsStep, RequestSteps, ContentTyped
  <2>2. ChecksOK' /\ faults' \in Nat
    BY <1>2, ChecksTyped, FaultsTyped
  <2>3. TypeOK'
    BY <2>1, <2>2 DEF TypeOK, StatesMove, GenerationsOK, UploadsMove, JobsMove, RequestsMove, RequestsOK,
       ContentOK, ChecksOK
  <2>4. ASSUME NEW f \in Files
        PROVE  /\ stage'[f] # "none" => draftOf'[f] \in Drafts
               /\ draftOf'[f] \in Drafts => document'[f] \in Documents /\ state'[draftOf'[f]] # "none"
    <3>1. UploadMoves(f)
      BY <2>1 DEF UploadsMove
    <3>2. /\ stage[f] # "none" => draftOf[f] \in Drafts
          /\ draftOf[f] \in Drafts => document[f] \in Documents /\ state[draftOf[f]] # "none"
      BY DEF Typed, FilesKnown
    <3>3. draftOf[f] \in Drafts => state'[draftOf[f]] # "none"
      BY <1>2, <3>2, StatesLast DEF Generations
    <3> QED
      BY <3>1, <3>2, <3>3, SeedIsNoDraft DEF UploadMoves, Building
  <2>5. JobsKnown'
    <3>1. \A j \in Jobs : Begun(j) => Begun(j)'
      BY <1>2, <2>1, StatesLast, JobForms DEF Begun, UploadsMove, UploadMoves, Generations, Ended
    <3>2. \A j \in Jobs : JobMoves(j)
      BY <2>1 DEF JobsMove
    <3>3. ASSUME NEW j \in Jobs
          PROVE  /\ job'[j] # "none" => Begun(j)'
                 /\ job'[j] \in DraftSteps => j[1] = "draft"
                 /\ job'[j] \in FileSteps => j[1] = "file"
                 /\ job'[j] = "expire" => j[1] = "sweep"
      <4>1. /\ job[j] # "none" => Begun(j)
            /\ job[j] \in DraftSteps => j[1] = "draft"
            /\ job[j] \in FileSteps => j[1] = "file"
            /\ job[j] = "expire" => j[1] = "sweep"
        BY DEF Typed, JobsKnown
      <4> QED
        BY <3>1, <3>2, <4>1 DEF JobMoves, DraftSteps, FileSteps, CheckSteps, Working
    <3> QED
      BY <3>3 DEF JobsKnown
  <2>6. FilesKnown'
    BY <2>4 DEF FilesKnown
  <2> QED
    BY <2>1, <2>3, <2>5, <2>6 DEF Typed, GenerationsOK, RequestsMove
<1> QED
  BY <1>1, <1>2

(* Every variable has its type. *)
THEOREM DraftsTyped == Spec => []TypeOK
<1>1. Spec => []Typed
  BY TypedInit, TypedStep, PTL DEF Spec
<1>2. Typed => TypeOK
  BY DEF Typed
<1> QED
  BY <1>1, <1>2, PTL

-----------------------------------------------------------------------------
(* The inductive invariant, second part: the draft, its checks and the job *)
(* that runs them.                                                         *)

OneOpen == \A d, e \in open : d = e

SealedIsOpen == \A d \in Drafts : state[d] = "reconciling" => d \in open

(* A draft row is closed after its generation failed or went live. *)
ClosesEnded ==
  /\ \A j \in Jobs : job[j] \in {"closeAborted", "closeDraft"} => state[DraftOf(j)] \notin PreLive
  /\ \A d \in Drafts : promotion[d] = "close" => state[d] \in {"active", "archived"}

OwnedIsSealed == \A d \in Drafts : owner[d] # None => state[d] \notin {"none", "draft", "indexing"}

PassedWhenReady == \A j \in Jobs : job[j] = "ready" => checks[DraftOf(j)] = "passed"

(* Once the draft is ready, its job has nothing left that could change the *)
(* verdict.                                                                *)
ReadyIsChecked ==
  \A d \in Drafts :
    state[d] \in {"ready", "active", "archived"} =>
      checks[d] = "passed" /\ owner[d] \in Jobs /\ job[owner[d]] \in {"pass", "ready", "done"}

OneLive == {g \in Generations : state[g] = "active"} = {live}

(* The runs that were counted before one is started. *)
Wanted(runs) == {d \in runs : state[d] \notin Failed}

Counted ==
  \A j \in Jobs :
    job[j] \in {"start", "restart"} /\ state[DraftOf(j)] \notin Failed =>
      Cardinality(Wanted(used \ {DraftOf(j)})) < Budget

Checked ==
  /\ OneOpen /\ SealedIsOpen /\ ClosesEnded /\ OwnedIsSealed /\ OneFinalizer
  /\ PassedWhenReady /\ ReadyIsChecked /\ OneLive /\ Counted /\ WantedRunsWithinBudget

LEMMA CheckedInit == Init => Checked
<1> SUFFICES ASSUME Init PROVE Checked
  OBVIOUS
<1>1. OneOpen /\ SealedIsOpen /\ ClosesEnded /\ OwnedIsSealed /\ PassedWhenReady /\ ReadyIsChecked
  BY SeedIsNoDraft DEF Init, OneOpen, SealedIsOpen, ClosesEnded, OwnedIsSealed, PassedWhenReady,
     ReadyIsChecked, Generations
<1>2. OneFinalizer /\ Counted
  BY DEF Init, OneFinalizer, CheckSteps, Counted
<1>3. OneLive
  BY DEF Init, OneLive, Generations
<1>4. WantedRunsWithinBudget
  <2>1. {d \in used : state[d] \notin Failed} = {}
    BY DEF Init
  <2> QED
    BY <2>1, FS_EmptySet, BudgetIsNat DEF WantedRunsWithinBudget
<1> QED
  BY <1>1, <1>2, <1>3, <1>4 DEF Checked

(* A job keeps its draft once it started. *)
LEMMA DraftOfStays ==
  ASSUME Typed, Next, NEW j \in Jobs, job[j] # "none"
  PROVE  DraftOf(j)' = DraftOf(j) /\ job'[j] # "none"
<1>1. DraftOf(j)' = DraftOf(j)
  <2>1. CASE j[1] = "draft"
    BY <2>1 DEF DraftOf
  <2>2. CASE j[1] # "draft"
    <3>1. UploadMoves(j[2]) /\ stage[j[2]] # "none"
      BY <2>2, JobSubject, UploadSteps DEF UploadsMove
    <3> QED
      BY <2>2, <3>1 DEF UploadMoves, DraftOf
  <2> QED
    BY <2>1, <2>2
<1>2. JobMoves(j)
  BY JobsStep DEF JobsMove
<1> QED
  BY <1>1, <1>2 DEF JobMoves, Working, CheckSteps

(* A draft is sealed by the one job that claims it. *)
SealedBy(j, d) ==
  /\ DraftOf(j) = d /\ owner[d] = None /\ owner'[d] = j
  /\ state[d] = "indexing" /\ state'[d] = "reconciling" /\ open' = open
  /\ d \in open /\ d \in copied
  /\ \A f \in Files : draftOf[f] = d => stage[f] \in Ended \cup {"none"}

OwnersMove ==
  \A d \in Drafts :
    \/ owner'[d] = owner[d] /\ (state'[d] = "reconciling" => state[d] = "reconciling")
    \/ \E j \in Jobs : SealedBy(j, d)

LEMMA OwnerSteps == ASSUME Typed, Next PROVE OwnersMove
<1>0. TypeOK
  BY DEF Typed
<1>1. ASSUME NEW j \in Jobs, ClaimFinalize(j) PROVE OwnersMove
  <2>1. DraftOf(j) \in Drafts
    BY <1>1, JobSubject DEF ClaimFinalize, At
  <2>2. CASE MayFinalize(DraftOf(j))
    <3>1. /\ owner' = [owner EXCEPT ![DraftOf(j)] = j]
          /\ state' = [state EXCEPT ![DraftOf(j)] = "reconciling"]
          /\ open' = open
      BY <1>1, <2>2 DEF ClaimFinalize
    <3>2. SealedBy(j, DraftOf(j))
      BY <1>0, <2>1, <2>2, <3>1 DEF SealedBy, MayFinalize, TypeOK, Generations
    <3>3. \A d \in Drafts : d # DraftOf(j) => owner'[d] = owner[d] /\ state'[d] = state[d]
      BY <1>0, <2>1, <3>1 DEF TypeOK, Generations
    <3> QED
      BY <3>2, <3>3 DEF OwnersMove
  <2>3. CASE ~MayFinalize(DraftOf(j))
    BY <1>1, <2>3 DEF ClaimFinalize, OwnersMove
  <2> QED
    BY <2>2, <2>3
<1>2. CASE UNCHANGED generations
  BY <1>2 DEF generations, OwnersMove
<1>3. ASSUME NEW d \in Drafts, \/ Opened(d) \/ PublishFails(d) \/ Promote(d) \/ PromoteCloses(d)
                               \/ ClaimDiscard(d) \/ FinalPurge(d)
      PROVE  OwnersMove
  <2>1. owner' = owner
    BY <1>3 DEF Opened, OpenDraft, PublishFails, Promote, PromoteCloses, ClaimDiscard, FinalPurge
  <2>2. \A e \in Drafts : state'[e] = "reconciling" => state[e] = "reconciling"
    BY <1>0, <1>3 DEF Opened, OpenDraft, PublishFails, FailGeneration, PreLive, Promote, PromoteCloses,
       ClaimDiscard, FinalPurge, TypeOK, Generations
  <2> QED
    BY <2>1, <2>2 DEF OwnersMove
<1>4. ASSUME NEW j \in Jobs, \/ Load(j) \/ MarkBaseCopied(j) \/ Abort(j) \/ Close(j)
                             \/ FailOnCleanup(j) \/ MarkDraftReady(j)
      PROVE  OwnersMove
  <2>1. owner' = owner
    BY <1>4 DEF Load, MarkBaseCopied, Abort, Close, FailOnCleanup, MarkDraftReady
  <2>2. \A e \in Drafts : state'[e] = "reconciling" => state[e] = "reconciling"
    BY <1>0, <1>4 DEF Load, MarkBaseCopied, Abort, Close, FailOnCleanup, FailGeneration, PreLive,
       MarkDraftReady, Ready, TypeOK, Generations
  <2> QED
    BY <2>1, <2>2 DEF OwnersMove
<1> QED
  BY <1>1, <1>2, <1>3, <1>4, GenerationSteps

(* A draft becomes ready by a job whose checks passed. *)
ReadyBy(j, d) == DraftOf(j) = d /\ job[j] = "ready" /\ checks' = checks

LEMMA ReadySteps ==
  ASSUME Typed, Next, NEW d \in Drafts, state[d] = "reconciling", state'[d] = "ready"
  PROVE  \E j \in Jobs : ReadyBy(j, d)
<1>0. TypeOK
  BY DEF Typed
<1>1. CASE UNCHANGED generations
  BY <1>1 DEF generations
<1>2. ASSUME NEW e \in Drafts, \/ Opened(e) \/ PublishFails(e) \/ Promote(e) \/ PromoteCloses(e)
                               \/ ClaimDiscard(e) \/ FinalPurge(e)
      PROVE  FALSE
  BY <1>0, <1>2 DEF Opened, OpenDraft, PublishFails, FailGeneration, PreLive, Promote, Promotable,
     PromoteCloses, ClaimDiscard, FinalPurge, TypeOK, Generations
<1>3. ASSUME NEW j \in Jobs, \/ Load(j) \/ MarkBaseCopied(j) \/ Abort(j) \/ Close(j)
                             \/ FailOnCleanup(j) \/ ClaimFinalize(j)
      PROVE  FALSE
  BY <1>0, <1>3 DEF Load, MarkBaseCopied, Abort, Close, FailOnCleanup, FailGeneration, PreLive,
     ClaimFinalize, TypeOK, Generations
<1>4. ASSUME NEW j \in Jobs, MarkDraftReady(j) PROVE ReadyBy(j, d)
  <2>1. job[j] = "ready" /\ checks' = checks /\ Ready(DraftOf(j))
    BY <1>4 DEF MarkDraftReady, At, checking
  <2>2. d = DraftOf(j)
    BY <1>0, <2>1 DEF Ready, TypeOK, Generations
  <2> QED
    BY <2>1, <2>2 DEF ReadyBy
<1> QED
  BY <1>1, <1>2, <1>3, <1>4, GenerationSteps

(* A draft is opened when none is, and closed once it failed or went live. *)
OpenMoves ==
  \/ /\ open = {}
     /\ \E d \in Drafts :
          open' = {d} /\ state'[d] = "draft" /\ \A e \in Drafts : e # d => state'[e] = state[e]
  \/ open' \subseteq open /\ \A d \in open \ open' : state'[d] \notin PreLive

LEMMA OpenSteps == ASSUME Typed, ClosesEnded, Next PROVE OpenMoves
<1>0. TypeOK
  BY DEF Typed
<1>1. CASE UNCHANGED generations
  BY <1>1 DEF generations, OpenMoves
<1>2. ASSUME NEW d \in Drafts, Opened(d) PROVE OpenMoves
  BY <1>0, <1>2 DEF Opened, OpenDraft, OpenMoves, TypeOK, Generations
<1>3. ASSUME NEW d \in Drafts, Promote(d) \/ FinalPurge(d) PROVE OpenMoves
  BY <1>3 DEF Promote, FinalPurge, OpenMoves
<1>4. ASSUME NEW d \in Drafts, PublishFails(d) \/ ClaimDiscard(d) PROVE OpenMoves
  <2>1. state'[d] \notin PreLive
    BY <1>0, <1>4 DEF PublishFails, FailGeneration, PreLive, ClaimDiscard, TypeOK, Generations
  <2>2. open' = open \/ open' = open \ {d}
    BY <1>4 DEF PublishFails, CloseDraft, ClaimDiscard
  <2> QED
    BY <2>1, <2>2 DEF OpenMoves
<1>5. ASSUME NEW d \in Drafts, PromoteCloses(d) PROVE OpenMoves
  BY <1>5 DEF PromoteCloses, ClosesEnded, OpenMoves, PreLive
<1>6. ASSUME NEW j \in Jobs, Close(j) PROVE OpenMoves
  <2>1. state[DraftOf(j)] \notin PreLive
    BY <1>6 DEF Close, ClosesEnded
  <2> QED
    BY <1>6, <2>1 DEF Close, CloseDraft, OpenMoves, PreLive
<1>7. ASSUME NEW j \in Jobs, \/ Load(j) \/ MarkBaseCopied(j) \/ Abort(j)
                             \/ FailOnCleanup(j) \/ ClaimFinalize(j) \/ MarkDraftReady(j)
      PROVE  OpenMoves
  BY <1>7 DEF Load, MarkBaseCopied, Abort, FailOnCleanup, ClaimFinalize, MarkDraftReady, OpenMoves
<1> QED
  BY <1>1, <1>2, <1>3, <1>4, <1>5, <1>6, <1>7, GenerationSteps

(* The verdict of a draft is changed by a job that checks it, and the runs *)
(* of the day grow by one that was counted.                                *)
VerdictBy(j, d) ==
  /\ DraftOf(j) = d
  /\ job[j] \in CheckSteps \ {"ready"} /\ (job[j] = "pass" => checks'[d] = "passed")

Started(j) == job[j] \in {"start", "restart"} /\ used' = used \cup {DraftOf(j)} /\ state' = state

ChecksMove ==
  /\ \A d \in Drafts : checks'[d] = checks[d] \/ \E j \in Jobs : VerdictBy(j, d)
  /\ used' \subseteq used \/ \E j \in Jobs : Started(j)

LEMMA VerdictSteps == ASSUME Typed, Next PROVE ChecksMove
<1>0. TypeOK
  BY DEF Typed
<1>1. CASE UNCHANGED checking
  BY <1>1 DEF checking, ChecksMove
<1>2. ASSUME NEW j \in Jobs, StartChecks(j) \/ Pause(j) \/ FinishChecks(j) PROVE ChecksMove
  <2>1. DraftOf(j) \in Drafts
    BY <1>2, JobSubject DEF StartChecks, Pause, FinishChecks, At
  <2>2. PICK s : checks' = [checks EXCEPT ![DraftOf(j)] = s] /\ (job[j] = "pass" => s = "passed")
    BY <1>2 DEF StartChecks, Pause, FinishChecks, At
  <2>3. job[j] \in CheckSteps \ {"ready"}
    BY <1>2 DEF StartChecks, Pause, FinishChecks, At, CheckSteps
  <2>4. VerdictBy(j, DraftOf(j)) /\ \A d \in Drafts : d # DraftOf(j) => checks'[d] = checks[d]
    BY <1>0, <2>1, <2>2, <2>3 DEF VerdictBy, TypeOK
  <2>5. used' \subseteq used \/ Started(j)
    BY <1>2 DEF StartChecks, Pause, FinishChecks, Started, generations
  <2> QED
    BY <2>4, <2>5 DEF ChecksMove
<1>3. CASE NewDay
  BY <1>3 DEF NewDay, ChecksMove
<1> QED
  BY <1>1, <1>2, <1>3, CheckActions

LEMMA LiveSteps == ASSUME Typed, OneLive, Next PROVE OneLive'
<1>0. TypeOK
  BY DEF Typed
<1>1. CASE UNCHANGED <<state, live>>
  BY <1>1 DEF OneLive
<1>2. ASSUME live' = live, \A g \in Generations : state'[g] = "active" <=> state[g] = "active"
      PROVE  OneLive'
  BY <1>2 DEF OneLive
<1>3. ASSUME NEW d \in Drafts, Promote(d) PROVE OneLive'
  <2>1. CASE Promotable(d)
    <3>1. live' = d /\ state' = [g \in Generations |->
             IF g = d THEN "active" ELSE IF state[g] = "active" THEN "archived" ELSE state[g]]
      BY <1>3, <2>1 DEF Promote
    <3> QED
      BY <3>1 DEF OneLive, Generations
  <2>2. CASE ~Promotable(d)
    BY <1>1, <1>3, <2>2 DEF Promote
  <2> QED
    BY <2>1, <2>2
<1>4. ASSUME NEW d \in Drafts, \/ Opened(d) \/ PublishFails(d) \/ PromoteCloses(d)
                               \/ ClaimDiscard(d) \/ FinalPurge(d)
      PROVE  OneLive'
  <2>1. live' = live
    BY <1>4 DEF Opened, OpenDraft, PublishFails, PromoteCloses, ClaimDiscard, FinalPurge
  <2>2. \A g \in Generations : state'[g] = "active" <=> state[g] = "active"
    BY <1>0, <1>4 DEF Opened, OpenDraft, PublishFails, FailGeneration, PreLive, Failed, PromoteCloses,
       ClaimDiscard, Discardable, FinalPurge, TypeOK, Generations
  <2> QED
    BY <1>2, <2>1, <2>2
<1>5. ASSUME NEW j \in Jobs, \/ Load(j) \/ MarkBaseCopied(j) \/ Abort(j) \/ Close(j)
                             \/ FailOnCleanup(j) \/ ClaimFinalize(j) \/ MarkDraftReady(j)
      PROVE  OneLive'
  <2>1. live' = live
    BY <1>5 DEF Load, MarkBaseCopied, Abort, Close, FailOnCleanup, ClaimFinalize, MarkDraftReady
  <2>2. \A g \in Generations : state'[g] = "active" <=> state[g] = "active"
    BY <1>0, <1>5 DEF Load, MarkBaseCopied, Abort, Close, FailOnCleanup, FailGeneration, PreLive,
       ClaimFinalize, MayFinalize, MarkDraftReady, Ready, TypeOK, Generations
  <2> QED
    BY <1>2, <2>1, <2>2
<1>6. CASE UNCHANGED generations
  BY <1>1, <1>6 DEF generations
<1> QED
  BY <1>3, <1>4, <1>5, <1>6, GenerationSteps

(* A request closes the draft only after it went live. *)
LEMMA ClosingSteps ==
  ASSUME Typed, OneLive, Next, NEW d \in Drafts, promotion'[d] = "close"
  PROVE  promotion[d] = "close" \/ state'[d] \in {"active", "archived"}
<1>0. TypeOK
  BY DEF Typed
<1>1. CASE promotion' = promotion
  BY <1>1
<1>2. ASSUME NEW e \in Drafts, PromoteStarts(e) \/ PromotionStep(e) \/ PromoteDies(e)
      PROVE  promotion[d] = "close" \/ state'[d] \in {"active", "archived"}
  <2>1. CASE e # d
    BY <1>0, <1>2, <2>1 DEF PromoteStarts, PromotionStep, Promote, PromoteVerifies, PromoteCloses,
       PromoteDies, PromoteGoto, TypeOK
  <2>2. CASE e = d /\ PromoteStarts(d)
    <3>1. promotion' = [promotion EXCEPT ![d] = "promote"] \/ (state[d] = "active" /\ state' = state)
      BY <2>2 DEF PromoteStarts, PromoteGoto, generations
    <3> QED
      BY <1>0, <3>1 DEF TypeOK
  <2>3. CASE e = d /\ PromoteVerifies(d)
    <3>1. promotion' = [promotion EXCEPT ![d] = "idle"] \/ (live = d /\ state' = state)
      BY <2>3 DEF PromoteVerifies, PromoteGoto, generations
    <3> QED
      BY <1>0, <3>1 DEF TypeOK, OneLive
  <2>4. CASE e = d /\ (Promote(d) \/ PromoteCloses(d) \/ PromoteDies(d))
    BY <1>0, <2>4 DEF Promote, PromoteCloses, PromoteDies, PromoteGoto, TypeOK
  <2> QED
    BY <1>2, <2>1, <2>2, <2>3, <2>4 DEF PromotionStep
<1>3. ASSUME NEW f \in Files, UploadCreates(f) \/ \E k \in Documents : UploadStarts(f, k)
      PROVE  promotion' = promotion
  BY <1>3 DEF UploadCreates, UploadStarts, requests
<1>4. ASSUME NEW j \in Jobs, JobStep(j) \/ JobErrors(j)
      PROVE  promotion' = promotion
  BY <1>4 DEF JobStep, JobErrors, Load, Throws, Copy, CopyVectors, MarkBaseCopied, Abort, Close,
     WaitForBase, Fetch, Chunk, Write, Embed, Upsert, MarkReady, Remove, Restore, RestoreVectors,
     FailOnCleanup, MarkFailed, Expire, ClaimFinalize, Reserve, StartChecks, Pause, GiveUpWaiting,
     Reconcile, FinishChecks, MarkDraftReady, requests
<1>5. ASSUME NEW e \in Drafts, \/ Reindex(e) \/ PublishFails(e) \/ \E j \in Jobs : Publish(e, j)
                               \/ ClaimDiscard(e) \/ Purge(e)
      PROVE  promotion' = promotion
  BY <1>5 DEF Reindex, PublishFails, Publish, ClaimDiscard, Purge, PurgeRows, PurgeVectors, FinalPurge,
     requests
<1>6. ASSUME NEW p \in Puts, PutStep(p) \/ PutDies(p) \/ \E f \in Files : PutStarts(p, f)
      PROVE  promotion' = promotion
  BY <1>6 DEF PutStep, PutStores, PutRecords, PutDeletes, PutEnqueues, PutDies, PutStarts
<1>7. CASE NewDay
  BY <1>1, <1>7 DEF NewDay, requests
<1> QED
  BY <1>1, <1>2, <1>3, <1>4, <1>5, <1>6, <1>7 DEF Next

LEMMA UsedIsFinite ==
  ASSUME TypeOK, NEW d
  PROVE  IsFiniteSet(used \ {d}) /\ Cardinality(used \ {d}) \in Nat
BY DraftsAreFinite, FS_Subset, FS_CardinalityType DEF TypeOK

LEMMA SmallerSet ==
  ASSUME NEW S, NEW T, S \subseteq T, T \subseteq Drafts
  PROVE  /\ Cardinality(S) \in Nat /\ Cardinality(T) \in Nat
         /\ Cardinality(S) <= Cardinality(T)
<1>1. IsFiniteSet(T)
  BY DraftsAreFinite, FS_Subset
<1> QED
  BY <1>1, FS_Subset, FS_CardinalityType

(* The draft whose run is about to be counted is the open one. *)
LEMMA StartedIsOpen ==
  ASSUME Typed, Checked, NEW j \in Jobs, job[j] \in {"start", "restart"}, state[DraftOf(j)] \notin Failed
  PROVE  DraftOf(j) \in open
<1>1. DraftOf(j) \in Drafts
  BY JobSubject
<1>2. owner[DraftOf(j)] = j /\ j # None
  BY NoneIsApart DEF Checked, OneFinalizer, CheckSteps
<1>3. state[DraftOf(j)] \notin {"none", "draft", "indexing", "ready", "active", "archived"}
  BY <1>1, <1>2 DEF Checked, OwnedIsSealed, ReadyIsChecked
<1>4. state[DraftOf(j)] = "reconciling"
  BY <1>1, <1>3 DEF Typed, TypeOK, States, PreLive, Generations
<1> QED
  BY <1>1, <1>4 DEF Checked, SealedIsOpen

LEMMA CheckedStep ==
  ASSUME Typed, Checked, Next
  PROVE  Checked'
<1>0. TypeOK /\ TypeOK'
  BY TypedStep DEF Typed
<1>1. /\ OneOpen /\ SealedIsOpen /\ ClosesEnded /\ OwnedIsSealed /\ OneFinalizer
      /\ PassedWhenReady /\ ReadyIsChecked /\ OneLive /\ Counted /\ WantedRunsWithinBudget
  BY DEF Checked
<1>2. OwnersMove /\ OpenMoves /\ ChecksMove /\ OneLive' /\ UploadsMove
  BY <1>1, OwnerSteps, OpenSteps, VerdictSteps, LiveSteps, UploadSteps
<1>3. \A j \in Jobs : JobMoves(j)
  BY JobsStep DEF JobsMove
<1>4. \A g \in Generations : StateMoves(g)
  BY StateSteps DEF StatesMove
<1>5. None \notin Jobs
  BY NoneIsApart
<1>6. OneOpen'
  BY <1>1, <1>2 DEF OneOpen, OpenMoves
<1>7. SealedIsOpen'
  <2>1. ASSUME NEW d \in Drafts, state'[d] = "reconciling" PROVE d \in open'
    <3>1. CASE state[d] = "reconciling"
      <4>1. d \in open
        BY <1>1, <3>1 DEF SealedIsOpen
      <4> QED
        BY <1>2, <2>1, <4>1 DEF OpenMoves, PreLive
    <3>2. CASE state[d] # "reconciling"
      BY <1>2, <2>1, <3>2 DEF OwnersMove, SealedBy
    <3> QED
      BY <3>1, <3>2
  <2> QED
    BY <2>1 DEF SealedIsOpen
<1>8. ClosesEnded'
  <2>1. ASSUME NEW j \in Jobs, job'[j] \in {"closeAborted", "closeDraft"} PROVE (state[DraftOf(j)] \notin PreLive)'
    <3>1. /\ job[j] # "none"
          /\ job[j] \in {"closeAborted", "closeDraft"} \/ state'[DraftOf(j)] \notin PreLive
      BY <1>3, <2>1 DEF JobMoves, Working, CheckSteps
    <3>2. DraftOf(j) \in Generations /\ state[DraftOf(j)] # "none" /\ DraftOf(j)' = DraftOf(j)
      BY <3>1, JobSubject, DraftOfStays
    <3>3. state'[DraftOf(j)] \notin PreLive
      BY <1>1, <3>1, <3>2, StatesLast DEF ClosesEnded
    <3> QED
      BY <3>2, <3>3 DEF PreLive
  <2>2. ASSUME NEW d \in Drafts, promotion'[d] = "close" PROVE state'[d] \in {"active", "archived"}
    BY <1>1, <2>2, ClosingSteps, StatesLast DEF ClosesEnded, Generations
  <2> QED
    BY <2>1, <2>2 DEF ClosesEnded
<1>9. OwnedIsSealed'
  <2>1. ASSUME NEW d \in Drafts, owner'[d] # None PROVE state'[d] \notin {"none", "draft", "indexing"}
    <3>1. CASE owner[d] # None
      BY <1>1, <3>1, StatesLast DEF OwnedIsSealed, Generations
    <3>2. CASE owner[d] = None
      BY <1>2, <2>1, <3>2 DEF OwnersMove, SealedBy
    <3> QED
      BY <3>1, <3>2
  <2> QED
    BY <2>1 DEF OwnedIsSealed
<1>10. OneFinalizer'
  <2>1. ASSUME NEW j \in Jobs, job'[j] \in CheckSteps PROVE owner'[DraftOf(j)] = j /\ DraftOf(j)' = DraftOf(j)
    <3>1. job[j] # "none" /\ (job[j] \in CheckSteps \/ owner'[DraftOf(j)] = j)
      BY <1>3, <2>1 DEF JobMoves, CheckSteps, Working
    <3>2. DraftOf(j) \in Drafts /\ DraftOf(j)' = DraftOf(j)
      BY <3>1, JobSubject, DraftOfStays
    <3>3. CASE job[j] \in CheckSteps
      <4>1. owner[DraftOf(j)] = j
        BY <1>1, <3>3 DEF OneFinalizer
      <4> QED
        BY <1>2, <1>5, <3>2, <4>1 DEF OwnersMove, SealedBy
    <3> QED
      BY <3>1, <3>2, <3>3
  <2> QED
    BY <2>1 DEF OneFinalizer
<1>11. PassedWhenReady'
  <2>1. ASSUME NEW j \in Jobs, job'[j] = "ready" PROVE (checks[DraftOf(j)] = "passed")'
    <3>1. job[j] = "ready" \/ (job[j] = "pass" /\ checks'[DraftOf(j)] = "passed")
      BY <1>3, <2>1 DEF JobMoves, CheckSteps, Working
    <3>2. DraftOf(j) \in Drafts /\ DraftOf(j)' = DraftOf(j)
      BY <3>1, JobSubject, DraftOfStays
    <3>3. CASE job[j] = "ready"
      <4>1. checks[DraftOf(j)] = "passed" /\ owner[DraftOf(j)] = j
        BY <1>1, <3>3 DEF PassedWhenReady, OneFinalizer, CheckSteps
      <4>2. \A i \in Jobs : ~VerdictBy(i, DraftOf(j))
        BY <1>1, <3>3, <4>1 DEF VerdictBy, OneFinalizer
      <4> QED
        BY <1>2, <3>2, <4>1, <4>2 DEF ChecksMove
    <3> QED
      BY <3>1, <3>2, <3>3
  <2> QED
    BY <2>1 DEF PassedWhenReady
<1>12. ReadyIsChecked'
  <2>1. ASSUME NEW d \in Drafts, state'[d] \in {"ready", "active", "archived"}
        PROVE  checks'[d] = "passed" /\ owner'[d] \in Jobs /\ job'[owner'[d]] \in {"pass", "ready", "done"}
    <3>1. CASE state[d] \in {"ready", "active", "archived"}
      <4>1. checks[d] = "passed" /\ owner[d] \in Jobs /\ job[owner[d]] \in {"pass", "ready", "done"}
        BY <1>1, <3>1 DEF ReadyIsChecked
      <4>2. owner'[d] = owner[d]
        BY <1>2, <1>5, <4>1 DEF OwnersMove, SealedBy
      <4>3. JobMoves(owner[d])
        BY <1>3, <4>1
      <4>4. job'[owner[d]] \in {"pass", "ready", "done"}
        BY <4>1, <4>3 DEF JobMoves, CheckSteps, Working
      <4>5. \A i \in Jobs : VerdictBy(i, d) => checks'[d] = "passed"
        BY <1>1, <4>1 DEF VerdictBy, OneFinalizer, CheckSteps
      <4>6. checks'[d] = "passed"
        BY <1>2, <4>1, <4>5 DEF ChecksMove
      <4> QED
        BY <4>1, <4>2, <4>4, <4>6
    <3>2. CASE state[d] \notin {"ready", "active", "archived"}
      <4>1. state[d] = "reconciling" /\ state'[d] = "ready"
        BY <1>4, <2>1, <3>2 DEF StateMoves, Generations, PreLive, Failed
      <4>2. PICK j \in Jobs : ReadyBy(j, d)
        BY <4>1, ReadySteps
      <4>3. job[j] = "ready" /\ DraftOf(j) = d /\ checks' = checks
        BY <4>2 DEF ReadyBy
      <4>4. checks[d] = "passed" /\ owner[d] = j
        BY <1>1, <4>3 DEF PassedWhenReady, OneFinalizer, CheckSteps
      <4>5. owner'[d] = j
        BY <1>2, <1>5, <4>4 DEF OwnersMove, SealedBy
      <4>6. job'[j] \in {"pass", "ready", "done"}
        BY <1>3, <4>3 DEF JobMoves, CheckSteps, Working
      <4> QED
        BY <4>3, <4>4, <4>5, <4>6
    <3> QED
      BY <3>1, <3>2
  <2> QED
    BY <2>1 DEF ReadyIsChecked
<1>13. Counted'
  <2>1. ASSUME NEW j \in Jobs, job'[j] \in {"start", "restart"}, state'[DraftOf(j)] \notin Failed
        PROVE  /\ DraftOf(j)' = DraftOf(j)
               /\ Cardinality({e \in used' \ {DraftOf(j)} : state'[e] \notin Failed}) < Budget
    <3> DEFINE d == DraftOf(j)
               wanted == {e \in used' \ {d} : state'[e] \notin Failed}
    <3>1. job[j] \in {"start", "restart"} \/ (job[j] \in {"reserve", "recount"} /\ ~BudgetSpent(d) /\ used' = used)
      BY <1>3, <2>1 DEF JobMoves, CheckSteps, Working
    <3>2. d \in Drafts /\ DraftOf(j)' = d
      BY <3>1, JobSubject, DraftOfStays
    <3>3. CASE job[j] \in {"reserve", "recount"} /\ ~BudgetSpent(d) /\ used' = used
      <4>1. Cardinality(used \ {d}) < Budget
        <5>1. Cardinality(used \ {d}) \in Nat
          BY <1>0, UsedIsFinite
        <5>2. ~(Cardinality(used \ {d}) >= Budget)
          BY <3>3 DEF BudgetSpent
        <5> QED
          BY <5>1, <5>2, BudgetIsNat
      <4>2. wanted \subseteq used \ {d}
        BY <3>3
      <4> QED
        <5>1. used \ {d} \subseteq Drafts
          BY <1>0 DEF TypeOK
        <5>2. Cardinality(wanted) \in Nat /\ Cardinality(used \ {d}) \in Nat
              /\ Cardinality(wanted) <= Cardinality(used \ {d})
          BY <4>2, <5>1, SmallerSet
        <5> QED
          BY <3>2, <4>1, <5>2, BudgetIsNat
    <3>4. CASE job[j] \in {"start", "restart"}
      <4>1. state[d] \notin Failed
        BY <2>1, <3>2, StatesLast DEF Generations
      <4>2. Cardinality(Wanted(used \ {d})) < Budget
        BY <1>1, <3>4, <4>1 DEF Counted
      <4>3. wanted \subseteq Wanted(used \ {d})
        <5>1. ASSUME NEW e \in wanted PROVE e \in used
          <6>1. e \in Drafts /\ state[e] \notin Failed
            BY <1>0, <5>1, StatesLast DEF TypeOK, Generations
          <6>2. ASSUME NEW i \in Jobs, Started(i), e = DraftOf(i) PROVE FALSE
            <7>1. e \in open /\ d \in open
              BY <3>4, <4>1, <6>1, <6>2, StartedIsOpen DEF Started
            <7> QED
              BY <1>1, <5>1, <7>1 DEF OneOpen
          <6> QED
            BY <1>2, <5>1, <6>2 DEF ChecksMove, Started
        <5>2. \A e \in wanted : state[e] \notin Failed /\ e # d
          BY <1>0, StatesLast DEF TypeOK, Generations
        <5> QED
          BY <5>1, <5>2 DEF Wanted
      <4>4. Wanted(used \ {d}) \subseteq Drafts
        BY <1>0 DEF Wanted, TypeOK
      <4> QED
        BY <3>2, <4>2, <4>3, <4>4, SmallerSet, BudgetIsNat
    <3> QED
      BY <3>1, <3>3, <3>4
  <2>2. ASSUME NEW j \in Jobs, job'[j] \in {"start", "restart"}, (state[DraftOf(j)] \notin Failed)'
        PROVE  (Cardinality(Wanted(used \ {DraftOf(j)})) < Budget)'
    <3>1. DraftOf(j)' = DraftOf(j)
      BY <1>3, <2>2, DraftOfStays DEF JobMoves, CheckSteps, Working
    <3>2. state'[DraftOf(j)] \notin Failed
      BY <2>2, <3>1 DEF Failed
    <3>3. Wanted(used \ {DraftOf(j)})' = {e \in used' \ {DraftOf(j)} : state'[e] \notin Failed}
      BY <3>1 DEF Wanted, Failed
    <3> QED
      BY <2>1, <2>2, <3>2, <3>3
  <2> QED
    BY <2>2 DEF Counted
<1>14. WantedRunsWithinBudget'
  <2> DEFINE wanted == {e \in used' : state'[e] \notin Failed}
  <2>1. Wanted(used) \subseteq Drafts /\ Cardinality(Wanted(used)) <= Budget
    BY <1>0, <1>1 DEF WantedRunsWithinBudget, Wanted, TypeOK
  <2>2. \A e \in Drafts : state'[e] \notin Failed => state[e] \notin Failed
    BY StatesLast DEF Generations
  <2>3. used' \subseteq Drafts
    BY <1>0 DEF TypeOK
  <2>4. CASE wanted \subseteq Wanted(used)
    BY <2>1, <2>4, SmallerSet, BudgetIsNat DEF WantedRunsWithinBudget
  <2>5. ASSUME NEW j \in Jobs, Started(j), state[DraftOf(j)] \notin Failed
        PROVE  WantedRunsWithinBudget'
    <3> DEFINE d == DraftOf(j)
    <3>1. d \in Drafts
      BY <2>5, JobSubject DEF Started
    <3>2. Cardinality(Wanted(used \ {d})) < Budget
      BY <1>1, <2>5 DEF Counted, Started
    <3>3. IsFiniteSet(Wanted(used \ {d}))
      BY <1>0, DraftsAreFinite, FS_Subset DEF Wanted, TypeOK
    <3>4. wanted = Wanted(used \ {d}) \cup {d} /\ d \notin Wanted(used \ {d})
      BY <2>5 DEF Started, Wanted
    <3>5. Cardinality(wanted) = Cardinality(Wanted(used \ {d})) + 1
      BY <3>3, <3>4, FS_AddElement
    <3>6. Cardinality(Wanted(used \ {d})) \in Nat
      BY <3>3, FS_CardinalityType
    <3>7. Cardinality(wanted) <= Budget
      BY <3>2, <3>5, <3>6, BudgetIsNat
    <3> QED
      BY <3>7 DEF WantedRunsWithinBudget
  <2>6. ASSUME ~(wanted \subseteq Wanted(used))
        PROVE  \E j \in Jobs : Started(j) /\ state[DraftOf(j)] \notin Failed
    <3>1. PICK e \in wanted : e \notin Wanted(used)
      BY <2>6
    <3>2. e \notin used /\ state'[e] \notin Failed /\ e \in used'
      BY <2>2, <2>3, <3>1 DEF Wanted
    <3> QED
      BY <1>2, <3>2 DEF ChecksMove, Started
  <2> QED
    BY <2>4, <2>5, <2>6
<1> QED
  BY <1>2, <1>6, <1>7, <1>8, <1>9, <1>10, <1>11, <1>12, <1>13, <1>14 DEF Checked

LEMMA CheckedStays == Checked /\ UNCHANGED vars => Checked'
  BY DEF vars, generations, checking, uploads, content, requests, Checked, OneOpen, SealedIsOpen,
     ClosesEnded, OwnedIsSealed, OneFinalizer, PassedWhenReady, ReadyIsChecked, OneLive, Counted,
     Wanted, WantedRunsWithinBudget, DraftOf

(* The checks keep to the claims and to the budget, and what is live       *)
(* passed them.                                                            *)
LEMMA CheckedAlways == Spec => [](Typed /\ Checked)
<1>1. Init => Typed /\ Checked
  BY TypedInit, CheckedInit
<1>2. Typed /\ Checked /\ [Next]_vars => (Typed /\ Checked)'
  BY CheckedStays, TypedStep, CheckedStep
<1> QED
  BY <1>1, <1>2, PTL DEF Spec

(* The live pointer and the states agree, and what is or was live passed   *)
(* its checks, whatever steps were lost or run again.                      *)
THEOREM LiveStaysChecked == Spec => []LiveIsChecked
<1>1. Checked => LiveIsChecked
  BY DEF Checked, OneLive, ReadyIsChecked, LiveIsChecked
<1> QED
  BY <1>1, CheckedAlways, PTL

(* The runs of a day that were not thrown away keep within the budget.     *)
THEOREM BudgetHolds == Spec => []WantedRunsWithinBudget
<1>1. Checked => WantedRunsWithinBudget
  BY DEF Checked
<1> QED
  BY <1>1, CheckedAlways, PTL

-----------------------------------------------------------------------------
(* The inductive invariant, third part: the content of a sealed draft is   *)
(* final, since no job that writes it is left.                             *)

(* A file is worked on only until its draft is sealed. *)
FilesWork ==
  \A f \in Files :
    /\ job[<<"file", f>>] \in Working => stage[f] \notin Ended \/ state[draftOf[f]] \in Failed
    /\ job[<<"file", f>>] # "none" => f \in received
    /\ draftOf[f] \in Drafts /\ WasSealed(draftOf[f]) => stage[f] \in Ended \cup {"none"}

BaseIsCopied ==
  \A d \in Drafts :
    /\ WasSealed(d) => d \in copied
    /\ d \in copied =>
         job[<<"draft", d>>] \notin {"none", "load", "copy", "copyVectors", "abort", "closeAborted"}

Final == FilesWork /\ BaseIsCopied

LEMMA FinalInit == Init => Final
<1> SUFFICES ASSUME Init PROVE Final
  OBVIOUS
<1>1. \A f \in Files : <<"file", f>> \in Jobs
  BY DEF Jobs
<1>2. \A d \in Drafts : state[d] = "none" /\ d \notin copied
  BY SeedIsNoDraft DEF Init, Generations
<1> QED
  BY <1>1, <1>2, SeedIsNoDraft DEF Init, Final, FilesWork, BaseIsCopied, WasSealed, Working

(* A draft is sealed once all its files ended and its base is copied. *)
LEMMA SealingSteps ==
  ASSUME Typed, Next, NEW d \in Drafts, WasSealed(d)'
  PROVE  \/ WasSealed(d)
         \/ d \in copied /\ \A f \in Files : draftOf[f] = d => stage[f] \in Ended \cup {"none"}
<1>1. StateMoves(d) /\ OwnersMove
  BY StateSteps, OwnerSteps DEF StatesMove, Generations
<1>2. CASE state'[d] = "reconciling"
  BY <1>1, <1>2 DEF OwnersMove, SealedBy, WasSealed
<1>3. CASE state'[d] # "reconciling"
  BY <1>1, <1>3 DEF StateMoves, WasSealed
<1> QED
  BY <1>2, <1>3

LEMMA CopiedSteps ==
  ASSUME Typed, Next
  PROVE  /\ copied \subseteq copied'
         /\ \A d \in copied' \ copied : <<"draft", d>> \in Jobs /\ job[<<"draft", d>>] = "copied"
<1> DEFINE Copies == /\ copied \subseteq copied'
                     /\ \A d \in copied' \ copied : <<"draft", d>> \in Jobs /\ job[<<"draft", d>>] = "copied"
<1>1. ASSUME NEW j \in Jobs, MarkBaseCopied(j) PROVE Copies
  <2>1. job[j] = "copied" /\ copied' = copied \cup {DraftOf(j)}
    BY <1>1 DEF MarkBaseCopied, At
  <2>2. j = <<"draft", DraftOf(j)>>
    BY <2>1, JobForms DEF Typed, JobsKnown, DraftSteps, DraftOf
  <2> QED
    BY <2>1, <2>2
<1>2. copied' = copied \/ \E j \in Jobs : MarkBaseCopied(j)
  BY GenerationSteps DEF generations, Opened, OpenDraft, PublishFails, Promote, PromoteCloses,
     ClaimDiscard, FinalPurge, Load, Abort, Close, FailOnCleanup, ClaimFinalize, MarkDraftReady
<1> QED
  BY <1>1, <1>2

LEMMA FinalStays == Final /\ UNCHANGED vars => Final'
  BY DEF vars, generations, checking, uploads, content, requests, Final, FilesWork, BaseIsCopied, WasSealed

LEMMA FinalStep == ASSUME Typed, Final, Next PROVE Final'
<1>0. FilesWork /\ BaseIsCopied
  BY DEF Final
<1>1. UploadsMove /\ RequestsMove /\ Typed'
  BY UploadSteps, RequestSteps, TypedStep
<1>2. \A j \in Jobs : JobMoves(j)
  BY JobsStep DEF JobsMove
<1>3. FilesWork'
  <2>0. \A i \in Jobs : i[1] = "file" /\ job'[i] # "none" => job[i] # "none" \/ i[2] \in received
    BY <1>2 DEF JobMoves, Working, CheckSteps
  <2>1. ASSUME NEW f \in Files
        PROVE  /\ job'[<<"file", f>>] \in Working => stage'[f] \notin Ended \/ (state[draftOf[f]] \in Failed)'
               /\ job'[<<"file", f>>] # "none" => f \in received'
               /\ draftOf'[f] \in Drafts /\ WasSealed(draftOf[f])' => stage'[f] \in Ended \cup {"none"}
    <3> DEFINE j == <<"file", f>>
    <3>1. j \in Jobs /\ j[1] = "file" /\ j[2] = f
      BY DEF Jobs
    <3>2. JobMoves(j) /\ UploadMoves(f)
      BY <1>1, <1>2, <3>1 DEF UploadsMove
    <3>3. job'[j] # "none" => f \in received'
      <4>1. job'[j] # "none" => f \in received
        <5>1. job[j] # "none" => f \in received
          BY <1>0 DEF FilesWork
        <5>2. job'[j] # "none" => job[j] # "none" \/ f \in received
          BY <2>0, <3>1
        <5> QED
          BY <5>1, <5>2
      <4> QED
        BY <1>1, <4>1 DEF RequestsMove
    <3>4. ASSUME job'[j] \in Working PROVE stage'[f] \notin Ended \/ (state[draftOf[f]] \in Failed)'
      <4>1. /\ job[j] # "none" /\ job[j] \notin {"finish", "mark"}
            /\ job[j] \in Working \/ stage[f] \notin Ended
        BY <3>1, <3>2, <3>4 DEF JobMoves, Working, CheckSteps, Ended
      <4>2. f \in received /\ (stage[f] \notin Ended \/ state[draftOf[f]] \in Failed)
        BY <1>0, <3>1, <4>1 DEF FilesWork
      <4>3. stage[f] # "none" /\ draftOf[f] \in Drafts /\ draftOf'[f] = draftOf[f]
        BY <3>1, <3>2, <4>1, JobSubject DEF UploadMoves, DraftOf
      <4>4. state[draftOf[f]] \in Failed => state'[draftOf[f]] \in Failed
        BY <4>3, StatesLast DEF Generations
      <4>5. stage'[f] \notin Ended \/ state'[draftOf[f]] \in Failed
        BY <3>2, <4>1, <4>2, <4>3, <4>4 DEF UploadMoves
      <4> QED
        BY <4>3, <4>5 DEF Failed
    <3>5. ASSUME draftOf'[f] \in Drafts, WasSealed(draftOf[f])' PROVE stage'[f] \in Ended \cup {"none"}
      <4>1. state'[draftOf'[f]] \in {"reconciling", "ready", "active", "archived"}
        BY <3>5 DEF WasSealed
      <4>2. CASE draftOf'[f] # draftOf[f]
        BY <3>2, <4>2 DEF UploadMoves
      <4>3. CASE draftOf'[f] = draftOf[f]
        <5>1. draftOf[f] \in Drafts /\ (stage[f] \in Ended \cup {"none"})
          <6>1. WasSealed(draftOf[f]) \/ stage[f] \in Ended \cup {"none"}
            <7>1. PICK d \in Drafts : d = draftOf[f]
              BY <3>5, <4>3
            <7>2. WasSealed(d)'
              BY <4>1, <4>3, <7>1 DEF WasSealed
            <7>3. WasSealed(d) \/ \A e \in Files : draftOf[e] = d => stage[e] \in Ended \cup {"none"}
              BY <7>2, SealingSteps
            <7> QED
              BY <7>1, <7>3
          <6> QED
            BY <1>0, <3>5, <4>3, <6>1 DEF FilesWork
        <5> QED
          BY <3>2, <4>1, <4>3, <5>1 DEF UploadMoves, Building
      <4> QED
        BY <4>2, <4>3
    <3> QED
      BY <3>3, <3>4, <3>5
  <2> QED
    BY <2>1 DEF FilesWork
<1>4. BaseIsCopied'
  <2>1. ASSUME NEW d \in Drafts
        PROVE  /\ WasSealed(d)' => d \in copied'
               /\ d \in copied' =>
                    job'[<<"draft", d>>] \notin {"none", "load", "copy", "copyVectors", "abort", "closeAborted"}
    <3>1. <<"draft", d>> \in Jobs
      BY DEF Jobs
    <3>2. JobMoves(<<"draft", d>>)
      BY <1>2, <3>1
    <3>3. WasSealed(d)' => d \in copied'
      BY <1>0, SealingSteps, CopiedSteps DEF BaseIsCopied
    <3>4. d \in copied' =>
            job[<<"draft", d>>] \notin {"none", "load", "copy", "copyVectors", "abort", "closeAborted"}
      BY <1>0, CopiedSteps DEF BaseIsCopied
    <3> QED
      BY <3>2, <3>3, <3>4 DEF JobMoves, Working, CheckSteps
  <2> QED
    BY <2>1 DEF BaseIsCopied
<1> QED
  BY <1>3, <1>4 DEF Final

(* So no step changes the rows of a sealed generation. *)
LEMMA RowsAreFinal ==
  ASSUME Typed, Final, Next, NEW g \in Generations, WasSealed(g)
  PROVE  rows'[g] = rows[g]
<1>0. TypeOK
  BY DEF Typed
<1>1. CASE UNCHANGED content
  BY <1>1 DEF content
<1>2. ASSUME NEW d \in Drafts, PurgeRows(d) \/ PurgeVectors(d) \/ FinalPurge(d) PROVE rows'[g] = rows[g]
  <2>1. g # d
    BY <1>2 DEF PurgeRows, PurgeVectors, FinalPurge, WasSealed
  <2> QED
    BY <1>0, <1>2, <2>1 DEF PurgeRows, EmptyRows, PurgeVectors, FinalPurge, TypeOK, Generations
<1>3. ASSUME NEW j \in Jobs, Copy(j) PROVE rows'[g] = rows[g]
  <2>1. job[j] = "copy" /\ j = <<"draft", DraftOf(j)>> /\ DraftOf(j) \in Drafts
    BY <1>3, WriterKnows DEF Copy, At, DraftSteps
  <2>2. ~WasSealed(DraftOf(j))
    BY <2>1 DEF Final, BaseIsCopied
  <2> QED
    BY <1>0, <1>3, <2>1, <2>2 DEF Copy, TypeOK, Generations
<1>4. ASSUME NEW j \in Jobs, Write(j) \/ Remove(j) \/ Restore(j) PROVE rows'[g] = rows[g]
  <2> DEFINE d == DraftOf(j)
  <2>1. job[j] \in {"write", "remove", "restore"}
    BY <1>4 DEF Write, Remove, Restore, At
  <2>2. /\ j = <<"file", j[2]>> /\ j[2] \in Files /\ stage[j[2]] # "none"
        /\ d = draftOf[j[2]] /\ d \in Drafts
    BY <1>4, <2>1, WriterKnows DEF FileSteps
  <2>3. rows' = rows \/ ~WasSealed(d)
    <3>1. CASE job[j] \in {"write", "restore"}
      <4>1. stage[j[2]] \notin Ended \/ state[d] \in Failed
        BY <2>2, <3>1 DEF Final, FilesWork, Working
      <4> QED
        BY <2>2, <4>1 DEF Final, FilesWork, WasSealed, Failed
    <3>2. CASE job[j] = "remove"
      <4>1. rows' = rows \/ stage[j[2]] \in {"chunking", "embedding"}
        BY <1>4, <3>2 DEF Write, Remove, Restore, At
      <4> QED
        BY <2>2, <4>1 DEF Final, FilesWork, Ended
    <3> QED
      BY <2>1, <3>1, <3>2
  <2>4. \A e \in Generations : e # d => rows'[e] = rows[e]
    <3>1. \/ rows' = rows
          \/ \E s : rows' = [rows EXCEPT ![d][document[j[2]]] = s]
      BY <1>4 DEF Write, Remove, Restore
    <3> QED
      BY <1>0, <2>2, <3>1 DEF TypeOK
  <2> QED
    BY <2>3, <2>4
<1>5. ASSUME NEW j \in Jobs, CopyVectors(j) \/ Upsert(j) \/ RestoreVectors(j) PROVE rows'[g] = rows[g]
  BY <1>5 DEF CopyVectors, Upsert, RestoreVectors
<1> QED
  BY <1>1, <1>2, <1>3, <1>4, <1>5, ContentSteps

-----------------------------------------------------------------------------
(* Refinement: sealing a draft, promoting it and giving it up are the steps*)
(* of LiveCorpus; everything else is a stutter.                            *)

Past == {g \in Generations : state[g] \in Failed \cup {"archived"}}

Holds == [g \in Generations |-> IF WasSealed(g) THEN rows[g] ELSE None]

LiveStep == [Corpus!LiveNext]_<<live, Holds, Past>>

LEMMA LiveCorpusInit == Init => Corpus!LiveInit
<1> SUFFICES ASSUME Init PROVE Corpus!LiveInit
  OBVIOUS
<1>1. Typed
  BY TypedInit
<1>2. live = Seed /\ \A g \in Generations : WasSealed(g) <=> g = Seed
  BY DEF Init, WasSealed, Generations
<1>3. rows[Seed] \in [Documents -> Sources] /\ rows[Seed] # None
  BY <1>1, NoneIsApart DEF Typed, TypeOK, Generations
<1>4. Holds \in [Generations -> [Documents -> Sources] \cup {None}]
  BY <1>2, <1>3 DEF Holds
<1>5. {g \in Generations : Holds[g] # None} = {Seed}
  BY <1>2, <1>3 DEF Holds, Generations
<1>6. Past = {}
  BY DEF Init, Past, Failed
<1> QED
  BY <1>2, <1>4, <1>5, <1>6 DEF Corpus!LiveInit, Corpus!Sealed, Holds, Past

(* What a step does to one generation is what LiveCorpus does to it. *)
LEMMA OneGenerationMoves ==
  ASSUME Typed, Final, OneLive, OneLive', Next, live' = live,
         NEW d \in Generations, \A g \in Generations : g # d => state'[g] = state[g]
  PROVE  LiveStep
<1>0. TypeOK /\ TypeOK'
  BY TypedStep DEF Typed
<1>1. \A g \in Generations : WasSealed(g) => rows'[g] = rows[g]
  BY RowsAreFinal
<1>2. StateMoves(d)
  BY StateSteps DEF StatesMove
<1>3. \A g \in Generations : rows'[g] \in [Documents -> Sources] /\ rows'[g] # None /\ rows[g] # None
  BY <1>0, NoneIsApart DEF TypeOK
<1>4. \A g \in Generations : g # d =>
        /\ WasSealed(g)' <=> WasSealed(g)
        /\ g \in Past' <=> g \in Past
        /\ Holds'[g] = Holds[g]
  BY <1>1 DEF WasSealed, Past, Holds, Failed
<1>5. Holds = [g \in Generations |-> Holds[g]] /\ Holds' = [g \in Generations |-> Holds'[g]]
  BY DEF Holds
<1>6. (state'[d] = "active") <=> (state[d] = "active")
  BY DEF OneLive
<1>7. CASE /\ WasSealed(d)' <=> WasSealed(d)
           /\ d \in Past' <=> d \in Past
  <2>1. Holds'[d] = Holds[d]
    BY <1>1, <1>7 DEF Holds
  <2>2. Holds' = Holds /\ Past' = Past
    BY <1>4, <1>5, <1>7, <2>1 DEF Past
  <2> QED
    BY <2>2 DEF LiveStep
<1>8. CASE state[d] = "indexing" /\ state'[d] = "reconciling"
  <2>1. d \notin Past /\ Holds[d] = None /\ Holds'[d] = rows'[d] /\ d \notin Past'
    BY <1>8 DEF Past, Holds, WasSealed, Failed
  <2>2. Past' = Past
    BY <1>4, <2>1 DEF Past
  <2>3. Holds' = [Holds EXCEPT ![d] = rows'[d]]
    BY <1>4, <1>5, <2>1
  <2>4. Corpus!Seal(d)
    BY <1>3, <2>1, <2>2, <2>3 DEF Corpus!Seal, Corpus!Sealed, Holds, Past
  <2> QED
    BY <2>4 DEF LiveStep, Corpus!LiveNext
<1>9. CASE state[d] \in PreLive /\ state'[d] \in Failed
  <2>1. d \notin Past /\ d # live /\ Holds'[d] = None /\ d \in Past'
    BY <1>0, <1>9 DEF Past, Holds, WasSealed, Failed, PreLive, OneLive
  <2>2. Past' = Past \cup {d}
    BY <1>4, <2>1 DEF Past
  <2>3. Holds' = [Holds EXCEPT ![d] = None]
    BY <1>4, <1>5, <2>1
  <2>4. Corpus!Withdraw(d)
    BY <2>1, <2>2, <2>3 DEF Corpus!Withdraw, Holds, Past
  <2> QED
    BY <2>4 DEF LiveStep, Corpus!LiveNext
<1> QED
  BY <1>2, <1>6, <1>7, <1>8, <1>9 DEF StateMoves, WasSealed, Past, Failed, PreLive

LEMMA PromotionMoves ==
  ASSUME Typed, Final, OneLive, OneLive', Next, NEW d \in Drafts, Promote(d)
  PROVE  LiveStep
<1>1. \A g \in Generations : WasSealed(g) => rows'[g] = rows[g]
  BY RowsAreFinal
<1>2. CASE ~Promotable(d) \/ state[d] = "active"
  <2>1. live' = live /\ \A g \in Generations : state'[g] = state[g]
    <3>1. CASE ~Promotable(d)
      BY <1>2, <3>1 DEF Promote
    <3>2. CASE Promotable(d) /\ state[d] = "active"
      <4>1. live = d
        BY <3>2 DEF OneLive, Generations
      <4> QED
        BY <3>2, <4>1 DEF Promote, OneLive
    <3> QED
      BY <1>2, <3>1, <3>2
  <2> QED
    BY <2>1, OneGenerationMoves DEF Generations
<1>3. CASE Promotable(d) /\ state[d] # "active"
  <2>1. /\ live' = d /\ state[d] = "ready"
        /\ state' = [g \in Generations |->
             IF g = d THEN "active" ELSE IF state[g] = "active" THEN "archived" ELSE state[g]]
    BY <1>3 DEF Promote, Promotable
  <2>2. \A g \in Generations : state[g] = "active" <=> g = live
    BY DEF OneLive
  <2>3. \A g \in Generations : WasSealed(g)' <=> WasSealed(g)
    BY <2>1 DEF WasSealed, Generations
  <2>4. Holds' = Holds
    BY <1>1, <2>3 DEF Holds
  <2>5. Past' = Past \cup {live} /\ d \notin Past /\ d # live /\ live \in Generations
    BY <2>1, <2>2 DEF Past, Failed, Generations, OneLive
  <2>6. Holds[d] # None
    BY <2>1, NoneIsApart DEF Holds, WasSealed, Generations, Typed, TypeOK
  <2>7. Corpus!GoLive(d)
    BY <2>1, <2>4, <2>5, <2>6 DEF Corpus!GoLive, Corpus!Sealed, Holds, Past, Generations
  <2> QED
    BY <2>7 DEF LiveStep, Corpus!LiveNext, Generations
<1> QED
  BY <1>2, <1>3

LEMMA LiveCorpusStep ==
  ASSUME Typed, Final, OneLive, OneLive', Next
  PROVE  LiveStep
<1>0. TypeOK
  BY DEF Typed
<1>1. ASSUME live' = live, state' = state PROVE LiveStep
  BY <1>1, OneGenerationMoves DEF Generations
<1>2. ASSUME NEW d \in Drafts, \/ Opened(d) \/ PublishFails(d) \/ PromoteCloses(d)
                               \/ ClaimDiscard(d) \/ FinalPurge(d)
      PROVE  LiveStep
  <2>1. live' = live /\ \A g \in Generations : g # d => state'[g] = state[g]
    BY <1>0, <1>2 DEF Opened, OpenDraft, PublishFails, FailGeneration, PromoteCloses, ClaimDiscard,
       FinalPurge, TypeOK
  <2> QED
    BY <2>1, OneGenerationMoves DEF Generations
<1>3. ASSUME NEW j \in Jobs, \/ Load(j) \/ MarkBaseCopied(j) \/ Abort(j) \/ Close(j)
                             \/ FailOnCleanup(j) \/ ClaimFinalize(j) \/ MarkDraftReady(j)
      PROVE  LiveStep
  <2>1. DraftOf(j) \in Generations
    BY <1>3, JobSubject DEF Load, MarkBaseCopied, Abort, Close, FailOnCleanup, ClaimFinalize,
       MarkDraftReady, At
  <2>2. live' = live
    BY <1>3 DEF Load, MarkBaseCopied, Abort, Close, FailOnCleanup, ClaimFinalize, MarkDraftReady
  <2>3. state' = state \/ \E s : state' = [state EXCEPT ![DraftOf(j)] = s]
    BY <1>3 DEF Load, MarkBaseCopied, Abort, Close, FailOnCleanup, FailGeneration, ClaimFinalize,
       MarkDraftReady, Ready
  <2>4. \A g \in Generations : g # DraftOf(j) => state'[g] = state[g]
    BY <1>0, <2>3 DEF TypeOK
  <2>5. PICK d \in Generations : \A g \in Generations : g # d => state'[g] = state[g]
    BY <2>1, <2>4
  <2> QED
    BY <2>2, <2>5, OneGenerationMoves
<1>4. CASE UNCHANGED generations
  BY <1>1, <1>4 DEF generations
<1> QED
  BY <1>2, <1>3, <1>4, PromotionMoves, GenerationSteps

(* The pipeline implements LiveCorpus: readers see one sealed corpus at a  *)
(* time, and its content is final.                                         *)
THEOREM LiveCorpusKept == Spec => LiveCorpusIsKept
<1> DEFINE Inv == Typed /\ Checked /\ Final
<1>1. Init => Inv
  BY TypedInit, CheckedInit, FinalInit
<1>2. Inv /\ [Next]_vars => Inv'
  <2>1. ASSUME Inv, Next PROVE Inv'
    BY <2>1, TypedStep, CheckedStep, FinalStep
  <2>2. ASSUME Inv, UNCHANGED vars PROVE Inv'
    BY <2>2, TypedStep, CheckedStays, FinalStays
  <2> QED
    BY <2>1, <2>2
<1>3. Inv /\ Inv' /\ [Next]_vars => LiveStep
  <2>1. ASSUME Inv, Inv', Next PROVE LiveStep
    BY <2>1, LiveCorpusStep DEF Checked
  <2>2. ASSUME UNCHANGED vars PROVE LiveStep
    BY <2>2 DEF LiveStep, Holds, Past, WasSealed, vars, generations, content
  <2> QED
    BY <2>1, <2>2
<1>4. LiveStep <=> [Corpus!LiveNext]_<<live, [g \in Generations |-> IF WasSealed(g) THEN rows[g] ELSE None],
                                      {g \in Generations : state[g] \in Failed \cup {"archived"}}>>
  BY DEF LiveStep, Holds, Past
<1> QED
  BY <1>1, <1>2, <1>3, <1>4, LiveCorpusInit, PTL DEF Spec, LiveCorpusIsKept, Corpus!LiveSpec
=============================================================================
