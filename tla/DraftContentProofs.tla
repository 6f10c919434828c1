------------------------- MODULE DraftContentProofs -------------------------
(***************************************************************************)
(* Proofs about what a draft of DraftPipeline holds: the content and the   *)
(* vectors of a sealed draft, and what a discarded draft leaves behind.    *)
(***************************************************************************)
EXTENDS DraftPipelineProofs

-----------------------------------------------------------------------------
(* How a file's stage moves: by its own job, by the expiry of its batch, or*)
(* with its draft.                                                         *)

Touched == {"chunking", "embedding", "ready"}

Created(f) ==
  /\ stage[f] = "none" /\ stage'[f] = "parsing"
  /\ state[draftOf[f]] \in Building /\ DocumentIsFree(f)
  /\ UNCHANGED <<draftOf, document, job, state>>
  /\ \A o \in Files \ {f} : stage'[o] = stage[o]

StageMoves(f) ==
  \/ stage'[f] = stage[f]
  \/ Created(f)
  \/ stage[f] = "parsing" /\ stage'[f] = "failed"
  \/ state'[draftOf[f]] = "discarded" /\ stage[f] # "none" /\ stage'[f] = "failed"
  \/ job[<<"file", f>>] = "chunk" /\ stage[f] = "parsing" /\ stage'[f] = "chunking"
  \/ job[<<"file", f>>] = "write" /\ stage[f] = "chunking" /\ stage'[f] = "embedding"
  \/ job[<<"file", f>>] = "finish" /\ stage[f] # "failed" /\ stage'[f] = "ready"
  \/ job[<<"file", f>>] = "mark" /\ stage[f] \notin Ended /\ stage'[f] = "failed"

LEMMA StageSteps == ASSUME Typed, Next, NEW f \in Files PROVE StageMoves(f)
<1>0. TypeOK
  BY DEF Typed
<1>1. ASSUME stage' = stage PROVE StageMoves(f)
  BY <1>1 DEF StageMoves
<1>2. ASSUME NEW o \in Files, UploadCreates(o) PROVE StageMoves(f)
  <2>1. CASE o = f
    <3>1. UNCHANGED <<job, state>> /\ stage[f] = "none"
      BY <1>2, <2>1 DEF UploadCreates, generations
    <3> QED
      BY <1>0, <1>2, <2>1, <3>1 DEF UploadCreates, StageMoves, Created, TypeOK
  <2>2. CASE o # f
    BY <1>0, <1>2, <2>2 DEF UploadCreates, StageMoves, TypeOK
  <2> QED
    BY <2>1, <2>2
<1>3. ASSUME NEW o \in Files, NEW k \in Documents, UploadStarts(o, k) PROVE stage' = stage
  BY <1>3 DEF UploadStarts
<1>4. ASSUME NEW j \in Jobs, Chunk(j) \/ Write(j) \/ MarkReady(j) \/ MarkFailed(j) PROVE StageMoves(f)
  <2>1. job[j] \in FileSteps /\ j[2] \in Files
    BY <1>4, JobSubject, JobForms DEF Chunk, Write, MarkReady, MarkFailed, At, FileSteps, Typed, JobsKnown
  <2>2. j = <<"file", j[2]>>
    BY <2>1, JobForms DEF Typed, JobsKnown
  <2>3. CASE j[2] = f
    BY <1>0, <1>4, <2>2, <2>3 DEF Chunk, Write, MarkReady, MarkFailed, At, StageMoves, Ended, TypeOK
  <2>4. CASE j[2] # f
    BY <1>0, <1>4, <2>4 DEF Chunk, Write, MarkReady, MarkFailed, At, StageMoves, TypeOK
  <2> QED
    BY <2>3, <2>4
<1>5. ASSUME NEW j \in Jobs, Expire(j) PROVE StageMoves(f)
  BY <1>0, <1>5 DEF Expire, Undelivered, StageMoves, TypeOK
<1>6. ASSUME NEW d \in Drafts, ClaimDiscard(d) PROVE StageMoves(f)
  <2>1. state'[d] = "discarded"
    BY <1>0, <1>6 DEF ClaimDiscard, TypeOK, Generations
  <2> QED
    BY <1>0, <1>6, <2>1 DEF ClaimDiscard, StageMoves, TypeOK
<1>7. ASSUME NEW p \in Puts, PutStep(p) \/ PutDies(p) \/ \E o \in Files : PutStarts(p, o)
      PROVE  stage' = stage
  BY <1>7 DEF PutStep, PutStores, PutRecords, PutDeletes, PutEnqueues, PutDies, PutStarts, uploads
<1>8. ASSUME NEW d \in Drafts, \/ Reindex(d) \/ PublishFails(d) \/ \E j \in Jobs : Publish(d, j)
                               \/ PromoteStarts(d) \/ PromotionStep(d) \/ PromoteDies(d)
                               \/ ClaimDiscard(d) \/ Purge(d)
      PROVE  stage' = stage \/ ClaimDiscard(d)
  BY <1>8 DEF Reindex, Publish, PublishFails, PromoteStarts, PromotionStep, Promote, PromoteVerifies,
     PromoteCloses, PromoteDies, Purge, PurgeRows, PurgeVectors, FinalPurge, uploads
<1>9. ASSUME NEW j \in Jobs, JobStep(j) \/ JobErrors(j)
      PROVE  stage' = stage \/ Chunk(j) \/ Write(j) \/ MarkReady(j) \/ MarkFailed(j) \/ Expire(j)
  BY <1>9 DEF JobStep, JobErrors, Load, Throws, Copy, CopyVectors, MarkBaseCopied, Abort, Close,
     WaitForBase, Fetch, Embed, Upsert, Remove, Restore, RestoreVectors, FailOnCleanup, ClaimFinalize,
     Reserve, StartChecks, Pause, GiveUpWaiting, Reconcile, FinishChecks, MarkDraftReady, uploads
<1>10. CASE NewDay
  BY <1>10, <1>1 DEF NewDay, uploads
<1> QED
  BY <1>1, <1>2, <1>3, <1>4, <1>5, <1>6, <1>7, <1>8, <1>9, <1>10 DEF Next

-----------------------------------------------------------------------------
(* How a file's job moves, with what it read or wrote on the way.          *)

Marks == {"fetch", "chunk", "write", "embed", "upsert", "finish", "restore", "restoreVectors", "mark"}

FileJobMoves(f) ==
  LET at == job[<<"file", f>>]
      to == job'[<<"file", f>>]
      d == draftOf[f]
      k == document[f]
  IN \/ to = at
     \/ to \notin Marks
     \/ at = "waitBase" /\ to = "fetch" /\ d \in copied
     \/ at = "fetch" /\ to = "chunk" /\ AcceptsWrites(d)
     \/ at = "chunk" /\ to = "write" /\ stage'[f] = IF stage[f] = "parsing" THEN "chunking" ELSE stage[f]
     \/ at = "write" /\ to = "fetch"
     \/ at = "write" /\ to = "embed" /\ Fence(d) /\ rows'[d][k] = f
     \/ at = "embed" /\ to = "upsert" /\ AcceptsWrites(d) /\ rows[d][k] = f
     \/ at = "embed" /\ to = "finish" /\ AcceptsWrites(d) /\ rows[d][k] # f
     \/ at = "upsert" /\ to \in {"embed", "finish"}
     \/ /\ at = "remove" /\ to = "restore"
        /\ stage[f] \in {"chunking", "embedding"} /\ AcceptsWrites(d) /\ rows'[d][k] = "none"
     \/ /\ at = "remove" /\ to = "mark"
        /\ stage[f] \in {"chunking", "embedding"} /\ AcceptsWrites(d) =>
             rows[base[d]][k] = "none" /\ rows'[d][k] = "none"
     \/ at = "restore" /\ to = "restoreVectors" /\ AcceptsWrites(d) /\ rows'[d][k] = rows[base[d]][k]
     \/ at = "restoreVectors" /\ to \in {"mark", "restore"}
     \/ at = "closeDraft" /\ to = "mark"

LEMMA OneJobSteps ==
  ASSUME NEW i \in Jobs, JobStep(i) \/ JobErrors(i)
  PROVE  \E s : job' = [job EXCEPT ![i] = s]
<1>1. CASE Load(i) \/ Throws(i) \/ Copy(i) \/ CopyVectors(i) \/ MarkBaseCopied(i) \/ Abort(i) \/ Close(i)
  BY <1>1 DEF Load, Throws, Copy, CopyVectors, MarkBaseCopied, Abort, Close, Goto, Then, Retried
<1>2. CASE \/ WaitForBase(i) \/ Fetch(i) \/ Chunk(i) \/ Write(i) \/ Embed(i) \/ Upsert(i) \/ MarkReady(i)
  BY <1>2 DEF WaitForBase, Fetch, Chunk, Write, Embed, Upsert, MarkReady, Goto, Try, Retried
<1>3. CASE Remove(i) \/ Restore(i) \/ RestoreVectors(i) \/ FailOnCleanup(i) \/ MarkFailed(i)
  BY <1>3 DEF Remove, Restore, RestoreVectors, FailOnCleanup, MarkFailed, Goto, Then, Retried
<1>4. CASE \/ Expire(i) \/ ClaimFinalize(i) \/ Reserve(i) \/ StartChecks(i) \/ Pause(i) \/ GiveUpWaiting(i)
           \/ Reconcile(i) \/ FinishChecks(i) \/ MarkDraftReady(i)
  BY <1>4 DEF Expire, ClaimFinalize, Reserve, StartChecks, Pause, GiveUpWaiting, Reconcile, FinishChecks,
     MarkDraftReady, Goto, Then, Retried
<1>5. CASE JobErrors(i)
  BY <1>5 DEF JobErrors
<1> QED
  BY <1>1, <1>2, <1>3, <1>4, <1>5 DEF JobStep

(* A job that does not step stays, unless it is launched or a new day      *)
(* wakes it up.                                                            *)
LEMMA OtherJobsStay ==
  ASSUME Typed, Next, NEW j \in Jobs
  PROVE  JobStep(j) \/ JobErrors(j) \/ job'[j] \in {job[j], "load", "recount"}
<1> DEFINE Stays == job'[j] \in {job[j], "load", "recount"}
<1>0. TypeOK
  BY DEF Typed
<1>1. ASSUME NEW i \in Jobs, JobStep(i) \/ JobErrors(i), i # j PROVE Stays
  BY <1>0, <1>1, OneJobSteps DEF TypeOK
<1>2. ASSUME NEW i, Launched(i) PROVE Stays
  BY <1>0, <1>2 DEF Launched, TypeOK
<1>3. ASSUME NEW f \in Files, UploadCreates(f) \/ \E k \in Documents : UploadStarts(f, k) PROVE Stays
  BY <1>3 DEF UploadCreates, UploadStarts
<1>4. ASSUME NEW p \in Puts, PutStep(p) \/ PutDies(p) \/ \E f \in Files : PutStarts(p, f) PROVE Stays
  BY <1>2, <1>4 DEF PutStep, PutStores, PutRecords, PutDeletes, PutEnqueues, PutDies, PutStarts
<1>5. ASSUME NEW d \in Drafts, \/ Reindex(d) \/ PublishFails(d) \/ \E i \in Jobs : Publish(d, i)
                               \/ PromoteStarts(d) \/ PromotionStep(d) \/ PromoteDies(d)
                               \/ ClaimDiscard(d) \/ Purge(d)
      PROVE  Stays
  BY <1>2, <1>5 DEF Reindex, PublishFails, Publish, PromoteStarts, PromotionStep, Promote, PromoteVerifies,
     PromoteCloses, PromoteDies, ClaimDiscard, Purge, PurgeRows, PurgeVectors, FinalPurge
<1>6. CASE NewDay
  BY <1>6 DEF NewDay
<1> QED
  BY <1>1, <1>3, <1>4, <1>5, <1>6 DEF Next

LEMMA FileMoves == ASSUME Typed, Next, NEW f \in Files PROVE FileJobMoves(f)
<1> DEFINE j == <<"file", f>>
<1>0. TypeOK /\ JobsKnown
  BY DEF Typed
<1>1. j \in Jobs /\ j[1] = "file" /\ j[2] = f /\ DraftOf(j) = draftOf[f]
  BY DEF Jobs, DraftOf
<1>2. ASSUME job'[j] \in {job[j], "load", "recount"} PROVE FileJobMoves(f)
  BY <1>2 DEF FileJobMoves, Marks
<1>3. job[j] # "none" =>
        /\ draftOf[f] \in Generations /\ document[f] \in Documents /\ base[draftOf[f]] \in Generations
  BY <1>1, JobSubject
<1> HIDE DEF j
<1>4. CASE Load(j) \/ Throws(j) \/ Expire(j) \/ FailOnCleanup(j) \/ WaitForBase(j) \/ Fetch(j) \/ Chunk(j)
  BY <1>0, <1>1, <1>4 DEF Load, Throws, Expire, FailOnCleanup, WaitForBase, Fetch, Chunk, At, Goto, Then,
     Retried, FileJobMoves, Marks, TypeOK, j
<1>5. CASE Copy(j) \/ CopyVectors(j) \/ MarkBaseCopied(j) \/ Abort(j)
  <2>1. job[j] \in DraftSteps
    BY <1>5 DEF Copy, CopyVectors, MarkBaseCopied, Abort, At, DraftSteps
  <2> QED
    BY <1>0, <1>1, <2>1 DEF JobsKnown
<1>6. CASE Close(j)
  BY <1>0, <1>1, <1>6 DEF Close, At, Goto, Retried, FileJobMoves, Marks, TypeOK, j
<1>7. CASE Write(j)
  <2>1. job[j] = "write" /\ job'[j] \in {"embed", "fetch", "remove"}
    BY <1>0, <1>1, <1>7 DEF Write, At, Goto, Try, Retried, TypeOK
  <2>2. CASE Fence(draftOf[f])
    <3>1. rows' = [rows EXCEPT ![draftOf[f]][document[f]] = f]
      BY <1>1, <1>7, <2>2 DEF Write
    <3>2. rows'[draftOf[f]][document[f]] = f
      BY <1>0, <1>3, <2>1, <3>1 DEF TypeOK
    <3> QED
      BY <2>1, <2>2, <3>2 DEF FileJobMoves, Marks, j
  <2>3. CASE ~Fence(draftOf[f])
    <3>1. job'[j] = "remove"
      BY <1>0, <1>1, <1>7, <2>3 DEF Write, Goto, TypeOK
    <3> QED
      BY <3>1 DEF FileJobMoves, Marks, j
  <2> QED
    BY <2>2, <2>3
<1>8. CASE Embed(j) \/ Upsert(j) \/ MarkReady(j)
  BY <1>0, <1>1, <1>8 DEF Embed, Upsert, MarkReady, At, Goto, Try, Retried, FileJobMoves, Marks, TypeOK, j
<1>9. CASE Remove(j)
  <2>1. job[j] = "remove" /\ job'[j] \in {"mark", "restore", "remove", "failDraft"}
    BY <1>0, <1>1, <1>9 DEF Remove, At, Goto, Then, Retried, TypeOK
  <2>2. CASE stage[f] \in {"chunking", "embedding"} /\ AcceptsWrites(draftOf[f])
    <3>1. rows' = [rows EXCEPT ![draftOf[f]][document[f]] = "none"]
      BY <1>1, <1>9, <2>2 DEF Remove
    <3>2. rows'[draftOf[f]][document[f]] = "none"
      BY <1>0, <1>3, <2>1, <3>1 DEF TypeOK
    <3>3. job'[j] = "mark" => rows[base[draftOf[f]]][document[f]] = "none"
      BY <1>0, <1>1, <1>9, <2>1, <2>2 DEF Remove, Goto, Then, Retried, TypeOK
    <3> QED
      BY <2>1, <2>2, <3>2, <3>3 DEF FileJobMoves, Marks, j
  <2>3. CASE ~(stage[f] \in {"chunking", "embedding"} /\ AcceptsWrites(draftOf[f]))
    <3>1. job'[j] \in {"mark", "remove"}
      BY <1>0, <1>1, <1>9, <2>1, <2>3 DEF Remove, Goto, Then, Retried, TypeOK
    <3> QED
      BY <2>1, <2>3, <3>1 DEF FileJobMoves, Marks, j
  <2> QED
    BY <2>2, <2>3
<1>10. CASE Restore(j)
  <2>1. job[j] = "restore"
    BY <1>10 DEF Restore, At
  <2>2. CASE AcceptsWrites(draftOf[f])
    <3>1. /\ rows' = [rows EXCEPT ![draftOf[f]][document[f]] = rows[base[draftOf[f]]][document[f]]]
          /\ job'[j] \in {"restoreVectors", "restore"}
      BY <1>0, <1>1, <1>10, <2>1, <2>2 DEF Restore, Goto, Then, Retried, TypeOK
    <3>2. rows'[draftOf[f]][document[f]] = rows[base[draftOf[f]]][document[f]]
      BY <1>0, <1>3, <2>1, <3>1 DEF TypeOK
    <3> QED
      BY <2>1, <2>2, <3>1, <3>2 DEF FileJobMoves, Marks, j
  <2>3. CASE ~AcceptsWrites(draftOf[f])
    <3>1. job'[j] = "failDraft"
      BY <1>0, <1>1, <1>10, <2>3 DEF Restore, Goto, TypeOK
    <3> QED
      BY <3>1 DEF FileJobMoves, Marks, j
  <2> QED
    BY <2>2, <2>3
<1>11. CASE RestoreVectors(j) \/ MarkFailed(j)
  BY <1>0, <1>1, <1>11 DEF RestoreVectors, MarkFailed, At, Goto, Then, Retried, FileJobMoves, Marks, TypeOK, j
<1>12. CASE \/ ClaimFinalize(j) \/ Reserve(j) \/ StartChecks(j) \/ Pause(j) \/ GiveUpWaiting(j)
            \/ Reconcile(j) \/ FinishChecks(j) \/ MarkDraftReady(j) \/ JobErrors(j)
  <2>1. \E s \in CheckSteps \cup {"done", "claim"} : job' = [job EXCEPT ![j] = s]
    BY <1>12 DEF ClaimFinalize, Reserve, StartChecks, Pause, GiveUpWaiting, Reconcile, FinishChecks,
       MarkDraftReady, JobErrors, At, Goto, Then, Retried, CheckSteps
  <2>2. job'[j] \notin Marks
    BY <1>0, <1>1, <2>1 DEF TypeOK, CheckSteps, Marks
  <2> QED
    BY <2>2 DEF FileJobMoves, Marks, j
<1> QED
  BY <1>1, <1>2, <1>4, <1>5, <1>6, <1>7, <1>8, <1>9, <1>10, <1>11, <1>12, OtherJobsStay DEF JobStep

-----------------------------------------------------------------------------
(* How the content of a generation moves.                                  *)

SetsRow(d, k, x) == \A i \in Documents : rows'[d][i] = IF i = k THEN x ELSE rows[d][i]

Drops(d, k) == vectors'[d] = vectors[d] \ {<<k, rows[d][k]>>}

FileWrites(f) ==
  LET at == job[<<"file", f>>]
      d == draftOf[f]
      k == document[f]
  IN /\ stage[f] # "none" /\ d \in Drafts /\ k \in Documents
     /\ \/ /\ at = "write" /\ Drops(d, k)
           /\ SetsRow(d, k, IF Fence(d) THEN f ELSE "none")
        \/ at = "upsert" /\ rows'[d] = rows[d] /\ vectors'[d] = vectors[d] \cup {<<k, f>>}
        \/ /\ at = "remove" /\ Drops(d, k) /\ SetsRow(d, k, "none")
           /\ stage[f] \in {"chunking", "embedding"} /\ AcceptsWrites(d)
        \/ /\ at = "restore" /\ vectors'[d] = vectors[d] /\ AcceptsWrites(d)
           /\ SetsRow(d, k, rows[base[d]][k])
        \/ /\ at = "restoreVectors" /\ rows'[d] = rows[d]
           /\ vectors'[d] = vectors[d] \cup {v \in vectors[base[d]] : v[1] = k}

DraftWrites(d) ==
  \/ /\ job[<<"draft", d>>] = "copy" /\ AcceptsWrites(d) /\ vectors'[d] = vectors[d]
     /\ \A k \in Documents :
          rows'[d][k] = IF rows[base[d]][k] = "none" THEN rows[d][k] ELSE rows[base[d]][k]
  \/ /\ job[<<"draft", d>>] = "copyVectors" /\ rows'[d] = rows[d]
     /\ vectors'[d] = vectors[d] \cup vectors[base[d]]

Purges(d) ==
  /\ state[d] = "discarded" /\ d \notin purged
  /\ \/ /\ \A k \in Documents : rows'[d][k] = "none"
        /\ tombstones'[d] = tombstones[d] \cup Named(d) /\ vectors'[d] = vectors[d]
     \/ rows'[d] = rows[d] /\ tombstones'[d] = tombstones[d] /\ vectors'[d] = vectors[d] \ tombstones[d]
     \/ /\ GraceIsOver(d) /\ purged' = purged \cup {d} /\ job' = job
        /\ \A k \in Documents : rows'[d][k] = "none"
        /\ tombstones'[d] = {} /\ vectors'[d] = vectors[d] \ (tombstones[d] \cup Named(d))

ContentMoves(g) ==
  \/ rows'[g] = rows[g] /\ vectors'[g] = vectors[g] /\ tombstones'[g] = tombstones[g]
  \/ g \in Drafts /\ Purges(g)
  \/ /\ tombstones'[g] = tombstones[g] /\ g \in Drafts
     /\ DraftWrites(g) \/ \E f \in Files : draftOf[f] = g /\ FileWrites(f)

LEMMA ContentStep == ASSUME Typed, Next, NEW g \in Generations PROVE ContentMoves(g)
<1>0. TypeOK
  BY DEF Typed
<1> DEFINE Stays == rows'[g] = rows[g] /\ vectors'[g] = vectors[g] /\ tombstones'[g] = tombstones[g]
<1>1. CASE UNCHANGED content
  BY <1>1 DEF content, ContentMoves
<1>2. ASSUME NEW d \in Drafts, PurgeRows(d) \/ PurgeVectors(d) \/ FinalPurge(d) PROVE ContentMoves(g)
  <2>1. CASE g # d
    <3>1. Stays
      BY <1>0, <1>2, <2>1 DEF PurgeRows, EmptyRows, PurgeVectors, FinalPurge, TypeOK, Generations
    <3> QED
      BY <3>1 DEF ContentMoves
  <2>2. CASE g = d
    <3>1. CASE PurgeRows(d)
      BY <1>0, <2>2, <3>1 DEF PurgeRows, EmptyRows, Purges, ContentMoves, TypeOK, Generations
    <3>2. CASE PurgeVectors(d)
      BY <1>0, <2>2, <3>2 DEF PurgeVectors, Purges, ContentMoves, TypeOK, Generations
    <3>3. CASE FinalPurge(d)
      BY <1>0, <2>2, <3>3 DEF FinalPurge, Purges, ContentMoves, TypeOK, Generations
    <3> QED
      BY <1>2, <3>1, <3>2, <3>3
  <2> QED
    BY <2>1, <2>2
<1>3. ASSUME NEW j \in Jobs, Copy(j) \/ CopyVectors(j) PROVE ContentMoves(g)
  <2> DEFINE d == DraftOf(j)
  <2>1. job[j] \in {"copy", "copyVectors"}
    BY <1>3 DEF Copy, CopyVectors, At
  <2>2. d \in Drafts /\ d \in Generations /\ base[d] \in Generations /\ j = <<"draft", d>>
    BY <1>3, <2>1, WriterKnows DEF DraftSteps
  <2>3. CASE Copy(j)
    <3> DEFINE copy == [k \in Documents |-> IF rows[base[d]][k] = "none" THEN rows[d][k] ELSE rows[base[d]][k]]
    <3>1. /\ job[j] = "copy" /\ vectors' = vectors /\ tombstones' = tombstones
          /\ \/ rows' = rows
             \/ AcceptsWrites(d) /\ rows' = [rows EXCEPT ![d] = copy]
      BY <2>3 DEF Copy, At
    <3> HIDE DEF d, copy
    <3>2. \/ rows' = rows
          \/ rows'[d] = copy /\ AcceptsWrites(d) /\ \A e \in Generations : e # d => rows'[e] = rows[e]
      BY <1>0, <2>2, <3>1 DEF TypeOK
    <3>3. CASE rows'[g] = rows[g]
      BY <3>1, <3>3 DEF ContentMoves
    <3>4. CASE g = d /\ rows'[d] = copy /\ AcceptsWrites(d)
      <4>1. \A k \in Documents :
              rows'[d][k] = IF rows[base[d]][k] = "none" THEN rows[d][k] ELSE rows[base[d]][k]
        BY <3>4 DEF copy
      <4> QED
        BY <2>2, <3>1, <3>4, <4>1 DEF ContentMoves, DraftWrites
    <3> QED
      BY <3>2, <3>3, <3>4
  <2>4. CASE CopyVectors(j)
    <3>1. /\ job[j] = "copyVectors" /\ rows' = rows /\ tombstones' = tombstones
          /\ vectors' = [vectors EXCEPT ![d] = @ \cup vectors[base[d]]]
      BY <2>4 DEF CopyVectors, At
    <3> HIDE DEF d
    <3>2. CASE g = d
      <4>1. vectors'[d] = vectors[d] \cup vectors[base[d]]
        BY <1>0, <2>2, <3>1 DEF TypeOK
      <4> QED
        BY <2>2, <3>1, <3>2, <4>1 DEF ContentMoves, DraftWrites
    <3>3. CASE g # d
      BY <1>0, <3>1, <3>3 DEF TypeOK, ContentMoves
    <3> QED
      BY <3>2, <3>3
  <2> QED
    BY <1>3, <2>3, <2>4
<1>4. ASSUME NEW j \in Jobs, Write(j) \/ Upsert(j) \/ Remove(j) \/ Restore(j) \/ RestoreVectors(j)
      PROVE  ContentMoves(g)
  <2> DEFINE f == j[2]
             d == DraftOf(j)
             k == document[j[2]]
  <2>1. job[j] \in FileSteps
    BY <1>4 DEF Write, Upsert, Remove, Restore, RestoreVectors, At, FileSteps
  <2>2. /\ j = <<"file", f>> /\ f \in Files /\ stage[f] # "none" /\ d = draftOf[f]
        /\ d \in Drafts /\ d \in Generations /\ base[d] \in Generations /\ k \in Documents
    BY <1>4, <2>1, WriterKnows
  <2>3. tombstones' = tombstones
    BY <1>4 DEF Write, Upsert, Remove, Restore, RestoreVectors, content
  <2>4. \/ /\ job[j] = "write" /\ vectors' = [vectors EXCEPT ![d] = @ \ {<<k, rows[d][k]>>}]
           /\ rows' = [rows EXCEPT ![d][k] = IF Fence(d) THEN f ELSE "none"]
        \/ /\ job[j] = "upsert" /\ rows' = rows
           /\ vectors' = [vectors EXCEPT ![d] = @ \cup {<<k, f>>}]
        \/ /\ job[j] = "remove" /\ stage[f] \in {"chunking", "embedding"} /\ AcceptsWrites(d)
           /\ vectors' = [vectors EXCEPT ![d] = @ \ {<<k, rows[d][k]>>}]
           /\ rows' = [rows EXCEPT ![d][k] = "none"]
        \/ /\ job[j] = "restore" /\ AcceptsWrites(d) /\ vectors' = vectors
           /\ rows' = [rows EXCEPT ![d][k] = rows[base[d]][k]]
        \/ /\ job[j] = "restoreVectors" /\ rows' = rows
           /\ vectors' = [vectors EXCEPT ![d] = @ \cup {v \in vectors[base[d]] : v[1] = k}]
        \/ rows' = rows /\ vectors' = vectors
    BY <1>4 DEF Write, Upsert, Remove, Restore, RestoreVectors, At
  <2> HIDE DEF f, d, k
  <2>5. k = document[f]
    BY DEF f, k
  <2>6. CASE rows' = rows /\ vectors' = vectors
    BY <2>3, <2>6 DEF ContentMoves
  <2>7. CASE g # d
    <3>1. rows' = rows \/ \E x : rows' = [rows EXCEPT ![d][k] = x]
      BY <2>4
    <3>2. vectors' = vectors \/ \E x : vectors' = [vectors EXCEPT ![d] = x]
      BY <2>4
    <3>3. Stays
      BY <1>0, <2>2, <2>3, <2>7, <3>1, <3>2 DEF TypeOK
    <3> QED
      BY <3>3 DEF ContentMoves
  <2>8. ASSUME g = d, FileWrites(f) PROVE ContentMoves(g)
    BY <2>2, <2>3, <2>8 DEF ContentMoves
  <2>9. ASSUME NEW x, rows' = [rows EXCEPT ![d][k] = x] PROVE SetsRow(d, k, x)
    BY <1>0, <2>2, <2>9 DEF SetsRow, TypeOK
  <2>10. ASSUME NEW x, vectors' = [vectors EXCEPT ![d] = x] PROVE vectors'[d] = x
    BY <1>0, <2>2, <2>10 DEF TypeOK
  <2>11. CASE /\ job[j] = "write" /\ vectors' = [vectors EXCEPT ![d] = @ \ {<<k, rows[d][k]>>}]
              /\ rows' = [rows EXCEPT ![d][k] = IF Fence(d) THEN f ELSE "none"]
    <3>1. SetsRow(d, k, IF Fence(d) THEN f ELSE "none") /\ Drops(d, k)
      BY <2>9, <2>10, <2>11 DEF Drops
    <3> QED
      BY <2>2, <2>5, <2>7, <2>8, <2>11, <3>1 DEF FileWrites
  <2>12. CASE job[j] = "upsert" /\ rows' = rows /\ vectors' = [vectors EXCEPT ![d] = @ \cup {<<k, f>>}]
    <3>1. vectors'[d] = vectors[d] \cup {<<k, f>>}
      BY <2>10, <2>12
    <3> QED
      BY <2>2, <2>5, <2>7, <2>8, <2>12, <3>1 DEF FileWrites
  <2>13. CASE /\ job[j] = "remove" /\ stage[f] \in {"chunking", "embedding"} /\ AcceptsWrites(d)
              /\ vectors' = [vectors EXCEPT ![d] = @ \ {<<k, rows[d][k]>>}]
              /\ rows' = [rows EXCEPT ![d][k] = "none"]
    <3>1. SetsRow(d, k, "none") /\ Drops(d, k)
      BY <2>9, <2>10, <2>13 DEF Drops
    <3> QED
      BY <2>2, <2>5, <2>7, <2>8, <2>13, <3>1 DEF FileWrites
  <2>14. CASE /\ job[j] = "restore" /\ AcceptsWrites(d) /\ vectors' = vectors
              /\ rows' = [rows EXCEPT ![d][k] = rows[base[d]][k]]
    <3>1. SetsRow(d, k, rows[base[d]][k])
      BY <2>9, <2>14
    <3> QED
      BY <2>2, <2>5, <2>7, <2>8, <2>14, <3>1 DEF FileWrites
  <2>15. CASE /\ job[j] = "restoreVectors" /\ rows' = rows
              /\ vectors' = [vectors EXCEPT ![d] = @ \cup {v \in vectors[base[d]] : v[1] = k}]
    <3>1. vectors'[d] = vectors[d] \cup {v \in vectors[base[d]] : v[1] = k}
      BY <2>10, <2>15
    <3> QED
      BY <2>2, <2>5, <2>7, <2>8, <2>15, <3>1 DEF FileWrites
  <2> QED
    BY <2>4, <2>6, <2>11, <2>12, <2>13, <2>14, <2>15
<1> QED
  BY <1>1, <1>2, <1>3, <1>4, ContentSteps

-----------------------------------------------------------------------------
(* How a draft and its own job move.                                       *)

DraftJobMoves(d) ==
  LET at == job[<<"draft", d>>]
      to == job'[<<"draft", d>>]
  IN \/ to = at
     \/ to \notin {"copyVectors", "copied"}
     \/ at = "copyVectors" /\ to = "copied"
     \/ /\ at = "copy" /\ to = "copyVectors" /\ AcceptsWrites(d)
        /\ \A k \in Documents :
             rows'[d][k] = IF rows[base[d]][k] = "none" THEN rows[d][k] ELSE rows[base[d]][k]

LEMMA DraftMoves == ASSUME Typed, Next, NEW d \in Drafts PROVE DraftJobMoves(d)
<1> DEFINE j == <<"draft", d>>
           copy == [k \in Documents |-> IF rows[base[d]][k] = "none" THEN rows[d][k] ELSE rows[base[d]][k]]
<1>0. TypeOK
  BY DEF Typed
<1>1. j \in Jobs /\ DraftOf(j) = d /\ d \in Generations
  BY DEF Jobs, DraftOf, Generations
<1>2. JobMoves(j)
  BY <1>1, JobsStep DEF JobsMove
<1>3. CASE job[j] \notin {"copy", "copyVectors"} \/ job'[j] \in {job[j], "load", "recount"}
  BY <1>2, <1>3 DEF JobMoves, DraftJobMoves, Working, CheckSteps
<1> HIDE DEF j
<1>4. CASE job[j] \in {"copy", "copyVectors"} /\ (JobStep(j) \/ JobErrors(j))
  <2>1. Copy(j) \/ CopyVectors(j)
    BY <1>4 DEF JobStep, JobErrors, Load, Throws, MarkBaseCopied, Abort, Close, WaitForBase, Fetch, Chunk,
       Write, Embed, Upsert, MarkReady, Remove, Restore, RestoreVectors, FailOnCleanup, MarkFailed, Expire,
       ClaimFinalize, Reserve, StartChecks, Pause, GiveUpWaiting, Reconcile, FinishChecks, MarkDraftReady,
       At, CheckSteps
  <2>2. CASE Copy(j)
    <3>1. job[j] = "copy" /\ job'[j] \in {"copy", "copyVectors", "abort"}
      BY <1>0, <1>1, <2>2 DEF Copy, At, Goto, Then, Retried, TypeOK
    <3>2. CASE AcceptsWrites(d)
      <4>1. rows' = [rows EXCEPT ![d] = copy]
        BY <1>1, <2>2, <3>2 DEF Copy
      <4> HIDE DEF copy
      <4>2. rows'[d] = copy
        BY <1>0, <1>1, <4>1 DEF TypeOK
      <4>3. \A k \in Documents :
              rows'[d][k] = IF rows[base[d]][k] = "none" THEN rows[d][k] ELSE rows[base[d]][k]
        BY <4>2 DEF copy
      <4> QED
        BY <3>1, <3>2, <4>3 DEF DraftJobMoves, j
    <3>3. CASE ~AcceptsWrites(d)
      <4>1. job'[j] = "abort"
        BY <1>0, <1>1, <2>2, <3>3 DEF Copy, Goto, TypeOK
      <4> QED
        BY <4>1 DEF DraftJobMoves, j
    <3> QED
      BY <3>2, <3>3
  <2>3. CASE CopyVectors(j)
    <3>1. job[j] = "copyVectors" /\ job'[j] \in {"copied", "copy", "abort"}
      BY <1>0, <1>1, <2>3 DEF CopyVectors, At, Goto, Retried, TypeOK
    <3> QED
      BY <3>1 DEF DraftJobMoves, j
  <2> QED
    BY <2>1, <2>2, <2>3
<1> QED
  BY <1>1, <1>3, <1>4, OtherJobsStay

(* A draft is opened on the live generation, which stays its base. *)
LEMMA BaseSteps ==
  ASSUME Typed, Next, NEW d \in Drafts
  PROVE  /\ state[d] # "none" => base'[d] = base[d]
         /\ state[d] = "none" /\ state'[d] # "none" => base'[d] = live /\ d \in open'
<1> DEFINE Based == /\ state[d] # "none" => base'[d] = base[d]
                    /\ state[d] = "none" /\ state'[d] # "none" => base'[d] = live /\ d \in open'
<1>0. TypeOK
  BY DEF Typed
<1>1. ASSUME NEW e \in Drafts, Opened(e) PROVE Based
  BY <1>0, <1>1 DEF Opened, OpenDraft, TypeOK, Generations
<1>2. CASE UNCHANGED generations
  BY <1>2 DEF generations
<1>3. ASSUME base' = base, \A g \in Generations : state[g] = "none" => state'[g] = "none" PROVE Based
  BY <1>3 DEF Generations
<1>4. ASSUME NEW e \in Drafts, PublishFails(e) \/ Promote(e) \/ PromoteCloses(e) \/ ClaimDiscard(e) \/ FinalPurge(e)
      PROVE  Based
  <2>1. base' = base
    BY <1>4 DEF PublishFails, Promote, PromoteCloses, ClaimDiscard, FinalPurge
  <2>2. \A g \in Generations : state[g] = "none" => state'[g] = "none"
    BY <1>0, <1>4 DEF PublishFails, FailGeneration, PreLive, Promote, Promotable, PromoteCloses, ClaimDiscard,
       Discardable, Failed, FinalPurge, TypeOK
  <2> QED
    BY <1>3, <2>1, <2>2
<1>5. ASSUME NEW j \in Jobs, \/ Load(j) \/ MarkBaseCopied(j) \/ Abort(j) \/ Close(j)
                             \/ FailOnCleanup(j) \/ ClaimFinalize(j) \/ MarkDraftReady(j)
      PROVE  Based
  <2>1. base' = base
    BY <1>5 DEF Load, MarkBaseCopied, Abort, Close, FailOnCleanup, ClaimFinalize, MarkDraftReady
  <2>2. \A g \in Generations : state[g] = "none" => state'[g] = "none"
    BY <1>0, <1>5 DEF Load, MarkBaseCopied, Abort, Close, FailOnCleanup, FailGeneration, PreLive,
       ClaimFinalize, MayFinalize, MarkDraftReady, Ready, TypeOK
  <2> QED
    BY <1>3, <2>1, <2>2
<1> QED
  BY <1>1, <1>2, <1>4, <1>5, GenerationSteps

(* A draft that is discarded is closed at once. *)
LEMMA DiscardSteps ==
  ASSUME Typed, Next, NEW d \in Drafts, state[d] # "discarded", state'[d] = "discarded"
  PROVE  d \notin open'
<1>0. TypeOK
  BY DEF Typed
<1>1. ASSUME NEW e \in Drafts, \/ Opened(e) \/ PublishFails(e) \/ Promote(e) \/ PromoteCloses(e) \/ FinalPurge(e)
      PROVE  FALSE
  BY <1>0, <1>1 DEF Opened, OpenDraft, PublishFails, FailGeneration, PreLive, Promote, PromoteCloses,
     FinalPurge, TypeOK, Generations
<1>2. ASSUME NEW e \in Drafts, ClaimDiscard(e) PROVE d \notin open'
  BY <1>0, <1>2 DEF ClaimDiscard, TypeOK, Generations
<1>3. ASSUME NEW j \in Jobs, \/ Load(j) \/ MarkBaseCopied(j) \/ Abort(j) \/ Close(j)
                             \/ FailOnCleanup(j) \/ ClaimFinalize(j) \/ MarkDraftReady(j)
      PROVE  FALSE
  BY <1>0, <1>3 DEF Load, MarkBaseCopied, Abort, Close, FailOnCleanup, FailGeneration, PreLive,
     ClaimFinalize, MarkDraftReady, Ready, TypeOK, Generations
<1>4. CASE UNCHANGED generations
  BY <1>4 DEF generations
<1> QED
  BY <1>1, <1>2, <1>3, <1>4, GenerationSteps

(* A draft is purged for good once, by FinalPurge. *)
LEMMA PurgedSteps ==
  ASSUME Typed, Next, NEW d \in purged', d \notin purged
  PROVE  /\ d \in Drafts /\ state[d] = "discarded" /\ GraceIsOver(d) /\ job' = job
         /\ vectors'[d] = vectors[d] \ (tombstones[d] \cup Named(d))
         /\ tombstones'[d] = {} /\ \A k \in Documents : rows'[d][k] = "none"
<1>0. TypeOK
  BY DEF Typed
<1>1. purged' = purged \/ \E e \in Drafts : FinalPurge(e)
  BY GenerationSteps DEF generations, Opened, OpenDraft, PublishFails, Promote, PromoteCloses, ClaimDiscard,
     Load, MarkBaseCopied, Abort, Close, FailOnCleanup, ClaimFinalize, MarkDraftReady
<1>2. PICK e \in Drafts : FinalPurge(e)
  BY <1>1
<1>3. e = d /\ d \in Generations
  BY <1>2 DEF FinalPurge, Generations
<1> QED
  BY <1>0, <1>2, <1>3 DEF FinalPurge, TypeOK

-----------------------------------------------------------------------------
(* The inductive invariant, fourth part: who may write a document of a     *)
(* draft, and from when on.                                                *)

(* A file that holds nothing of its document. *)
Idle(f) == stage[f] \in {"none", "failed"} /\ job[<<"file", f>>] \notin Working

SameSlot(f, o) == draftOf[f] \in Drafts /\ draftOf[o] = draftOf[f] /\ document[o] = document[f]

OneHolder == \A f, o \in Files : f # o /\ SameSlot(f, o) => Idle(f) \/ Idle(o)

BaseIsLive == \A d \in Drafts : state[d] # "none" => state[base[d]] \in {"active", "archived"}

PreLiveIsOpen == \A d \in Drafts : state[d] \in PreLive => d \in open

(* The files' work starts after the base was copied. *)
AfterBase ==
  \A f \in Files :
    /\ job[<<"file", f>>] \in (Working \ {"waitBase"}) \cup {"finish"} => draftOf[f] \in copied
    /\ stage[f] \in Touched => draftOf[f] \in copied

FromBase ==
  \A d \in Drafts, k \in Documents :
    d \notin copied /\ rows[d][k] # "none" => state[d] # "none" /\ rows[d][k] = rows[base[d]][k]

Slots == OneHolder /\ BaseIsLive /\ PreLiveIsOpen /\ AfterBase /\ FromBase

LEMMA SlotsInit == Init => Slots
<1> SUFFICES ASSUME Init PROVE Slots
  OBVIOUS
<1>1. /\ \A d \in Drafts : state[d] = "none" /\ d \in Generations /\ d # Seed
      /\ \A f \in Files : draftOf[f] = None /\ stage[f] = "none" /\ <<"file", f>> \in Jobs
  BY SeedIsNoDraft DEF Init, Generations, Jobs
<1>2. \A f \in Files : job[<<"file", f>>] = "none"
  BY <1>1 DEF Init
<1>3. \A d \in Drafts, k \in Documents : rows[d][k] = "none"
  BY <1>1 DEF Init
<1> QED
  BY <1>1, <1>2, <1>3, SeedIsNoDraft DEF Slots, OneHolder, SameSlot, BaseIsLive, PreLiveIsOpen, PreLive, AfterBase,
     Touched, FromBase, Working

LEMMA SlotsStay == Slots /\ UNCHANGED vars => Slots'
  BY DEF vars, generations, checking, uploads, content, requests, Slots, OneHolder, SameSlot, Idle, BaseIsLive,
     PreLiveIsOpen, AfterBase, FromBase

(* Once a file has a stage it keeps its slot. *)
LEMMA SlotStays ==
  ASSUME Typed, Next, NEW f \in Files, stage[f] # "none"
  PROVE  /\ draftOf'[f] = draftOf[f] /\ document'[f] = document[f] /\ stage'[f] # "none"
         /\ draftOf[f] \in Drafts /\ draftOf[f] \in Generations /\ document[f] \in Documents
         /\ state[draftOf[f]] # "none"
<1>1. UploadMoves(f)
  BY UploadSteps DEF UploadsMove
<1> QED
  BY <1>1 DEF UploadMoves, Ended, Typed, FilesKnown, Generations

(* An idle file stays so unless it is created. *)
LEMMA IdleStays ==
  ASSUME Typed, Next, NEW f \in Files, Idle(f)
  PROVE  Idle(f)' \/ Created(f)
<1> DEFINE j == <<"file", f>>
<1>1. StageMoves(f) /\ j \in Jobs /\ j[1] = "file" /\ j[2] = f
  BY StageSteps DEF Jobs
<1>2. JobMoves(j) /\ (job[j] # "none" => stage[f] # "none")
  BY <1>1, JobsStep DEF JobsMove, Typed, JobsKnown, Begun
<1>3. job[j] \notin Working /\ stage[f] \in {"none", "failed"}
  BY DEF Idle
<1>4. job'[j] \notin Working
  BY <1>1, <1>2, <1>3 DEF JobMoves, Working, Ended, CheckSteps
<1>5. Created(f) \/ stage'[f] \in {"none", "failed"}
  BY <1>2, <1>3, <1>1 DEF StageMoves, Ended
<1> QED
  BY <1>4, <1>5 DEF Idle

(* A file is created in a draft that builds, next to idle files only. *)
LEMMA CreatedAlone ==
  ASSUME Typed, Final, Next, NEW f \in Files, NEW o \in Files, f # o, Created(f), SameSlot(f, o)
  PROVE  Idle(o)'
<1>1. stage[o] \in {"none", "failed"}
  BY DEF Created, DocumentIsFree, SameSlot
<1>2. <<"file", o>> \in Jobs /\ (job[<<"file", o>>] # "none" => stage[o] # "none")
  BY DEF Jobs, Typed, JobsKnown, Begun
<1>3. state[draftOf[o]] \notin Failed
  BY DEF Created, SameSlot, Building, Failed
<1>4. job[<<"file", o>>] \notin Working
  BY <1>1, <1>2, <1>3 DEF Final, FilesWork, Ended, Working
<1> QED
  BY <1>1, <1>4 DEF Created, Idle

LEMMA OneHolderStep == ASSUME Typed, Final, OneHolder, Next PROVE OneHolder'
<1>1. Typed'
  BY TypedStep
<1>2. \A f \in Files : stage'[f] = "none" => Idle(f)'
  <2>1. ASSUME NEW f \in Files, stage'[f] = "none" PROVE Idle(f)'
    <3>1. job'[<<"file", f>>] = "none"
      BY <1>1, <2>1 DEF Typed, JobsKnown, Begun, Jobs
    <3> QED
      BY <2>1, <3>1 DEF Idle, Working
  <2> QED
    BY <2>1
<1>3. ASSUME NEW f \in Files, NEW o \in Files, f # o, SameSlot(f, o)', stage[f] # "none", stage[o] # "none"
      PROVE  Idle(f)' \/ Idle(o)'
  <2>1. SameSlot(f, o)
    BY <1>3, SlotStays DEF SameSlot
  <2>2. Idle(f) \/ Idle(o)
    BY <1>3, <2>1 DEF OneHolder
  <2>3. ~Created(f) /\ ~Created(o)
    BY <1>3 DEF Created
  <2> QED
    BY <2>2, <2>3, IdleStays
<1>4. ASSUME NEW f \in Files, NEW o \in Files, f # o, SameSlot(f, o)', stage[f] = "none", stage'[f] # "none"
      PROVE  Idle(o)'
  <2>1. Created(f)
    <3>1. StageMoves(f) /\ <<"file", f>> \in Jobs
      BY StageSteps DEF Jobs
    <3>2. job[<<"file", f>>] = "none"
      BY <1>4, <3>1 DEF Typed, JobsKnown, Begun
    <3> QED
      BY <1>4, <3>1, <3>2 DEF StageMoves
  <2>2. SameSlot(f, o)
    BY <1>4, <2>1 DEF Created, SameSlot
  <2> QED
    BY <1>4, <2>1, <2>2, CreatedAlone
<1>5. ASSUME NEW f \in Files, NEW o \in Files, f # o, SameSlot(f, o)' PROVE Idle(f)' \/ Idle(o)'
  <2>1. SameSlot(o, f)'
    BY <1>5 DEF SameSlot
  <2>2. CASE stage'[f] = "none" \/ stage'[o] = "none"
    BY <1>2, <2>2
  <2>3. CASE stage[f] = "none" /\ stage'[f] # "none"
    BY <1>4, <1>5, <2>3
  <2>4. CASE stage[o] = "none" /\ stage'[o] # "none"
    BY <1>4, <1>5, <2>1, <2>4
  <2>5. CASE stage[f] # "none" /\ stage[o] # "none"
    BY <1>3, <1>5, <2>5
  <2> QED
    BY <2>2, <2>3, <2>4, <2>5
<1> QED
  BY <1>5 DEF OneHolder

LEMMA BaseIsLiveStep == ASSUME Typed, OneLive, BaseIsLive, Next PROVE BaseIsLive'
<1>1. ASSUME NEW d \in Drafts, state'[d] # "none" PROVE state'[base'[d]] \in {"active", "archived"}
  <2>1. CASE state[d] # "none"
    <3>1. base'[d] = base[d] /\ base[d] \in Generations /\ state[base[d]] \in {"active", "archived"}
      BY <2>1, BaseSteps DEF BaseIsLive, Typed, DraftsKnown
    <3> QED
      BY <3>1, StatesLast
  <2>2. CASE state[d] = "none"
    <3>1. base'[d] = live /\ live \in Generations /\ state[live] = "active"
      BY <1>1, <2>2, BaseSteps DEF OneLive
    <3> QED
      BY <3>1, StatesLast
  <2> QED
    BY <2>1, <2>2
<1> QED
  BY <1>1 DEF BaseIsLive

LEMMA PreLiveStep == ASSUME Typed, ClosesEnded, PreLiveIsOpen, Next PROVE PreLiveIsOpen'
<1>1. OpenMoves
  BY OpenSteps
<1>2. ASSUME NEW d \in Drafts, state'[d] \in PreLive PROVE d \in open'
  <2>1. StateMoves(d)
    BY StateSteps DEF StatesMove, Generations
  <2>2. CASE state[d] = "none"
    BY <1>2, <2>2, BaseSteps DEF PreLive
  <2>3. CASE state[d] # "none"
    <3>1. d \in open
      BY <1>2, <2>1, <2>3 DEF StateMoves, PreLive, Failed, PreLiveIsOpen
    <3> QED
      BY <1>1, <1>2, <3>1 DEF OpenMoves
  <2> QED
    BY <2>2, <2>3
<1> QED
  BY <1>2 DEF PreLiveIsOpen

LEMMA AfterBaseStep == ASSUME Typed, AfterBase, Next PROVE AfterBase'
<1>1. copied \subseteq copied'
  BY CopiedSteps
<1>2. ASSUME NEW f \in Files
      PROVE  /\ job'[<<"file", f>>] \in (Working \ {"waitBase"}) \cup {"finish"} => draftOf'[f] \in copied'
             /\ stage'[f] \in Touched => draftOf'[f] \in copied'
  <2> DEFINE j == <<"file", f>>
  <2>1. FileJobMoves(f) /\ StageMoves(f) /\ j \in Jobs /\ j[1] = "file" /\ j[2] = f
    BY FileMoves, StageSteps DEF Jobs
  <2>2. job[j] # "none" => stage[f] # "none"
    BY <2>1 DEF Typed, JobsKnown, Begun
  <2>3. /\ job[j] \in (Working \ {"waitBase"}) \cup {"finish"} => draftOf[f] \in copied
        /\ stage[f] \in Touched => draftOf[f] \in copied
    BY DEF AfterBase
  <2>4. job'[j] \in (Working \ {"waitBase"}) \cup {"finish"} => job[j] # "none" /\ draftOf[f] \in copied
    BY <2>1, <2>3 DEF FileJobMoves, Marks, Working, Touched
  <2>5. stage'[f] \in Touched => stage[f] # "none" /\ draftOf[f] \in copied
    BY <2>1, <2>2, <2>3 DEF StageMoves, Created, Touched, Working
  <2>6. stage[f] # "none" => draftOf'[f] = draftOf[f]
    BY SlotStays
  <2> QED
    BY <1>1, <2>2, <2>4, <2>5, <2>6
<1> QED
  BY <1>2 DEF AfterBase

(* The base of a draft and its rows do not change. *)
LEMMA BaseRowsStay ==
  ASSUME Typed, Final, BaseIsLive, Next, NEW d \in Drafts, state[d] # "none"
  PROVE  base'[d] = base[d] /\ base[d] \in Generations /\ rows'[base[d]] = rows[base[d]]
<1>1. base'[d] = base[d] /\ base[d] \in Generations
  BY BaseSteps DEF Typed, DraftsKnown
<1>2. WasSealed(base[d])
  BY DEF BaseIsLive, WasSealed
<1>3. PICK g \in Generations : g = base[d]
  BY <1>1
<1>4. WasSealed(g)
  BY <1>2, <1>3
<1> QED
  BY <1>1, <1>3, <1>4, RowsAreFinal

(* No file writes to a draft whose base was not copied. *)
LEMMA WritesAfterBase ==
  ASSUME AfterBase, NEW f \in Files, FileWrites(f)
  PROVE  draftOf[f] \in copied
  BY DEF AfterBase, FileWrites, Working, Touched

LEMMA FromBaseStep ==
  ASSUME Typed, Final, BaseIsLive, AfterBase, FromBase, Next
  PROVE  FromBase'
<1>1. ASSUME NEW d \in Drafts, NEW k \in Documents, d \notin copied', rows'[d][k] # "none"
      PROVE  state'[d] # "none" /\ rows'[d][k] = rows'[base'[d]][k]
  <2>1. d \notin copied /\ d \in Generations
    BY <1>1, CopiedSteps DEF Generations
  <2>2. ContentMoves(d)
    BY <2>1, ContentStep
  <2>3. rows[d][k] # "none" => state[d] # "none" /\ rows[d][k] = rows[base[d]][k]
    BY <2>1 DEF FromBase
  <2>4. state[d] # "none" /\ rows'[d][k] = rows[base[d]][k]
    <3>1. CASE rows'[d] = rows[d]
      BY <1>1, <2>3, <3>1
    <3>2. CASE Purges(d)
      BY <1>1, <2>3, <3>2 DEF Purges
    <3>3. CASE DraftWrites(d)
      BY <1>1, <2>3, <3>3 DEF DraftWrites, AcceptsWrites
    <3>4. CASE \E f \in Files : draftOf[f] = d /\ FileWrites(f)
      BY <2>1, <3>4, WritesAfterBase
    <3> QED
      BY <2>2, <3>1, <3>2, <3>3, <3>4 DEF ContentMoves
  <2> QED
    BY <2>1, <2>4, BaseRowsStay, StatesLast
<1> QED
  BY <1>1 DEF FromBase

LEMMA SlotsStep == ASSUME Typed, Checked, Final, Slots, Next PROVE Slots'
  BY OneHolderStep, BaseIsLiveStep, PreLiveStep, AfterBaseStep, FromBaseStep DEF Slots, Checked

-----------------------------------------------------------------------------
(* The inductive invariant, fifth part: every vector of a draft is named by*)
(* a row or remembered as a tombstone, also those a step has yet to write, *)
(* and nothing writes to a purged draft.                                   *)

Known(g) == Named(g) \cup tombstones[g]

BaseKnown(d, k) == rows[base[d]][k] # "none" => <<k, rows[base[d]][k]>> \in Known(d)

Accounted ==
  /\ \A g \in Generations : vectors[g] \subseteq Known(g)
  /\ \A g \in Generations : state[g] # "discarded" => tombstones[g] = {}
  /\ \A d \in Drafts : state[d] = "discarded" => d \notin open

FilesInFlight ==
  \A f \in Files :
    LET at == job[<<"file", f>>]
        d == draftOf[f]
        k == document[f]
    IN /\ at = "upsert" => <<k, f>> \in Known(d)
       /\ at = "restoreVectors" => BaseKnown(d, k)
       /\ at \in {"restore", "restoreVectors"} => rows[d][k] \in {"none", rows[base[d]][k]}

CopyInFlight ==
  \A d \in Drafts : job[<<"draft", d>>] = "copyVectors" => \A k \in Documents : BaseKnown(d, k)

Writers == {"chunk", "write", "upsert", "copyVectors", "restoreVectors"}

PurgedForGood ==
  \A d \in purged :
    /\ state[d] = "discarded"
    /\ \A j \in Jobs : job[j] \in Writers => DraftOf(j) # d
    /\ vectors[d] = {} /\ tombstones[d] = {} /\ \A k \in Documents : rows[d][k] = "none"

Emptied == Accounted /\ FilesInFlight /\ CopyInFlight /\ PurgedForGood

Content(r) == {<<k, r[k]>> : k \in {i \in Documents : r[i] # "none"}}

LEMMA NamedIsContent ==
  ASSUME NEW g
  PROVE  Named(g) = Content(rows[g]) /\ Named(g)' = Content(rows'[g])
  BY DEF Named, Content

LEMMA HasContent ==
  ASSUME NEW r, NEW v
  PROVE  v \in Content(r) <=> \E k \in Documents : r[k] # "none" /\ v = <<k, r[k]>>
  BY DEF Content

LEMMA EmptiedInit == Init => Emptied
<1> SUFFICES ASSUME Init PROVE Emptied
  OBVIOUS
<1>1. Accounted
  <2>1. ASSUME NEW g \in Generations PROVE vectors[g] \subseteq Known(g)
    <3>1. CASE g # Seed
      BY <3>1 DEF Init
    <3>2. CASE g = Seed
      <4>1. vectors[g] = SeedDocuments \X {"seed"}
        BY <3>2 DEF Init
      <4>2. ASSUME NEW v \in vectors[g] PROVE v \in Content(rows[g])
        <5>1. PICK k \in SeedDocuments : v = <<k, "seed">>
          BY <4>1, <4>2
        <5>2. k \in Documents /\ rows[g][k] = "seed"
          BY <3>2, <5>1, SeedHoldsDocuments DEF Init
        <5> QED
          BY <5>1, <5>2, HasContent
      <4> QED
        BY <4>2, NamedIsContent DEF Known
    <3> QED
      BY <3>1, <3>2
  <2>2. \A g \in Generations : tombstones[g] = {}
    BY DEF Init
  <2>3. open = {}
    BY DEF Init
  <2> QED
    BY <2>1, <2>2, <2>3 DEF Accounted
<1>2. \A j \in Jobs : job[j] = "none"
  BY DEF Init
<1>3. FilesInFlight /\ CopyInFlight
  BY <1>2 DEF FilesInFlight, CopyInFlight, Jobs
<1>4. purged = {}
  BY DEF Init
<1> QED
  BY <1>1, <1>3, <1>4 DEF Emptied, PurgedForGood

LEMMA EmptiedStays == Emptied /\ UNCHANGED vars => Emptied'
  BY DEF vars, generations, checking, uploads, content, requests, Emptied, Accounted, Known, Named,
     FilesInFlight, BaseKnown, CopyInFlight, PurgedForGood, DraftOf

(* The row of a file that holds its document is changed by the file alone, *)
(* or with its draft.                                                      *)
LEMMA SlotSteps ==
  ASSUME Typed, Final, Slots, Next, NEW f \in Files, ~Idle(f), stage[f] # "none",
         NEW d \in Drafts, NEW k \in Documents, d = draftOf[f], k = document[f], d \in copied
  PROVE  \/ rows'[d][k] = rows[d][k] /\ tombstones'[d] = tombstones[d]
         \/ Purges(d)
         \/ FileWrites(f) /\ tombstones'[d] = tombstones[d]
<1>1. ContentMoves(d)
  BY ContentStep DEF Generations
<1>2. ~DraftWrites(d)
  BY DEF DraftWrites, Final, BaseIsCopied
<1>3. ASSUME NEW o \in Files, o # f, draftOf[o] = d, FileWrites(o) PROVE rows'[d][k] = rows[d][k]
  <2>1. ~Idle(o)
    BY <1>3 DEF FileWrites, Idle, Working
  <2>2. document[o] # k
    BY <1>3, <2>1 DEF Slots, OneHolder, SameSlot
  <2> QED
    BY <1>3, <2>2 DEF FileWrites, SetsRow
<1> QED
  BY <1>1, <1>2, <1>3 DEF ContentMoves

(* What is known stays so while its row does, or becomes a tombstone.      *)
LEMMA KnownStays ==
  ASSUME Typed, NEW d \in Drafts, NEW k \in Documents, NEW x, <<k, x>> \in Known(d),
         (Purges(d) /\ ~GraceIsOver(d)) \/ (rows'[d][k] = rows[d][k] /\ tombstones'[d] = tombstones[d])
  PROVE  <<k, x>> \in Known(d)'
<1>1. CASE Purges(d) /\ ~GraceIsOver(d)
  BY <1>1, NamedIsContent DEF Purges, Known
<1>2. CASE rows'[d][k] = rows[d][k] /\ tombstones'[d] = tombstones[d]
  <2>1. <<k, x>> \in Content(rows[d]) => <<k, x>> \in Content(rows'[d])
    BY <1>2, HasContent
  <2> QED
    BY <1>2, <2>1, NamedIsContent DEF Known
<1> QED
  BY <1>1, <1>2

(* A base lost nothing, so its vectors are those its rows name.            *)
LEMMA BaseVectors ==
  ASSUME Typed, BaseIsLive, Accounted, NEW d \in Drafts, state[d] # "none", NEW v \in vectors[base[d]]
  PROVE  \E k \in Documents : rows[base[d]][k] # "none" /\ v = <<k, rows[base[d]][k]>>
<1>1. base[d] \in Generations /\ state[base[d]] # "discarded"
  BY DEF BaseIsLive, Typed, DraftsKnown
<1>2. v \in Content(rows[base[d]])
  BY <1>1, NamedIsContent DEF Accounted, Known
<1> QED
  BY <1>2, HasContent

LEMMA VectorsKnown ==
  ASSUME Typed, Final, Slots, Emptied, Next, NEW g \in Generations
  PROVE  vectors'[g] \subseteq Known(g)'
<1>0. Accounted /\ FilesInFlight /\ CopyInFlight /\ AfterBase /\ BaseIsLive /\ FromBase
  BY DEF Emptied, Slots
<1>1. vectors[g] \subseteq Content(rows[g]) \cup tombstones[g]
  BY <1>0, NamedIsContent DEF Accounted, Known
<1>2. ContentMoves(g)
  BY ContentStep
<1> SUFFICES ASSUME NEW v \in vectors'[g]
             PROVE  v \in Content(rows'[g]) \cup tombstones'[g]
  BY NamedIsContent DEF Known
<1>3. CASE rows'[g] = rows[g] /\ vectors'[g] = vectors[g] /\ tombstones'[g] = tombstones[g]
  BY <1>1, <1>3
<1>4. CASE Purges(g)
  BY <1>1, <1>4, NamedIsContent DEF Purges
<1>5. ASSUME NEW i \in Documents, rows[g][i] # "none", v = <<i, rows[g][i]>>, rows'[g][i] = rows[g][i]
      PROVE  v \in Content(rows'[g])
  BY <1>5, HasContent
<1>6. CASE g \in Drafts /\ tombstones'[g] = tombstones[g] /\ DraftWrites(g)
  <2>1. CASE job[<<"draft", g>>] = "copyVectors" /\ rows'[g] = rows[g] /\ v \in vectors[base[g]]
    <3>1. state[g] # "none"
      BY <1>6, <2>1 DEF Typed, JobsKnown, Begun, Jobs
    <3>2. PICK k \in Documents : rows[base[g]][k] # "none" /\ v = <<k, rows[base[g]][k]>>
      BY <1>0, <1>6, <2>1, <3>1, BaseVectors
    <3>3. v \in Known(g)
      BY <1>0, <1>6, <2>1, <3>2 DEF CopyInFlight, BaseKnown
    <3> QED
      BY <1>6, <2>1, <3>3, NamedIsContent DEF Known
  <2>2. CASE v \in vectors[g] /\ rows'[g] = rows[g]
    BY <1>1, <1>6, <2>2
  <2>3. CASE job[<<"draft", g>>] = "copy" /\ v \in vectors[g] /\ DraftWrites(g)
    <3>1. g \notin copied
      BY <1>6, <2>3 DEF Final, BaseIsCopied
    <3>2. CASE v \in Content(rows[g])
      <4>1. PICK i \in Documents : rows[g][i] # "none" /\ v = <<i, rows[g][i]>>
        BY <3>2, HasContent
      <4>2. rows[g][i] = rows[base[g]][i]
        BY <1>0, <1>6, <3>1, <4>1 DEF FromBase
      <4>3. rows'[g][i] = rows[g][i]
        BY <2>3, <4>1, <4>2 DEF DraftWrites
      <4> QED
        BY <1>5, <4>1, <4>3
    <3> QED
      BY <1>1, <1>6, <2>3, <3>2
  <2> QED
    BY <1>6, <2>1, <2>2, <2>3 DEF DraftWrites
<1>7. ASSUME NEW f \in Files, g \in Drafts, tombstones'[g] = tombstones[g], draftOf[f] = g, FileWrites(f)
      PROVE  v \in Content(rows'[g]) \cup tombstones'[g]
  <2> DEFINE at == job[<<"file", f>>]
             k == document[f]
  <2>1. k \in Documents /\ state[g] # "none"
    BY <1>7 DEF FileWrites, Typed, FilesKnown
  <2>2. ASSUME v \in vectors[g], v # <<k, rows[g][k]>>, NEW x, SetsRow(g, k, x)
        PROVE  v \in Content(rows'[g]) \cup tombstones'[g]
    <3>1. CASE v \in Content(rows[g])
      <4>1. PICK i \in Documents : rows[g][i] # "none" /\ v = <<i, rows[g][i]>>
        BY <3>1, HasContent
      <4>2. rows'[g][i] = rows[g][i]
        BY <2>2, <4>1 DEF SetsRow
      <4> QED
        BY <1>5, <4>1, <4>2
    <3> QED
      BY <1>1, <1>7, <2>2, <3>1
  <2>3. ASSUME rows'[g] = rows[g], v \in Known(g) PROVE v \in Content(rows'[g]) \cup tombstones'[g]
    BY <1>7, <2>3, NamedIsContent DEF Known
  <2>4. v \in vectors[g] => v \in Known(g)
    BY <1>0 DEF Accounted
  <2>5. CASE at \in {"write", "remove"}
    <3>1. v \in vectors[g] /\ v # <<k, rows[g][k]>>
      BY <1>7, <2>5 DEF FileWrites, Drops
    <3>2. \E x : SetsRow(g, k, x)
      BY <1>7, <2>5 DEF FileWrites
    <3> QED
      BY <2>2, <3>1, <3>2
  <2>6. CASE at = "upsert"
    <3>1. rows'[g] = rows[g] /\ (v \in vectors[g] \/ v = <<k, f>>)
      BY <1>7, <2>6 DEF FileWrites
    <3>2. <<k, f>> \in Known(g)
      BY <1>0, <1>7, <2>6 DEF FilesInFlight
    <3> QED
      BY <2>3, <2>4, <3>1, <3>2
  <2>7. CASE at = "restore"
    <3>1. v \in vectors[g] /\ SetsRow(g, k, rows[base[g]][k])
      BY <1>7, <2>7 DEF FileWrites
    <3>2. rows[g][k] \in {"none", rows[base[g]][k]}
      BY <1>0, <1>7, <2>7 DEF FilesInFlight
    <3>3. CASE v = <<k, rows[g][k]>> /\ v \in Content(rows[g])
      <4>1. PICK i \in Documents : rows[g][i] # "none" /\ v = <<i, rows[g][i]>>
        BY <3>3, HasContent
      <4>2. i = k
        BY <3>3, <4>1
      <4>3. rows'[g][i] = rows[g][i]
        BY <2>1, <3>1, <3>2, <4>1, <4>2 DEF SetsRow
      <4> QED
        BY <1>5, <4>1, <4>3
    <3> QED
      BY <1>1, <1>7, <2>2, <3>1, <3>3
  <2>8. CASE at = "restoreVectors"
    <3>1. rows'[g] = rows[g] /\ (v \in vectors[g] \/ (v \in vectors[base[g]] /\ v[1] = k))
      BY <1>7, <2>8 DEF FileWrites
    <3>2. CASE v \in vectors[base[g]] /\ v[1] = k
      <4>1. PICK i \in Documents : rows[base[g]][i] # "none" /\ v = <<i, rows[base[g]][i]>>
        BY <1>0, <1>7, <2>1, <3>2, BaseVectors
      <4>2. v = <<k, rows[base[g]][k]>> /\ rows[base[g]][k] # "none"
        BY <3>2, <4>1
      <4>3. v \in Known(g)
        BY <1>0, <1>7, <2>8, <4>2 DEF FilesInFlight, BaseKnown
      <4> QED
        BY <2>3, <3>1, <4>3
    <3> QED
      BY <2>3, <2>4, <3>1, <3>2
  <2> QED
    BY <1>7, <2>5, <2>6, <2>7, <2>8 DEF FileWrites
<1> QED
  BY <1>2, <1>3, <1>4, <1>6, <1>7 DEF ContentMoves

LEMMA AccountedStep == ASSUME Typed, Checked, Final, Slots, Emptied, Next PROVE Accounted'
<1>1. ASSUME NEW g \in Generations, state'[g] # "discarded" PROVE tombstones'[g] = {}
  <2>1. state[g] # "discarded"
    BY <1>1, StateSteps DEF StatesMove, StateMoves, PreLive
  <2>2. ~Purges(g)
    BY <2>1 DEF Purges
  <2> QED
    BY <2>1, <2>2, ContentStep DEF ContentMoves, Emptied, Accounted
<1>2. ASSUME NEW d \in Drafts, state'[d] = "discarded" PROVE d \notin open'
  <2>1. CASE state[d] # "discarded"
    BY <1>2, <2>1, DiscardSteps
  <2>2. CASE state[d] = "discarded"
    <3>1. d \notin open
      BY <2>2 DEF Emptied, Accounted
    <3>2. OpenMoves
      BY OpenSteps DEF Checked
    <3> QED
      BY <1>2, <3>1, <3>2 DEF OpenMoves
  <2> QED
    BY <2>1, <2>2
<1> QED
  BY <1>1, <1>2, VectorsKnown DEF Accounted

LEMMA FilesInFlightStep == ASSUME Typed, Final, Slots, Emptied, Next PROVE FilesInFlight'
<1>0. Accounted /\ FilesInFlight /\ AfterBase /\ BaseIsLive
  BY DEF Emptied, Slots
<1>1. ASSUME NEW f \in Files, job'[<<"file", f>>] \in {"upsert", "restore", "restoreVectors"},
             NEW d \in Drafts, NEW k \in Documents, d = draftOf[f], k = document[f],
             draftOf'[f] = d, document'[f] = k, stage[f] # "none"
      PROVE  /\ job'[<<"file", f>>] = "upsert" => <<k, f>> \in Known(d)'
             /\ job'[<<"file", f>>] = "restoreVectors" => BaseKnown(d, k)'
             /\ job'[<<"file", f>>] \in {"restore", "restoreVectors"} =>
                  rows'[d][k] \in {"none", rows'[base'[d]][k]}
  <2> DEFINE j == <<"file", f>>
             at == job[j]
             to == job'[j]
             b == rows[base[d]][k]
  <2>1. FileJobMoves(f) /\ j \in Jobs /\ DraftOf(j) = d /\ f # "none"
    BY <1>1, FileMoves, UploadsAreApart DEF Jobs, DraftOf
  <2>2. \/ at = "embed" /\ to = "upsert" /\ AcceptsWrites(d) /\ rows[d][k] = f
        \/ at = "remove" /\ to = "restore" /\ stage[f] \in {"chunking", "embedding"} /\ rows'[d][k] = "none"
        \/ at = "restore" /\ to = "restoreVectors" /\ rows'[d][k] = b
        \/ at = "restoreVectors" /\ to = "restore"
        \/ at = to
    BY <1>1, <2>1 DEF FileJobMoves, Marks
  <2>3. d \in copied /\ ~Idle(f)
    BY <1>0, <1>1, <2>2 DEF AfterBase, Idle, Working, Touched
  <2>4. \/ rows'[d][k] = rows[d][k] /\ tombstones'[d] = tombstones[d]
        \/ Purges(d)
        \/ FileWrites(f) /\ tombstones'[d] = tombstones[d]
    BY <1>1, <2>3, SlotSteps
  <2>5. rows'[base'[d]][k] = b
    <3>1. state[d] # "none"
      BY <1>1 DEF Typed, FilesKnown
    <3> QED
      BY <1>0, <3>1, BaseRowsStay
  <2>6. at \in Writers => ~GraceIsOver(d)
    BY <2>1 DEF GraceIsOver, Writers
  <2>7. AcceptsWrites(d) => ~Purges(d)
    BY <1>0 DEF Accounted, AcceptsWrites, Purges
  <2>8. ASSUME at \in {"upsert", "restoreVectors"}, NEW x, <<k, x>> \in Known(d) PROVE <<k, x>> \in Known(d)'
    <3>1. \/ Purges(d) /\ ~GraceIsOver(d)
          \/ rows'[d][k] = rows[d][k] /\ tombstones'[d] = tombstones[d]
      BY <1>1, <2>4, <2>6, <2>8 DEF FileWrites, Writers
    <3> QED
      BY <2>8, <3>1, KnownStays
  <2>9. ASSUME to = "upsert" PROVE <<k, f>> \in Known(d)'
    <3>1. CASE at = "upsert"
      BY <1>0, <1>1, <2>8, <3>1 DEF FilesInFlight
    <3>2. CASE at = "embed"
      <4>1. rows'[d][k] = f
        BY <1>1, <2>2, <2>4, <2>7, <2>9, <3>2 DEF FileWrites
      <4>2. <<k, f>> \in Content(rows'[d])
        BY <2>1, <4>1, HasContent
      <4> QED
        BY <4>2, NamedIsContent DEF Known
    <3> QED
      BY <2>2, <2>9, <3>1, <3>2
  <2>10. ASSUME to = "restoreVectors" PROVE BaseKnown(d, k)'
    <3>1. CASE at = "restoreVectors"
      <4>1. b # "none" => <<k, b>> \in Known(d)
        BY <1>0, <1>1, <3>1 DEF FilesInFlight, BaseKnown
      <4>2. b # "none" => <<k, b>> \in Known(d)'
        BY <2>8, <3>1, <4>1
      <4> QED
        BY <2>5, <4>2 DEF BaseKnown
    <3>2. CASE at = "restore"
      <4>1. rows'[d][k] = b
        BY <2>2, <2>10, <3>2
      <4>2. b # "none" => <<k, b>> \in Content(rows'[d])
        BY <4>1, HasContent
      <4> QED
        BY <2>5, <4>2, NamedIsContent DEF BaseKnown, Known
    <3> QED
      BY <2>2, <2>10, <3>1, <3>2
  <2>11. ASSUME to \in {"restore", "restoreVectors"} PROVE rows'[d][k] \in {"none", b}
    <3>1. CASE at \in {"restore", "restoreVectors"}
      <4>1. rows[d][k] \in {"none", b}
        BY <1>0, <1>1, <3>1 DEF FilesInFlight
      <4>2. FileWrites(f) => rows'[d][k] \in {"none", b}
        BY <1>1, <3>1, <4>1 DEF FileWrites, SetsRow
      <4>3. Purges(d) => rows'[d][k] \in {"none", b}
        BY <4>1 DEF Purges
      <4> QED
        BY <2>4, <4>1, <4>2, <4>3
    <3>2. CASE at = "remove"
      BY <2>2, <2>11, <3>2
    <3> QED
      BY <2>2, <2>11, <3>1, <3>2
  <2> QED
    BY <2>5, <2>9, <2>10, <2>11
<1>2. ASSUME NEW f \in Files, job'[<<"file", f>>] \in {"upsert", "restore", "restoreVectors"}
      PROVE  /\ stage[f] # "none" /\ draftOf[f] \in Drafts /\ document[f] \in Documents
             /\ draftOf'[f] = draftOf[f] /\ document'[f] = document[f]
  <2>1. job[<<"file", f>>] # "none"
    BY <1>2, FileMoves DEF FileJobMoves, Marks
  <2>2. stage[f] # "none"
    BY <2>1 DEF Typed, JobsKnown, Begun, Jobs
  <2> QED
    BY <2>2, SlotStays
<1> QED
  BY <1>1, <1>2 DEF FilesInFlight

LEMMA CopyInFlightStep == ASSUME Typed, Final, Slots, Emptied, Next PROVE CopyInFlight'
<1>0. Accounted /\ CopyInFlight /\ AfterBase /\ BaseIsLive
  BY DEF Emptied, Slots
<1>1. ASSUME NEW d \in Drafts, job'[<<"draft", d>>] = "copyVectors", NEW k \in Documents
      PROVE  BaseKnown(d, k)'
  <2> DEFINE j == <<"draft", d>>
             b == rows[base[d]][k]
  <2>1. DraftJobMoves(d) /\ j \in Jobs /\ DraftOf(j) = d
    BY DraftMoves DEF Jobs, DraftOf
  <2>2. \/ job[j] = "copyVectors"
        \/ job[j] = "copy" /\ rows'[d][k] = IF b = "none" THEN rows[d][k] ELSE b
    BY <1>1, <2>1 DEF DraftJobMoves
  <2>3. rows'[base'[d]][k] = b
    <3>1. state[d] # "none"
      BY <2>1, <2>2 DEF Typed, JobsKnown, Begun
    <3> QED
      BY <1>0, <3>1, BaseRowsStay
  <2>4. CASE job[j] = "copyVectors"
    <3>1. d \notin copied /\ ~GraceIsOver(d)
      BY <2>1, <2>4 DEF Final, BaseIsCopied, GraceIsOver
    <3>2. ContentMoves(d)
      BY ContentStep DEF Generations
    <3>3. Purges(d) \/ (rows'[d][k] = rows[d][k] /\ tombstones'[d] = tombstones[d])
      BY <1>0, <2>4, <3>1, <3>2, WritesAfterBase DEF ContentMoves, DraftWrites
    <3>4. b # "none" => <<k, b>> \in Known(d)
      BY <1>0, <2>4 DEF CopyInFlight, BaseKnown
    <3> QED
      BY <2>3, <3>1, <3>3, <3>4, KnownStays DEF BaseKnown
  <2>5. CASE job[j] = "copy"
    <3>1. b # "none" => rows'[d][k] = b
      BY <2>2, <2>5
    <3>2. b # "none" => <<k, b>> \in Content(rows'[d])
      BY <3>1, HasContent
    <3> QED
      BY <2>3, <3>2, NamedIsContent DEF BaseKnown, Known
  <2> QED
    BY <2>2, <2>4, <2>5
<1> QED
  BY <1>1 DEF CopyInFlight

(* A step that writes begins only while the draft accepts writes. *)
LEMMA WritersBegin ==
  ASSUME Typed, Next, NEW j \in Jobs, job'[j] \in Writers
  PROVE  /\ job[j] # "none" /\ DraftOf(j)' = DraftOf(j)
         /\ job[j] \in Writers \/ AcceptsWrites(DraftOf(j))
<1>1. Typed'
  BY TypedStep
<1>2. job'[j] \in FileSteps => j[1] = "file"
  BY <1>1 DEF Typed, JobsKnown
<1>3. CASE job'[j] = "copyVectors"
  <2>1. j[1] = "draft" /\ j[2] \in Drafts /\ j = <<"draft", j[2]>>
    BY <1>1, <1>3, JobForms DEF Typed, JobsKnown, DraftSteps
  <2>2. DraftJobMoves(j[2])
    BY <2>1, DraftMoves
  <2>3. job[j] = "copyVectors" \/ (job[j] = "copy" /\ AcceptsWrites(j[2]))
    BY <1>3, <2>1, <2>2 DEF DraftJobMoves
  <2> QED
    BY <2>1, <2>3, DraftOfStays DEF Writers, DraftOf
<1>4. CASE job'[j] # "copyVectors"
  <2>1. j[1] = "file" /\ j[2] \in Files /\ j = <<"file", j[2]>>
    BY <1>2, <1>4, JobForms DEF Writers, FileSteps
  <2>2. FileJobMoves(j[2])
    BY <2>1, FileMoves
  <2>3. \/ job[j] \in Writers
        \/ job[j] \in {"fetch", "embed", "restore"} /\ AcceptsWrites(draftOf[j[2]])
    BY <1>4, <2>1, <2>2 DEF FileJobMoves, Writers, Marks
  <2>4. job[j] # "none"
    BY <2>3 DEF Writers
  <2> QED
    BY <2>1, <2>3, <2>4, DraftOfStays DEF DraftOf
<1> QED
  BY <1>3, <1>4

LEMMA PurgedStep == ASSUME Typed, Final, Slots, Emptied, Next PROVE PurgedForGood'
<1>0. Accounted /\ PurgedForGood /\ AfterBase
  BY DEF Emptied, Slots
<1>1. ASSUME NEW d \in purged, NEW j \in Jobs, job'[j] \in Writers PROVE DraftOf(j)' # d
  <2>1. d \notin open /\ d \in Drafts
    BY <1>0 DEF PurgedForGood, Accounted, Typed, TypeOK
  <2>2. ~AcceptsWrites(d)
    BY <2>1 DEF AcceptsWrites
  <2> QED
    BY <1>0, <1>1, <2>2, WritersBegin DEF PurgedForGood
<1>2. ASSUME NEW d \in purged
      PROVE  /\ d \in Drafts /\ state'[d] = "discarded"
             /\ vectors'[d] = {} /\ tombstones'[d] = {} /\ \A k \in Documents : rows'[d][k] = "none"
  <2>1. d \in Drafts /\ d \in Generations /\ state[d] = "discarded" /\ ~AcceptsWrites(d)
    BY <1>0 DEF PurgedForGood, Accounted, AcceptsWrites, Typed, TypeOK, Generations
  <2>2. state'[d] = "discarded"
    BY <2>1, StateSteps DEF StatesMove, StateMoves, PreLive, Failed
  <2>3. \A j \in Jobs : DraftOf(j) = d => job[j] \notin Writers
    BY <1>0 DEF PurgedForGood
  <2>4. ~DraftWrites(d)
    <3>1. <<"draft", d>> \in Jobs /\ DraftOf(<<"draft", d>>) = d
      BY <2>1 DEF Jobs, DraftOf
    <3> QED
      BY <2>1, <2>3, <3>1 DEF DraftWrites, Writers
  <2>5. ASSUME NEW f \in Files, draftOf[f] = d PROVE ~FileWrites(f)
    <3>1. <<"file", f>> \in Jobs /\ DraftOf(<<"file", f>>) = d
      BY <2>5 DEF Jobs, DraftOf
    <3> QED
      BY <2>1, <2>3, <2>5, <3>1 DEF FileWrites, Writers
  <2>6. rows'[d] = rows[d] /\ vectors'[d] = vectors[d] /\ tombstones'[d] = tombstones[d]
    BY <2>1, <2>4, <2>5, ContentStep DEF ContentMoves, Purges
  <2> QED
    BY <1>0, <2>1, <2>2, <2>6 DEF PurgedForGood
<1>3. ASSUME NEW d \in purged', d \notin purged
      PROVE  /\ state'[d] = "discarded" /\ \A j \in Jobs : job'[j] \in Writers => DraftOf(j)' # d
             /\ vectors'[d] = {} /\ tombstones'[d] = {} /\ \A k \in Documents : rows'[d][k] = "none"
  <2>1. /\ d \in Drafts /\ state[d] = "discarded" /\ GraceIsOver(d) /\ job' = job
        /\ vectors'[d] = vectors[d] \ (tombstones[d] \cup Named(d))
        /\ tombstones'[d] = {} /\ \A k \in Documents : rows'[d][k] = "none"
    BY <1>3, PurgedSteps
  <2>2. vectors'[d] = {}
    BY <1>0, <2>1 DEF Accounted, Known, Generations
  <2>3. state'[d] = "discarded"
    BY <2>1, StateSteps DEF StatesMove, StateMoves, PreLive, Failed, Generations
  <2>4. \A j \in Jobs : job'[j] \in Writers => DraftOf(j)' # d
    BY <2>1, WritersBegin DEF GraceIsOver, Writers
  <2> QED
    BY <2>1, <2>2, <2>3, <2>4
<1> QED
  BY <1>1, <1>2, <1>3 DEF PurgedForGood

LEMMA EmptiedStep == ASSUME Typed, Checked, Final, Slots, Emptied, Next PROVE Emptied'
  BY AccountedStep, FilesInFlightStep, CopyInFlightStep, PurgedStep DEF Emptied

(* Spec keeps the parts of the invariant so far. *)
LEMMA EmptiedAlways == Spec => [](Typed /\ Checked /\ Final /\ Slots /\ Emptied)
<1> DEFINE Inv == Typed /\ Checked /\ Final /\ Slots /\ Emptied
<1>1. Init => Inv
  BY TypedInit, CheckedInit, FinalInit, SlotsInit, EmptiedInit
<1>2. Inv /\ [Next]_vars => Inv'
  <2>1. CASE Next
    BY <2>1, TypedStep, CheckedStep, FinalStep, SlotsStep, EmptiedStep
  <2>2. CASE UNCHANGED vars
    BY <2>2, TypedStep, CheckedStays, FinalStays, SlotsStay, EmptiedStays
  <2> QED
    BY <2>1, <2>2
<1> QED
  BY <1>1, <1>2, PTL DEF Spec

(* A purged draft has left nothing behind, whatever was running when it    *)
(* was discarded (purgeDiscardedDraft, discarded_vectors).                 *)
THEOREM PurgedLeavesNothing == Spec => []PurgedIsEmpty
<1>1. Typed /\ Emptied => PurgedIsEmpty
  <2> SUFFICES ASSUME Typed, Emptied, NEW d \in purged
               PROVE  vectors[d] = {} /\ tombstones[d] = {} /\ Named(d) = {}
    BY DEF PurgedIsEmpty
  <2>1. vectors[d] = {} /\ tombstones[d] = {} /\ \A k \in Documents : rows[d][k] = "none"
    BY DEF Emptied, PurgedForGood
  <2> QED
    BY <2>1 DEF Named
<1> QED
  BY <1>1, EmptiedAlways, PTL

-----------------------------------------------------------------------------
(* The inductive invariant, sixth part: what the rows of a draft are while *)
(* its files are worked on.                                                *)

BaseRow(d, k) == rows[base[d]][k]

RowIsOf(f) == rows[draftOf[f]][document[f]] = f

RowIsBase(f) == rows[draftOf[f]][document[f]] = BaseRow(draftOf[f], document[f])

Indexed == {"chunking", "embedding"}

FileRows(f) ==
  LET at == job[<<"file", f>>]
  IN /\ at \in {"write", "embed", "upsert", "restore", "restoreVectors"} => stage[f] \in Indexed
     /\ at = "finish" => stage[f] \in Touched
     /\ at \in {"embed", "upsert", "finish"} => RowIsOf(f)
     /\ at = "restoreVectors" => RowIsBase(f)
     /\ at = "mark" /\ stage[f] \in Indexed => RowIsBase(f)
     /\ stage[f] = "ready" => RowIsOf(f)

FilesRows ==
  \A f \in Files : draftOf[f] \in Drafts /\ state[draftOf[f]] \notin Failed => FileRows(f)

(* A row with a file's content is of a file that was created, and the base *)
(* never holds a file of the draft itself.                                 *)
Fresh ==
  /\ \A g \in Generations, k \in Documents : rows[g][k] \in Files => stage[rows[g][k]] # "none"
  /\ \A d \in Drafts, k \in Documents :
       state[d] # "none" /\ BaseRow(d, k) \in Files => draftOf[BaseRow(d, k)] # d

DraftRows ==
  \A d \in Drafts, k \in Documents : state[d] \notin Failed =>
    /\ job[<<"draft", d>>] \in {"copyVectors", "copied"} /\ d \notin copied => rows[d][k] = BaseRow(d, k)
    /\ d \in copied =>
         \/ rows[d][k] = BaseRow(d, k)
         \/ \E f \in Files : draftOf[f] = d /\ document[f] = k /\ stage[f] \in Touched

(* The vectors that were found complete stay so. *)
Complete ==
  \A j \in Jobs : job[j] \in {"pass", "ready"} /\ state[DraftOf(j)] \notin Failed =>
     vectors[DraftOf(j)] = Named(DraftOf(j))

Whole == FilesRows /\ Fresh /\ DraftRows /\ Complete /\ CheckedVectors

LEMMA WholeInit == Init => Whole
<1> SUFFICES ASSUME Init PROVE Whole
  OBVIOUS
<1>1. \A d \in Drafts : state[d] = "none" /\ d \in Generations /\ d \notin copied
  BY SeedIsNoDraft DEF Init, Generations
<1>2. /\ \A f \in Files : draftOf[f] = None
      /\ \A j \in Jobs : job[j] = "none"
      /\ \A d \in Drafts : <<"draft", d>> \in Jobs
  BY DEF Init, Jobs
<1>3. \A g \in Generations, k \in Documents : rows[g][k] \in {"none", "seed"}
  BY DEF Init
<1>4. FilesRows /\ Complete
  BY <1>2, SeedIsNoDraft DEF FilesRows, Complete
<1>5. Fresh
  BY <1>1, <1>3, UploadsAreApart DEF Fresh
<1>6. DraftRows /\ CheckedVectors
  BY <1>1, <1>2 DEF DraftRows, CheckedVectors
<1> QED
  BY <1>4, <1>5, <1>6 DEF Whole

LEMMA WholeStays == Whole /\ UNCHANGED vars => Whole'
  BY DEF vars, generations, checking, uploads, content, requests, Whole, FilesRows, FileRows, RowIsOf, RowIsBase,
     BaseRow, Fresh, DraftRows, Complete, CheckedVectors, Named, DraftOf

LEMMA FilesRowsStep == ASSUME Typed, Checked, Final, Slots, Whole, Next PROVE FilesRows'
<1>0. AfterBase /\ BaseIsLive /\ PreLiveIsOpen /\ ClosesEnded /\ FilesWork /\ FilesRows
  BY DEF Slots, Checked, Final, Whole
<1>1. ASSUME NEW f \in Files, NEW d \in Drafts, NEW k \in Documents, d = draftOf[f], k = document[f],
             draftOf'[f] = d, document'[f] = k, stage[f] # "none", state'[d] \notin Failed
      PROVE  FileRows(f)'
  <2> DEFINE j == <<"file", f>>
             at == job[j]
             to == job'[j]
             b == rows[base[d]][k]
  <2>1. FileJobMoves(f) /\ StageMoves(f) /\ j \in Jobs /\ DraftOf(j) = d
    BY <1>1, FileMoves, StageSteps DEF Jobs, DraftOf
  <2>2. state[d] \notin Failed /\ state[d] # "none" /\ state[d] \in States /\ stage[f] \in Stages
    BY <1>1, StatesLast DEF Generations, Typed, TypeOK, FilesKnown
  <2>3. FileRows(f)
    BY <1>0, <1>1, <2>2 DEF FilesRows
  <2>4. /\ at \in Working => stage[f] \notin Ended
        /\ WasSealed(d) => stage[f] \in Ended
    BY <1>0, <1>1, <2>2 DEF FilesWork
  <2>5. rows'[base'[d]][k] = b
    BY <1>0, <2>2, BaseRowsStay
  <2>6. ~Purges(d)
    BY <2>2 DEF Purges, Failed
  <2>7. ASSUME at \in {"embed", "upsert", "finish", "restoreVectors"} \/ stage[f] \in Touched
        PROVE  rows'[d][k] = rows[d][k] \/ (FileWrites(f) /\ at \in {"write", "remove", "restore"})
    <3>1. ~Idle(f) /\ d \in copied
      BY <1>0, <1>1, <2>3, <2>7 DEF Idle, AfterBase, Working, Touched, FileRows, Indexed
    <3>2. \/ rows'[d][k] = rows[d][k]
          \/ FileWrites(f)
      BY <1>1, <2>6, <3>1, SlotSteps
    <3> QED
      BY <1>1, <3>2 DEF FileWrites
  <2>8. stage[f] \in Indexed => AcceptsWrites(d)
    <3>1. stage[f] \in Indexed => state[d] \in {"draft", "indexing"}
      BY <2>2, <2>4 DEF WasSealed, Indexed, Ended, States, PreLive, Failed
    <3> QED
      BY <1>0, <3>1 DEF PreLiveIsOpen, PreLive, AcceptsWrites
  <2>9. state'[draftOf[f]] # "discarded" /\ ~Created(f)
    BY <1>1 DEF Failed, Created
  <2>10. to \in {"write", "embed", "upsert", "restore", "restoreVectors"} => stage'[f] \in Indexed
    <3>1. CASE at = to
      BY <1>1, <2>1, <2>3, <2>9, <3>1 DEF StageMoves, FileRows, Indexed
    <3>2. CASE at = "chunk"
      BY <1>1, <2>1, <2>2, <2>4, <3>2 DEF FileJobMoves, Marks, Working, Ended, Indexed, Stages
    <3>3. CASE at \in {"write", "embed", "upsert", "restore", "restoreVectors"}
      BY <1>1, <2>1, <2>3, <2>9, <3>3 DEF StageMoves, FileRows, Indexed
    <3>4. CASE at = "remove"
      <4>1. to = "restore" => stage[f] \in Indexed
        BY <2>1, <3>4 DEF FileJobMoves, Marks, Indexed
      <4> QED
        BY <2>1, <2>9, <3>4, <4>1 DEF FileJobMoves, Marks, StageMoves, Indexed
    <3> QED
      BY <2>1, <3>1, <3>2, <3>3, <3>4 DEF FileJobMoves, Marks
  <2>11. to = "finish" => stage'[f] \in Touched
    <3>1. to = "finish" => at \in {"embed", "upsert", "finish"}
      BY <2>1 DEF FileJobMoves, Marks
    <3> QED
      BY <1>1, <2>1, <2>3, <2>9, <3>1 DEF StageMoves, FileRows, Indexed, Touched
  <2>12. to \in {"embed", "upsert", "finish"} => rows'[d][k] = f
    <3>1. CASE at \in {"embed", "upsert", "finish"}
      BY <1>1, <2>3, <2>7, <3>1 DEF FileRows, RowIsOf
    <3>2. CASE at \notin {"embed", "upsert", "finish"}
      BY <1>1, <2>1, <3>2 DEF FileJobMoves, Marks
    <3> QED
      BY <3>1, <3>2
  <2>13. to = "restoreVectors" => rows'[d][k] = b
    <3>1. CASE at = "restoreVectors"
      BY <1>1, <2>3, <2>7, <3>1 DEF FileRows, RowIsBase, BaseRow
    <3>2. CASE at # "restoreVectors"
      BY <1>1, <2>1, <3>2 DEF FileJobMoves, Marks
    <3> QED
      BY <3>1, <3>2
  <2>14. to = "mark" /\ stage'[f] \in Indexed => rows'[d][k] = b
    <3>1. CASE at = "mark"
      <4>1. stage'[f] \in Indexed => stage[f] \in Indexed
        BY <2>1, <2>9, <3>1 DEF StageMoves, Indexed
      <4> QED
        BY <1>1, <2>3, <2>7, <3>1, <4>1 DEF FileRows, RowIsBase, BaseRow, Touched, Indexed
    <3>2. CASE at = "restoreVectors"
      BY <1>1, <2>3, <2>7, <3>2 DEF FileRows, RowIsBase, BaseRow
    <3>3. CASE at = "remove"
      <4>1. stage'[f] \in Indexed => stage[f] \in Indexed
        BY <2>1, <2>9, <3>3 DEF StageMoves, Indexed
      <4> QED
        BY <1>1, <2>1, <2>8, <3>3, <4>1 DEF FileJobMoves, Marks, Indexed
    <3>4. CASE at = "closeDraft"
      <4>1. state[d] \notin PreLive
        BY <1>0, <2>1, <3>4 DEF ClosesEnded
      <4>2. WasSealed(d)
        BY <2>2, <4>1 DEF States, WasSealed
      <4>3. stage'[f] \notin Indexed
        BY <2>1, <2>4, <2>9, <3>4, <4>2 DEF StageMoves, Indexed, Ended
      <4> QED
        BY <4>3
    <3> QED
      BY <2>1, <3>1, <3>2, <3>3, <3>4 DEF FileJobMoves, Marks
  <2>15. stage'[f] = "ready" => rows'[d][k] = f
    <3>1. CASE stage[f] = "ready"
      <4>1. rows[d][k] = f
        BY <1>1, <2>3, <3>1 DEF FileRows, RowIsOf
      <4>2. ~FileWrites(f)
        BY <2>4, <3>1 DEF FileWrites, Working, Ended
      <4> QED
        BY <2>7, <3>1, <4>1, <4>2 DEF Touched
    <3>2. CASE stage[f] # "ready"
      <4>1. stage'[f] = "ready" => at = "finish"
        BY <2>1, <3>2 DEF StageMoves, Created
      <4> QED
        BY <1>1, <2>3, <2>7, <4>1 DEF FileRows, RowIsOf
    <3> QED
      BY <3>1, <3>2
  <2> QED
    BY <1>1, <2>5, <2>10, <2>11, <2>12, <2>13, <2>14, <2>15 DEF FileRows, RowIsOf, RowIsBase, BaseRow
<1>2. ASSUME NEW f \in Files, stage[f] = "none" PROVE FileRows(f)'
  <2>1. job[<<"file", f>>] = "none" /\ <<"file", f>> \in Jobs
    BY <1>2 DEF Typed, JobsKnown, Begun, Jobs
  <2>2. job'[<<"file", f>>] \in {"none", "load"}
    BY <2>1, JobsStep DEF JobsMove, JobMoves, Working, CheckSteps
  <2>3. stage'[f] # "ready"
    BY <1>2, <2>1, StageSteps DEF StageMoves, Created
  <2> QED
    BY <2>2, <2>3 DEF FileRows
<1>3. ASSUME NEW f \in Files, draftOf'[f] \in Drafts, state'[draftOf'[f]] \notin Failed PROVE FileRows(f)'
  <2>1. CASE stage[f] = "none"
    BY <1>2, <2>1
  <2>2. CASE stage[f] # "none"
    BY <1>1, <1>3, <2>2, SlotStays
  <2> QED
    BY <2>1, <2>2
<1> QED
  BY <1>3 DEF FilesRows, Failed

LEMMA FreshStep == ASSUME Typed, Checked, Final, Slots, Whole, Next PROVE Fresh'
<1>0. Fresh /\ BaseIsLive /\ OneLive
  BY DEF Whole, Slots, Checked
<1>1. \A x \in Files : stage[x] # "none" => stage'[x] # "none" /\ draftOf'[x] = draftOf[x]
  BY SlotStays
<1>2. \A h \in Generations, i \in Documents : rows[h][i] \in Files => stage[rows[h][i]] # "none"
  BY <1>0 DEF Fresh
<1>3. ASSUME NEW g \in Generations, NEW k \in Documents, rows'[g][k] \in Files
      PROVE  stage'[rows'[g][k]] # "none"
  <2>1. CASE rows'[g][k] = rows[g][k]
    BY <1>1, <1>2, <1>3, <2>1
  <2>2. CASE g \in Drafts /\ Purges(g)
    BY <1>3, <2>1, <2>2, UploadsAreApart DEF Purges
  <2>3. CASE g \in Drafts /\ DraftWrites(g)
    <3>1. base[g] \in Generations
      BY <2>3 DEF DraftWrites, Typed, JobsKnown, Begun, DraftsKnown, Jobs
    <3>2. rows'[g][k] \in {rows[g][k], rows[base[g]][k]}
      BY <2>3 DEF DraftWrites
    <3> QED
      BY <1>1, <1>2, <1>3, <3>1, <3>2
  <2>4. ASSUME NEW f \in Files, draftOf[f] = g, FileWrites(f) PROVE stage'[rows'[g][k]] # "none"
    <3>1. stage[f] # "none" /\ g \in Drafts /\ base[g] \in Generations
      BY <2>4 DEF FileWrites, Typed, FilesKnown, DraftsKnown
    <3>2. rows'[g][k] \in {rows[g][k], "none", f, rows[base[g]][k]}
      BY <2>4 DEF FileWrites, SetsRow
    <3> QED
      BY <1>1, <1>2, <1>3, <3>1, <3>2, UploadsAreApart
  <2> QED
    BY <2>1, <2>2, <2>3, <2>4, ContentStep DEF ContentMoves
<1>4. ASSUME NEW d \in Drafts, NEW k \in Documents, state'[d] # "none",
             rows'[base'[d]][k] \in Files
      PROVE  draftOf'[rows'[base'[d]][k]] # d
  <2>1. CASE state[d] # "none"
    <3>1. rows'[base'[d]][k] = rows[base[d]][k] /\ base[d] \in Generations
      BY <1>0, <2>1, BaseRowsStay
    <3>2. draftOf[rows[base[d]][k]] # d
      BY <1>0, <1>4, <2>1, <3>1 DEF Fresh, BaseRow
    <3> QED
      BY <1>1, <1>2, <1>4, <3>1, <3>2
  <2>2. CASE state[d] = "none"
    <3>1. base'[d] = live /\ live \in Generations /\ state[live] = "active"
      BY <1>0, <1>4, <2>2, BaseSteps DEF OneLive
    <3>2. PICK g \in Generations : g = live
      BY <3>1
    <3>3. rows'[base'[d]][k] = rows[g][k]
      BY <3>1, <3>2, RowsAreFinal DEF WasSealed
    <3>4. stage[rows[g][k]] # "none"
      BY <1>2, <1>4, <3>3
    <3>5. draftOf[rows[g][k]] # d
      BY <1>4, <2>2, <3>3, <3>4 DEF Typed, FilesKnown
    <3> QED
      BY <1>1, <1>4, <3>3, <3>4, <3>5
  <2> QED
    BY <2>1, <2>2
<1> QED
  BY <1>3, <1>4 DEF Fresh, BaseRow

LEMMA DraftRowsStep == ASSUME Typed, Checked, Final, Slots, Whole, Next PROVE DraftRows'
<1>0. DraftRows /\ FilesRows /\ AfterBase /\ BaseIsLive /\ FromBase
  BY DEF Whole, Slots
<1>1. ASSUME NEW d \in Drafts, NEW k \in Documents, state'[d] \notin Failed
      PROVE  /\ job'[<<"draft", d>>] \in {"copyVectors", "copied"} /\ d \notin copied' =>
                  rows'[d][k] = rows'[base'[d]][k]
             /\ d \in copied' =>
                  \/ rows'[d][k] = rows'[base'[d]][k]
                  \/ \E f \in Files : draftOf'[f] = d /\ document'[f] = k /\ stage'[f] \in Touched
  <2> DEFINE j == <<"draft", d>>
             b == rows[base[d]][k]
  <2>1. /\ state[d] \notin Failed /\ ContentMoves(d) /\ ~Purges(d) /\ DraftJobMoves(d)
        /\ j \in Jobs /\ (job[j] # "none" => state[d] # "none")
    BY <1>1, StatesLast, ContentStep, DraftMoves DEF Generations, Purges, Failed, Jobs, Typed, JobsKnown, Begun
  <2>2. state[d] # "none" => rows'[base'[d]][k] = b
    BY <1>0, BaseRowsStay
  <2>3. /\ job[j] \in {"copyVectors", "copied"} /\ d \notin copied => rows[d][k] = b
        /\ d \in copied => \/ rows[d][k] = b
                           \/ \E f \in Files : draftOf[f] = d /\ document[f] = k /\ stage[f] \in Touched
    BY <1>0, <2>1 DEF DraftRows, BaseRow
  <2>4. \A f \in Files : draftOf[f] = d /\ FileWrites(f) => d \in copied
    BY <1>0, WritesAfterBase
  <2>5. ASSUME d \notin copied, job[j] \in {"copyVectors", "copied"} PROVE rows'[d][k] = b
    BY <2>1, <2>3, <2>4, <2>5 DEF ContentMoves, DraftWrites
  <2>6. ASSUME d \notin copied, job'[j] \in {"copyVectors", "copied"} PROVE job[j] # "none" /\ rows'[d][k] = b
    <3>1. CASE job[j] \in {"copyVectors", "copied"}
      BY <2>5, <2>6, <3>1
    <3>2. CASE job[j] \notin {"copyVectors", "copied"}
      <4>1. job[j] = "copy" /\ rows'[d][k] = IF b = "none" THEN rows[d][k] ELSE b
        BY <2>1, <2>6, <3>2 DEF DraftJobMoves
      <4>2. rows[d][k] # "none" => rows[d][k] = b
        BY <1>0, <2>6 DEF FromBase
      <4> QED
        BY <4>1, <4>2
    <3> QED
      BY <3>1, <3>2
  <2>7. ASSUME d \in copied', d \notin copied PROVE job[j] # "none" /\ rows'[d][k] = b
    <3>1. job[j] = "copied"
      BY <2>7, CopiedSteps
    <3> QED
      BY <2>5, <2>7, <3>1
  <2>8. ASSUME d \in copied
        PROVE  \/ rows'[d][k] = b
               \/ \E f \in Files : draftOf'[f] = d /\ document'[f] = k /\ stage'[f] \in Touched
    <3>1. ASSUME NEW f \in Files, draftOf[f] = d, document[f] = k, stage[f] \in Touched
          PROVE  (draftOf'[f] = d /\ document'[f] = k /\ stage'[f] \in Touched) \/ rows[d][k] = b
      <4>1. draftOf'[f] = d /\ document'[f] = k
        BY <3>1, SlotStays DEF Touched
      <4>2. FileRows(f) /\ StageMoves(f)
        BY <1>0, <2>1, <3>1, StageSteps DEF FilesRows
      <4>3. CASE stage'[f] \notin Touched
        <5>1. job[<<"file", f>>] = "mark" /\ stage[f] \in Indexed
          BY <1>1, <3>1, <4>2, <4>3 DEF StageMoves, Created, Touched, Indexed, Failed, Ended
        <5> QED
          BY <3>1, <4>2, <5>1 DEF FileRows, RowIsBase, BaseRow
      <4> QED
        BY <4>1, <4>3
    <3>2. CASE rows'[d][k] = rows[d][k]
      BY <2>3, <2>8, <3>1, <3>2
    <3>3. ~DraftWrites(d)
      BY <2>8 DEF DraftWrites, Final, BaseIsCopied
    <3>4. ASSUME NEW f \in Files, draftOf[f] = d, FileWrites(f), rows'[d][k] # rows[d][k]
          PROVE  \/ rows'[d][k] = b
                 \/ draftOf'[f] = d /\ document'[f] = k /\ stage'[f] \in Touched
      <4>1. document[f] = k /\ job[<<"file", f>>] \in {"write", "remove", "restore"}
        BY <3>4 DEF FileWrites, SetsRow
      <4>2. CASE job[<<"file", f>>] = "restore"
        BY <3>4, <4>1, <4>2 DEF FileWrites, SetsRow
      <4>3. CASE job[<<"file", f>>] \in {"write", "remove"}
        <5>1. stage[f] \in Indexed
          BY <1>0, <2>1, <3>4, <4>3 DEF FilesRows, FileRows, FileWrites, Indexed
        <5>2. stage'[f] \in Indexed
          BY <1>1, <3>4, <4>3, <5>1, StageSteps DEF StageMoves, Created, Indexed, Failed
        <5>3. draftOf'[f] = d /\ document'[f] = k
          BY <3>4, <4>1, <5>1, SlotStays DEF Indexed
        <5> QED
          BY <5>2, <5>3 DEF Touched, Indexed
      <4> QED
        BY <4>1, <4>2, <4>3
    <3> QED
      BY <2>1, <3>2, <3>3, <3>4 DEF ContentMoves
  <2>9. d \in copied => state[d] # "none"
    <3>1. d \in copied => job[j] # "none"
      BY DEF Final, BaseIsCopied
    <3> QED
      BY <2>1, <3>1
  <2>10. copied \subseteq copied'
    BY CopiedSteps
  <2> QED
    BY <2>1, <2>2, <2>6, <2>7, <2>8, <2>9, <2>10
<1> QED
  BY <1>1 DEF DraftRows, BaseRow

(* The vectors of a sealed draft do not change either. *)
LEMMA VectorsAreFinal ==
  ASSUME Typed, Final, Next, NEW d \in Drafts, WasSealed(d)
  PROVE  vectors'[d] = vectors[d] /\ Named(d)' = Named(d)
<1>1. ContentMoves(d) /\ d \in Generations
  BY ContentStep DEF Generations
<1>2. ~Purges(d)
  BY DEF Purges, WasSealed
<1>3. ~DraftWrites(d)
  BY DEF DraftWrites, Final, BaseIsCopied
<1>4. \A f \in Files : draftOf[f] = d => ~FileWrites(f)
  BY DEF FileWrites, Final, FilesWork, WasSealed, Working, Ended, Failed
<1>5. rows'[d] = rows[d] /\ vectors'[d] = vectors[d]
  BY <1>1, <1>2, <1>3, <1>4 DEF ContentMoves
<1> QED
  BY <1>5, NamedIsContent

LEMMA PassSteps ==
  ASSUME Typed, Next, NEW j \in Jobs, job'[j] \in {"pass", "ready"}
  PROVE  \/ job[j] \in {"pass", "ready"}
         \/ /\ job[j] = "reconcile" /\ UNCHANGED <<content, state>>
            /\ \A v \in Named(DraftOf(j)) : \E w \in vectors[DraftOf(j)] : w[1] = v[1]
<1>0. TypeOK
  BY DEF Typed
<1>1. JobMoves(j)
  BY JobsStep DEF JobsMove
<1>2. CASE job[j] \notin {"pass", "ready"}
  <2>1. job[j] \in CheckSteps \ {"pass", "ready"} /\ job'[j] = "pass"
    BY <1>1, <1>2 DEF JobMoves, Working, CheckSteps
  <2>2. JobStep(j) \/ JobErrors(j)
    BY <2>1, OtherJobsStay DEF CheckSteps
  <2>3. \/ Reserve(j) \/ StartChecks(j) \/ Pause(j) \/ GiveUpWaiting(j) \/ Reconcile(j) \/ FinishChecks(j)
        \/ JobErrors(j)
    BY <2>1, <2>2 DEF JobStep, Load, Throws, Copy, CopyVectors, MarkBaseCopied, Abort, Close, WaitForBase,
       Fetch, Chunk, Write, Embed, Upsert, MarkReady, Remove, Restore, RestoreVectors, FailOnCleanup,
       MarkFailed, Expire, ClaimFinalize, MarkDraftReady, At, CheckSteps
  <2>4. Reconcile(j)
    BY <1>0, <1>2, <2>1, <2>3 DEF Reserve, StartChecks, Pause, GiveUpWaiting, FinishChecks, JobErrors, At, Goto,
       Then, Retried, TypeOK
  <2> QED
    BY <1>0, <2>1, <2>4 DEF Reconcile, At, Goto, generations, TypeOK
<1> QED
  BY <1>2


(* A draft with a vector for every document it holds has no other vector,  *)
(* since every vector is one that its rows name.                           *)
LEMMA FoundIsComplete ==
  ASSUME Emptied, NEW d \in Generations, state[d] # "discarded",
         \A v \in Named(d) : \E w \in vectors[d] : w[1] = v[1]
  PROVE  vectors[d] = Named(d)
<1>1. vectors[d] \subseteq Content(rows[d])
  BY NamedIsContent DEF Emptied, Accounted, Known
<1>2. ASSUME NEW v \in Content(rows[d]) PROVE v \in vectors[d]
  <2>1. PICK w \in vectors[d] : w[1] = v[1]
    BY <1>2, NamedIsContent
  <2>2. PICK k \in Documents : rows[d][k] # "none" /\ v = <<k, rows[d][k]>>
    BY <1>2, HasContent
  <2>3. w \in Content(rows[d])
    BY <1>1
  <2>4. PICK i \in Documents : rows[d][i] # "none" /\ w = <<i, rows[d][i]>>
    BY <2>3, HasContent
  <2>5. i = k
    BY <2>1, <2>2, <2>4
  <2> QED
    BY <2>2, <2>4, <2>5
<1> QED
  BY <1>1, <1>2, NamedIsContent

LEMMA CompleteStep == ASSUME Typed, Checked, Final, Slots, Emptied, Whole, Next PROVE Complete'
<1>1. ASSUME NEW j \in Jobs, job'[j] \in {"pass", "ready"}, NEW d \in Drafts, d = DraftOf(j),
             state'[d] \notin Failed
      PROVE  vectors'[d] = Named(d)'
  <2>1. state[d] \notin Failed
    BY <1>1, StatesLast DEF Generations
  <2>2. CASE job[j] \in {"pass", "ready"}
    <3>1. vectors[d] = Named(d)
      BY <1>1, <2>1, <2>2 DEF Whole, Complete
    <3>2. owner[d] = j /\ j # None
      BY <1>1, <2>2, NoneIsApart DEF Checked, OneFinalizer, CheckSteps
    <3>3. state[d] \notin {"none", "draft", "indexing"}
      BY <3>2 DEF Checked, OwnedIsSealed
    <3>4. WasSealed(d)
      BY <2>1, <3>3 DEF WasSealed, Typed, TypeOK, Generations, States, PreLive, Failed
    <3> QED
      BY <3>1, <3>4, VectorsAreFinal
  <2>3. CASE job[j] \notin {"pass", "ready"}
    <3>1. /\ UNCHANGED <<content, state>>
          /\ \A v \in Named(d) : \E w \in vectors[d] : w[1] = v[1]
      BY <1>1, <2>3, PassSteps
    <3>2. vectors[d] = Named(d)
      BY <2>1, <3>1, FoundIsComplete DEF Failed, Generations
    <3>3. rows'[d] = rows[d] /\ vectors'[d] = vectors[d]
      BY <3>1 DEF content
    <3> QED
      BY <3>2, <3>3, NamedIsContent
  <2> QED
    BY <2>2, <2>3
<1>2. ASSUME NEW j \in Jobs, job'[j] \in {"pass", "ready"}, state'[DraftOf(j)'] \notin Failed
      PROVE  vectors'[DraftOf(j)'] = Named(DraftOf(j))'
  <2>1. job[j] # "none"
    BY <1>2, PassSteps
  <2>2. DraftOf(j)' = DraftOf(j) /\ DraftOf(j) \in Drafts
    BY <2>1, DraftOfStays, JobSubject
  <2>3. PICK d \in Drafts : d = DraftOf(j)
    BY <2>2
  <2>4. vectors'[d] = Named(d)'
    BY <1>1, <1>2, <2>2, <2>3
  <2> QED
    BY <2>2, <2>3, <2>4 DEF Named
<1> QED
  BY <1>2 DEF Complete

LEMMA CheckedVectorsStep == ASSUME Typed, Final, Whole, Next PROVE CheckedVectors'
<1>1. ASSUME NEW d \in Drafts, state'[d] \in {"ready", "active", "archived"} PROVE vectors'[d] = Named(d)'
  <2>1. StateMoves(d)
    BY StateSteps DEF StatesMove, Generations
  <2>2. WasSealed(d) /\ vectors[d] = Named(d)
    <3>1. CASE state[d] \in {"ready", "active", "archived"}
      BY <3>1 DEF Whole, CheckedVectors, WasSealed
    <3>2. CASE state[d] \notin {"ready", "active", "archived"}
      <4>1. state[d] = "reconciling" /\ state'[d] = "ready"
        BY <1>1, <2>1, <3>2 DEF StateMoves, PreLive
      <4>2. PICK j \in Jobs : ReadyBy(j, d)
        BY <4>1, ReadySteps
      <4> QED
        BY <4>1, <4>2 DEF ReadyBy, Whole, Complete, WasSealed, Failed
    <3> QED
      BY <3>1, <3>2
  <2> QED
    BY <2>2, VectorsAreFinal
<1> QED
  BY <1>1 DEF CheckedVectors

LEMMA WholeStep == ASSUME Typed, Checked, Final, Slots, Emptied, Whole, Next PROVE Whole'
  BY FilesRowsStep, FreshStep, DraftRowsStep, CompleteStep, CheckedVectorsStep DEF Whole

LEMMA WholeAlways == Spec => [](Typed /\ Checked /\ Final /\ Slots /\ Emptied /\ Whole)
<1> DEFINE Inv == Typed /\ Checked /\ Final /\ Slots /\ Emptied
<1>1. Init => Whole
  BY WholeInit
<1>2. Inv /\ Whole /\ [Next]_vars => Whole'
  <2>1. CASE Next
    BY <2>1, WholeStep
  <2>2. CASE UNCHANGED vars
    BY <2>2, WholeStays
  <2> QED
    BY <2>1, <2>2
<1> QED
  BY <1>1, <1>2, EmptiedAlways, PTL DEF Spec

(* No file is at work on a sealed draft: a row differs from the base only  *)
(* by a file that is ready, and a ready file has its row.                  *)
LEMMA SealedRows == Typed /\ Final /\ Whole => SealedContent
<1> SUFFICES ASSUME Typed, Final, Whole, NEW g \in Drafts, NEW k \in Documents, WasSealed(g)
             PROVE  ReadyFilesOf(g, k) = IF rows[g][k] = rows[base[g]][k] THEN {} ELSE {rows[g][k]}
  BY DEF SealedContent
<1>1. state[g] # "none" /\ state[g] \notin Failed /\ g \in copied
  BY DEF WasSealed, Failed, Final, BaseIsCopied
<1>2. ASSUME NEW f \in ReadyFilesOf(g, k) PROVE rows[g][k] = f /\ f \in Files /\ draftOf[f] = g
  BY <1>1, <1>2 DEF ReadyFilesOf, Whole, FilesRows, FileRows, RowIsOf
<1>3. CASE rows[g][k] = rows[base[g]][k]
  <2>1. ASSUME NEW f \in ReadyFilesOf(g, k) PROVE FALSE
    BY <1>1, <1>2, <1>3, <2>1 DEF Whole, Fresh, BaseRow
  <2> QED
    BY <1>3, <2>1
<1>4. CASE rows[g][k] # rows[base[g]][k]
  <2>1. PICK f \in Files : draftOf[f] = g /\ document[f] = k /\ stage[f] \in Touched
    BY <1>1, <1>4 DEF Whole, DraftRows, BaseRow
  <2>2. stage[f] = "ready"
    BY <2>1 DEF Final, FilesWork, Touched, Ended
  <2>3. f \in ReadyFilesOf(g, k)
    BY <2>1, <2>2 DEF ReadyFilesOf
  <2>4. ReadyFilesOf(g, k) = {rows[g][k]}
    BY <1>2, <2>3
  <2> QED
    BY <1>4, <2>4
<1> QED
  BY <1>3, <1>4

(* From its checks on a draft is whole: the ready uploads over the base    *)
(* and no content of a failed one, the vectors its chunks name and no      *)
(* other, and one job that checks it (claimFinalize, dropFailedProjection, *)
(* reconcileWithFinalRecord).                                              *)
THEOREM SealedDraftsStayWhole == Spec => []SealedDraftIsWhole
<1>1. Typed /\ Checked /\ Final /\ Whole => SealedDraftIsWhole
  BY SealedRows DEF SealedDraftIsWhole, Checked, Whole
<1> QED
  BY <1>1, WholeAlways, PTL

=============================================================================
