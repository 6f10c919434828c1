---------------------------- MODULE DraftPipeline ----------------------------
(***************************************************************************)
(* The draft corpus: uploads join the one open draft, a copy on write of   *)
(* the live generation; a Workflow for the draft copies the base, one for  *)
(* each file indexes it, one for each batch expires what never arrived;    *)
(* whichever ends last runs the checks; an admin promotes or discards, and *)
(* the scheduled maintenance publishes jobs and empties what was discarded.*)
(*                                                                         *)
(* A job is a Workflow instance, named after its job id, and job[j] is its *)
(* next durable step.  A batch holds one file: every statement about a     *)
(* batch judges its files one by one.                                      *)
(***************************************************************************)
EXTENDS Naturals, FiniteSets

CONSTANTS Drafts,          \* generations the pipeline makes
          Seed,            \* the generation that is live at first
          Files,           \* uploaded files
          Puts,            \* PUT requests for files
          Documents,       \* documents
          SeedDocuments,   \* those the first generation holds
          None,
          Budget,          \* DRAFT_CHECKS_PER_DAY
          MaxFaults,       \* bound: number of faults
          Faults           \* kinds of faults that may happen

ASSUME SeedIsNoDraft == Seed \notin Drafts /\ None \notin Drafts \cup Files \cup {Seed}
ASSUME SeedHoldsDocuments == SeedDocuments \subseteq Documents
ASSUME BudgetIsNat == Budget \in Nat /\ MaxFaults \in Nat
ASSUME DraftsAreFinite == IsFiniteSet(Drafts)
ASSUME UploadsAreApart == Files \cap {"none", "seed"} = {}
ASSUME KindsOfFaults == Faults \subseteq {"reply", "step", "request", "send"}

VARIABLES
  state,       \* corpus_generations.state; "discarded" is failed with DISCARDED
  live,        \* corpus_state.active_generation_id
  open,        \* drafts rows that are not closed
  base,        \* drafts.base_generation_id
  reindex,     \* drafts of kind reindex
  copied,      \* drafts with base_copied_at
  owner,       \* drafts.finalize_owner
  purged,      \* drafts with purged_at
  checks,      \* draft_checks.status
  used,        \* drafts whose check run started today
  stage,       \* upload_files.stage
  draftOf,     \* the draft a file was uploaded to
  document,    \* upload_files.document_id
  received,    \* files with an r2_key
  objects,     \* files whose object is in the bucket
  rows,        \* chunks, catalog and bodies: where a document's content is from
  vectors,     \* vectors in the index: document and content
  tombstones,  \* discarded_vectors
  published,   \* jobs with job_enqueued_at
  job,         \* Workflow instances
  put,         \* PUT requests
  promotion,   \* promote requests
  faults       \* history: number of faults so far

generations == <<state, live, open, base, reindex, copied, owner, purged>>
checking    == <<checks, used>>
uploads     == <<stage, draftOf, document, received, objects>>
content     == <<rows, vectors, tombstones>>
requests    == <<published, put, promotion>>
vars        == <<generations, checking, uploads, content, requests, job, faults>>

-----------------------------------------------------------------------------
Generations == Drafts \cup {Seed}

Jobs == ({"file", "sweep"} \X Files) \cup ({"draft"} \X Drafts)

Building == {"draft", "indexing"}
PreLive  == {"draft", "indexing", "reconciling", "ready"}
Failed   == {"failed", "discarded"}
States   == {"none", "active", "archived"} \cup PreLive \cup Failed

Stages == {"none", "parsing", "chunking", "embedding", "ready", "failed"}
Ended  == {"ready", "failed"}

Sources == {"none", "seed"} \cup Files

ASSUME NoneIsApart == None \notin Jobs \cup [Documents -> Sources]

FileSteps  == {"waitBase", "fetch", "chunk", "write", "embed", "upsert", "finish",
               "remove", "restore", "restoreVectors", "failDraft", "closeDraft", "mark"}
DraftSteps == {"copy", "copyVectors", "copied", "abort", "closeAborted"}
CheckSteps == {"reserve", "start", "pause", "sleepDay", "recount", "restart", "reconcile", "pass",
               "reject", "ready"}
JobSteps   == {"none", "load", "expire", "claim", "done"} \cup FileSteps \cup DraftSteps \cup CheckSteps

PutSteps       == {"idle", "store", "record", "delete", "enqueue", "ended"}
PromotionSteps == {"idle", "promote", "verify", "close"}

TypeOK ==
  /\ state \in [Generations -> States]
  /\ live \in Generations
  /\ open \in SUBSET Drafts
  /\ base \in [Drafts -> Generations \cup {None}]
  /\ reindex \in SUBSET Drafts
  /\ copied \in SUBSET Drafts
  /\ owner \in [Drafts -> Jobs \cup {None}]
  /\ purged \in SUBSET Drafts
  /\ checks \in [Drafts -> {"none", "paused", "running", "passed", "failed"}]
  /\ used \in SUBSET Drafts
  /\ stage \in [Files -> Stages]
  /\ draftOf \in [Files -> Drafts \cup {None}]
  /\ document \in [Files -> Documents \cup {None}]
  /\ received \in SUBSET Files
  /\ objects \in SUBSET Files
  /\ rows \in [Generations -> [Documents -> Sources]]
  /\ vectors \in [Generations -> SUBSET (Documents \X Sources)]
  /\ tombstones \in [Generations -> SUBSET (Documents \X Sources)]
  /\ published \in SUBSET Jobs
  /\ job \in [Jobs -> JobSteps]
  /\ put \in [Puts -> [at: PutSteps, file: Files \cup {None}]]
  /\ promotion \in [Drafts -> PromotionSteps]
  /\ faults \in Nat

(* The vectors that the chunks of a generation name. *)
Named(g) == {<<k, rows[g][k]>> : k \in {d \in Documents : rows[g][d] # "none"}}

Init ==
  /\ state = [g \in Generations |-> IF g = Seed THEN "active" ELSE "none"]
  /\ live = Seed
  /\ open = {}
  /\ base = [d \in Drafts |-> None]
  /\ reindex = {}
  /\ copied = {}
  /\ owner = [d \in Drafts |-> None]
  /\ purged = {}
  /\ checks = [d \in Drafts |-> "none"]
  /\ used = {}
  /\ stage = [f \in Files |-> "none"]
  /\ draftOf = [f \in Files |-> None]
  /\ document = [f \in Files |-> None]
  /\ received = {}
  /\ objects = {}
  /\ rows = [g \in Generations |-> [k \in Documents |->
               IF g = Seed /\ k \in SeedDocuments THEN "seed" ELSE "none"]]
  /\ vectors = [g \in Generations |-> IF g = Seed THEN SeedDocuments \X {"seed"} ELSE {}]
  /\ tombstones = [g \in Generations |-> {}]
  /\ published = {}
  /\ job = [j \in Jobs |-> "none"]
  /\ put = [p \in Puts |-> [at |-> "idle", file |-> None]]
  /\ promotion = [d \in Drafts |-> "idle"]
  /\ faults = 0

Fault(kind) == kind \in Faults /\ faults < MaxFaults /\ faults' = faults + 1

(* draftAcceptsWrites *)
AcceptsWrites(d) == d \in open /\ state[d] \in {"draft", "indexing", "reconciling"}

-----------------------------------------------------------------------------
(* POST /admin/uploads and POST /admin/reindex.                            *)

(* ensureOpenDraft: the unique index on open drafts makes a loser of a     *)
(* race join the winner's draft, as if it had come later.                  *)
OpenDraft(d) ==
  /\ open = {}
  /\ state[d] = "none"
  /\ state' = [state EXCEPT ![d] = "draft"]
  /\ base' = [base EXCEPT ![d] = live]
  /\ open' = {d}
  /\ UNCHANGED <<live, copied, owner, purged>>

Reindex(d) ==
  /\ OpenDraft(d)
  /\ reindex' = reindex \cup {d}
  /\ UNCHANGED <<checking, uploads, content, requests, job, faults>>

UploadStarts(f, k) ==
  /\ draftOf[f] = None
  /\ \E d \in Drafts :
       /\ \/ OpenDraft(d) /\ UNCHANGED reindex
          \/ d \in open \ reindex /\ state[d] \in Building /\ UNCHANGED generations
       /\ draftOf' = [draftOf EXCEPT ![f] = d]
  /\ document' = [document EXCEPT ![f] = k]
  /\ UNCHANGED <<checking, stage, received, objects, content, requests, job, faults>>

(* LIVE_DOCUMENT_HOLDERS: one live upload of a document per draft. *)
DocumentIsFree(f) ==
  \A o \in Files \ {f} :
    draftOf[o] = draftOf[f] /\ document[o] = document[f] => stage[o] \in {"none", "failed"}

(* createUploadBatch: the draft may have been sealed or closed meanwhile.  *)
UploadCreates(f) ==
  /\ draftOf[f] # None /\ stage[f] = "none"
  /\ IF state[draftOf[f]] \in Building /\ DocumentIsFree(f)
     THEN stage' = [stage EXCEPT ![f] = "parsing"] /\ UNCHANGED <<draftOf, document>>
     ELSE draftOf' = [draftOf EXCEPT ![f] = None] /\ document' = [document EXCEPT ![f] = None]
          /\ UNCHANGED stage
  /\ UNCHANGED <<generations, checking, received, objects, content, requests, job, faults>>

(* failDraft: a generation that is not live yet fails, and its draft row   *)
(* is closed by a second statement.                                        *)
FailGeneration(d) == state' = [state EXCEPT ![d] = IF @ \in PreLive THEN "failed" ELSE @]

CloseDraft(d) == open' = open \ {d}

MutDraftJobOnly(d) == {<<"draft", d>>}

(* publishPendingJobs, run by every request about the draft and by the     *)
(* scheduled maintenance: the draft's job and the expiry job of each batch *)
(* of the open draft.  The instance id is the job id: sending twice starts *)
(* one instance.                                                           *)
Intents(d) ==
  {<<"draft", d>>} \cup {<<"sweep", f>> : f \in {x \in Files : draftOf[x] = d /\ stage[x] # "none"}}

Launched(j) == job' = [job EXCEPT ![j] = IF @ = "none" THEN "load" ELSE @]

Publish(d, j) ==
  /\ d \in open
  /\ j \in Intents(d) \ published
  /\ Launched(j)
  /\ \/ published' = published \cup {j} /\ UNCHANGED faults
     \/ Fault("request") /\ UNCHANGED published
  /\ UNCHANGED <<generations, checking, uploads, content, put, promotion>>

(* A request that cannot queue the draft's job fails the draft. *)
PublishFails(d) ==
  /\ d \in open
  /\ <<"draft", d>> \notin published
  /\ Fault("send")
  /\ FailGeneration(d)
  /\ CloseDraft(d) \/ ("request" \in Faults /\ UNCHANGED open)
  /\ UNCHANGED <<live, base, reindex, copied, owner, purged, checking, uploads, content, requests, job>>

-----------------------------------------------------------------------------
(* PUT /admin/uploads/:batch/files/:file.  Every PUT of a file writes the  *)
(* same object key.                                                        *)

PutGoto(p, step) == put' = [put EXCEPT ![p].at = step]

PutStarts(p, f) ==
  /\ put[p].at = "idle"
  /\ stage[f] = "parsing"
  /\ AcceptsWrites(draftOf[f])
  /\ put' = [put EXCEPT ![p] = [at |-> "store", file |-> f]]
  /\ UNCHANGED <<generations, checking, uploads, content, published, promotion, job, faults>>

(* The transfer may break off; then the key is deleted. *)
PutStores(p) ==
  /\ put[p].at = "store"
  /\ \/ objects' = objects \cup {put[p].file} /\ PutGoto(p, "record")
     \/ objects' = objects \ {put[p].file} /\ PutGoto(p, "ended")
  /\ UNCHANGED <<generations, checking, stage, draftOf, document, received, content, published,
                 promotion, job, faults>>

(* recordUploadedObject *)
StillWanted(f) == stage[f] = "parsing" /\ draftOf[f] \in open /\ state[draftOf[f]] \in Building

PutRecords(p) ==
  /\ put[p].at = "record"
  /\ IF StillWanted(put[p].file)
     THEN received' = received \cup {put[p].file} /\ PutGoto(p, "enqueue")
     ELSE UNCHANGED received /\ PutGoto(p, "delete")
  /\ UNCHANGED <<generations, checking, stage, draftOf, document, objects, content, published,
                 promotion, job, faults>>

PutDeletes(p) ==
  /\ put[p].at = "delete"
  /\ objects' = objects \ {put[p].file}
  /\ PutGoto(p, "ended")
  /\ UNCHANGED <<generations, checking, stage, draftOf, document, received, content, published,
                 promotion, job, faults>>

PutEnqueues(p) ==
  /\ put[p].at = "enqueue"
  /\ Launched(<<"file", put[p].file>>)
  /\ PutGoto(p, "ended")
  /\ UNCHANGED <<generations, checking, uploads, content, published, promotion, faults>>

PutDies(p) ==
  /\ put[p].at \notin {"idle", "ended"}
  /\ Fault("request")
  /\ PutGoto(p, "ended")
  /\ UNCHANGED <<generations, checking, uploads, content, published, promotion, job>>

-----------------------------------------------------------------------------
(* Durable steps.  A step that ends goes on to the next one; when its      *)
(* reply is lost it runs again from its first part.                        *)

At(j, step) == job[j] = step

Goto(j, step) == job' = [job EXCEPT ![j] = step] /\ UNCHANGED faults

Retried(j, first) == Fault("reply") /\ job' = [job EXCEPT ![j] = first]

Then(j, step) == Goto(j, step) \/ Retried(j, job[j])

DraftOf(j) == IF j[1] = "draft" THEN j[2] ELSE draftOf[j[2]]

(* A file's steps are inside a try: when one has failed for good, its work *)
(* done or not, the file fails.                                            *)
Try(j, step, first) == Goto(j, step) \/ Retried(j, first) \/ Goto(j, "remove")

Throws(j) ==
  /\ job[j] \in {"waitBase", "fetch", "chunk", "write", "embed", "upsert", "finish"}
  /\ Goto(j, "remove")
  /\ UNCHANGED <<generations, checking, uploads, content, requests>>

(* load-job, and the first step of each kind of job.  A file that already  *)
(* ended is left alone; the draft starts indexing.                         *)
Load(j) ==
  /\ At(j, "load")
  /\ LET d == DraftOf(j) IN
     IF d \notin open \/ (j[1] = "file" /\ stage[j[2]] \in Ended)
     THEN Goto(j, "done") /\ UNCHANGED state
     ELSE \/ j[1] = "file" /\ Goto(j, "waitBase") /\ UNCHANGED state
          \/ j[1] = "sweep" /\ Goto(j, "expire") /\ UNCHANGED state
          \/ /\ j[1] = "draft"
             /\ state' = [state EXCEPT ![d] = IF @ = "draft" THEN "indexing" ELSE @]
             /\ Then(j, "copy")
  /\ UNCHANGED <<live, open, base, reindex, copied, owner, purged, checking, uploads, content,
                 requests>>

-----------------------------------------------------------------------------
(* The draft's job: the base generation is copied (or re-chunked).         *)

Copy(j) ==
  /\ At(j, "copy")
  /\ LET d == DraftOf(j) IN
     IF AcceptsWrites(d)
     THEN /\ rows' = [rows EXCEPT ![d] = [k \in Documents |->
                        IF rows[base[d]][k] = "none" THEN @[k] ELSE rows[base[d]][k]]]
          /\ Then(j, "copyVectors") \/ Goto(j, "abort")
     ELSE UNCHANGED rows /\ Goto(j, "abort")
  /\ UNCHANGED <<generations, checking, uploads, vectors, tombstones, requests>>

CopyVectors(j) ==
  /\ At(j, "copyVectors")
  /\ LET d == DraftOf(j) IN vectors' = [vectors EXCEPT ![d] = @ \cup vectors[base[d]]]
  /\ Goto(j, "copied") \/ Retried(j, "copy") \/ Goto(j, "abort")
  /\ UNCHANGED <<generations, checking, uploads, rows, tombstones, requests>>

MarkBaseCopied(j) ==
  /\ At(j, "copied")
  /\ copied' = copied \cup {DraftOf(j)}
  /\ Then(j, "claim")
  /\ UNCHANGED <<state, live, open, base, reindex, owner, purged, checking, uploads, content,
                 requests>>

Abort(j) ==
  /\ At(j, "abort")
  /\ FailGeneration(DraftOf(j))
  /\ Goto(j, "closeAborted")
  /\ UNCHANGED <<live, open, base, reindex, copied, owner, purged, checking, uploads, content, requests>>

(* The second statement of failDraft, in the draft's job and in a file's.  *)
Close(j) ==
  /\ job[j] \in {"closeAborted", "closeDraft"}
  /\ CloseDraft(DraftOf(j))
  /\ Goto(j, IF At(j, "closeDraft") THEN "mark" ELSE "done")
     \/ Retried(j, IF At(j, "closeDraft") THEN "failDraft" ELSE "abort")
  /\ UNCHANGED <<state, live, base, reindex, copied, owner, purged, checking, uploads, content,
                 requests>>

-----------------------------------------------------------------------------
(* A file's job.                                                           *)

WaitForBase(j) ==
  /\ At(j, "waitBase")
  /\ \/ DraftOf(j) \in open \cap copied /\ Goto(j, "fetch")
     \/ DraftOf(j) \notin open \cap copied /\ Goto(j, "remove")  \* closed, or TIMED_OUT
  /\ UNCHANGED <<generations, checking, uploads, content, requests>>

(* indexUpload: the object, then the stage, then the rows, which the write *)
(* fence refuses for a failed generation.                                  *)
Fetch(j) ==
  /\ At(j, "fetch")
  /\ Goto(j, IF AcceptsWrites(DraftOf(j)) /\ j[2] \in received \cap objects
             THEN "chunk" ELSE "remove")
  /\ UNCHANGED <<generations, checking, uploads, content, requests>>

Chunk(j) ==
  /\ At(j, "chunk")
  /\ stage' = [stage EXCEPT ![j[2]] = IF @ = "parsing" THEN "chunking" ELSE @]
  /\ Goto(j, "write")
  /\ UNCHANGED <<generations, checking, draftOf, document, received, objects, content, requests>>

Fence(d) == state[d] \notin Failed

MutWriteKeepsVectors(j) ==
  /\ At(j, "write")
  /\ LET d == DraftOf(j)
         k == document[j[2]]
     IN IF Fence(d)
        THEN /\ rows' = [rows EXCEPT ![d][k] = j[2]]
             /\ stage' = [stage EXCEPT ![j[2]] = IF @ = "chunking" THEN "embedding" ELSE @]
             /\ Try(j, "embed", "fetch")
        ELSE /\ rows' = [rows EXCEPT ![d][k] = "none"]
             /\ UNCHANGED stage
             /\ Goto(j, "remove")
  /\ UNCHANGED <<generations, checking, draftOf, document, received, objects, vectors, tombstones,
                 requests>>

(* The previous vectors and rows of the document are deleted first. *)
Write(j) ==
  /\ At(j, "write")
  /\ LET d == DraftOf(j)
         k == document[j[2]]
     IN /\ vectors' = [vectors EXCEPT ![d] = @ \ {<<k, rows[d][k]>>}]
        /\ IF Fence(d)
           THEN /\ rows' = [rows EXCEPT ![d][k] = j[2]]
                /\ stage' = [stage EXCEPT ![j[2]] = IF @ = "chunking" THEN "embedding" ELSE @]
                /\ Try(j, "embed", "fetch")
           ELSE /\ rows' = [rows EXCEPT ![d][k] = "none"]
                /\ UNCHANGED stage
                /\ Goto(j, "remove")
  /\ UNCHANGED <<generations, checking, draftOf, document, received, objects, tombstones, requests>>

(* embedChunkRange: the chunks are read, and their vectors written later.  *)
Embed(j) ==
  /\ At(j, "embed")
  /\ Goto(j, IF ~AcceptsWrites(DraftOf(j)) THEN "remove"
             ELSE IF rows[DraftOf(j)][document[j[2]]] = j[2] THEN "upsert" ELSE "finish")
  /\ UNCHANGED <<generations, checking, uploads, content, requests>>

Upsert(j) ==
  /\ At(j, "upsert")
  /\ vectors' = [vectors EXCEPT ![DraftOf(j)] = @ \cup {<<document[j[2]], j[2]>>}]
  /\ Try(j, "finish", "embed")
  /\ UNCHANGED <<generations, checking, uploads, rows, tombstones, requests>>

MarkReady(j) ==
  /\ At(j, "finish")
  /\ stage' = [stage EXCEPT ![j[2]] = IF @ = "failed" THEN @ ELSE "ready"]
  /\ Try(j, "claim", "finish")
  /\ UNCHANGED <<generations, checking, draftOf, document, received, objects, content, requests>>

MutKeepProjection(j) ==
  /\ At(j, "remove")
  /\ Then(j, "mark")
  /\ UNCHANGED <<generations, checking, uploads, content, requests>>

(* dropFailedProjection: what the file put into the draft goes, the base   *)
(* version of its document comes back, and if that fails the draft fails.  *)
Remove(j) ==
  /\ At(j, "remove")
  /\ LET d == DraftOf(j)
         k == document[j[2]]
     IN IF stage[j[2]] \in {"chunking", "embedding"} /\ AcceptsWrites(d)
        THEN /\ vectors' = [vectors EXCEPT ![d] = @ \ {<<k, rows[d][k]>>}]
             /\ rows' = [rows EXCEPT ![d][k] = "none"]
             /\ Then(j, IF rows[base[d]][k] = "none" THEN "mark" ELSE "restore")
                \/ Goto(j, "failDraft")
        ELSE UNCHANGED <<rows, vectors>> /\ Then(j, "mark")
  /\ UNCHANGED <<generations, checking, uploads, tombstones, requests>>

Restore(j) ==
  /\ At(j, "restore")
  /\ LET d == DraftOf(j)
         k == document[j[2]]
     IN IF AcceptsWrites(d)
        THEN rows' = [rows EXCEPT ![d][k] = rows[base[d]][k]] /\ Then(j, "restoreVectors")
        ELSE UNCHANGED rows /\ Goto(j, "failDraft")
  /\ UNCHANGED <<generations, checking, uploads, vectors, tombstones, requests>>

RestoreVectors(j) ==
  /\ At(j, "restoreVectors")
  /\ LET d == DraftOf(j)
         k == document[j[2]]
     IN vectors' = [vectors EXCEPT ![d] = @ \cup {v \in vectors[base[d]] : v[1] = k}]
  /\ Goto(j, "mark") \/ Retried(j, "restore") \/ Goto(j, "failDraft")
  /\ UNCHANGED <<generations, checking, uploads, rows, tombstones, requests>>

FailOnCleanup(j) ==
  /\ At(j, "failDraft")
  /\ FailGeneration(DraftOf(j))
  /\ Goto(j, "closeDraft")
  /\ UNCHANGED <<live, open, base, reindex, copied, owner, purged, checking, uploads, content, requests>>

MarkFailed(j) ==
  /\ At(j, "mark")
  /\ stage' = [stage EXCEPT ![j[2]] = IF @ \in Ended THEN @ ELSE "failed"]
  /\ Then(j, "claim")
  /\ UNCHANGED <<generations, checking, draftOf, document, received, objects, content, requests>>

-----------------------------------------------------------------------------
(* The expiry job of a batch, once its delivery window is over.            *)

(* expireUndeliveredFiles *)
Undelivered(f) == stage[f] = "parsing" /\ f \notin received

Expire(j) ==
  /\ At(j, "expire")
  /\ IF AcceptsWrites(DraftOf(j))
     THEN /\ stage' = [stage EXCEPT ![j[2]] = IF Undelivered(j[2]) THEN "failed" ELSE @]
          /\ Then(j, "claim")
     ELSE Goto(j, "done") /\ UNCHANGED stage
  /\ UNCHANGED <<generations, checking, draftOf, document, received, objects, content, requests>>

-----------------------------------------------------------------------------
(* The checks: claimFinalize seals the draft for one job, whose claim      *)
(* survives a lost reply.                                                  *)

MayFinalize(d) ==
  /\ d \in open \cap copied
  /\ state[d] = "indexing"
  /\ owner[d] = None
  /\ \A f \in Files : draftOf[f] = d => stage[f] \in Ended \cup {"none"}

MutClaimOnce(j) ==
  /\ At(j, "claim")
  /\ LET d == DraftOf(j) IN
     IF MayFinalize(d)
     THEN /\ owner' = [owner EXCEPT ![d] = j]
          /\ state' = [state EXCEPT ![d] = "reconciling"]
          /\ Then(j, "reserve")
     ELSE UNCHANGED <<owner, state>> /\ Goto(j, "done")
  /\ UNCHANGED <<live, open, base, reindex, copied, purged, checking, uploads, content, requests>>

ClaimFinalize(j) ==
  /\ At(j, "claim")
  /\ LET d == DraftOf(j) IN
     IF MayFinalize(d)
     THEN /\ owner' = [owner EXCEPT ![d] = j]
          /\ state' = [state EXCEPT ![d] = "reconciling"]
          /\ Then(j, "reserve")
     ELSE /\ UNCHANGED <<owner, state>>
          /\ Goto(j, IF owner[d] = j /\ d \in open /\ state[d] = "reconciling"
                     THEN "reserve" ELSE "done")
  /\ UNCHANGED <<live, open, base, reindex, copied, purged, checking, uploads, content, requests>>

MutBudgetOffByOne(d) == Cardinality(used \ {d}) > Budget

BudgetSpent(d) == Cardinality(used \ {d}) >= Budget

(* reserveCheckRun: the runs of the day are counted, then one is taken.    *)
(* After a pause the draft must still be open.                             *)
Reserve(j) ==
  /\ job[j] \in {"reserve", "recount"}
  /\ LET d == DraftOf(j) IN
     Goto(j, IF At(j, "recount") /\ ~AcceptsWrites(d) THEN "done"
             ELSE IF checks[d] \notin {"none", "paused"} THEN "reconcile"
             ELSE IF BudgetSpent(d) THEN "pause"
             ELSE IF At(j, "recount") THEN "restart" ELSE "start")
  /\ UNCHANGED <<generations, checking, uploads, content, requests>>

StartChecks(j) ==
  /\ job[j] \in {"start", "restart"}
  /\ checks' = [checks EXCEPT ![DraftOf(j)] = "running"]
  /\ used' = used \cup {DraftOf(j)}
  /\ Goto(j, "reconcile") \/ Retried(j, IF At(j, "start") THEN "reserve" ELSE "recount")
  /\ UNCHANGED <<generations, uploads, content, requests>>

Pause(j) ==
  /\ At(j, "pause")
  /\ checks' = [checks EXCEPT ![DraftOf(j)] = "paused"]
  /\ used' = used \ {DraftOf(j)}
  /\ Goto(j, "sleepDay")
  /\ UNCHANGED <<generations, uploads, content, requests>>

(* The next UTC day; a job that waited for too many gives up.              *)
NewDay ==
  /\ \E j \in Jobs : At(j, "sleepDay")
  /\ used' = {}
  /\ job' = [j \in Jobs |-> IF At(j, "sleepDay") THEN "recount" ELSE job[j]]
  /\ UNCHANGED <<generations, checks, uploads, content, requests, faults>>

GiveUpWaiting(j) ==
  /\ At(j, "sleepDay")
  /\ Goto(j, "done")
  /\ UNCHANGED <<generations, checking, uploads, content, requests>>

(* Reconciliation looks for the vectors the chunks name, by an id that two *)
(* versions of a document may share; that and every later check may fail.  *)
Reconcile(j) ==
  /\ At(j, "reconcile")
  /\ \/ /\ \A v \in Named(DraftOf(j)) : \E w \in vectors[DraftOf(j)] : w[1] = v[1]
        /\ Goto(j, "pass")
     \/ Goto(j, "reject")
  /\ UNCHANGED <<generations, checking, uploads, content, requests>>

FinishChecks(j) ==
  /\ job[j] \in {"pass", "reject"}
  /\ checks' = [checks EXCEPT ![DraftOf(j)] = IF At(j, "pass") THEN "passed" ELSE "failed"]
  /\ Then(j, IF At(j, "pass") THEN "ready" ELSE "done")
  /\ UNCHANGED <<generations, used, uploads, content, requests>>

MutReadyUnguarded(d) == state' = [state EXCEPT ![d] = "ready"]

(* markDraftReady *)
Ready(d) == state' = [state EXCEPT ![d] = IF @ = "reconciling" THEN "ready" ELSE @]

MarkDraftReady(j) ==
  /\ At(j, "ready")
  /\ Ready(DraftOf(j))
  /\ Goto(j, "done") \/ Retried(j, "pass")
  /\ UNCHANGED <<live, open, base, reindex, copied, owner, purged, checking, uploads, content,
                 requests>>

(* A step outside a file's try has failed for good: the Workflow ends.     *)
JobErrors(j) ==
  /\ job[j] \in {"load", "failDraft", "closeDraft", "mark", "expire", "claim", "copied", "abort",
                "closeAborted"} \cup CheckSteps
  /\ Fault("step")
  /\ job' = [job EXCEPT ![j] = "done"]
  /\ UNCHANGED <<generations, checking, uploads, content, requests>>

-----------------------------------------------------------------------------
(* POST /admin/drafts/:id/promote and /discard, and the purge.             *)

PromoteGoto(d, step) == promotion' = [promotion EXCEPT ![d] = step]

PromoteStarts(d) ==
  /\ promotion[d] = "idle"
  /\ \/ state[d] = "active" /\ d \in open /\ PromoteGoto(d, "close")
     \/ /\ state[d] = "ready" /\ d \in open /\ checks[d] = "passed"
        /\ PromoteGoto(d, "promote")
  /\ UNCHANGED <<generations, checking, uploads, content, published, put, job, faults>>

Promotable(d) == state[d] \in {"ready", "active"}

(* promoteGeneration: one batch whose statements follow from the first.    *)
Promote(d) ==
  /\ promotion[d] = "promote"
  /\ IF Promotable(d)
     THEN /\ live' = d
          /\ state' = [g \in Generations |->
               IF g = d THEN "active" ELSE IF state[g] = "active" THEN "archived" ELSE state[g]]
     ELSE UNCHANGED <<live, state>>
  /\ PromoteGoto(d, "verify")
  /\ UNCHANGED <<open, base, reindex, copied, owner, purged, checking, uploads, content, published,
                 put, job, faults>>

PromoteVerifies(d) ==
  /\ promotion[d] = "verify"
  /\ PromoteGoto(d, IF live = d THEN "close" ELSE "idle")
  /\ UNCHANGED <<generations, checking, uploads, content, published, put, job, faults>>

PromoteCloses(d) ==
  /\ promotion[d] = "close"
  /\ open' = open \ {d}
  /\ PromoteGoto(d, "idle")
  /\ UNCHANGED <<state, live, base, reindex, copied, owner, purged, checking, uploads, content,
                 published, put, job, faults>>

PromoteDies(d) ==
  /\ promotion[d] # "idle"
  /\ Fault("request")
  /\ PromoteGoto(d, "idle")
  /\ UNCHANGED <<generations, checking, uploads, content, published, put, job>>

MutDiscardLive(d) == state[d] # "none"

Discardable(d) == state[d] \in PreLive \cup Failed

(* claimDiscard: the generation, its draft row and its unfinished files.   *)
ClaimDiscard(d) ==
  /\ Discardable(d)
  /\ state' = [state EXCEPT ![d] = "discarded"]
  /\ open' = open \ {d}
  /\ stage' = [f \in Files |->
       IF draftOf[f] = d /\ stage[f] \notin Ended \cup {"none"} THEN "failed" ELSE stage[f]]
  /\ UNCHANGED <<live, base, reindex, copied, owner, purged, checking, draftOf, document, received,
                 objects, content, requests, job, faults>>

(* purgeDiscardedDraft, by the request and by the maintenance: the rows go *)
(* and the vectors they name become tombstones; the vectors may go at      *)
(* once; and after the grace period they go again.                         *)
EmptyRows(d) ==
  /\ rows' = [rows EXCEPT ![d] = [k \in Documents |-> "none"]]
  /\ tombstones' = [tombstones EXCEPT ![d] = @ \cup Named(d)]

PurgeRows(d) ==
  /\ state[d] = "discarded" /\ d \notin purged
  /\ EmptyRows(d)
  /\ UNCHANGED <<generations, checking, uploads, vectors, requests, job, faults>>

PurgeVectors(d) ==
  /\ state[d] = "discarded" /\ d \notin purged
  /\ vectors' = [vectors EXCEPT ![d] = @ \ tombstones[d]]
  /\ UNCHANGED <<generations, checking, uploads, rows, tombstones, requests, job, faults>>

MutNoGrace(d) == TRUE

MutGraceWaitsForJobs(d) == \A j \in Jobs : DraftOf(j) = d => job[j] = "done"

(* DISCARD_GRACE_MS is longer than a step may run, so when it is over no   *)
(* step that began before the discard still runs.                          *)
GraceIsOver(d) ==
  \A j \in Jobs :
    job[j] \in {"chunk", "write", "upsert", "copyVectors", "restoreVectors"} => DraftOf(j) # d

FinalPurge(d) ==
  /\ state[d] = "discarded" /\ d \notin purged
  /\ GraceIsOver(d)
  /\ rows' = [rows EXCEPT ![d] = [k \in Documents |-> "none"]]
  /\ vectors' = [vectors EXCEPT ![d] = @ \ (tombstones[d] \cup Named(d))]
  /\ tombstones' = [tombstones EXCEPT ![d] = {}]
  /\ purged' = purged \cup {d}
  /\ UNCHANGED <<state, live, open, base, reindex, copied, owner, checking, uploads, requests,
                 job, faults>>

-----------------------------------------------------------------------------
JobStep(j) ==
  \/ Load(j) \/ Throws(j)
  \/ Copy(j) \/ CopyVectors(j) \/ MarkBaseCopied(j) \/ Abort(j) \/ Close(j)
  \/ WaitForBase(j) \/ Fetch(j) \/ Chunk(j) \/ Write(j) \/ Embed(j) \/ Upsert(j) \/ MarkReady(j)
  \/ Remove(j) \/ Restore(j) \/ RestoreVectors(j) \/ FailOnCleanup(j) \/ MarkFailed(j)
  \/ Expire(j) \/ ClaimFinalize(j) \/ Reserve(j) \/ StartChecks(j) \/ Pause(j) \/ GiveUpWaiting(j)
  \/ Reconcile(j) \/ FinishChecks(j) \/ MarkDraftReady(j)

PutStep(p) == PutStores(p) \/ PutRecords(p) \/ PutDeletes(p) \/ PutEnqueues(p)

PromotionStep(d) == Promote(d) \/ PromoteVerifies(d) \/ PromoteCloses(d)

Purge(d) == PurgeRows(d) \/ PurgeVectors(d) \/ FinalPurge(d)

Next ==
  \/ \E f \in Files : UploadCreates(f) \/ \E k \in Documents : UploadStarts(f, k)
  \/ \E p \in Puts : PutStep(p) \/ PutDies(p) \/ \E f \in Files : PutStarts(p, f)
  \/ \E d \in Drafts : \/ Reindex(d) \/ PublishFails(d) \/ \E j \in Jobs : Publish(d, j)
                      \/ PromoteStarts(d) \/ PromotionStep(d) \/ PromoteDies(d)
                      \/ ClaimDiscard(d) \/ Purge(d)
  \/ \E j \in Jobs : JobStep(j) \/ JobErrors(j)
  \/ NewDay

Spec == Init /\ [][Next]_vars

(* Scheduling: the platform goes on with a Workflow, the browser with a    *)
(* transfer, and the maintenance publishes what is left.  Nobody has to    *)
(* upload, promote or discard.                                             *)
FairSpec ==
  /\ Spec
  /\ \A j \in Jobs : WF_vars(JobStep(j))
  /\ \A d \in Drafts, j \in Jobs : WF_vars(Publish(d, j))
  /\ \A p \in Puts : WF_vars(PutStep(p))
  /\ \A d \in Drafts : WF_vars(PurgeRows(d)) /\ WF_vars(FinalPurge(d))
  /\ WF_vars(NewDay)

-----------------------------------------------------------------------------
(* Safety.                                                                 *)

WasSealed(g) == state[g] \in {"reconciling", "ready", "active", "archived"}

ReadyFilesOf(g, k) == {f \in Files : draftOf[f] = g /\ document[f] = k /\ stage[f] = "ready"}

(* From its checks on, a draft holds of every document the upload that is  *)
(* ready, and otherwise the base version: no content of a failed file, no  *)
(* document lost (draft-state.ts, the comment of dropFailedProjection).    *)
SealedContent ==
  \A g \in Drafts, k \in Documents :
    WasSealed(g) =>
      ReadyFilesOf(g, k) = IF rows[g][k] = rows[base[g]][k] THEN {} ELSE {rows[g][k]}

(* A draft that passed its checks has in the index the vectors its chunks  *)
(* name and no others.                                                     *)
CheckedVectors ==
  \A g \in Drafts : state[g] \in {"ready", "active", "archived"} => vectors[g] = Named(g)

(* A draft's checks are run by the one job whose claim is recorded         *)
(* ("exactly once per draft", finalizeDraft).                              *)
OneFinalizer == \A j \in Jobs : job[j] \in CheckSteps => owner[DraftOf(j)] = j

(* From its checks on a draft is whole: its content, its vectors, and the  *)
(* one job that checks it.                                                 *)
SealedDraftIsWhole == SealedContent /\ CheckedVectors /\ OneFinalizer

(* The live pointer and the generations' states agree, and a draft that is *)
(* or was live passed its checks (promoteGeneration).                      *)
LiveIsChecked ==
  /\ {g \in Generations : state[g] = "active"} = {live}
  /\ \A g \in Drafts : state[g] \in {"active", "archived"} => checks[g] = "passed"

(* A purged draft has left nothing, whatever was running when it was       *)
(* discarded (purgeDiscardedDraft, discarded_vectors).                     *)
PurgedIsEmpty ==
  \A d \in purged : vectors[d] = {} /\ tombstones[d] = {} /\ Named(d) = {}

(* The daily budget holds for the drafts that were not thrown away: a run  *)
(* counts the others before it starts (reserveCheckRun).                   *)
WantedRunsWithinBudget == Cardinality({d \in used : state[d] \notin Failed}) <= Budget

Corpus == INSTANCE LiveCorpus WITH
  Contents <- [Documents -> Sources],
  Nothing  <- None,
  current  <- live,
  corpus   <- [g \in Generations |->
                 IF WasSealed(g) THEN rows[g] ELSE None],
  past     <- {g \in Generations : state[g] \in Failed \cup {"archived"}}

(* Readers see one sealed corpus at a time: the pipeline implements        *)
(* LiveCorpus.                                                             *)
LiveCorpusIsKept == Corpus!LiveSpec

-----------------------------------------------------------------------------
(* Liveness.                                                               *)

(* A draft does not build for ever: files that never come expire, and the  *)
(* last job to end seals it (runSourcesMaintenance, expireUndeliveredFiles)*)
BuildingEnds == \A d \in Drafts : state[d] \in Building ~> state[d] \notin Building

(* A sealed draft is checked, whatever answer was lost, unless it waits    *)
(* for budget or was closed (claimFinalize, reconcileWithFinalRecord).     *)
SealedIsChecked ==
  \A d \in Drafts :
    state[d] = "reconciling" ~> (checks[d] \in {"passed", "failed", "paused"} \/ d \notin open)

(* A discarded draft is emptied for good (runSourcesMaintenance).          *)
DiscardedIsPurged == \A d \in Drafts : (state[d] = "discarded") ~> (d \in purged)

=============================================================================
