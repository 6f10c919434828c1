# Useful Brain in TLA+

A formal model of the parts of Useful Brain whose correctness depends on the order in which
concurrent requests, Workers, Workflows and queue consumers run: TLA+ modules translated from the
TypeScript sources, TLC configurations that check them on small instances, and TLAPS proofs of the
properties that matter most for every instance.

Source paths below are relative to the repository root.

## The system

Useful Brain answers members' questions from a private corpus. A Cloudflare Worker
(`workers/brain`) serves the API; D1 (SQLite) stores conversations, agent runs and the corpus; one
Durable Object per conversation holds a run lock; a Workflow waits for the approval of an action;
Queues carry approved runs and ingestion jobs; a second Worker (`workers/ingestion`) builds draft
generations of the corpus. D1 runs each statement, and each `batch`, atomically. Everything
between two awaits is a place where another request, Workflow or consumer may run.

| Part | State | Operations | What makes it hard | What makes it correct |
|---|---|---|---|---|
| Conversation run lock (`workers/brain/src/conversation-lock.ts`, `src/lib/cf/run-lock.ts`, `turn-progress.ts`) | one row: run id, cancelled flag, stage and its count | acquire, release, cancel, cancelled, setStage, progress | re-entrant acquire, calls that arrive after the run ended, no lease | one run owns a conversation; a stop reaches only the owner; the stage is the owner's |
| Turn execution (`src/lib/brain/execute-turn.ts`, `src/lib/store/conversations.ts`, `conversation-queries.ts`, `workers/brain/src/routes/chat.ts`) | `request_id_claims`, `conversations`, `messages`, `turn_completion_claims` | createPendingTurn, executeTurn, completeTurn, failTurn, retry, cancel, delete | duplicates, retries, stops, deletions and deaths between any two statements of some twenty; two stores (D1 and the lock) | one execution per request id; a turn ends once; the reply agrees with what is stored; nothing stays pending |
| Approval and durable resume (`src/lib/store/agent-runs.ts`, `approval-view.ts`, `workers/brain/src/approval-resume.ts`, `approval-workflow.ts`, queue and scheduled handlers in `index.ts`) | `agent_runs`, `tool_calls`, `approvals`, effect rows; the Workflow; the queue | record, start, decide, expire, resume, recover, delete | the Workflow, several consumers and the cron handler act on rows they read earlier; at-least-once delivery; clocks captured once | an effect at most once, after consent, never after a refusal; an approved action is not forgotten; the three tables agree |
| Draft corpus (`workers/ingestion/src/workflow.ts`, `workers/brain/src/routes/admin-sources.ts`, `src/lib/store/drafts.ts`, `draft-state.ts`, `uploads.ts`, `corpus-d1.ts`, `src/lib/ingest/*`) | `corpus_generations`, `corpus_state`, `drafts`, `upload_batches`, `upload_files`, `draft_checks`, chunks and vectors, R2 objects | upload, PUT, reindex, promote, discard, purge, ingest, reconcile, check | per-file, per-draft and sweep Workflows around one draft, against promote and discard | one job runs the checks; a sealed draft holds the ready files and the base; only a checked draft goes live; a discarded one leaves nothing; a draft stops building |
| Agent loop and grounding (`src/lib/agent/run.ts`, `policy-gateway.ts`, `budgets.ts`, `deadlines.ts`, `host-grounding.ts`, `search-knowledge.ts`, `pointer-completion.ts`, `src/lib/answer`) | the run's own: messages, evidence, budgets, the draft | the loop, validation, completion, salvage, repair, recovery, recheck, coverage | seven passes may each replace the draft; four budgets and a clock, each checked in its own place; ids that the model makes up | what is stored is backed by this turn's evidence; a failed search is told; the model is called a bounded number of times |
| Retrieval and access (`src/lib/retrieve`, `src/lib/acl`) | the embedder, the turn's pin | two channels, authorize, fuse, rescue, rerank, cut | the rule is written three times, for three stores; each cut may drop what another needs | a hit is readable and of the pinned generation; the best keyword match is scored |
| Draft checks (`src/lib/ingest/draft-checks.ts`, `vector-inventory.ts`) | one reconciliation | compare the ledger with the binding and with the listing, probe, decide | each view of the index lags by itself | a draft that passes is clean |
| Knowledge base (`src/lib/store/corpus-seed.ts`, `document-catalog.ts`, `library-queries.ts`, `promote-auth.ts`) | whole generations, the catalog, the pointer | seed, merge, remove, reindex, promote, backfill, list | read the latest generation, write a new one later | what is served is whole, and was promoted by someone who may |
| Chat history (`conversations.ts` loadBoundedHistory, `conversation-queries.ts`) | the message rows | pair, trim, show | failed and retried turns, rows without a parent, a bounded tail | the tail tells the model what all rows would, and what the member saw |
| Accounts (`src/lib/store/invites.ts`, `src/lib/auth/session-account.ts`) | `invites`, `principals`, `auth_users`, `sessions`, failed logins | invite, accept, signup, login, logout, revoke | read first, write later | an account has one origin; guesses are bounded |
| Signing keys (`src/lib/auth/access-jwt.ts`) | the key cache of an isolate | verify, fetch | one fetch for all requests, pause, time to live, grace | a withdrawn key lapses; a published key is known |
| Connector tools (`src/lib/connectors/registry.ts`, `tools.ts`) | connectors, idempotency claims | read, write, revoke | a write given up at its deadline may still be done | a write happens once, and after approval |
| View-as (`src/lib/brain/view-as-turn.ts`) | audit rows | claim, run, release | the audit row is written twice around the run | no answer is released without its audit |
| Evaluation (`src/lib/eval/live-northwind-eval.ts`) | the checkpoint file | run, resume, summarize | dies and resumes while the Brain changes | a summary is of one set-up |
| Client (`src/components/chat`, `admin/sources`, `search`, `src/app/actions.ts`) | the state of a page | ask, retry, stop, new chat, open, poll, search, upload, promote | late replies meet a page that went on | a reply meets the chat, document, query or draft it is of; polls do not stop early |
| Requests, feedback, tickets, models, embeddings, shell, launcher | see `PROJECT.json` | single statements, calls to other services | little | covered by unit tests |

The parts interact through D1 rows, never through memory: a turn that ends in a proposal records a
run and an approval, which the Workflow, the consumers and the cron handler then change; deleting
a conversation deletes all of it in one batch, and asks neither the lock nor the Workflow.

`PROJECT.json` lists every part with what is modelled of it, and every hazard of this code with
the line where it bites and the properties that would catch it.

## Modules

| Module | Models | Extends or instantiates |
|---|---|---|
| `ConversationLock` | the Durable Object: one operator per storage operation | |
| `SerialTurns` | what answering a question promises | |
| `TurnLifecycle` | POST /turns, its duplicates, retries, stops, deletions, faults | `ConversationLock`; implements `SerialTurns` |
| `ConsentedAction` | what an action that needs approval promises | |
| `ApprovalResume` | recording, deciding, expiring and resuming a proposal | implements `ConsentedAction` |
| `LiveCorpus` | what the knowledge pipeline promises to readers | |
| `DraftPipeline` | uploads, drafts, the ingestion Workflows, promote, discard, purge | implements `LiveCorpus` |
| `AgentRun` | one run of the agent and what the turn stores of it | |
| `Accounts` | invites, accounts, sessions | |
| `AccessKeys` | the cache of signing keys | |
| `AccessControl` | who may read what: three versions of one rule | |
| `Retrieval` | the searches of a turn | `AccessControl` |
| `KnowledgeBase` | generations, catalog, library | `AccessControl` |
| `DraftChecks` | reconciliation and decision | |
| `Transcript` | what the model and the reader are told of the rows | |
| `EvalHarness`, `ConnectorTools`, `ViewAs` | the evaluation script, the connector tools, the view-as turn | |
| `ChatClient`, `ChatPanel`, `TurnProgress` | the chat page: its turns, its evidence panel, its status line | `TurnProgress`: `ConversationLock` |
| `UploadDialog`, `SourcesPage`, `GlobalSearch` | the upload dialog, the Sources page, search | |
| `TurnLifecycleProofs`, `ApprovalResumeProofs`, `AccountsProofs`, `AgentRunProofs`, `DraftPipelineProofs` | theorems about the module they are named after | that module |
| `DraftContentProofs` | theorems about what a draft holds: sealed, checked, discarded | `DraftPipelineProofs` |
| `ServiceProofs` | theorems about the small modules, one section each | `Services` |
| `KnowledgeProofs` | theorems about `KnowledgeBase`, `Retrieval`, `GlobalSearch`, `EvalHarness` and `Transcript` | `ServiceProofs`, for one lemma |
| `MCTurnLifecycle`, `MCApprovalResume`, `MCDraftPipeline`, `MCAgentRun` | symmetry, bounds and the sets TLC chooses from | |
| `Services` | an instance of each of the small modules, in one specification | all of them |

Operators whose name begins with `Mut` are deliberate faults: each is a plausible mistake in the
definition that follows it, no specification uses it, and every checked property fails when one of
them replaces that definition.

### TurnLifecycle

An *attempt* is one execution of `executeTurn`. `pc[a]` is its next statement; the steps are those
between two awaits of a D1 or Durable Object call, in program order:

    lookup -> readClaim -> insertClaim -> readWinner -> materialize -> readBack     createPendingTurn
              (or adopt a claim whose rows were never stored; replay a stored turn)
    acquire -> handle -> searching -> running -> reading -> check -> writing          executeTurnFull
    complete -> claimCompletion -> checkWriter -> commit -> reload -> release         persistThenRelease
    catch -> fail -> unlock                                                           the catch block

An attempt mints three ids (conversation, user message, assistant message); the model names all
three after the attempt, and the assistant message id is also the run id, as in the code.
`status[m]` is the `status` and `error_code` of an assistant row; `claim[r]` is the row of
`request_id_claims`. The stage reports that the code does not await are kept in `late` and arrive
at any later time. `Watch` is the cancellation watcher, which polls the lock from before the agent starts
until the finally block: it may abort the run at any of these steps, and `aborted` is forgotten when it
stops (`StopWatching`). Only `CheckStop` asks for it. `why` is the error the catch block would store. A question and its scope are a
member of `Payloads`: the code compares digests.

What others do is an action of its own: a second request under the same id is another attempt;
`Retry` is `resolveTurnRetry`; `StopByRequest` and `StopByRun` are the two halves of POST /cancel
(the first claims the stop in D1, the second tells the lock, and its failure is ignored);
`OwnerLock` and `OwnerUnlock` are the hand-held lock; `DeleteConversation` is one batch. Faults
are: a Worker that dies between two statements, the batch that commits the answer done with its
reply lost, a lost call to release the lock.

Abstracted: the agent's loop is one choice (answer, no answer, throw) with the first search marked;
what a prompt contains; side data stored after the answer; the ephemeral turn of the evaluation
runner, which stores nothing.

### ApprovalResume

A run proposes one action, so the tool call, the approval (unique by run) and the idempotency key
are all named after the run. `recorder` is the turn in `recordPendingApproval`; `upserts` are calls
of `upsertApproval` in flight, from the turn or from POST /approvals/start; `workflow` the approval
Workflow; `queue` the runs with a message; `consumer` what each consumer read and does next, with
the clock it captured; `cron` the same for the scheduled handler. Reading rows and acting on them
are separate steps wherever the code awaits between them, so each actor may act on stale rows.

`decideApproval` and `expireApproval` read in one step and write in another; both batches end the
run and the tool call whatever the approval row is by then (`EndApproval`), because that is what
the statements say. `ResumeWrites` is the batch guarded by `STILL_APPROVED_RESUME` in every
statement. A message stays on the queue until it is acknowledged, so it may be delivered twice and
concurrently; `retry` may also drop it (retries used up).

Abstracted: a consumer's read of the call and the approval is one step; the limit of 20 rows per
cron pass; argument validation and fingerprints, which are either those of the stored binding or
`tampered`; the Workflow takes an event the moment it is sent; its timeout is enabled from the
time the binding expires, which in the code is never later than the end of the wait.

### DraftPipeline

`job[j]` is the next durable step of the Workflow instance named after job `j`: one per file, one per
draft, one sweep per batch (a batch has one file, because every statement about a batch judges its
files one by one). `put[p]` is a PUT between its calls, `promotion[d]` a promote request.

    load -> copy -> copyVectors -> copied -> claim ...                     the draft's Workflow
    load -> waitBase -> fetch -> chunk -> write -> embed -> upsert -> finish -> claim ...   a file's
            any of these -> remove -> restore -> restoreVectors -> mark -> claim ...        when it fails
                            (remove or restore failing: failDraft -> closeDraft -> mark)
    load -> expire -> claim ...                                            the sweep
    claim -> reserve -> start -> reconcile -> pass -> ready                finalizeDraft, by the owner
             reserve -> pause -> sleepDay -> recount ...                   no budget left today

A step that the code runs as one `step.do` but whose effects others can interleave with is cut where
it awaits (`embed` reads chunks, `upsert` writes their vectors; `reserve` counts, `start` takes; the
copy writes rows, then vectors). When the reply of a step is lost it runs again from its first part
(`Retried`); when a step of a file fails for good, its work done or not, the file fails (`Try`).

`rows[g][k]` says whose content generation `g` holds for document `k` (the first corpus's or a
file's): chunks, catalog and bodies of a document are written and deleted together. `vectors[g]` are
pairs of document and content; the index and D1 do not share a transaction and the write fence of
migration 0005 protects rows only, which is why tombstones exist. Two versions of a document may
share chunk ids, so `Reconcile` compares documents, which is the weakest check the code may amount
to. `draft` and `active` are states of `corpus_generations`; `discarded` is `failed` with
`error_code` DISCARDED. Refused requests change nothing and are guards.

`GraceIsOver` states the timing argument of `DISCARD_GRACE_MS` (three times the timeout of a step):
when the last purge runs, no step that passed its open check before the discard is still running.

Abstracted: the lag of the vector index, for which the code waits with retries; readers of an
upload; the checks after reconciliation, which may pass or fail; rolling back to an archived
generation, which only an operator's script does.

### AgentRun

One run of `runAgent`, from the first model call to what the turn stores. `at` is where the run is
(`model`, `hook`, `search`, `turn_end`, `settle`, `consider` a pass, `call`, `close`), `pass` which
of the four later passes is considered or in flight. A text is a sentence of the host or a set of
paragraphs; a paragraph is known by the chunks that state it word for word, the labels it cites and
its mood (it asserts, declines or narrates). That is all the grounding code tells apart: whether a
claim is in a passage, whether its marker points at that passage, whether it is a refusal.

`results` are the tool results of the transcript with the ids the model gave them, `ledger` the
evidence kept in memory; the code reads each of them back for different decisions, which is why both
are there. The hooks of the agent library (`beforeToolCall`, `afterToolCall`, `shouldStopAfterTurn`)
are modelled from how `run.ts` uses them: the calls of one message run one after another, a message
whose every call terminated ends the run. `signals` are the member's stop and the wall timer; the
clock may pass the budget at any step. `Settle` is the validation, the completion of a pointer and the
salvage; `PassSkipped`, `PassCalls` and `PassReuses` decide repair, recovery, recheck and coverage from
their own conditions; `Close` is the end of the run with what `executeTurn` makes of it.

Abstracted: how prose is split and compared (what states what is part of the text), prompts, tokens
(one flag for both token budgets), the tools other than search and ticket (one tool that answers).

### The small modules

Each of them is one service, script or page, with a step per awaited call.

- `Accounts`: every call of `createInvite`, `acceptInvite`, signup, login and the loopback principal
  reads, awaits and writes; a batch is one step. An address names its principal.
- `AccessKeys`: the fetch in flight, its start and the cache are one isolate's; `published` is what
  the team's endpoint serves, `gone` and `since` are history.
- `AccessControl` states the rule of who may read a passage as the code does: on a loaded chunk, as
  SQL, as the groups the vector index is asked for. `Retrieval` uses all three and the order of the
  pipeline; `KnowledgeBase` uses it for the library.
- `KnowledgeBase`: a worker runs one job (seed, merge, remove, reindex, promote, backfill) through its
  batches. The vectors of a seed are left out.
- `DraftChecks`: one reconcile step with its retries. `binding` and `listing` are what the two views
  show now, `settled` what the index will show; without an index bound (`keyword_only`) a clean audit is
  recorded. `Guarded` is what may come of the questions of the retrieval guard.
- `Transcript`: the rows in the order the code reads them; the history is computed from the bounded
  tail and from all rows. The two loops, over rows and over turns, are recursive functions of the index.
- `EvalHarness`, `ConnectorTools`, `ViewAs`: a script with its checkpoint; the reads, the echo and the
  three tools that write (`mcp_create_ticket` through a service that may act late, `create_ticket`
  without the registry, `action_sink_write`) with their idempotency claims; an admin's turn with its audit row; any of them may die between two steps.
- `ChatClient`, `ChatPanel`, `TurnProgress`, `UploadDialog`, `SourcesPage`, `GlobalSearch`: the state of
  a page is its React state and refs, a closure is a record with the values it captured, a reply is an
  action of its own; a call may fail, which the page handles, or be rejected, which nothing catches:
  `broken` and `silent` then remember it. `TurnProgress` reads the real lock of `ConversationLock`.

`Services` runs them side by side without interleaving them, since they share no state: the
variable `part` names the one a behaviour is of (`accounts`, `chat`, `keys`, `search`, `knowledge`,
`upload`, `history`, `checks`, `eval`, `tools`, `view`, `page`, `panel`, `library`, `progress`), and
`v1` to `v17` hold its variables.

## Checks

Each passing run finishes exhaustively. Symmetry is used only in runs without liveness. A property
named after a group is the conjunction of the ones in brackets.

| Run | Instance | Question |
|---|---|---|
| `turns_pair` | 2 attempts, 2 request ids, 2 callers, 2 questions, 1 fault; stop, delete, retry; the two share a request id or a conversation (`Meet`) | Does what is stored of a turn belong together (`StoredTurnsAreWhole`: `NoOrphans`, `ClaimMatchesMessage`); does the reply agree with the store and come after the lock was freed (`RepliesAreTrue`: `ReplyAgreesWithStore`, `RepliedIsReleased`); does one attempt execute a request and show its own stage (`OneRunIsShown`: `OneExecutorPerRequest`, `StageIsOfTheHolder`); is a duplicate told only of a turn that asks its own question (`DuplicateIsTheSameQuestion`); does the executor own the lock and settle before it frees it; and is it all an implementation of `SerialTurns`? |
| `turns_live` | 2 attempts of 2 callers, 1 request id; lock, stop; fair | With the lock taken and freed by hand: does every caller get a reply, does no turn stay pending, does the database alone keep turns final? |
| `turns_retry_twice` | 3 attempts, 3 request ids, retry | Violated: two retries of one failed answer are both answered. |
| `approval_race` | 1 run, 2 consumers, window 1, clock to 2, 1 fault | Do the three tables agree, has every effect consent, is an acknowledged message settled (`ApprovalsAgree`: `RowsAgree`, `EffectNeedsConsent`, `AckedIsSettled`), and is it all an implementation of `ConsentedAction`? |
| `approval_live` | 1 run, 1 consumer, 1 fault, fair | Is an approved action performed or expired, and does a waiting Workflow end? |
| `approval_expired_after` | 1 run, 1 consumer, no fault | Violated: a performed action whose card reads expired. |
| `draft_files` | 2 drafts, 2 files, 2 PUTs, 1 document, budget 1; either files and no fault, or one lost reply and no file (`OneSided`) | Is a sealed draft whole (`SealedDraftIsWhole`: `SealedContent`, `CheckedVectors`, `OneFinalizer`), is the live generation a checked one, does the budget of the day hold while jobs of a closed draft run beside the next, and does the pipeline implement `LiveCorpus`? |
| `draft_faults` | 1 draft, 1 file, 2 documents, 2 faults of four kinds | Does a purged draft leave nothing, and is a sealed draft whole whatever failed? |
| `draft_live` | 1 draft, 1 file, 1 fault, fair | Does a draft stop building, a sealed one get checked, a discarded one get emptied? |
| `draft_ever_building` | 1 draft, 1 file, a dying PUT, fair | Violated: the draft builds for ever. |
| `agent_run` | 2 chunks, 2 tool-call ids, 9 texts, 4 extracts, 6 messages; 5 model calls, 2 tool calls, 1 search, 3 results | Is what a run stores backed by this turn's evidence (`OutcomeIsBacked`: `AnswerIsGrounded`, `ProposalIsBacked`), is a failed search told, is a draft cut short kept, is the model called at most so often, is a refusal overturned only by quotes? |
| `services` | see the bounds in `Services` and `Services.cfg` | What each small module promises: invites and accounts one to one, bounded guesses, current keys, readable hits and whole generations, the right history, clean drafts, one set-up per summary, writes once, audited view-as, polls that go on, late replies that meet their chat, document or query. |

### Bounds

- *Attempts.* Two attempts contain every pair of concurrent executions: of one request id (claim
  race, adoption, replay), of two ids in one conversation (lock), a failed answer with its retry.
  The safety properties of the two passing runs are proved for any number. Liveness needs no more
  than two either: an attempt waits for nobody (a taken lock is refused, not awaited).
- *Who asks what.* In `turns_pair` two attempts share a request id, where the caller or the question
  may differ, or a conversation (`Meet`), stored, deleted or not. Attempts that share neither share no
  row and no lock. The proofs have no such bound.
- *Stops.* `MaxStops` bounds how many locks name a stop at one time: one in `turns_pair`, every one in
  the other two runs.
- *Faults.* `MaxFaults` bounds how many attempts (or calls) meet a fault. One is enough for every
  single failure at every step; what is left behind is then met by the other attempt.
- *Clock.* `ApprovalResume` compares times only with `expiresAt`. `MaxNow` of 2 has a time before,
  at and after an expiry. Approvals are made early enough to expire before the clock stops
  (`Fresh`), or liveness would be judged at the end of time.
- *One approval run.* Rows of different runs never meet in a statement, and the cron handler goes
  through its list one run at a time. The proofs are for any number of runs and consumers.
- *Drafts and files.* The schema allows one open draft, so two drafts are one that is open and one
  that was closed with its jobs still running. Two files of one document are the only pair that
  meets in rows; files of different documents meet in the claim, which two files of one document
  reach as well when the first failed. `OneSided` keeps the product of the two out of `draft_files`;
  `draft_faults` has faults and a file together.
- *Agent.* Two chunks tell apart a right from a wrong citation; `Drafts` has a grounded, under-cited,
  wrongly cited, invented, empty, refusing and narrating text, alone and beside another; two ids can
  repeat; each budget is small enough to be reached. The proofs are for any of them.
- *Services.* Two calls, tabs, drafts or documents of each kind, caps and limits of one or two so that
  they are reached; `TopK`, `CandidateLimit` and the rescue are 1 over five passages, the history tail
  is 5 rows of at most 8, the clock of the keys passes the time to live, the pause and the grace. The
  status line asks twice (`MaxTurnPolls`), so a late answer of one turn meets the polls of the next. The
  connectors have one idempotency key for each of the three tools that write, and two calls, so two may meet on
  any one of them.
- *Deadlock.* TLC checks it for `ApprovalResume`, which never stops because the cron handler keeps
  running, and for `AgentRun`, where only an ended run may stop. `TurnLifecycle` ends once every
  attempt has its reply, `DraftPipeline` once its drafts and requests are used up, and the parts of
  `Services` once their counted calls are, so their runs switch the check off.

### Fairness

`TurnLifecycle!FairSpec` asks weak fairness of the steps of an attempt that has started: the
runtime resumes a Worker when an awaited call settles, and the agent has a wall time budget.
Nothing obliges a member to ask, to stop, to delete, and faults are never fair. The liveness runs
have no fault, because the code does not promise more: see Limits.

`ApprovalResume!FairSpec` asks weak fairness of the clock, of the Workflow (Cloudflare runs a
started instance on), of each consumer (the queue delivers what is on it) and of the scheduled
handler (`*/5 * * * *`). The owner's decision and the card that starts the Workflow are not fair.

`DraftPipeline!FairSpec` asks weak fairness of each Workflow (the platform runs a started instance
on, with retries), of a transfer that has begun, of the publication of each intent and of the purge
(the scheduled maintenance does both, `*/5 * * * *`), and of the next day. Nobody has to upload,
deliver, promote or discard. `BuildingEnds` is checked with lost replies and a refusing queue; with
steps that fail for good no such promise exists (a Workflow that has errored is not started again).

The small modules state no liveness. What would be liveness of a page ("it polls until the draft is
ready") is stated as the safety property it rests on: at every moment a poll, a timer or an offered
Retry is there (`PollsKeepUp`).

## Proofs

All theorems hold for any sets of attempts, requests, runs, consumers, addresses, chunks and so on,
and any bounds, within the named assumptions of the module; TLC evaluates those in every run.

`TurnLifecycleProofs`:

- `TypeCorrect`: `Spec => []TypeOK`. `TypeOK` alone is not inductive: `materialize` stores the rows
  of `turn[a]`, which must be an attempt whose input is known. The invariant `Typed` adds that
  started attempts have an input, that only their ids are claimed or stored, and that an attempt
  about to store, adopt or replay a turn names such an id.
- `RunMutex`: `Spec => []HolderOwnsLock` when nobody takes or frees locks by hand. `HolderOwnsLock`
  covers the whole stretch from the granted acquire to the release, catch block included, with the
  one exception the code has (an attempt whose release was lost). With `Typed` it is inductive: a
  granted acquire finds no other holder in that conversation, and a release frees only its own row.
- `TurnsAreSerial`: `Spec => SerialSpec`, the refinement, under the same assumption. Each step
  maps to one step of `SerialTurns` or to a stutter; the step that commits an answer needs
  `HolderOwnsLock`, which is why the mutual exclusion is proved first.
- `EndedTurnsStay`: `Spec => SettledIsFinal` with no assumption on the interventions. Here the lock
  plays no part: the guards in the statements are enough, which is the point of having them.

The assumptions: `None` is not an attempt, the attempts are finite (the time of a retry is a
cardinality), `MaxFaults` is a natural number. The steps of an attempt are grouped by what they touch
(`Quiet` reads, `Stores` writes rows, `CallsLock` calls the lock); each lemma treats one group.

And of what is stored, answered and settled, in the same module:

- `TurnsAreWhole` (`[]StoredTurnsAreWhole`), `DuplicatesMatch` (`[]DuplicateIsTheSameQuestion`) and
  `OneRunShown` (`[]OneRunIsShown`) with no assumption on the interventions; `RepliesHold`
  (`[]RepliesAreTrue`) and `SettlesFirst` (`SettledBeforeRelease`) when nobody takes or frees locks by
  hand.
- The properties speak of rows, but whether a step keeps them depends on what its attempt has seen:
  `materialize` stores whatever claim it read, `readBack` executes whatever it finds. The inductive
  invariant `Remembers` says what an attempt between two statements still knows. Its core is `Bound`: a
  turn that was found to be the claimed one stays the claimed one until its conversation is deleted, so
  what an attempt read is either still true or explained by a deletion (`Touched`). The lemma
  `FrameAttempt` shows that every step keeps claims, stored turns and ends except by a deletion;
  `KnowsStays` then covers every attempt that does not move, and `KnowsMoves` the one that does.
- `OneRunShown` adds `StageKnown` (a run for which "writing" is stored or still under way had a search
  result; "reading" counts passages). `RepliesHold` adds `Outcomes`: where an attempt can be once it was
  answered or met a fault, and that a lock names an attempt that is going to free it.
  `HolderOwnsLock` enters at one step, the release after an answer, which must be granted.

`ApprovalResumeProofs`:

- `TypesHold`, `ApprovalsStayTrue` (`Spec => []ApprovalsAgree`) and `PromiseIsKept`
  (`Spec => PromiseSpec`, the refinement of `ConsentedAction`).
- The rows agree only because each batch is guarded by what it finds, while its author remembers
  something older. The inductive invariant is `TypeOK` with `Known`: for every actor in flight (the
  recording turn, an upsert, a decision, an expiry, the Workflow, each consumer, the cron handler) the
  part of what it read that can no longer become false - an approval once approved can only expire, a
  run once ended can only be deleted, a clock does not go back. Two frame lemmas (`Harmless`,
  `Remembered`) show that a step that only moves rows forward keeps everybody's knowledge, so each
  action is left with its own actor. The refinement goes by the phase of the abstract action.

`AccountsProofs`:

- `AccountsTyped`; `InvitesMakeAccounts` (`[]InvitedAccounts`), whose invariant adds that ids are
  never used twice and that an invite a call holds, still open when it was read, has the address and
  role of the stored row of its id if there is one;
  `GuessesStayBounded` (`[]GuessesAreBounded`), whose invariant bounds, for each window, the failures
  recorded plus the calls that are at the password. Assumed: finitely many calls.

`AgentRunProofs`:

- `RunTyped`, `AnswersAreBacked` (`OutcomeIsBacked`), `FailuresAreTold` (`FailedSearchIsUnavailable`),
  `CappedDraftStands` (`CapKeepsTheDraft`), `ModelCallsAreBounded` (`ModelCallsWithinBudget`),
  `RefusalsGiveWayToQuotes` (`RefusalStands`).
- One invariant carries the first five: `Decided` (where the run is, its message and calls fit
  together), `Charged` (every started model call was counted before it), `Told` (a search that failed
  left its error in one of the three places that `settle` reads), `Bound` (the proposal that is bound
  is the last one and evidence came before it), `Validated` (a text past `settle` is a host's or its
  markers are valid) and `Ended` (the stored answer was made from those). Validity is monotone in the
  evidence, which only grows. Assumed: the texts, extracts and messages are of their types, the
  budgets are positive.

`DraftPipelineProofs`:

- `DraftsTyped`, `LiveStaysChecked` (`[]LiveIsChecked`), `BudgetHolds` (`[]WantedRunsWithinBudget`) and
  `LiveCorpusKept` (`Spec => LiveCorpusIsKept`, the refinement of `LiveCorpus`).
- `TypeOK` alone is not inductive: what a step writes depends on what its job is about, so `Typed` adds
  that a file, a draft, a job and a request that have begun know their draft and document. Six lemmas
  (`StateSteps`, `UploadSteps`, `JobsStep`, `RequestSteps`, `ChecksTyped`, `ContentTyped`) then say how
  each group of variables moves in any step; the later proofs use those and open few actions.
- `Checked` carries the promotion and the budget: every job past the claim is the recorded owner and its
  draft is sealed (`OwnerSteps`), a job at "ready" and a promote request past its checks belong to a draft
  whose checks passed and are not run again, and a run that is charged today belongs to a job or to a
  verdict. The count is of sets, so `BudgetHolds` needs finitely many drafts.
- The refinement needs that a sealed corpus is not written any more. `Final` says so: the files of a
  sealed draft have ended their work, and the copy of the base was recorded before the seal; `RowsAreFinal`
  follows for every step.
- Assumed: the drafts are finitely many; `None` is no job and no content.

`DraftContentProofs`:

- `PurgedLeavesNothing` (`[]PurgedIsEmpty`) and `SealedDraftsStayWhole` (`[]SealedDraftIsWhole`). Both
  speak of rows and vectors that many jobs write. `ContentStep` says once what any step may do to one
  generation's rows, vectors and tombstones: the draft's own copy, one write of one file of the draft,
  or a purge; `FileMoves`, `StageSteps` and `DraftMoves` say the same of a job and a stage.
- `Slots`: two files of one document of one draft are never both at work (`OneHolder`, which is why
  `claimFinalize` and the batches need no lock on a document), the base of a draft was live, and no file
  is indexed before the base was copied (`AfterBase`).
- `Emptied` carries the purge: every vector is named by a row or remembered as a tombstone
  (`Accounted`), also the one an upsert, a restore or a copy still has in hand (`FilesInFlight`,
  `CopyInFlight`). After the grace period no such step is left, so a purged draft stays empty.
- `Whole` carries the content: for each place a file's job can be at, whether the row is the file's or
  the base's (`FilesRows`); a row that is not the base's is of a file past its chunking (`DraftRows`);
  the base never holds a file of the draft itself (`Fresh`). At the seal every file has ended, which
  leaves the ready ones. A draft that the check found complete has the vectors of its rows and no
  others, since by `Accounted` there are no others (`Complete`).
- Assumed, with the above: no upload is called "none" or "seed", the two other sources of a row.

`ServiceProofs`, about the services that `Services` instantiates, one section each:

- `KeysStayCurrent` (`[]KeysAreCurrent`). What the cached keys say is right for as long as they may be
  used: each key set was read at a known time, and what is withdrawn after that time is what the grace
  and one fetch allow. Assumed: times are natural numbers, and the time to live is within the grace
  (ten minutes and an hour, `tokens.ts`).
- `PassedDraftsAreClean` (`[]PassedIsClean`). The invariant says, for each place of an attempt, what it has
  learnt of the index so far, and that the index only catches up. Assumed: the ledger's vectors, the
  leftovers and the strays are different ones.
- `EffectsHappenOnce` (`[]WritesHappenOnce`). At most one call has claimed a key (`OneClaimant`), a claim
  stays when its call dies (`ClaimIsKept`), and the count of effects follows from the claims and calls
  (`EffectsAgree`). A call that was sent and then given up may still act; it is the claimant.
- `ReleasesAreAudited` (`[]ReleasedIsAudited`). A row is of the one turn that claimed its request id
  (`RowsAreClaimed`), which ran once (`RunsOnce`), and the answer is in the row before it is released
  (`ReleasedIsWritten`). Assumed: no administrator is called "none".
- `PollsGoOn` (`[]PollsKeepUp`): three pages. For the dialog, a file belongs to one batch (`OwnSends`), one
  that the server has taken up was started here and one that failed there has failed there
  (`ServerAgrees`), and what holds the readers was sent with those shown (`ReadersAgree`); a batch is
  named by its least key, which exists because the files are finite. For
  the page of sources the property is inductive together with the types. For the status line, a
  holder's recorded stage is one it has reached and what a poll carries was reached before
  (`LockIsOfItsHolder`, `ReadIsReached`). Assumed: finitely many files, and no run is called `NoRun`.
- `PanelKeepsItsDocument` (`[]PanelShowsItsDocument`): a fetch that carries the number of the last opening is
  for its document (`FetchesAreNumbered`), and a closed panel has no reader (`ClosedHasNoReader`).
- `RepliesStayInTheirChat` (`RepliesMeetTheirChat`, about steps). Of the asks in flight only that of the
  pending question still has the chat's guard, and the transcript it was made with is the one on the
  screen (`AskFits`); so its reply is placed once and over no answer (`PlacedOnce`). A stop is awaited
  while its question is pending or, in the other order, after the question's reply, which was then that
  of a cancelled turn: showing the stop again changes no question of the transcript (`StopFits`,
  `PlacedAlike`). A retry's lookup is awaited while nothing else happens (`LookupFits`). The address that a
  stop left behind is of the mounted chat (`AddressesFit`). Nothing is said once the member has gone on
  while a stop or a lookup was awaited (`hurried`). Assumed: a chat is opened.

`KnowledgeProofs`:

- `KnowledgeIsSafe` (`[]KnowledgeIsServedSafely`) puts the next three together.
- `ServedGenerationsAreWhole`. What is served was built by one call and promoted
  by another, whose checks are several awaits old. The invariant: a generation that is being built has one
  writer, and what that writer has written so far is right (`OneWriter`, `Written`); a generation that was
  built is whole and no longer written (`BuiltAreWhole`); so what a promotion read of it stays true
  (`ReaderIsSafe`: a member's promotion is of a built generation of public documents and his own, before and
  after the check). A backfill may fill the catalog of a generation that is still being built, where
  the writer then replaces the body; of one that was built it finds nothing to fill. That the library
  is right about a member is then the rule of access in SQL being that on a chunk (`SqlSaysTheSame`).
  Assumed: a user is one principal and no member is called "operator", documents are numbered, an
  access is never the mark of a missing row, generation 1 exists.
- `SearchesAreReadable`. Of the access: what the reranker is asked to score is among what was authorized
  again (`HeadIsAllowed`), and the three forms of the rule agree for any access and any principal
  (`RulesAgree`); nothing is assumed of what the index returns. Of the ranking: among hits that only the
  keywords found, the merged and the reordered score both order them as their keyword scores do
  (`MissesAreOrdered`), so each cut puts no more before such a hit than its keywords did
  (`AheadIsBetter`), and the best few come through all of them (`BestReachTheHead`). Assumed:
  somebody asks, passages are finitely many numbers, the keywords have a weight
  (`fuseCandidates` refuses others), and as many fit the reranker as are rescued.
- `LibraryAnswersTheQuery`. A search that was not cancelled is of the query on screen, and cutting the
  candidates at the cap before the limit takes nothing from the first few, since the order is
  transitive (`CapKeepsTheFirst`). Assumed: the limit is within the cap.
- `SummariesAreOneRun` (`[]SummaryIsOneRun`). The rows that a script, its checkpoint and its summary hold are
  one measurement (`OneMeasurement`): no question twice, each answered row of the build that is reported,
  a row without an answer only where that was asked for. What a script loads is `Answered` of a
  compatible checkpoint, and the lemmas about that recursive function are proved by induction over its
  index. Assumed: a question has a category.

- `HistoryIsTold` (`[]HistoryIsWhatWasShown`), for any limits and any old conversations. The invariant
  (`RowsInOrder`) says that ids are one to one, that an answer with a parent comes after the question it
  names, and that only such an answer may be pending or failed. The rest is about what the pairing and the
  trimming compute, and is shown along their index: `StepsExist` constructs, for any step, the function
  that a recursive definition names, and `PairingIsALoop` and `CharsAreALoop` say that the definitions
  are that function. After each row a question is used by an answer of its own or reserved by nobody
  (`PairedSoFar`), so every answer of a question answered once is told, and the view shows it
  (`RememberedAreShown`). The tail has paired what the whole has paired among the tail's questions, so
  its turns are the end of all turns (`TailIsPairedAlike`), and turns that fill the window leave no room
  for an older one, since every turn has a character (`SaturatedIsEnough`). Assumed: the limits are
  positive, an answer's size is a number, an old conversation is numbered, its rows are completed and
  without a parent, and its questions are not empty.

Only model-checked:

- liveness (`FairSpec` of the turns, of the approvals and of the drafts), which is out of the prover's
  reach, as is ENABLED;
- the three runs that expect a violation.

## Findings

1. **A question answered twice** (`turns_retry_twice`). `chat.ts` refuses to retry an attempt that a
   later one has replaced, because that "would answer the question twice", but it looks only at
   attempts that have ended. Two retries with different request ids, both accepted while neither
   has ended, are answered one after the other.
2. **A performed action that reads expired** (`approval_expired_after`). `expireApproval` judges the
   approval in one statement and expires it in another, whose first condition does not ask whether
   the run still waits. A consumer that read the clock in time may complete the run in between.
3. **A draft that builds for ever** (`draft_ever_building`). Every job has an intent row that the
   maintenance publishes again, except a file's: PUT records the object and then sends the job. When
   it dies in between, the file is received, so it never expires, and it is never indexed.

## Limits

What the code does without promising otherwise, and what a property therefore leaves out. None of
this has a run of its own.

*Turns and approvals*

- The lock has no lease. A Worker that dies while holding it leaves the conversation refusing
  questions until its owner calls POST /unlock, and leaves the message pending until it is stopped.
  No document promises otherwise, so this is a note and no finding; the liveness runs have no fault.
- A request whose conversation was deleted may be stored again by an attempt that read the claim
  before. With four attempts under one request id and two deletions this can leave a pending turn
  that nobody executes: n claims the request in one conversation; that is deleted; a claims it in
  another; n stores its rows after all; a's batch fails on the unique request id and the error is
  ignored; the first conversation is deleted again; a finds nothing under the request, takes the lock,
  finds no handle and gives up; a duplicate that had read a's claim stores a's turn.
  `SettledBeforeRelease`, `EveryTurnSettles` and `DuplicateIsTheSameQuestion` exempt requests that
  were deleted with the conversation of one of their turns.
- A stop that the watcher sees after the last check (`execute-turn.ts:358`) aborts a run whose answer is
  then stored all the same, unless the stop also claimed the completion in D1; the reply says so rightly.
- A turn that records an approval and is then stopped, or whose recording failed after the insert
  was done, fails or refuses and keeps the approval. That needs the composition named in the plan.
- Three comments promise more than the code does, in corners that no other property depends on, so
  they are notes and have no run of their own. `recordApprovalOrRefuse` (`execute-turn.ts`) says it
  leaves no approval row behind when it returns false; it does when the insert was done and only its
  reply, or the read-back, was lost. `recordUploadedObject` (`uploads.ts`) attaches a stored object;
  all PUTs of a file share one key, and one that breaks off deletes it, also when another PUT has
  attached it (the file's job then fails it). `reconcileWithFinalRecord` (`workflow.ts`) says a draft
  never stays in reconciling; it does, with its check row failed, until it is discarded.

*Corpus*

- Two merges, removals or reindexings at once both build on the generation they read; the one
  promoted later loses the other's change. A ready generation that was never promoted is preferred to
  the active one as a base. A reindex gives a document the access of its first passage. The audit that
  a seed runs compares rows with what it has just written.
- On the last attempt of a reconciliation a vector that is still late, an orphan or an unresolved id
  is noted and no longer waited for; `PassedIsClean` says what is left.
- The history of the next turn differs from the full one when a question from below the tail was
  asked again (`AskedAgainFromBelowTheTail`).
- A generation promoted in the middle of an evaluation goes unnoticed until its summary, and a seed
  may be started again while one runs; `SummaryIsOneRun` exempts rows asked while the pointer moved.
- A connector write that was given up at its deadline keeps its idempotency key in progress: it is not
  done twice and its key never succeeds. A call that passed the registry acts although the connector was
  revoked meanwhile.

*Client*

- No call of the two admin pages is caught when it is rejected instead of failing. The dialog stops
  polling while files are open, until the next batch is sent (`upload-flow.tsx:158`); a batch whose
  creation is rejected shows as started for good. The Sources page stops polling without a Retry
  (`sources-workspace.tsx:70`), and a rejected action or its reload (`:112`) says nothing and leaves its
  dialog open. `PollsKeepUp` exempts a page that this happened to (`broken`, `silent`). A successful
  action clears the Retry that a failed poll offered, and the confirm dialog acts
  on the draft that is shown when it is confirmed. `TurnProgress`: the stage of a run of the member's
  own may go back when polls are answered out of order.
- The chat page's own write of the URL may reopen a document that was left meanwhile. A search that
  is rejected is waited for until something else is typed. SQL orders titles by ASCII case folding,
  the local search by locale.
- `RepliesMeetTheirChat` excludes three orders: Stop, then New chat before the reply to the stop,
  which replaces the URL; Retry whose lookup is awaited, then New chat or another question; and the
  stopped question's own reply before the reply to the stop, after the next question was asked.
- A reverted feedback vote may overwrite a later one.

## Not modelled

`PROJECT.json` gives the reason for each component. In short: document requests, feedback, tickets
and suggestions are single statements on a unique index (the limit of free-text requests is counted
before the insert, so two at once may exceed it by one); chat models, embeddings and health checks
translate calls to services; the shell, the launcher, rendering, parsing, chunking, tokenizing, BM25,
fingerprints and cookies are data. The admin's own evaluation run, the rollback of an operator's
script and the readers of an upload are the parts of modelled components that are left out.

## Plan

What would come next: `TurnLifecycle` composed with `ApprovalResume`, for the stop and the deletion
that meet a recorded proposal.
