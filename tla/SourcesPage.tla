------------------------------ MODULE SourcesPage -----------------------------
(***************************************************************************)
(* The admin's Sources page (sources-workspace.tsx): it shows the draft    *)
(* the Brain reports, polls while that draft is built or checked, reloads  *)
(* after an upload or an action, and asks before it promotes or discards.  *)
(* Other admins work on the same draft.  Answers arrive in any order; each *)
(* is rendered before the next one is taken.                               *)
(***************************************************************************)
EXTENDS Integers

CONSTANTS MaxDrafts, \* bound: drafts
          MaxPolls,  \* SOURCES_MAX_POLLS
          Loads      \* reloads that may be in flight

VARIABLES
  corpus,   \* the newest draft: id, state
  shown,    \* the draft the page shows
  chain,    \* the poll chain of the page's effect
  loads,    \* reloads in flight
  action,   \* the promotion, discard or reindex under way
  confirm,  \* the open dialog
  error,
  silent    \* history: since its chain started, a poll was rejected, or an
            \* error that offered Retry was replaced or cleared

pageVars == <<corpus, shown, chain, loads, action, confirm, error, silent>>

NoDraft  == [id |-> 0, state |-> "none"]
NoChain  == [at |-> "none", polls |-> 0, seen |-> NoDraft]
NewChain == [NoChain EXCEPT !.at = "timer"]
NoLoad   == [at |-> "none", seen |-> NoDraft, ofAction |-> FALSE]
NoAction == [kind |-> "none", id |-> 0]

Busy == action.kind # "none"

(* draftState: a file still embeds, or the checks run.                     *)
Polling(draft) == draft.state \in {"building", "checking"}

PageInit ==
  /\ corpus \in {NoDraft, [id |-> 1, state |-> "building"]}
  /\ shown = corpus
  /\ chain = IF Polling(corpus) THEN NewChain ELSE NoChain
  /\ loads = [l \in Loads |-> NoLoad]
  /\ action = NoAction /\ confirm = "none" /\ error = "none"
  /\ silent = FALSE

-----------------------------------------------------------------------------

(* The Brain: drafts start, are built, checked, promoted and discarded.    *)
CorpusMoves ==
  /\ \/ /\ corpus.state = "none" /\ corpus.id < MaxDrafts
        /\ corpus' = [id |-> corpus.id + 1, state |-> "building"]
     \/ corpus.state = "building" /\ corpus' = [corpus EXCEPT !.state = "checking"]
     \/ corpus.state = "checking" /\ \E end \in {"checks_passed", "checks_failed"} :
          corpus' = [corpus EXCEPT !.state = end]
     \/ corpus.state # "none" /\ corpus' = [corpus EXCEPT !.state = "none"]
  /\ UNCHANGED <<shown, chain, loads, action, confirm, error, silent>>

-----------------------------------------------------------------------------

(* setData, and the effect on [polling, retryToken]: it is left alone      *)
(* while polling stays what it was.                                        *)
Show(draft, left) ==
  /\ shown' = draft
  /\ chain' = IF Polling(draft) = Polling(shown) THEN left
              ELSE IF Polling(draft) THEN NewChain ELSE NoChain
  /\ silent' = (silent /\ Polling(draft) /\ Polling(shown))

SetError(what) ==
  /\ error' = what
  /\ silent' = (silent \/ error = "retry")

PollFires ==
  /\ chain.at = "timer"
  /\ chain' = [chain EXCEPT !.at = "asked", !.seen = corpus]
  /\ UNCHANGED <<corpus, shown, loads, action, confirm, error, silent>>

PollReturns ==
  /\ chain.at = "asked"
  /\ LET polls == chain.polls + 1
     IN  Show(chain.seen,
              IF polls < MaxPolls THEN [NewChain EXCEPT !.polls = polls]
              ELSE [NoChain EXCEPT !.at = "exhausted"])
  /\ UNCHANGED <<corpus, loads, action, confirm, error>>

PollFails ==
  /\ chain.at = "asked"
  /\ chain' = NoChain
  /\ error' = "retry"
  /\ UNCHANGED <<corpus, shown, loads, action, confirm, silent>>

(* The call itself is rejected, and nothing catches that.                  *)
PollRejects ==
  /\ chain.at = "asked"
  /\ chain' = NoChain
  /\ silent' = TRUE
  /\ UNCHANGED <<corpus, shown, loads, action, confirm, error>>

Restarted == IF Polling(shown) THEN NewChain ELSE NoChain

ClickRetry ==
  /\ error = "retry"
  /\ error' = "none"
  /\ chain' = Restarted
  /\ silent' = FALSE
  /\ UNCHANGED <<corpus, shown, loads, action, confirm>>

-----------------------------------------------------------------------------

(* reload: after a batch was sent, after the upload dialog closed, after   *)
(* an action.                                                              *)
StartLoad(l, seen, ofAction) ==
  /\ loads[l].at = "none"
  /\ loads' = [loads EXCEPT ![l] = [at |-> "asked", seen |-> seen, ofAction |-> ofAction]]

(* The action a reload belongs to is over with it, and so is its dialog,   *)
(* unless the reload was rejected.                                         *)
EndLoad(l, left) ==
  /\ loads[l].at = "asked"
  /\ loads' = [loads EXCEPT ![l] = NoLoad]
  /\ action' = IF loads[l].ofAction THEN NoAction ELSE action
  /\ confirm' = IF loads[l].ofAction THEN left ELSE confirm

Reload(l) ==
  /\ StartLoad(l, corpus, FALSE)
  /\ UNCHANGED <<corpus, shown, chain, action, confirm, error, silent>>

LoadReturns(l) ==
  /\ EndLoad(l, "none")
  /\ Show(loads[l].seen, chain)
  /\ UNCHANGED <<corpus, error>>

LoadFails(l) ==
  /\ EndLoad(l, "none")
  /\ SetError("plain")
  /\ UNCHANGED <<corpus, shown, chain>>

LoadRejects(l) ==
  /\ EndLoad(l, confirm)
  /\ UNCHANGED <<corpus, shown, chain, error, silent>>

-----------------------------------------------------------------------------

(* The dialogs, and run: one action at a time, of the draft shown when it  *)
(* is confirmed.                                                           *)
Ask(kind) ==
  /\ ~Busy /\ confirm = "none"
  /\ shown.state # "none"
  /\ kind = "promote" => shown.state = "checks_passed"
  /\ confirm' = kind
  /\ UNCHANGED <<corpus, shown, chain, loads, action, error, silent>>

CancelDialog ==
  /\ confirm # "none"
  /\ confirm' = "none"
  /\ UNCHANGED <<corpus, shown, chain, loads, action, error, silent>>

Run(kind, id) ==
  /\ ~Busy
  /\ action' = [kind |-> kind, id |-> id]
  /\ SetError("none")

Confirmed ==
  /\ ~Busy /\ confirm # "none"
  /\ IF shown.state = "none"
     THEN confirm' = "none" /\ UNCHANGED <<action, error, silent>>
     ELSE Run(confirm, shown.id) /\ UNCHANGED confirm
  /\ UNCHANGED <<corpus, shown, chain, loads>>

Reindex ==
  /\ confirm = "none"
  /\ Run("reindex", corpus.id)
  /\ UNCHANGED <<corpus, shown, chain, loads, confirm>>

Acting == action.kind \in {"promote", "discard", "reindex"}

Carried(draft) ==
  CASE action.kind = "discard" -> draft.state # "none" /\ draft.id = action.id
    [] action.kind = "promote" -> draft.state = "checks_passed" /\ draft.id = action.id
    [] OTHER -> draft.state = "none" /\ draft.id < MaxDrafts

AfterIt(draft) ==
  IF action.kind = "reindex" THEN [id |-> draft.id + 1, state |-> "building"]
  ELSE [draft EXCEPT !.state = "none"]

ActionSucceeds(l) ==
  /\ Acting
  /\ Carried(corpus)
  /\ corpus' = AfterIt(corpus)
  /\ StartLoad(l, corpus', TRUE)
  /\ action' = [action EXCEPT !.kind = "reload"]
  /\ UNCHANGED <<shown, chain, confirm, error, silent>>

(* Done, perhaps, but the answer was lost.                                 *)
MayBeDone ==
  \/ UNCHANGED corpus
  \/ Carried(corpus) /\ corpus' = AfterIt(corpus)

ActionFails ==
  /\ Acting
  /\ MayBeDone
  /\ action' = NoAction /\ confirm' = "none"
  /\ SetError("plain")
  /\ UNCHANGED <<shown, chain, loads>>

(* A rejected action leaves its dialog open, and says nothing.             *)
ActionRejects ==
  /\ Acting
  /\ MayBeDone
  /\ action' = NoAction
  /\ UNCHANGED <<shown, chain, loads, confirm, error, silent>>

PageNext ==
  \/ CorpusMoves \/ PollFires \/ PollReturns \/ PollFails \/ PollRejects \/ ClickRetry
  \/ \E l \in Loads : Reload(l) \/ LoadReturns(l) \/ LoadFails(l) \/ LoadRejects(l) \/ ActionSucceeds(l)
  \/ \E kind \in {"promote", "discard"} : Ask(kind)
  \/ CancelDialog \/ Confirmed \/ Reindex \/ ActionFails \/ ActionRejects

-----------------------------------------------------------------------------

(* A page that shows a draft at work keeps following it, or offers Retry,  *)
(* or has polled as often as it ever does: whatever order polls, reloads   *)
(* and actions are answered in, and whichever of them fail.  Only after a  *)
(* poll that was rejected, or once an action or a failed reload took the   *)
(* Retry away, does it show that draft for good (sources-workspace.tsx).   *)
PageFollowsTheDraft ==
  Polling(shown) =>
    \/ chain.at \in {"timer", "asked", "exhausted"}
    \/ error = "retry"
    \/ silent

=============================================================================
