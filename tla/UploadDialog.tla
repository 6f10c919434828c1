---------------------------- MODULE UploadDialog ----------------------------
(***************************************************************************)
(* The upload dialog of the Sources page (UploadFlow): files are added     *)
(* while others are sent, each batch is created with the readers chosen,   *)
(* its files are transferred one by one, and one poll loop for all batches *)
(* follows them on the server.                                             *)
(*                                                                         *)
(* An entry of the list is named by a number.  A name that is listed is    *)
(* not accepted again.                                                     *)
(***************************************************************************)
EXTENDS Naturals, FiniteSets

CONSTANTS Names, Readers,
          MaxStatusFailures, \* MAX_STATUS_FAILURES
          MaxPolls,          \* UPLOAD_MAX_POLLS
          MaxEntries         \* bound: entries ever listed

VARIABLES
  entries,  \* the list
  added,    \* entries listed so far
  choice,   \* the readers chosen, or none yet
  sends,    \* runs of sendBatch
  uploads,  \* upload_files: what the server has of each entry
  timer,    \* timer.current
  poll,     \* the poll that runs: the entries it asked for, the batches left;
            \* broken: a rejected call ended the last one
  polls,    \* polls.current
  lost,     \* failures.current
  mounted

uploadVars == <<entries, added, choice, sends, uploads, timer, poll, polls, lost, mounted>>

Keys     == 1..MaxEntries
Undecided == "undecided"
NoFile   == [state |-> "none", readers |-> Undecided]
NoPoll   == [on |-> FALSE, open |-> {}, left |-> {}, broken |-> FALSE]

UploadInit ==
  /\ entries = {} /\ added = 0 /\ choice = Undecided /\ sends = {}
  /\ uploads = [k \in Keys |-> NoFile]
  /\ timer = FALSE /\ poll = NoPoll /\ polls = 0 /\ lost = 0 /\ mounted = TRUE

-----------------------------------------------------------------------------
Terminal(e) == e.stage \in {"ready", "failed"}

(* holdsReaders: a failure seen only here does not prove that the file     *)
(* left the draft.                                                         *)
HoldsReaders(e) == e.started /\ (e.stage # "failed" \/ (e.batch # 0 /\ ~e.serverFailed))

Locked == \E e \in entries : HoldsReaders(e)

Patch(keys, Change(_)) == entries' = {IF e.key \in keys THEN Change(e) ELSE e : e \in entries}

(* flush: once the readers are chosen, what has not started is sent as one *)
(* batch, named by its first file.                                         *)
Flush(list, readers) ==
  LET pending == {e.key : e \in {f \in list : ~f.started}}
  IN  IF readers = Undecided \/ pending = {}
      THEN entries' = list /\ UNCHANGED <<sends, polls>>
      ELSE /\ entries' = {IF e.key \in pending THEN [e EXCEPT !.started = TRUE] ELSE e : e \in list}
           /\ sends' = sends \cup {[batch |-> CHOOSE k \in pending : \A j \in pending : k <= j,
                                    keys |-> pending, left |-> pending, readers |-> readers, created |-> FALSE]}
           /\ polls' = 0

Listed(names, key) ==
  {[key |-> key[n], name |-> n, started |-> FALSE, batch |-> 0, stage |-> "parsing",
    serverFailed |-> FALSE, note |-> "none"] : n \in names}

AddFiles ==
  /\ mounted
  /\ \E names \in SUBSET Names :
       /\ names # {} /\ added + Cardinality(names) <= MaxEntries
       /\ \A e \in entries : e.name \notin names
       /\ \E key \in [names -> added + 1..added + Cardinality(names)] :
            /\ \A m, n \in names : m # n => key[m] # key[n]
            /\ Flush(entries \cup Listed(names, key), choice)
       /\ added' = added + Cardinality(names)
  /\ UNCHANGED <<choice, uploads, timer, poll, lost, mounted>>

(* Another scope undecides until a group is picked, everyone is a choice.  *)
Choose ==
  /\ mounted /\ ~Locked
  /\ \E r \in Readers \cup {Undecided} : choice' = r /\ Flush(entries, r)
  /\ UNCHANGED <<added, uploads, timer, poll, lost, mounted>>

Remove ==
  /\ mounted
  /\ \E e \in entries : e.stage = "failed" /\ entries' = entries \ {e}
  /\ UNCHANGED <<added, choice, sends, uploads, timer, poll, polls, lost, mounted>>

-----------------------------------------------------------------------------
SchedulePoll == timer' = (timer \/ mounted)

(* createUpload.  A refusal or a rejected call may be of a batch that was  *)
(* made; a rejected one leaves its files started for good.                 *)
Create ==
  \E s \in sends : \E made \in BOOLEAN, answer \in {"created", "refused", "rejected"} :
    /\ ~s.created /\ (answer = "created" => made)
    /\ uploads' = IF made THEN [k \in Keys |-> IF k \in s.keys THEN [state |-> "waiting", readers |-> s.readers]
                                               ELSE uploads[k]]
                  ELSE uploads
    /\ \/ /\ answer = "created"
          /\ Patch(s.keys, LAMBDA e : [e EXCEPT !.batch = s.batch])
          /\ sends' = (sends \ {s}) \cup {[s EXCEPT !.created = TRUE]}
       \/ /\ answer = "refused"
          /\ Patch(s.keys, LAMBDA e : [e EXCEPT !.stage = "failed"])
          /\ sends' = sends \ {s}
       \/ answer = "rejected" /\ UNCHANGED entries /\ sends' = sends \ {s}
    /\ UNCHANGED <<added, choice, timer, poll, polls, lost, mounted>>

(* putFile, in the order of the list, also after the dialog was closed.    *)
Put ==
  \E s \in sends : \E landed, ok \in BOOLEAN :
    /\ s.created /\ s.left # {} /\ (ok => landed)
    /\ LET k == CHOOSE x \in s.left : \A y \in s.left : x <= y
       IN  /\ landed => uploads[k].state = "waiting"
           /\ uploads' = IF landed THEN [uploads EXCEPT ![k].state = "working"] ELSE uploads
           /\ sends' = (sends \ {s}) \cup {[s EXCEPT !.left = @ \ {k}]}
           /\ Patch(IF ok THEN {} ELSE {k}, LAMBDA e : [e EXCEPT !.stage = "failed"])
    /\ UNCHANGED <<added, choice, timer, poll, polls, lost, mounted>>

BatchSent ==
  \E s \in sends :
    /\ s.created /\ s.left = {}
    /\ sends' = sends \ {s}
    /\ SchedulePoll
    /\ UNCHANGED <<entries, added, choice, uploads, poll, polls, lost, mounted>>

(* The ingestion of a file that was received, or never was.                *)
ServerWorks ==
  \E k \in Keys :
    /\ \/ uploads[k].state = "working" /\ \E o \in {"ready", "failed"} : uploads' = [uploads EXCEPT ![k].state = o]
       \/ uploads[k].state = "waiting" /\ uploads' = [uploads EXCEPT ![k].state = "failed"]
    /\ UNCHANGED <<entries, added, choice, sends, timer, poll, polls, lost, mounted>>

Open(e) == e.batch # 0 /\ ~Terminal(e)

(* The timer fires; a poll that runs is not run twice.                     *)
StartPoll ==
  /\ timer /\ timer' = FALSE
  /\ poll' = IF poll.on THEN poll
             ELSE LET open == {e \in entries : Open(e)}
                  IN  [NoPoll EXCEPT !.on = TRUE, !.open = {e.key : e \in open}, !.left = {e.batch : e \in open}]
  /\ UNCHANGED <<entries, added, choice, sends, uploads, polls, lost, mounted>>

OfBatch(b) == {e.key : e \in {f \in entries : f.batch = b /\ f.key \in poll.open}}

Reported(e) ==
  LET now == uploads[e.key].state
      stage == IF now = "waiting" \/ now = "working" THEN "parsing" ELSE now
  IN  IF Terminal(e) THEN e
      ELSE [e EXCEPT !.stage = stage, !.note = "none", !.serverFailed = (stage = "failed")]

ReadStatus ==
  /\ poll.on
  /\ \E b \in poll.left : \E ok \in BOOLEAN :
       /\ poll' = IF mounted THEN [poll EXCEPT !.left = @ \ {b}] ELSE NoPoll
       /\ IF ~mounted THEN UNCHANGED <<entries, lost>>
          ELSE IF ok THEN Patch(OfBatch(b), Reported) /\ lost' = 0
          ELSE /\ lost' = IF lost < MaxStatusFailures THEN lost + 1 ELSE lost
               /\ Patch(IF lost' >= MaxStatusFailures THEN OfBatch(b) ELSE {},
                        LAMBDA e : IF Terminal(e) THEN e ELSE [e EXCEPT !.note = "unavailable"])
  /\ UNCHANGED <<added, choice, sends, uploads, timer, polls, mounted>>

(* uploadStatus itself is rejected: the poll ends, and no timer is set.    *)
StatusRejects ==
  /\ poll.on /\ poll.left # {}
  /\ poll' = [NoPoll EXCEPT !.broken = TRUE]
  /\ UNCHANGED <<entries, added, choice, sends, uploads, timer, polls, lost, mounted>>

StillOpen(e) == Open(e)

EndPoll ==
  /\ poll.on /\ poll.left = {}
  /\ poll' = NoPoll
  /\ polls' = IF polls < MaxPolls THEN polls + 1 ELSE polls
  /\ IF ~mounted \/ ~\E e \in entries : StillOpen(e) THEN UNCHANGED <<entries, timer>>
     ELSE IF polls' >= MaxPolls
     THEN /\ Patch({e.key : e \in {f \in entries : Open(f)}}, LAMBDA e : [e EXCEPT !.note = "processing"])
          /\ UNCHANGED timer
     ELSE SchedulePoll /\ UNCHANGED entries
  /\ UNCHANGED <<added, choice, sends, uploads, lost, mounted>>

Close ==
  /\ mounted /\ mounted' = FALSE /\ timer' = FALSE
  /\ UNCHANGED <<entries, added, choice, sends, uploads, poll, polls, lost>>

UploadNext ==
  \/ AddFiles \/ Choose \/ Remove \/ Create \/ Put \/ BatchSent
  \/ ServerWorks \/ StartPoll \/ ReadStatus \/ StatusRejects \/ EndPoll \/ Close

-----------------------------------------------------------------------------
(* While the dialog is open, what the server received of a listed file has *)
(* the readers the dialog shows: they are changed only when nothing listed *)
(* can be in the draft, also after a transfer that failed on this side     *)
(* alone (holdsReaders).                                                   *)
ShownReadersAreUsed ==
  mounted => \A e \in entries : uploads[e.key].state \in {"working", "ready"} => uploads[e.key].readers = choice

(* A file whose transfer is over is followed until it is ready or failed,  *)
(* or the dialog says it is not: no batch is forgotten by the one loop     *)
(* (schedulePoll, poll).  Only a status call that was rejected leaves open *)
(* files behind, until another batch is sent.                              *)
EveryFileIsFollowed ==
  mounted => \A e \in entries : Open(e) =>
    timer \/ poll.on \/ poll.broken \/ e.note = "processing" \/ \E s \in sends : s.batch = e.batch
=============================================================================
