------------------------------- MODULE ChatPanel -------------------------------
(***************************************************************************)
(* The evidence panel of a chat (chat-view.tsx): the turn it shows, the    *)
(* document reader in it, the documents being fetched, and the query       *)
(* string that carries both.  The page writes the query string itself;     *)
(* what it wrote comes back, later, as the parameters of a link.           *)
(***************************************************************************)
EXTENDS Naturals, Sequences

CONSTANTS Docs,     \* documents: numbers from 1
          MaxTurns, \* bound: turns with evidence
          MaxOpens  \* bound: documents opened

VARIABLES
  url,     \* the link in window.location
  written, \* links the page wrote and useSearchParams has not shown yet
  handled, \* handledDoc: the link last seen in the parameters
  panel,   \* whether it is open, and the turn it points to
  reader,
  seq,     \* readerSeq
  fetches, \* calls of loadDocument on their way
  turns    \* turns with evidence, numbered in order

panelVars == <<url, written, handled, panel, reader, seq, fetches, turns>>

NoDoc    == 0
NoTurn   == 0
NoLink   == [doc |-> NoDoc, n |-> 0]
NoReader == [doc |-> NoDoc, n |-> 0, turn |-> NoTurn, status |-> "none", view |-> NoDoc]

(* A link names a document and, from an answer, one of its citations.      *)
Links == [doc : Docs, n : 0..1]

LoadingReader(link, turn) ==
  [doc |-> link.doc, n |-> link.n, turn |-> turn, status |-> "loading", view |-> NoDoc]

Fetch(number, doc) == [seq |-> number, doc |-> doc]

PanelInit ==
  /\ url \in {NoLink} \cup Links
  /\ handled = url
  /\ written = <<>>
  /\ panel = [open |-> url # NoLink, turn |-> NoTurn]
  /\ reader = IF url = NoLink THEN NoReader ELSE LoadingReader(url, NoTurn)
  /\ seq = IF url = NoLink THEN 0 ELSE 1
  /\ fetches = IF url = NoLink THEN {} ELSE {Fetch(1, url.doc)}
  /\ turns \in {0, 1}

(* The turn the panel shows: the one it points to, or else the last.       *)
PanelTurn == IF panel.turn \in 1..turns THEN panel.turn ELSE turns

-----------------------------------------------------------------------------

(* The effect that keeps the panel in the query string.                    *)
LinkOf(p, r) == IF p.open /\ r # NoReader THEN [doc |-> r.doc, n |-> r.n] ELSE NoLink

Show(p, r, before) ==
  /\ panel' = p
  /\ reader' = r
  /\ url' = LinkOf(p, r)
  /\ written' = IF LinkOf(p, r) = url THEN before ELSE Append(before, LinkOf(p, r))

Open(p, link, turn, before) ==
  /\ seq < MaxOpens
  /\ seq' = seq + 1
  /\ fetches' = fetches \cup {Fetch(seq + 1, link.doc)}
  /\ Show(p, LoadingReader(link, turn), before)

(* A passage of the panel is opened.                                       *)
OpenDocument ==
  /\ panel.open /\ reader = NoReader /\ PanelTurn # NoTurn
  /\ \E doc \in Docs : Open(panel, [doc |-> doc, n |-> 1], PanelTurn, written)
  /\ UNCHANGED <<handled, turns>>

(* The effect that follows the link in the parameters, once per change.    *)
Follows(link) == link # handled /\ link.doc \notin {NoDoc, reader.doc}

TurnOf(link) == IF link.n = 0 THEN NoTurn ELSE PanelTurn

(* What the page wrote shows up; later writes may overtake earlier ones.   *)
ParamsShowUp(i) ==
  LET link == written[i]
      rest == SubSeq(written, i + 1, Len(written))
  IN  /\ handled' = link
      /\ \/ Follows(link) /\ Open([panel EXCEPT !.open = TRUE], link, TurnOf(link), rest)
         \/ ~Follows(link) /\ written' = rest /\ UNCHANGED <<url, panel, reader, seq, fetches>>
      /\ UNCHANGED turns

(* Search pushes a link to a document, which replaces what was written.    *)
FollowLink ==
  \E doc \in Docs :
    LET link == [doc |-> doc, n |-> 0]
    IN  /\ handled' = link
        /\ \/ /\ Follows(link) /\ seq < MaxOpens
              /\ seq' = seq + 1
              /\ fetches' = fetches \cup {Fetch(seq + 1, doc)}
              /\ panel' = [panel EXCEPT !.open = TRUE]
              /\ reader' = LoadingReader(link, NoTurn)
           \/ ~Follows(link) /\ UNCHANGED <<seq, fetches, panel, reader>>
        /\ url' = link
        /\ written' = <<>>
        /\ UNCHANGED turns

-----------------------------------------------------------------------------

(* fetchReader: only the document opened last is shown.                    *)
MutCurrent(f) == reader # NoReader

Current(f) == reader # NoReader /\ f.seq = seq

Shown(status, view) ==
  Show(panel, [reader EXCEPT !.status = status, !.view = view], written)

FetchReturns(f) ==
  /\ fetches' = fetches \ {f}
  /\ \/ Current(f) /\ (Shown("ready", f.doc) \/ Shown("missing", NoDoc) \/ Shown("failed", NoDoc))
     \/ ~Current(f) /\ UNCHANGED <<url, written, panel, reader>>
  /\ UNCHANGED <<handled, seq, turns>>

-----------------------------------------------------------------------------

(* A new answer takes over an open panel.                                  *)
ReaderAfterAnswer == NoReader

NewAnswer ==
  /\ turns < MaxTurns
  /\ turns' = turns + 1
  /\ Show(IF panel.open THEN [panel EXCEPT !.turn = turns + 1] ELSE panel, ReaderAfterAnswer, written)
  /\ UNCHANGED <<handled, seq, fetches>>

ClosePanel ==
  /\ panel.open
  /\ Show([panel EXCEPT !.open = FALSE], NoReader, written)
  /\ UNCHANGED <<handled, seq, fetches, turns>>

TogglePanel ==
  /\ turns > 0 /\ ~panel.open
  /\ Show([open |-> TRUE, turn |-> turns], reader, written)
  /\ UNCHANGED <<handled, seq, fetches, turns>>

Back ==
  /\ panel.open /\ reader # NoReader /\ PanelTurn # NoTurn
  /\ Show(panel, NoReader, written)
  /\ UNCHANGED <<handled, seq, fetches, turns>>

(* A citation of a turn, or any click in it while the panel is open; a     *)
(* reader opened from search belongs to no turn and stays.                 *)
OpenEvidenceFor(turn) ==
  /\ turn \in 1..turns
  /\ Show([open |-> TRUE, turn |-> turn],
          IF reader.turn \in {NoTurn, turn} THEN reader ELSE NoReader, written)
  /\ UNCHANGED <<handled, seq, fetches, turns>>

PanelNext ==
  \/ OpenDocument \/ FollowLink \/ NewAnswer \/ ClosePanel \/ TogglePanel \/ Back
  \/ \E i \in DOMAIN written : ParamsShowUp(i)
  \/ \E f \in fetches : FetchReturns(f)
  \/ \E turn \in 1..MaxTurns : OpenEvidenceFor(turn)

-----------------------------------------------------------------------------

(* The reader shows the document it was opened for, or still waits for     *)
(* it, beside the turn whose citation it highlights: whatever was opened   *)
(* and closed meanwhile, whichever answer comes last, and whenever the     *)
(* page's own links come back to it.                                       *)
ReaderShowsItsDocument ==
  reader # NoReader =>
    /\ reader.status = "ready" => reader.view = reader.doc
    /\ reader.status = "loading" => Fetch(seq, reader.doc) \in fetches
    /\ reader.turn # NoTurn => reader.turn = PanelTurn

=============================================================================
