----------------------------- MODULE Transcript ------------------------------
(***************************************************************************)
(* The messages of one conversation, what the next turn is told of them    *)
(* (loadBoundedHistory), and what the reader is shown of them              *)
(* (loadConversationForUi).                                                *)
(*                                                                         *)
(* Rows are kept in the order the code reads them, created_at then id.  A  *)
(* row's text is its size; the questions have size 1.  Old conversations   *)
(* hold answers without a parent, which pair with questions by position.   *)
(***************************************************************************)
EXTENDS Integers, Sequences, FiniteSetsExt

CONSTANTS MaxHistoryTurns, MaxHistoryChars, HistoryTailRows,
          OldConversations, \* held before answers had parents
          AnswerSizes,
          MaxMessages       \* bound: rows of the conversation

VARIABLE messages

NoParent == 0

User(id) == [id |-> id, role |-> "user", parent |-> NoParent, status |-> "completed", size |-> 1]
Assistant(id, parent, status, size) ==
  [id |-> id, role |-> "assistant", parent |-> parent, status |-> status, size |-> size]

(* A conversation is new, or was held before answers had parents.          *)
TranscriptInit == messages \in {<<>>} \cup OldConversations

-----------------------------------------------------------------------------

(* pairCompletedHistoryTurns: a completed answer belongs to its parent, or *)
(* to the oldest question nobody answered.                                 *)

Turn(user, assistant) ==
  [question |-> user.id, answer |-> assistant.id, size |-> user.size + assistant.size]

Reserved(rs) == {rs[i].parent : i \in DOMAIN rs} \ {NoParent}

DropWhileIn(users, taken) ==
  LET kept == {i \in DOMAIN users : users[i].id \notin taken}
  IN  IF kept = {} THEN <<>> ELSE SubSeq(users, Min(kept), Len(users))

PairParent(acc, row, rs) ==
  LET parents == {i \in DOMAIN rs : rs[i].id = row.parent /\ rs[i].role = "user"}
                   \ {i \in DOMAIN rs : rs[i].id \in acc.used}
  IN  IF parents = {}
      THEN acc
      ELSE [acc EXCEPT !.used = @ \cup {row.parent},
                       !.turns = Append(@, Turn(rs[CHOOSE i \in parents : TRUE], row))]

PairOldest(acc, row, rs) ==
  LET open == DropWhileIn(acc.users, acc.used \cup Reserved(rs))
  IN  IF open = <<>>
      THEN [acc EXCEPT !.users = open]
      ELSE [users |-> Tail(open), used |-> acc.used \cup {Head(open).id},
            turns |-> Append(acc.turns, Turn(Head(open), row))]

PairRow(acc, row, rs) ==
  IF row.role = "user" THEN [acc EXCEPT !.users = Append(@, row)]
  ELSE IF row.status # "completed" THEN acc
  ELSE IF row.parent # NoParent THEN PairParent(acc, row, rs)
  ELSE PairOldest(acc, row, rs)

(* What the loop knows after each row.                                     *)
Pairing(rs) ==
  LET after[n \in 0..Len(rs)] ==
        IF n = 0 THEN [users |-> <<>>, used |-> {}, turns |-> <<>>]
        ELSE PairRow(after[n - 1], rs[n], rs)
  IN  after

PairCompletedHistoryTurns(rs) == Pairing(rs)[Len(rs)].turns

-----------------------------------------------------------------------------

(* trimStoredHistory, boundedTurnSaturated and loadBoundedHistory: the     *)
(* newest turns that fit, read from a tail of the rows when the tail is    *)
(* enough.                                                                 *)

Newest(s, n) == SubSeq(s, Max({1, Len(s) - n + 1}), Len(s))

(* The characters of the newest n turns.                                   *)
Chars(turns) ==
  LET chars[n \in 0..Len(turns)] ==
        IF n = 0 THEN 0 ELSE chars[n - 1] + turns[Len(turns) - n + 1].size
  IN  chars

TrimStoredHistory(turns) ==
  LET recent == Newest(turns, MaxHistoryTurns)
      chars  == Chars(recent)
      fits   == {n \in 0..Len(recent) : n <= 1 \/ chars[n] <= MaxHistoryChars}
  IN  Newest(recent, Max(fits))

MutSaturatedByAny(bounded, tail) == bounded # <<>>

BoundedTurnSaturated(bounded, tail) ==
  /\ tail # <<>>
  /\ \A i \in DOMAIN tail : tail[i].role = "assistant" => tail[i].parent # NoParent
  /\ \/ Len(bounded) >= MaxHistoryTurns
     \/ Chars(bounded)[Len(bounded)] >= MaxHistoryChars

LoadBoundedHistory(rs) ==
  LET tail    == Newest(rs, HistoryTailRows)
      bounded == TrimStoredHistory(PairCompletedHistoryTurns(tail))
  IN  IF Len(tail) < HistoryTailRows \/ BoundedTurnSaturated(bounded, tail)
      THEN bounded
      ELSE TrimStoredHistory(PairCompletedHistoryTurns(rs))

-----------------------------------------------------------------------------

(* loadConversationForUi: the attempts at one question collapse to the     *)
(* newest completed one, else the newest failed one.                       *)

Ended(row) == row.role = "assistant" /\ row.parent # NoParent /\ row.status \in {"completed", "failed"}

Better(rs, i, j) ==
  \/ rs[i].status = "completed" /\ rs[j].status = "failed"
  \/ rs[i].status = rs[j].status /\ i > j

Attempts(rs, user) == {i \in DOMAIN rs : Ended(rs[i]) /\ rs[i].parent = user}

Shown(rs) ==
  {rs[i] : i \in {k \in DOMAIN rs :
     Ended(rs[k]) /\ \A j \in Attempts(rs, rs[k].parent) \ {k} : Better(rs, k, j)}}

ShownTurn(row) == [question |-> row.parent, answer |-> row.id, status |-> row.status]

View(rs) ==
  IF Shown(rs) # {}
  THEN {ShownTurn(row) : row \in Shown(rs)}
  ELSE LET turns == PairCompletedHistoryTurns(rs)
       IN  {[question |-> turns[i].question, answer |-> turns[i].answer, status |-> "completed"]
             : i \in DOMAIN turns}

-----------------------------------------------------------------------------

Id(n) == Len(messages) + n
Room(n) == Len(messages) + n <= MaxMessages

(* createPendingTurn stores the question and its pending answer; another   *)
(* window may ask in the same millisecond.                                 *)
Ask ==
  /\ Room(2)
  /\ messages' = messages \o <<User(Id(1)), Assistant(Id(2), Id(1), "pending", 0)>>

AskTogether ==
  /\ Room(4)
  /\ messages' = messages \o <<User(Id(1)), User(Id(3)),
                               Assistant(Id(2), Id(1), "pending", 0),
                               Assistant(Id(4), Id(3), "pending", 0)>>

(* completeTurn, failTurn, or neither when the Worker dies.                *)
Finish(i) ==
  /\ messages[i].status = "pending"
  /\ \/ \E size \in AnswerSizes :
          messages' = [messages EXCEPT ![i].status = "completed", ![i].size = size]
     \/ messages' = [messages EXCEPT ![i].status = "failed"]

(* resolveTurnRetry: a failed answer that nothing replaced is asked again  *)
(* under the stored question.                                              *)
Superseded(i) ==
  \E j \in Attempts(messages, messages[i].parent) \ {i} :
    messages[j].status = "completed" \/ j > i

Retry(i) ==
  /\ Room(1)
  /\ messages[i].status = "failed"
  /\ ~Superseded(i)
  /\ messages' = Append(messages, Assistant(Id(1), messages[i].parent, "pending", 0))

TranscriptNext ==
  \/ Ask
  \/ AskTogether
  \/ \E i \in DOMAIN messages : Finish(i) \/ Retry(i)

-----------------------------------------------------------------------------

(* A question whose answer is in the tail and which is not itself in it:   *)
(* it was asked again so much later that the tail lost it.                 *)
AskedAgainFromBelowTheTail ==
  LET tail == Newest(messages, HistoryTailRows)
  IN  \E i \in DOMAIN tail :
        /\ tail[i].status = "completed" /\ tail[i].parent # NoParent
        /\ \A j \in DOMAIN tail : tail[j].id # tail[i].parent
        /\ \E j \in DOMAIN tail : j < i /\ tail[j].role = "user"

(* The bounded read tells the next turn what a full scan would have told   *)
(* it: the newest turns, whatever failed or pending rows fill the tail     *)
(* (loadBoundedHistory: "reproduces the full-conversation result").        *)
TailIsTheHistory ==
  AskedAgainFromBelowTheTail
    \/ LoadBoundedHistory(messages) = TrimStoredHistory(PairCompletedHistoryTurns(messages))

AnsweredTwice(user) ==
  \E i, j \in Attempts(messages, user) :
    i # j /\ messages[i].status = "completed" /\ messages[j].status = "completed"

AllParented ==
  \A i \in DOMAIN messages : messages[i].role = "assistant" => messages[i].parent # NoParent

(* The model is told the answers the reader sees, no other: in a           *)
(* conversation of parented answers every remembered pair is a shown one   *)
(* and every shown answer is paired, whatever attempts failed or still     *)
(* run, unless two attempts at one question were both answered.            *)
RememberedIsShown ==
  LET turns == PairCompletedHistoryTurns(messages)
      told  == {<<turns[i].question, turns[i].answer>> : i \in DOMAIN turns}
      seen  == {<<v.question, v.answer>> : v \in {w \in View(messages) : w.status = "completed"}}
  IN  \/ \E i \in DOMAIN messages : AnsweredTwice(messages[i].id)
      \/ /\ seen \subseteq told
         /\ AllParented => told = seen

=============================================================================
