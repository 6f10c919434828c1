-------------------------------- MODULE ViewAs --------------------------------
(***************************************************************************)
(* A turn that an admin runs as another person (runViewAsTurn): the        *)
(* request id is claimed with an audit row before the run, and the answer, *)
(* with the titles an admin may be told of, is released only once the row  *)
(* records it.                                                             *)
(***************************************************************************)
EXTENDS FiniteSets, Sequences

CONSTANTS Admins, People, RequestIds,
          Turns \* requests in flight: first sends, repeats and retries

VARIABLES
  audits,     \* view_as_audits: at most one row per request id
  turns,
  executions  \* history: the turns that ran, in order

viewVars == <<audits, turns, executions>>

NoRow    == [admin |-> "none", person |-> "none", answer |-> "null", cited |-> FALSE, diagnostic |-> FALSE]
NewTurn  == [at |-> "idle", admin |-> "none", person |-> "none", id |-> "none", answer |-> "error",
             cited |-> FALSE, diagnostic |-> FALSE, tries |-> 0, released |-> FALSE]

ViewInit ==
  /\ audits = [id \in RequestIds |-> NoRow]
  /\ turns = [t \in Turns |-> NewTurn]
  /\ executions = <<>>

-----------------------------------------------------------------------------

(* requireAdmin; a second admin, or the same one with another person, may  *)
(* send the same request id.                                               *)
Begin(t) ==
  /\ turns[t].at = "idle"
  /\ \E admin \in Admins, person \in People, id \in RequestIds :
       turns' = [turns EXCEPT ![t] = [NewTurn EXCEPT !.at = "load", !.admin = admin,
                                                     !.person = person, !.id = id]]
  /\ UNCHANGED <<audits, executions>>

Refuse(t) == turns' = [turns EXCEPT ![t].at = "refused"]

(* loadAssumedPerson: the person is gone, or is no user.                   *)
LoadPerson(t) ==
  /\ turns[t].at = "load"
  /\ turns' = [turns EXCEPT ![t].at = "claim"] \/ Refuse(t)
  /\ UNCHANGED <<audits, executions>>

Unclaimed(id, turn) == audits[id] = NoRow

(* beginViewAsAudit.                                                       *)
ClaimAudit(t) ==
  /\ turns[t].at = "claim"
  /\ LET turn == turns[t]
     IN  IF Unclaimed(turn.id, turn)
         THEN /\ audits' = [audits EXCEPT ![turn.id] = [NoRow EXCEPT !.admin = turn.admin,
                                                                     !.person = turn.person]]
              /\ turns' = [turns EXCEPT ![t].at = "run"]
         ELSE Refuse(t) /\ UNCHANGED audits
  /\ UNCHANGED executions

-----------------------------------------------------------------------------

(* executeTurn as the person, or its failure.                              *)
Answered(t) ==
  /\ turns[t].at = "run"
  /\ executions' = Append(executions, t)
  /\ \/ \E cited \in BOOLEAN :
          turns' = [turns EXCEPT ![t].at = "finish", ![t].answer = "grounded", ![t].cited = cited]
     \/ turns' = [turns EXCEPT ![t].at = "match", ![t].answer = "insufficient_evidence"]
     \/ turns' = [turns EXCEPT ![t].at = "finish"]
  /\ UNCHANGED audits

(* adminTitleMatch, whose failure only leaves the diagnostic out.          *)
MatchTitles(t) ==
  /\ turns[t].at = "match"
  /\ \E found \in BOOLEAN :
       turns' = [turns EXCEPT ![t].at = "finish", ![t].diagnostic = found]
  /\ UNCHANGED <<audits, executions>>

MutReleasable(turn, audited) == turn.answer # "error"

Releasable(turn, audited) == turn.answer # "error" /\ audited

End(t, audited, tries) ==
  turns' = [turns EXCEPT ![t].at = "done", ![t].tries = tries,
                         ![t].released = Releasable(turns[t], audited)]

(* finishViewAsAudit, tried twice; the reply of a write that was made may  *)
(* be lost.                                                                *)
Write(t) ==
  audits' = [audits EXCEPT ![turns[t].id] =
    [@ EXCEPT !.answer = turns[t].answer, !.cited = turns[t].cited, !.diagnostic = turns[t].diagnostic]]

FinishAudit(t) ==
  /\ turns[t].at = "finish"
  /\ Write(t)
  /\ End(t, TRUE, 1)
  /\ UNCHANGED executions

FinishFails(t) ==
  /\ turns[t].at = "finish"
  /\ Write(t) \/ UNCHANGED audits
  /\ \/ turns[t].tries = 0 /\ turns' = [turns EXCEPT ![t].tries = 1]
     \/ turns[t].tries = 1 /\ End(t, FALSE, 2)
  /\ UNCHANGED executions

TurnDies(t) ==
  /\ turns[t].at \in {"load", "claim", "run", "match", "finish"}
  /\ turns' = [turns EXCEPT ![t].at = "died"]
  /\ UNCHANGED <<audits, executions>>

ViewNext ==
  \E t \in Turns : \/ Begin(t) \/ LoadPerson(t) \/ ClaimAudit(t) \/ Answered(t) \/ MatchTitles(t)
                   \/ FinishAudit(t) \/ FinishFails(t) \/ TurnDies(t)

-----------------------------------------------------------------------------

(* Nobody sees an answer as another person, or a title that person cannot  *)
(* read, without a row that says who did, as whom, and what was shown:     *)
(* also when request ids repeat, replies of the audit's writes are lost    *)
(* and Workers die.  (runViewAsTurn: "a request id executes at most        *)
(* once".)                                                                 *)
ReleasedIsAudited ==
  \A t \in Turns : turns[t].released =>
    /\ audits[turns[t].id] = [admin |-> turns[t].admin, person |-> turns[t].person,
                              answer |-> turns[t].answer, cited |-> turns[t].cited,
                              diagnostic |-> turns[t].diagnostic]
    /\ \A i, j \in DOMAIN executions :
         turns[executions[i]].id = turns[t].id /\ turns[executions[j]].id = turns[t].id => i = j

=============================================================================
