----------------------------- MODULE ChatClient -----------------------------
(***************************************************************************)
(* The chat of one browser tab (useChatTurn, ChatSession): questions are   *)
(* asked, retried, stopped and left behind by New chat, while the replies  *)
(* of the server actions arrive in any order.                              *)
(*                                                                         *)
(* A closure keeps the transcript it was made with: what it places its     *)
(* turn into is the "prior" of its record, not the transcript of the       *)
(* moment.  A question is named by its number, which also names the        *)
(* request, the turn and, when it opens one, the conversation.             *)
(***************************************************************************)
EXTENDS Naturals, Sequences, FiniteSets

CONSTANTS MaxAsks,      \* bound: questions asked in the tab
          MaxSessions   \* bound: chats opened in the tab

VARIABLES
  session,      \* the mounted chat
  turns,        \* its transcript
  conversation, \* its conversation, 0 before it has one
  pending,      \* the question in flight, 0 for none
  guard,        \* guard.current of every chat
  stoppedRoute, \* stoppedRouteRef of every chat
  asks,         \* ask actions in flight
  stops,        \* cancel actions in flight
  lookups,      \* retries that look for the id of the failed message
  url,          \* the conversation the address bar names
  asked,        \* questions asked so far
  hurried       \* history: the member went on while a stop or a lookup was awaited

vars == <<session, turns, conversation, pending, guard, stoppedRoute, asks, stops, lookups,
          url, asked, hurried>>

Sessions == 1..MaxSessions

Init ==
  /\ session = 1 /\ turns = <<>> /\ conversation = 0 /\ pending = 0
  /\ guard = [s \in Sessions |-> 0] /\ stoppedRoute = [s \in Sessions |-> 0]
  /\ asks = {} /\ stops = {} /\ lookups = {}
  /\ url = 0 /\ asked = 0 /\ hurried = FALSE

-----------------------------------------------------------------------------
(* A turn takes the place of the one it retries, or the end.               *)
Place(prior, turn, replaces) ==
  IF replaces = 0 THEN Append(prior, turn)
  ELSE [i \in DOMAIN prior |-> IF prior[i].ask = replaces THEN turn ELSE prior[i]]

Turn(ask, shown, known) == [ask |-> ask, shown |-> shown, known |-> known]

ConversationOf(a) == IF a.into = 0 THEN a.ask ELSE a.into

(* A stop or a lookup of the mounted chat that is still awaited.           *)
Awaited == \E c \in stops \cup lookups : c.session = session

(* What submit does once it has checked the question: it captures the      *)
(* guard and the transcript of its closure.                                *)
Send(s, prior, into, replaces) ==
  /\ asked < MaxAsks
  /\ asked' = asked + 1
  /\ asks' = asks \cup {[ask |-> asked', session |-> s, token |-> guard[s], prior |-> prior,
                         into |-> into, replaces |-> replaces, outcome |-> "running"]}
  /\ stoppedRoute' = [stoppedRoute EXCEPT ![s] = 0]
  /\ pending' = IF s = session THEN asked' ELSE pending

Submit ==
  /\ pending = 0
  /\ Send(session, turns, conversation, 0)
  /\ hurried' = (hurried \/ Awaited)
  /\ UNCHANGED <<session, turns, conversation, guard, stops, lookups, url>>

(* Retry of an answered turn asks again; a failed one takes its place, at  *)
(* once if the server has named its message or there is no conversation    *)
(* to look it up in.                                                       *)
Retry ==
  /\ pending = 0
  /\ \E i \in DOMAIN turns :
       IF turns[i].shown = "answer" \/ turns[i].known \/ conversation = 0
       THEN /\ Send(session, turns, conversation, IF turns[i].shown = "answer" THEN 0 ELSE turns[i].ask)
            /\ UNCHANGED lookups
       ELSE /\ lookups' = lookups \cup {[session |-> session, turn |-> turns[i].ask,
                                         prior |-> turns, into |-> conversation]}
            /\ UNCHANGED <<asked, asks, stoppedRoute, pending>>
  /\ hurried' = (hurried \/ Awaited)
  /\ UNCHANGED <<session, turns, conversation, guard, stops, url>>

(* The lookup ends, found or not, and goes on with the closure of the      *)
(* click: it asks even if another question is in flight or the chat left.  *)
LookupReturns ==
  \E l \in lookups :
    /\ lookups' = lookups \ {l}
    /\ Send(l.session, l.prior, l.into, l.turn)
    /\ UNCHANGED <<session, turns, conversation, guard, stops, url, hurried>>

(* POST /turns on the server: an answer, a stored failure, or one that     *)
(* came before the turn existed.                                           *)
ServerEnds ==
  \E a \in asks : \E o \in {"answered", "failed", "unstored"} :
    /\ a.outcome = "running"
    /\ asks' = (asks \ {a}) \cup {[a EXCEPT !.outcome = o]}
    /\ UNCHANGED <<session, turns, conversation, pending, guard, stoppedRoute, stops, lookups, url,
                   asked, hurried>>

(* Mutant: a reply does not ask whether its chat was left or stopped.      *)
MutAlwaysCurrent(a) == TRUE

Current(a) == guard[a.session] = a.token

TurnOf(a) ==
  CASE a.outcome = "answered"  -> Turn(a.ask, "answer", TRUE)
    [] a.outcome = "failed"    -> Turn(a.ask, "failed", TRUE)
    [] a.outcome = "unstored"  -> Turn(a.ask, "failed", FALSE)
    [] a.outcome = "cancelled" -> Turn(a.ask, "stopped", TRUE)

Mounted(a) == a.session = session

(* The reply of an ask that is still wanted is placed.  An answer names    *)
(* the conversation and moves the address bar; a failure only names it.    *)
Land(a) ==
  LET opens == \/ a.outcome = "answered"
               \/ a.outcome \in {"failed", "cancelled"} /\ a.into = 0
  IN  /\ turns' = IF Mounted(a) THEN Place(a.prior, TurnOf(a), a.replaces) ELSE turns
      /\ conversation' = IF Mounted(a) /\ opens THEN ConversationOf(a) ELSE conversation
      /\ pending' = IF Mounted(a) THEN 0 ELSE pending
      /\ url' = IF a.outcome = "answered" THEN ConversationOf(a) ELSE url
      /\ UNCHANGED stoppedRoute

(* That of a stopped or abandoned one only completes a stop's navigation.  *)
FinishStoppedRoute(a) ==
  /\ url' = IF stoppedRoute[a.session] # 0 THEN stoppedRoute[a.session] ELSE url
  /\ stoppedRoute' = [stoppedRoute EXCEPT ![a.session] = 0]
  /\ UNCHANGED <<turns, conversation, pending>>

AskReturns ==
  \E a \in asks :
    /\ a.outcome # "running"
    /\ asks' = asks \ {a}
    /\ IF Current(a) THEN Land(a) ELSE FinishStoppedRoute(a)
    /\ UNCHANGED <<session, guard, stops, lookups, asked, hurried>>

-----------------------------------------------------------------------------
Stop ==
  /\ ~\E s \in stops : s.session = session
  /\ \E a \in asks :
       /\ a.ask = pending
       /\ stops' = stops \cup {[ask |-> pending, session |-> session, prior |-> turns,
                                replaces |-> a.replaces, into |-> ConversationOf(a), reply |-> "none"]}
  /\ hurried' = (hurried \/ \E l \in lookups : l.session = session)
  /\ UNCHANGED <<session, turns, conversation, pending, guard, stoppedRoute, asks, lookups, url, asked>>

(* POST /cancel: the turn that still runs fails as cancelled.  One that    *)
(* ended, or has no handle yet, refuses.                                   *)
ServerCancels ==
  \E s \in stops : \E ok \in BOOLEAN :
    /\ s.reply = "none"
    /\ ok => \E a \in asks : a.ask = s.ask /\ a.outcome = "running"
    /\ stops' = (stops \ {s}) \cup {[s EXCEPT !.reply = IF ok THEN "ok" ELSE "refused"]}
    /\ asks' = IF ok THEN {IF a.ask = s.ask THEN [a EXCEPT !.outcome = "cancelled"] ELSE a : a \in asks}
                     ELSE asks
    /\ UNCHANGED <<session, turns, conversation, pending, guard, stoppedRoute, lookups, url, asked, hurried>>

ShowStopped(s) ==
  /\ turns' = Place(s.prior, Turn(s.ask, "stopped", FALSE), s.replaces)
  /\ conversation' = s.into /\ pending' = 0

StopReturns ==
  \E s \in stops :
    /\ s.reply # "none"
    /\ stops' = stops \ {s}
    /\ IF s.reply = "refused"
       THEN UNCHANGED <<turns, conversation, pending, guard, stoppedRoute>>
       ELSE /\ guard' = [guard EXCEPT ![s.session] = @ + 1]
            /\ stoppedRoute' = [stoppedRoute EXCEPT ![s.session] = s.into]
            /\ IF s.session = session THEN ShowStopped(s) ELSE UNCHANGED <<turns, pending, conversation>>
    /\ UNCHANGED <<session, asks, lookups, url, asked, hurried>>

(* New chat, another conversation or View as: the chat is mounted anew.    *)
Leave ==
  /\ session < MaxSessions
  /\ session' = session + 1
  /\ guard' = [guard EXCEPT ![session] = @ + 1]
  /\ stoppedRoute' = [stoppedRoute EXCEPT ![session] = 0]
  /\ turns' = <<>> /\ conversation' = 0 /\ pending' = 0 /\ url' = 0
  /\ hurried' = (hurried \/ Awaited)
  /\ UNCHANGED <<asks, stops, lookups, asked>>

Next ==
  \/ Submit \/ Retry \/ LookupReturns \/ ServerEnds \/ AskReturns
  \/ Stop \/ ServerCancels \/ StopReturns \/ Leave

-----------------------------------------------------------------------------
(* A reply meets the chat it belongs to: it moves the address bar only to  *)
(* the conversation on the screen, and none overwrites an answer with the  *)
(* transcript it started from (guard, stoppedRouteRef, setTurns).  It is   *)
(* about a member who waits for a stop or a retry to get under way before  *)
(* doing something else: the code does not keep it otherwise.              *)
UrlIsOfTheChat == url \in {0, conversation}

AnswersAreKept ==
  session' = session =>
    \A i \in DOMAIN turns : turns[i].shown = "answer" =>
      \E j \in DOMAIN turns' : turns'[j].ask = turns[i].ask

KeepsTheChat == ~hurried' => UrlIsOfTheChat' /\ AnswersAreKept

RepliesMeetTheirChat == [][KeepsTheChat]_vars
=============================================================================
