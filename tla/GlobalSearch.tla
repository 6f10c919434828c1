----------------------------- MODULE GlobalSearch -----------------------------
(***************************************************************************)
(* Search: the dialog that asks while the member types (search-host.tsx)   *)
(* and the document hits the Brain computes (searchDocuments).  The full   *)
(* text index knows every document; the access of a document is a          *)
(* condition of the query, before the cap and the limit.                   *)
(*                                                                         *)
(* Documents are numbers in the order of their titles.  A document has one *)
(* word, in its title or in its headings; a query is a word, or TooShort.  *)
(***************************************************************************)
EXTENDS Naturals, FiniteSets

CONSTANTS Documents, Words,
          Cap,     \* SEARCH_CANDIDATE_CAP
          Limit,   \* SEARCH_RESULT_LIMIT
          MaxCalls \* bound: searches on their way

VARIABLES
  catalog, \* word, place and whether the member may read it
  query,   \* what is typed
  timer,   \* the debounce timer of the query
  calls,   \* searches on their way: of the query on screen, or cancelled
  settled, \* the last result kept
  lost     \* history: the call of this query failed without an answer

searchVars == <<catalog, query, timer, calls, settled, lost>>

TooShort == 0
Nothing  == [q |-> TooShort, hits |-> {}, failed |-> FALSE]

Catalogs == [Documents -> [word : Words, place : {"title", "heading"}, readable : BOOLEAN]]

SearchInit ==
  /\ catalog \in Catalogs
  /\ query = TooShort
  /\ timer = FALSE
  /\ calls = {}
  /\ settled = Nothing
  /\ lost = FALSE

-----------------------------------------------------------------------------

(* Hits in the title come first, then by title.                            *)
Before(d, e) ==
  \/ catalog[d].place = "title" /\ catalog[e].place = "heading"
  \/ catalog[d].place = catalog[e].place /\ d < e

(* The first n of some documents.                                          *)
FirstOf(n, documents) == {d \in documents : Cardinality({e \in documents : Before(e, d)}) < n}

Matches(q) == {d \in Documents : catalog[d].word = q}

Readable == {d \in Documents : catalog[d].readable}

Candidates(q) == FirstOf(Cap, Matches(q) \cap Readable)

SearchDocuments(q) == FirstOf(Limit, Candidates(q))

-----------------------------------------------------------------------------

(* The effect of a query: the one before is cancelled.                     *)
Type ==
  /\ \E q \in Words \cup {TooShort} :
       /\ q # query
       /\ query' = q
       /\ timer' = (q # TooShort)
  /\ calls' = {[c EXCEPT !.cancelled = TRUE] : c \in calls}
  /\ lost' = FALSE
  /\ UNCHANGED <<catalog, settled>>

TimerFires ==
  /\ timer
  /\ Cardinality(calls) < MaxCalls
  /\ timer' = FALSE
  /\ calls' = calls \cup {[q |-> query, cancelled |-> FALSE]}
  /\ UNCHANGED <<catalog, query, settled, lost>>

Kept(c) == ~c.cancelled

CallReturns(c) ==
  /\ calls' = calls \ {c}
  /\ \/ /\ Kept(c)
        /\ \/ settled' = [q |-> c.q, hits |-> SearchDocuments(c.q), failed |-> FALSE]
           \/ settled' = [q |-> c.q, hits |-> {}, failed |-> TRUE]
     \/ ~Kept(c) /\ UNCHANGED settled
  /\ UNCHANGED <<catalog, query, timer, lost>>

(* The call itself fails: nobody catches it.                               *)
CallIsLost(c) ==
  /\ calls' = calls \ {c}
  /\ lost' = (lost \/ ~c.cancelled)
  /\ UNCHANGED <<catalog, query, timer, settled>>

SearchNext ==
  \/ Type \/ TimerFires
  \/ \E c \in calls : CallReturns(c) \/ CallIsLost(c)

-----------------------------------------------------------------------------

Current == query # TooShort /\ settled.q = query

(* The dialog shows the best documents the member may read for the query   *)
(* on screen, and the documents they may not read change nothing about     *)
(* them; until then it waits for a search that is on its way.  (A search   *)
(* whose call is lost is waited for until something else is typed.)        *)
HitsAnswerTheQuery ==
  /\ Current /\ ~settled.failed =>
       settled.hits = FirstOf(Limit, Matches(query) \cap Readable)
  /\ query # TooShort /\ ~Current =>
       timer \/ lost \/ [q |-> query, cancelled |-> FALSE] \in calls

=============================================================================
