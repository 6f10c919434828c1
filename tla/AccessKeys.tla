----------------------------- MODULE AccessKeys -----------------------------
(***************************************************************************)
(* The signing keys a Worker isolate keeps of the Access team              *)
(* (AccessJwtVerifier): a cache with a time to live, one fetch in flight   *)
(* for all requests, a pause between fetches, and a grace in which an old  *)
(* key set is still used while the team's endpoint fails.                  *)
(*                                                                         *)
(* The team publishes a key set of its own accord.  "gone" and "since"     *)
(* remember when a key was last and first published.                       *)
(***************************************************************************)
EXTENDS Integers, FiniteSets

CONSTANTS Kids, Requests,
          Ttl,         \* ttlMs
          MinRefetch,  \* minRefetchMs
          Grace,       \* staleGraceMs
          Timeout,     \* HTTP_TIMEOUT_MS
          MaxNow       \* bound: the clock

VARIABLES
  elapsed,    \* nowElapsedMs()
  published,  \* the key set of the team
  since,      \* when each published key was published
  gone,       \* when each other key was withdrawn
  keys,       \* this.keys
  fetchedAt,  \* this.fetchedAt
  attemptedAt,\* this.attemptedAt
  fetch,      \* the fetch in flight and what it read
  verifying   \* the requests: waiting for a key or answered

accessVars == <<elapsed, published, since, gone, keys, fetchedAt, attemptedAt, fetch, verifying>>

Never == -100 \* a time before all others (NEVER)

NoFetch == [sent |-> Never, read |-> {}, done |-> FALSE]
Fresh(at) == elapsed - at < Ttl

Waiting(kid)       == [state |-> "waiting", kid |-> kid]
Answer(kid, reply) == [state |-> reply, kid |-> kid]
Free               == [state |-> "free", kid |-> "none"]

AccessInit ==
  /\ elapsed = 0
  /\ published \in (SUBSET Kids \ {{}})
  /\ since = [k \in Kids |-> IF k \in published THEN Never ELSE MaxNow + 1]
  /\ gone = [k \in Kids |-> IF k \in published THEN MaxNow + 1 ELSE Never]
  /\ keys = {} /\ fetchedAt = Never /\ attemptedAt = Never
  /\ fetch = NoFetch
  /\ verifying = [r \in Requests |-> Free]

-----------------------------------------------------------------------------
(* Mutant: the grace is not asked.                                         *)
MutFallback(kid) ==
  IF kid \in keys THEN "accepted" ELSE IF keys # {} /\ Fresh(fetchedAt) THEN "unknown" ELSE "unavailable"

(* fallback: what the cached keys say of a key that was not confirmed now. *)
Fallback(kid) ==
  IF kid \in keys THEN IF elapsed - fetchedAt > Grace THEN "unavailable" ELSE "accepted"
  ELSE IF keys # {} /\ Fresh(fetchedAt) THEN "unknown" ELSE "unavailable"

Cooling == attemptedAt # Never /\ elapsed - attemptedAt < MinRefetch

Trusts(kid) == kid \in keys /\ Fresh(fetchedAt)

(* keyFor: a fresh key is used, a set fetched a moment ago is taken as it  *)
(* is; otherwise the request joins the fetch in flight or starts one.      *)
Verify(r) ==
  /\ verifying[r].state = "free"
  /\ \E kid \in Kids :
       \/ /\ Trusts(kid)
          /\ verifying' = [verifying EXCEPT ![r] = Answer(kid, "accepted")]
          /\ UNCHANGED <<attemptedAt, fetch>>
       \/ /\ ~Trusts(kid) /\ Cooling /\ (keys # {} \/ fetch = NoFetch)
          /\ verifying' = [verifying EXCEPT ![r] = Answer(kid, Fallback(kid))]
          /\ UNCHANGED <<attemptedAt, fetch>>
       \/ /\ ~Trusts(kid) /\ (keys = {} \/ ~Cooling) /\ fetch # NoFetch
          /\ verifying' = [verifying EXCEPT ![r] = Waiting(kid)]
          /\ UNCHANGED <<attemptedAt, fetch>>
       \/ /\ ~Trusts(kid) /\ ~Cooling /\ fetch = NoFetch
          /\ verifying' = [verifying EXCEPT ![r] = Waiting(kid)]
          /\ attemptedAt' = elapsed
          /\ fetch' = [sent |-> elapsed, read |-> {}, done |-> FALSE]
  /\ UNCHANGED <<elapsed, published, since, gone, keys, fetchedAt>>

(* The team's endpoint reads its key set for the reply.                    *)
EndpointReads ==
  /\ fetch # NoFetch /\ ~fetch.done
  /\ fetch' = [fetch EXCEPT !.read = published, !.done = TRUE]
  /\ UNCHANGED <<elapsed, published, since, gone, keys, fetchedAt, attemptedAt, verifying>>

Settle(reply) ==
  verifying' = [r \in Requests |->
    IF verifying[r].state = "waiting" THEN Answer(verifying[r].kid, reply[verifying[r].kid]) ELSE verifying[r]]

FetchSucceeds ==
  /\ fetch.done
  /\ keys' = fetch.read /\ fetchedAt' = elapsed /\ fetch' = NoFetch
  /\ Settle([kid \in Kids |-> IF kid \in fetch.read THEN "accepted" ELSE "unknown"])
  /\ UNCHANGED <<elapsed, published, since, gone, attemptedAt>>

(* No reply in time, an error, or a body that is too long or no key set.   *)
FetchFails ==
  /\ fetch # NoFetch
  /\ fetch' = NoFetch
  /\ Settle([kid \in Kids |-> Fallback(kid)])
  /\ UNCHANGED <<elapsed, published, since, gone, keys, fetchedAt, attemptedAt>>

(* The reply has been sent; the isolate takes the next request.            *)
Reply(r) ==
  /\ verifying[r].state \notin {"free", "waiting"}
  /\ verifying' = [verifying EXCEPT ![r] = Free]
  /\ UNCHANGED <<elapsed, published, since, gone, keys, fetchedAt, attemptedAt, fetch>>

Rotate ==
  \E k \in Kids :
    /\ published' = IF k \in published THEN published \ {k} ELSE published \cup {k}
    /\ published' # {}
    /\ IF k \in published
       THEN gone' = [gone EXCEPT ![k] = elapsed] /\ UNCHANGED since
       ELSE since' = [since EXCEPT ![k] = elapsed] /\ gone' = [gone EXCEPT ![k] = MaxNow + 1]
    /\ UNCHANGED <<elapsed, keys, fetchedAt, attemptedAt, fetch, verifying>>

(* A fetch is given up after Timeout; a reply is sent at once.             *)
Elapse ==
  /\ elapsed < MaxNow
  /\ fetch # NoFetch => elapsed - fetch.sent < Timeout
  /\ \A r \in Requests : verifying[r].state \in {"free", "waiting"}
  /\ elapsed' = elapsed + 1
  /\ UNCHANGED <<published, since, gone, keys, fetchedAt, attemptedAt, fetch, verifying>>

AccessNext ==
  \/ \E r \in Requests : Verify(r) \/ Reply(r)
  \/ EndpointReads \/ FetchSucceeds \/ FetchFails \/ Rotate \/ Elapse

-----------------------------------------------------------------------------
(* A withdrawn key is accepted no longer than the grace and one fetch: not *)
(* because the endpoint fails, nor because a slow reply carried it.        *)
WithdrawnKeyLapses ==
  \A r \in Requests : verifying[r].state = "accepted" =>
    elapsed <= gone[verifying[r].kid] + Grace + Timeout

(* A key is called unknown (401, for good) only while it is newer than the *)
(* time to live and one fetch: an older one is at worst unavailable.       *)
PublishedKeyIsKnown ==
  \A r \in Requests : verifying[r].state = "unknown" =>
    LET k == verifying[r].kid IN k \in published => elapsed <= since[k] + Ttl + Timeout
=============================================================================
