---------------------------- MODULE ServiceProofs ----------------------------
(***************************************************************************)
(* Proofs about the services that Services.cfg checks side by side, for    *)
(* any values of their constants: one section per service.  A section      *)
(* calls the slots of Services by the names that they have in the module   *)
(* of its service.                                                         *)
(***************************************************************************)
EXTENDS Services, FiniteSetTheorems, WellFoundedInduction, TLAPS


-----------------------------------------------------------------------------
(* AccessKeys.                                                             *)

elapsed   == v1
published == v2
since     == v3
gone      == v4
keys      == v5
fetchedAt == v6
fetch     == v8
verifying == v9

USE DEF elapsed, published, since, gone, keys, fetchedAt, fetch, verifying

Verdicts == [state : {"free", "waiting", "accepted", "unknown", "unavailable"}, kid : Kids \cup {"none"}]

KeysTyped ==
  /\ elapsed \in 0..MaxNow
  /\ published \subseteq Kids /\ keys \subseteq Kids
  /\ since \in [Kids -> Int] /\ gone \in [Kids -> Int]
  /\ fetchedAt \in Int
  /\ fetch \in [sent : Int, read : SUBSET Kids, done : BOOLEAN]
  /\ verifying \in [Requests -> Verdicts]
  /\ \A r \in Requests : verifying[r].state # "free" => verifying[r].kid \in Kids

(* A key set that the endpoint read at the time "at", or later. *)
AsOf(set, at) ==
  \A k \in Kids : /\ k \in set => at <= gone[k]
                  /\ k \in published \ set => at <= since[k]

PublishedIsNotGone == \A k \in published : gone[k] = MaxNow + 1

FetchIsRecent ==
  /\ fetch # KeyCache!NoFetch => fetch.sent <= elapsed /\ elapsed - fetch.sent <= Timeout
  /\ fetch.done => AsOf(fetch.read, fetch.sent)

CacheIsAsOld == keys # {} => fetchedAt <= elapsed /\ AsOf(keys, fetchedAt - Timeout)

(* What an answer given now may be. *)
Right(kid, state) ==
  /\ state \in {"accepted", "unknown", "unavailable"}
  /\ state = "accepted" => elapsed <= gone[kid] + Grace + Timeout
  /\ state = "unknown" => (kid \in published => elapsed <= since[kid] + Ttl + Timeout)

KeysSafe ==
  /\ KeysTyped /\ PublishedIsNotGone /\ FetchIsRecent /\ CacheIsAsOld
  /\ \A r \in Requests : verifying[r].state \in {"accepted", "unknown"} => Right(verifying[r].kid, verifying[r].state)

LEMMA KeysInitSafe == KeyCache!AccessInit => KeysSafe
BY KeyTimesAreNats DEF KeyCache!AccessInit, KeyCache!Never, KeyCache!NoFetch, KeyCache!Free, KeysSafe, KeysTyped, Verdicts,
   PublishedIsNotGone, FetchIsRecent, CacheIsAsOld, AsOf

(* What the cached keys say is right, also when they are used without a    *)
(* fetch.                                                                  *)
LEMMA CacheIsRight ==
  ASSUME KeysSafe, NEW kid \in Kids
  PROVE  /\ Right(kid, KeyCache!Fallback(kid))
         /\ KeyCache!Trusts(kid) => Right(kid, "accepted")
<1>1. /\ elapsed \in Int /\ fetchedAt \in Int /\ since[kid] \in Int /\ gone[kid] \in Int
      /\ Ttl \in Nat /\ Grace \in Nat /\ Timeout \in Nat
  BY KeyTimesAreNats DEF KeysSafe, KeysTyped
<1>2. kid \in keys => fetchedAt - Timeout <= gone[kid]
  BY DEF KeysSafe, CacheIsAsOld, AsOf
<1>3. keys # {} /\ kid \in published \ keys => fetchedAt - Timeout <= since[kid]
  BY DEF KeysSafe, CacheIsAsOld, AsOf
<1> QED
  BY <1>1, <1>2, <1>3, TtlWithinGrace DEF Right, KeyCache!Fallback, KeyCache!Trusts, KeyCache!Fresh

(* A step that only answers requests. *)
LEMMA AnswersAreSafe ==
  ASSUME KeysSafe, UNCHANGED <<elapsed, published, since, gone>>, KeysTyped',
         FetchIsRecent', CacheIsAsOld',
         \A r \in Requests :
           \/ verifying'[r] = verifying[r]
           \/ verifying'[r].state \in {"free", "waiting"}
           \/ Right(verifying'[r].kid, verifying'[r].state)
  PROVE  KeysSafe'
<1>1. PublishedIsNotGone'
  BY DEF KeysSafe, PublishedIsNotGone
<1>2. ASSUME NEW r \in Requests, verifying'[r].state \in {"accepted", "unknown"}
      PROVE  Right(verifying[r].kid, verifying[r].state)'
  BY <1>2 DEF KeysSafe, Right
<1> QED
  BY <1>1, <1>2 DEF KeysSafe

LEMMA VerdictGiven ==
  ASSUME KeysTyped, NEW r \in Requests, NEW kid \in Kids,
         NEW state \in {"waiting", "accepted", "unknown", "unavailable"},
         verifying' = [verifying EXCEPT ![r] = [state |-> state, kid |-> kid]]
  PROVE  /\ verifying' \in [Requests -> Verdicts]
         /\ \A q \in Requests : verifying'[q].state # "free" => verifying'[q].kid \in Kids
         /\ \A q \in Requests \ {r} : verifying'[q] = verifying[q]
         /\ verifying'[r].state = state /\ verifying'[r].kid = kid
BY DEF KeysTyped, Verdicts

LEMMA VerifyIsSafe ==
  ASSUME KeysSafe, NEW r \in Requests, KeyCache!Verify(r)
  PROVE  KeysSafe'
<1>0. KeysTyped /\ FetchIsRecent /\ CacheIsAsOld
  BY DEF KeysSafe
<1>1. UNCHANGED <<elapsed, published, since, gone, keys, fetchedAt>>
  BY DEF KeyCache!Verify
<1>2. CacheIsAsOld'
  BY <1>0, <1>1 DEF CacheIsAsOld, AsOf
<1>3. PICK kid \in Kids :
       \/ /\ KeyCache!Trusts(kid)
          /\ verifying' = [verifying EXCEPT ![r] = KeyCache!Answer(kid, "accepted")]
          /\ fetch' = fetch
       \/ /\ verifying' = [verifying EXCEPT ![r] = KeyCache!Answer(kid, KeyCache!Fallback(kid))]
          /\ fetch' = fetch
       \/ /\ verifying' = [verifying EXCEPT ![r] = KeyCache!Waiting(kid)]
          /\ fetch' = fetch \/ fetch' = [sent |-> elapsed, read |-> {}, done |-> FALSE]
  BY DEF KeyCache!Verify
<1>4. fetch' \in [sent : Int, read : SUBSET Kids, done : BOOLEAN] /\ FetchIsRecent'
  <2>1. CASE fetch' = fetch
    BY <1>0, <1>1, <2>1 DEF KeysTyped, FetchIsRecent, AsOf, KeyCache!NoFetch
  <2>2. CASE fetch' = [sent |-> elapsed, read |-> {}, done |-> FALSE]
    BY <1>0, <1>1, <2>2, KeyTimesAreNats DEF KeysTyped, FetchIsRecent
  <2> QED
    BY <1>3, <2>1, <2>2
<1>5. PICK state \in {"waiting", "accepted", "unknown", "unavailable"} :
        /\ verifying' = [verifying EXCEPT ![r] = [state |-> state, kid |-> kid]]
        /\ state = "waiting" \/ Right(kid, state)
  <2>1. Right(kid, KeyCache!Fallback(kid)) /\ (KeyCache!Trusts(kid) => Right(kid, "accepted"))
    BY CacheIsRight
  <2>2. KeyCache!Fallback(kid) \in {"accepted", "unknown", "unavailable"}
    BY <2>1 DEF Right
  <2> QED
    BY <1>3, <2>1, <2>2 DEF KeyCache!Answer, KeyCache!Waiting
<1>6. /\ verifying' \in [Requests -> Verdicts]
      /\ \A q \in Requests : verifying'[q].state # "free" => verifying'[q].kid \in Kids
      /\ \A q \in Requests \ {r} : verifying'[q] = verifying[q]
      /\ verifying'[r].state = state /\ verifying'[r].kid = kid
  BY <1>0, <1>5, VerdictGiven
<1>7. KeysTyped'
  BY <1>0, <1>1, <1>4, <1>6 DEF KeysTyped
<1>8. \A q \in Requests :
        \/ verifying'[q] = verifying[q]
        \/ verifying'[q].state \in {"free", "waiting"}
        \/ Right(verifying'[q].kid, verifying'[q].state)
  BY <1>5, <1>6
<1> QED
  BY <1>1, <1>2, <1>4, <1>7, <1>8, AnswersAreSafe

LEMMA ReplyIsSafe ==
  ASSUME KeysSafe, NEW r \in Requests, KeyCache!Reply(r)
  PROVE  KeysSafe'
<1>1. /\ UNCHANGED <<elapsed, published, since, gone, keys, fetchedAt, fetch>>
      /\ verifying' = [verifying EXCEPT ![r] = [state |-> "free", kid |-> "none"]]
  BY DEF KeyCache!Reply, KeyCache!Free
<1>2. KeysTyped' /\ \A q \in Requests : verifying'[q] = verifying[q] \/ verifying'[q].state = "free"
  BY <1>1 DEF KeysSafe, KeysTyped, Verdicts
<1>3. FetchIsRecent' /\ CacheIsAsOld'
  BY <1>1 DEF KeysSafe, FetchIsRecent, CacheIsAsOld, AsOf, KeyCache!NoFetch
<1> QED
  BY <1>1, <1>2, <1>3, AnswersAreSafe

(* The requests that wait are answered by what is right for their keys. *)
LEMMA SettleIsSafe ==
  ASSUME KeysSafe, NEW reply \in [Kids -> {"accepted", "unknown", "unavailable"}], KeyCache!Settle(reply),
         UNCHANGED <<elapsed, published, since, gone>>,
         \A kid \in Kids : Right(kid, reply[kid]),
         keys' \subseteq Kids, fetchedAt' \in Int,
         fetch' = KeyCache!NoFetch, CacheIsAsOld'
  PROVE  KeysSafe'
<1>0. KeysTyped
  BY DEF KeysSafe
<1>1. verifying' = [r \in Requests |->
        IF verifying[r].state = "waiting" THEN [state |-> reply[verifying[r].kid], kid |-> verifying[r].kid]
        ELSE verifying[r]]
  BY DEF KeyCache!Settle, KeyCache!Answer
<1>2. ASSUME NEW r \in Requests
      PROVE  /\ verifying'[r] \in Verdicts
             /\ verifying'[r].state # "free" => verifying'[r].kid \in Kids
             /\ verifying'[r] = verifying[r] \/ Right(verifying'[r].kid, verifying'[r].state)
  <2>1. CASE verifying[r].state = "waiting"
    BY <1>0, <1>1, <2>1 DEF KeysTyped, Verdicts
  <2>2. CASE verifying[r].state # "waiting"
    BY <1>0, <1>1, <2>2 DEF KeysTyped
  <2> QED
    BY <2>1, <2>2
<1>3. fetch' \in [sent : Int, read : SUBSET Kids, done : BOOLEAN] /\ FetchIsRecent'
  BY DEF FetchIsRecent, KeyCache!NoFetch, KeyCache!Never
<1>4. KeysTyped'
  BY <1>0, <1>1, <1>2, <1>3 DEF KeysTyped
<1> QED
  BY <1>2, <1>3, <1>4, AnswersAreSafe

LEMMA FetchSucceedsIsSafe == ASSUME KeysSafe, KeyCache!FetchSucceeds PROVE KeysSafe'
<1> DEFINE reply == [kid \in Kids |-> IF kid \in fetch.read THEN "accepted" ELSE "unknown"]
<1>0. KeysTyped /\ FetchIsRecent
  BY DEF KeysSafe
<1>1. /\ keys' = fetch.read /\ fetchedAt' = elapsed /\ fetch' = KeyCache!NoFetch
      /\ UNCHANGED <<elapsed, published, since, gone>> /\ KeyCache!Settle(reply)
  BY DEF KeyCache!FetchSucceeds
<1>2. /\ AsOf(fetch.read, fetch.sent) /\ fetch.sent <= elapsed /\ elapsed - fetch.sent <= Timeout
      /\ fetch.sent \in Int /\ elapsed \in Int /\ fetch.read \subseteq Kids
  BY <1>0 DEF KeyCache!FetchSucceeds, FetchIsRecent, KeysTyped, KeyCache!NoFetch
<1>3. \A kid \in Kids : Right(kid, reply[kid])
  BY <1>0, <1>2, KeyTimesAreNats DEF Right, AsOf, KeysTyped
<1>4. CacheIsAsOld'
  BY <1>0, <1>1, <1>2, KeyTimesAreNats DEF CacheIsAsOld, AsOf, KeysTyped
<1>5. reply \in [Kids -> {"accepted", "unknown", "unavailable"}] /\ keys' \subseteq Kids /\ fetchedAt' \in Int
  BY <1>1, <1>2
<1> QED
  BY <1>1, <1>3, <1>4, <1>5, SettleIsSafe

LEMMA FetchFailsIsSafe == ASSUME KeysSafe, KeyCache!FetchFails PROVE KeysSafe'
<1> DEFINE reply == [kid \in Kids |-> KeyCache!Fallback(kid)]
<1>1. /\ fetch' = KeyCache!NoFetch /\ KeyCache!Settle(reply)
      /\ UNCHANGED <<elapsed, published, since, gone, keys, fetchedAt>>
  BY DEF KeyCache!FetchFails
<1>2. \A kid \in Kids : Right(kid, reply[kid])
  BY CacheIsRight
<1>3. CacheIsAsOld'
  BY <1>1 DEF KeysSafe, CacheIsAsOld, AsOf
<1>4. reply \in [Kids -> {"accepted", "unknown", "unavailable"}]
  BY <1>2 DEF Right
<1>5. keys' \subseteq Kids /\ fetchedAt' \in Int
  BY <1>1 DEF KeysSafe, KeysTyped
<1> HIDE DEF reply
<1> QED
  BY <1>1, <1>2, <1>3, <1>4, <1>5, SettleIsSafe

LEMMA EndpointReadsIsSafe == ASSUME KeysSafe, KeyCache!EndpointReads PROVE KeysSafe'
<1>0. KeysTyped /\ FetchIsRecent /\ CacheIsAsOld /\ PublishedIsNotGone
  BY DEF KeysSafe
<1>1. /\ UNCHANGED <<elapsed, published, since, gone, keys, fetchedAt, verifying>>
      /\ fetch # KeyCache!NoFetch /\ fetch' = [fetch EXCEPT !.read = published, !.done = TRUE]
  BY DEF KeyCache!EndpointReads
<1>2. /\ fetch' \in [sent : Int, read : SUBSET Kids, done : BOOLEAN]
      /\ fetch'.sent = fetch.sent /\ fetch'.read = published
  BY <1>0, <1>1 DEF KeysTyped
<1>3. FetchIsRecent'
  BY <1>0, <1>1, <1>2, KeyTimesAreNats DEF FetchIsRecent, AsOf, PublishedIsNotGone, KeysTyped
<1>4. KeysTyped' /\ CacheIsAsOld'
  BY <1>0, <1>1, <1>2 DEF KeysTyped, CacheIsAsOld, AsOf
<1> QED
  BY <1>1, <1>3, <1>4, AnswersAreSafe

LEMMA RotateIsSafe == ASSUME KeysSafe, KeyCache!Rotate PROVE KeysSafe'
<1>0. KeysTyped /\ FetchIsRecent /\ CacheIsAsOld /\ PublishedIsNotGone
  BY DEF KeysSafe
<1>1. PICK k \in Kids :
        /\ published' = IF k \in published THEN published \ {k} ELSE published \cup {k}
        /\ IF k \in published
           THEN gone' = [gone EXCEPT ![k] = elapsed] /\ since' = since
           ELSE since' = [since EXCEPT ![k] = elapsed] /\ gone' = [gone EXCEPT ![k] = MaxNow + 1]
  BY DEF KeyCache!Rotate
<1>2. UNCHANGED <<elapsed, keys, fetchedAt, fetch, verifying>>
  BY DEF KeyCache!Rotate
<1>3. KeysTyped'
  BY <1>0, <1>1, <1>2, KeyTimesAreNats DEF KeysTyped
<1>4. /\ \A o \in Kids \ {k} : gone'[o] = gone[o] /\ since'[o] = since[o] /\ (o \in published' <=> o \in published)
      /\ gone'[k] >= elapsed
      /\ k \in published' => since'[k] = elapsed /\ gone'[k] = MaxNow + 1
  BY <1>0, <1>1, KeyTimesAreNats DEF KeysTyped
<1>5. PublishedIsNotGone'
  BY <1>0, <1>1, <1>4 DEF PublishedIsNotGone, KeysTyped
<1>6. ASSUME NEW set, NEW at \in Int, at <= elapsed, AsOf(set, at)
      PROVE  \A o \in Kids : /\ o \in set => at <= gone'[o]
                             /\ o \in published' \ set => at <= since'[o]
  BY <1>0, <1>3, <1>4, <1>6 DEF AsOf, KeysTyped
<1>7. FetchIsRecent'
  BY <1>0, <1>2, <1>6 DEF FetchIsRecent, AsOf, KeysTyped, KeyCache!NoFetch
<1>8. CacheIsAsOld'
  <2>1. keys # {} => /\ fetchedAt - Timeout \in Int /\ fetchedAt - Timeout <= elapsed
                     /\ fetchedAt <= elapsed /\ AsOf(keys, fetchedAt - Timeout)
    BY <1>0, KeyTimesAreNats DEF CacheIsAsOld, KeysTyped
  <2>2. keys # {} => \A o \in Kids : /\ o \in keys => fetchedAt - Timeout <= gone'[o]
                                     /\ o \in published' \ keys => fetchedAt - Timeout <= since'[o]
    BY <1>6, <2>1
  <2> QED
    BY <1>2, <2>1, <2>2 DEF CacheIsAsOld, AsOf
<1>9. ASSUME NEW r \in Requests, verifying'[r].state \in {"accepted", "unknown"}
      PROVE  Right(verifying[r].kid, verifying[r].state)'
  <2>1. verifying[r].kid \in Kids /\ Right(verifying[r].kid, verifying[r].state)
    BY <1>0, <1>2, <1>9 DEF KeysSafe, KeysTyped
  <2>2. CASE verifying[r].kid = k
    BY <1>0, <1>2, <1>3, <1>4, <2>1, <2>2, KeyTimesAreNats DEF Right, KeysTyped
  <2>3. CASE verifying[r].kid # k
    BY <1>2, <1>4, <2>1, <2>3 DEF Right
  <2> QED
    BY <2>2, <2>3
<1> QED
  BY <1>3, <1>5, <1>7, <1>8, <1>9 DEF KeysSafe

LEMMA ElapseIsSafe == ASSUME KeysSafe, KeyCache!Elapse PROVE KeysSafe'
<1>0. KeysTyped /\ FetchIsRecent /\ CacheIsAsOld /\ PublishedIsNotGone
  BY DEF KeysSafe
<1>1. /\ UNCHANGED <<published, since, gone, keys, fetchedAt, fetch, verifying>>
      /\ elapsed' = elapsed + 1 /\ elapsed < MaxNow
      /\ fetch # KeyCache!NoFetch => elapsed - fetch.sent < Timeout
      /\ \A r \in Requests : verifying[r].state \in {"free", "waiting"}
  BY DEF KeyCache!Elapse
<1>2. KeysTyped'
  BY <1>0, <1>1, KeyTimesAreNats DEF KeysTyped
<1>3. PublishedIsNotGone'
  BY <1>0, <1>1 DEF PublishedIsNotGone
<1>4. FetchIsRecent'
  BY <1>0, <1>1, KeyTimesAreNats DEF FetchIsRecent, AsOf, KeysTyped, KeyCache!NoFetch
<1>5. CacheIsAsOld'
  BY <1>0, <1>1 DEF CacheIsAsOld, AsOf, KeysTyped
<1> QED
  BY <1>1, <1>2, <1>3, <1>4, <1>5 DEF KeysSafe

LEMMA KeysStepSafe == KeysSafe /\ [KeyCache!AccessNext]_KeyCache!accessVars => KeysSafe'
<1> SUFFICES ASSUME KeysSafe, [KeyCache!AccessNext]_KeyCache!accessVars PROVE KeysSafe'
  OBVIOUS
<1>1. CASE UNCHANGED KeyCache!accessVars
  BY <1>1 DEF KeyCache!accessVars, KeysSafe, KeysTyped, PublishedIsNotGone, FetchIsRecent, CacheIsAsOld, AsOf, Right,
     KeyCache!NoFetch
<1> QED
  BY <1>1, VerifyIsSafe, ReplyIsSafe, EndpointReadsIsSafe, FetchSucceedsIsSafe, FetchFailsIsSafe, RotateIsSafe,
     ElapseIsSafe DEF KeyCache!AccessNext

(* A withdrawn key is not accepted for longer than the grace and one fetch,*)
(* and a key in use is not called unknown for longer than the time to live *)
(* and one fetch, whatever fetch is slow, shared or fails, as long as the  *)
(* time to live is within the grace (AccessJwtVerifier).                   *)
THEOREM KeysStayCurrent == Spec => []KeysAreCurrent
<1> DEFINE Safe == part = "keys" => KeysSafe
<1>1. Init => Safe
  BY KeysInitSafe DEF Init
<1>2. Safe /\ [Next]_allVars => Safe'
  <2> SUFFICES ASSUME Safe, [Next]_allVars, part' = "keys" PROVE KeysSafe'
    OBVIOUS
  <2>1. part = "keys"
    BY DEF Next, allVars
  <2>2. [KeyCache!AccessNext]_KeyCache!accessVars
    BY <2>1 DEF Next, allVars, slots, KeyCache!accessVars
  <2> QED
    BY <2>1, <2>2, KeysStepSafe
<1>3. Safe => KeysAreCurrent
  BY DEF KeysSafe, KeysTyped, Right, KeysAreCurrent, KeyCache!WithdrawnKeyLapses, KeyCache!PublishedKeyIsKnown
<1> QED
  BY <1>1, <1>2, <1>3, PTL DEF Spec

-----------------------------------------------------------------------------
(* DraftChecks.                                                            *)

settled     == v1
binding     == v2
listing     == v3
tombstones  == v4
mislabelled == v5
widened     == v6
settings    == v7
plain       == v8
at          == v9
retry       == v10
present     == v11
ids         == v12
rest        == v13
restarted   == v14
orphans     == v15
outcome     == v16
decision    == v17

USE DEF settled, binding, listing, tombstones, mislabelled, widened, settings, plain, at, retry, present, ids, rest,
        restarted, orphans, outcome, decision

(* What is known of the index and the draft whatever the attempt does: the *)
(* views lose nothing that stays, and what was verified stays so.          *)
IndexKnown ==
  /\ tombstones \subseteq Strays /\ mislabelled \subseteq Ledger /\ plain \subseteq Leftovers
  /\ plain \subseteq settled /\ plain \subseteq binding /\ plain \subseteq listing
  /\ \A v \in present : v \notin mislabelled /\ (v \in settled => v \in binding)

(* A rowless vector that was there from the start is in what the attempt   *)
(* has yet to look at, or the attempt failed or found out.                 *)
RowlessIsTracked ==
  settings = "all" =>
    /\ at = "list" => plain \subseteq ids \cup rest
    /\ at = "resolve" => plain \subseteq ids
    /\ at = "audit" => present # Ledger \/ orphans.tooMany \/ (orphans.inDraft = {} => plain = {})

ReconciledIsClean ==
  outcome = "reconciled" =>
    /\ settings # "keyword_only" => mislabelled = {} /\ Ledger \cap settled \subseteq binding
    /\ settings = "all" => plain = {}

PassedIsReconciled == decision = "passed" => outcome = "reconciled" /\ widened = {}

ChecksSafe ==
  /\ IndexKnown /\ RowlessIsTracked /\ ReconciledIsClean /\ PassedIsReconciled
  /\ decision # "open" => at = "done"

LEMMA ChecksInitSafe == Checks!ChecksInit => ChecksSafe
BY DEF Checks!ChecksInit, Checks!Open, Checks!NoOrphans, ChecksSafe, IndexKnown, RowlessIsTracked, ReconciledIsClean,
   PassedIsReconciled

(* The index catches up while the attempt keeps its place. *)
LEMMA IndexStepSafe == ChecksSafe /\ Checks!IndexStep => ChecksSafe'
<1> SUFFICES ASSUME ChecksSafe, Checks!IndexStep PROVE ChecksSafe'
  OBVIOUS
<1>1. /\ UNCHANGED <<settled, mislabelled, widened, settings, plain, present, ids, rest, orphans, at, outcome, decision>>
      /\ tombstones' \subseteq tombstones
      /\ \A v \in settled : /\ v \in binding => v \in binding'
                            /\ v \in listing => v \in listing'
  BY DEF Checks!IndexStep, Checks!BindingCatchesUp, Checks!ListingCatchesUp, Checks!DropTombstone, Checks!Settle,
     Checks!fixed, Checks!attemptVars
<1>2. IndexKnown'
  BY <1>1 DEF ChecksSafe, IndexKnown
<1>3. RowlessIsTracked' /\ PassedIsReconciled' /\ (decision # "open" => at = "done")'
  BY <1>1 DEF ChecksSafe, RowlessIsTracked, PassedIsReconciled
<1>4. ReconciledIsClean'
  BY <1>1 DEF ChecksSafe, ReconciledIsClean
<1> QED
  BY <1>2, <1>3, <1>4 DEF ChecksSafe

(* What every step of the checks leaves alone. *)
Attempt == UNCHANGED <<settled, binding, listing, tombstones, mislabelled, widened, settings, plain>>


(* A step of the checks before their decision that does not record them as *)
(* reconciled.                                                             *)
LEMMA AttemptIsSafe ==
  ASSUME ChecksSafe, Attempt, UNCHANGED decision, at # "done",
         \A v \in present' : v \in present \/ Checks!Visible(v),
         outcome' = outcome \/ outcome' = "failed",
         RowlessIsTracked'
  PROVE  ChecksSafe'
<1>1. IndexKnown'
  BY DEF ChecksSafe, IndexKnown, Attempt, Checks!Visible
<1>2. ReconciledIsClean'
  BY DEF ChecksSafe, ReconciledIsClean, Attempt
<1>3. decision' = "open"
  BY DEF ChecksSafe
<1> QED
  BY <1>1, <1>2, <1>3 DEF ChecksSafe, PassedIsReconciled

LEMMA ThrowIsSafe ==
  ASSUME ChecksSafe, Attempt, UNCHANGED decision, at # "done",
         Checks!Throw \/ (Checks!Record(FALSE) /\ UNCHANGED present)
  PROVE  ChecksSafe'
<1>1. /\ outcome' = outcome \/ outcome' = "failed"
      /\ at' \in {"get", "probe"}
      /\ present' = {} \/ present' = present
  BY DEF Checks!Throw, Checks!Record, Checks!Begin, Checks!Goto, Checks!attemptVars
<1>2. RowlessIsTracked'
  BY <1>1 DEF RowlessIsTracked
<1> QED
  BY <1>1, <1>2, AttemptIsSafe

LEMMA ListingIsSafe ==
  ASSUME ChecksSafe, Checks!GetLedger \/ Checks!NextPage \/ Checks!CursorExpires
  PROVE  ChecksSafe'
<1>0. Attempt /\ UNCHANGED decision
  BY DEF Attempt, Checks!GetLedger, Checks!NextPage, Checks!CursorExpires, Checks!indexVars, Checks!fixed
<1>1. CASE Checks!GetLedger
  <2>1. /\ at # "done" /\ outcome' = outcome
        /\ \A v \in present' : Checks!Visible(v)
    BY <1>1 DEF Checks!GetLedger
  <2>2. \/ at' = "list" /\ ids' = {} /\ rest' = listing
        \/ at' = "audit" /\ ~(settings = "all" /\ present' = Ledger)
    BY <1>1 DEF Checks!GetLedger, Checks!Goto
  <2>3. RowlessIsTracked'
    BY <1>0, <2>2 DEF RowlessIsTracked, Attempt, ChecksSafe, IndexKnown
  <2> QED
    BY <1>0, <2>1, <2>3, AttemptIsSafe
<1>2. CASE Checks!NextPage
  <2>1. at = "list" /\ UNCHANGED <<present, orphans, at, outcome>> /\ ids \cup rest \subseteq ids' \cup rest'
    BY <1>2 DEF Checks!NextPage
  <2>2. RowlessIsTracked'
    BY <1>0, <2>1 DEF RowlessIsTracked, Attempt, ChecksSafe
  <2> QED
    BY <1>0, <2>1, <2>2, AttemptIsSafe
<1>3. CASE Checks!CursorExpires
  <2>1. at = "list"
    BY <1>3 DEF Checks!CursorExpires
  <2>2. CASE rest' = listing /\ UNCHANGED <<present, orphans, at, outcome>>
    <3>1. RowlessIsTracked'
      BY <1>0, <2>1, <2>2 DEF RowlessIsTracked, Attempt, ChecksSafe, IndexKnown
    <3> QED
      BY <1>0, <2>1, <2>2, <3>1, AttemptIsSafe
  <2> QED
    BY <1>0, <1>3, <2>1, <2>2, ThrowIsSafe DEF Checks!CursorExpires, Checks!StartOver
<1> QED
  BY <1>1, <1>2, <1>3

(* Without an index the ledger is not compared with anything.              *)
LEMMA NoBindingIsSafe == ASSUME ChecksSafe, Checks!NoBinding PROVE ChecksSafe'
<1>1. /\ Attempt /\ UNCHANGED <<decision, present>> /\ at = "get" /\ at' = "probe"
      /\ settings = "keyword_only"
  BY DEF Attempt, Checks!NoBinding, Checks!indexVars, Checks!fixed, Checks!attemptVars, Checks!Record, Checks!Goto
<1>2. IndexKnown' /\ RowlessIsTracked' /\ ReconciledIsClean'
  BY <1>1 DEF ChecksSafe, IndexKnown, RowlessIsTracked, ReconciledIsClean, Attempt
<1> QED
  BY <1>1, <1>2 DEF ChecksSafe, PassedIsReconciled, Attempt

LEMMA ListedIsSafe == ASSUME ChecksSafe, Checks!Listed PROVE ChecksSafe'
<1>1. /\ Attempt /\ UNCHANGED <<decision, outcome>>
      /\ at = "list" /\ rest = {} /\ present' \subseteq present
  BY DEF Attempt, Checks!Listed, Checks!indexVars, Checks!fixed
<1>2. \/ at' = "resolve" /\ ids' = Checks!Unknown
      \/ at' = "audit" /\ orphans'.tooMany
  BY DEF Checks!Listed, Checks!Goto
<1>3. settings = "all" => plain \subseteq Checks!Unknown
  BY <1>1, VectorsAreOfOneKind DEF ChecksSafe, IndexKnown, RowlessIsTracked, Checks!Unknown
<1>4. RowlessIsTracked'
  BY <1>1, <1>2, <1>3 DEF RowlessIsTracked, Attempt
<1> QED
  BY <1>1, <1>4, AttemptIsSafe

LEMMA ResolveIsSafe == ASSUME ChecksSafe, Checks!Resolve PROVE ChecksSafe'
<1>1. /\ Attempt /\ UNCHANGED <<decision, outcome, present>>
      /\ at = "resolve" /\ at' = "audit"
      /\ orphans'.inDraft = Checks!Resolved \cap Leftovers
  BY DEF Attempt, Checks!Resolve, Checks!indexVars, Checks!fixed, Checks!Goto
<1>2. settings = "all" => plain \subseteq Checks!Resolved \cap Leftovers
  BY <1>1 DEF ChecksSafe, IndexKnown, RowlessIsTracked, Checks!Resolved
<1>3. RowlessIsTracked'
  BY <1>1, <1>2 DEF RowlessIsTracked, Attempt
<1> QED
  BY <1>1, <1>3, AttemptIsSafe

LEMMA AuditIsSafe == ASSUME ChecksSafe, Checks!Audit PROVE ChecksSafe'
<1>1. Attempt /\ UNCHANGED decision /\ at = "audit"
  BY DEF Attempt, Checks!Audit, Checks!indexVars, Checks!fixed
<1>2. CASE Checks!Throw
  BY <1>1, <1>2, ThrowIsSafe
<1>3. CASE Checks!Record(Checks!Clean) /\ UNCHANGED Checks!attemptVars
  <2>1. CASE ~Checks!Clean
    <3>1. present' = present /\ Checks!Record(FALSE)
      BY <1>3, <2>1 DEF Checks!attemptVars, Checks!Record
    <3> QED
      BY <1>1, <3>1, ThrowIsSafe
  <2>2. CASE Checks!Clean
    <3>1. present' = present /\ at' = "probe"
      BY <1>3 DEF Checks!attemptVars, Checks!Record, Checks!Goto
    <3>2. IndexKnown'
      BY <1>1, <3>1 DEF ChecksSafe, IndexKnown, Attempt
    <3>3. ReconciledIsClean'
      BY <1>1, <2>2 DEF ChecksSafe, IndexKnown, RowlessIsTracked, ReconciledIsClean, Attempt, Checks!Clean
    <3>4. decision' = "open"
      BY <1>1 DEF ChecksSafe
    <3> QED
      BY <3>1, <3>2, <3>3, <3>4 DEF ChecksSafe, RowlessIsTracked, PassedIsReconciled
  <2> QED
    BY <2>1, <2>2
<1> QED
  BY <1>2, <1>3 DEF Checks!Audit

LEMMA FinishChecksIsSafe == ASSUME ChecksSafe, Checks!FinishChecks PROVE ChecksSafe'
<1>1. /\ Attempt /\ UNCHANGED <<present, outcome>> /\ at' = "done"
      /\ decision' = "passed" => outcome = "reconciled" /\ widened = {}
  BY DEF Attempt, Checks!FinishChecks, Checks!indexVars, Checks!fixed, Checks!attemptVars, Checks!Goto, Checks!Decide,
     Checks!Leaks, Checks!Guarded
<1>2. IndexKnown' /\ RowlessIsTracked' /\ ReconciledIsClean'
  BY <1>1 DEF ChecksSafe, IndexKnown, RowlessIsTracked, ReconciledIsClean, Attempt
<1> QED
  BY <1>1, <1>2 DEF ChecksSafe, PassedIsReconciled, Attempt

LEMMA ChecksStepSafe == ChecksSafe /\ [Checks!ChecksNext]_Checks!checkVars => ChecksSafe'
<1> SUFFICES ASSUME ChecksSafe, [Checks!ChecksNext]_Checks!checkVars PROVE ChecksSafe'
  OBVIOUS
<1>1. CASE UNCHANGED Checks!checkVars
  BY <1>1 DEF Checks!checkVars, Checks!indexVars, Checks!fixed, Checks!attemptVars, ChecksSafe, IndexKnown,
     RowlessIsTracked, ReconciledIsClean, PassedIsReconciled
<1>2. CASE Checks!PartlyConfigured \/ Checks!ScanFails \/ Checks!ListedTooMany \/ Checks!ResolveAgain
  <2>1. Attempt /\ UNCHANGED decision /\ at # "done"
    BY <1>2 DEF Attempt, Checks!PartlyConfigured, Checks!ScanFails, Checks!ListedTooMany, Checks!ResolveAgain,
       Checks!indexVars, Checks!fixed
  <2>2. Checks!Throw \/ (Checks!Record(FALSE) /\ UNCHANGED present)
    BY <1>2 DEF Checks!PartlyConfigured, Checks!ScanFails, Checks!ListedTooMany, Checks!ResolveAgain,
       Checks!attemptVars
  <2> QED
    BY <2>1, <2>2, ThrowIsSafe
<1> QED
  BY <1>1, <1>2, IndexStepSafe, ListingIsSafe, NoBindingIsSafe, ListedIsSafe, ResolveIsSafe, AuditIsSafe, FinishChecksIsSafe
     DEF Checks!ChecksNext, Checks!CheckStep

(* A draft that passed its checks has no widened chunk and, where an index *)
(* is bound, every vector it names, readable with the ACL of its row, and  *)
(* no rowless vector that was there from the start where it can be listed, *)
(* however late the index, for any cap and any number of retries           *)
(* (reconcileDraft, decideChecks).                                         *)
THEOREM PassedDraftsAreClean == Spec => []PassedIsClean
<1> DEFINE Safe == part = "checks" => ChecksSafe
<1>1. Init => Safe
  BY ChecksInitSafe DEF Init
<1>2. Safe /\ [Next]_allVars => Safe'
  <2> SUFFICES ASSUME Safe, [Next]_allVars, part' = "checks" PROVE ChecksSafe'
    OBVIOUS
  <2>1. part = "checks"
    BY DEF Next, allVars
  <2>2. [Checks!ChecksNext]_Checks!checkVars
    BY <2>1 DEF Next, allVars, slots, Checks!checkVars, Checks!indexVars, Checks!fixed, Checks!attemptVars
  <2> QED
    BY <2>1, <2>2, ChecksStepSafe
<1>3. Safe => PassedIsClean
  BY DEF ChecksSafe, PassedIsReconciled, ReconciledIsClean, PassedIsClean, Checks!PassedIsClean
<1> QED
  BY <1>1, <1>2, <1>3, PTL DEF Spec
-----------------------------------------------------------------------------
(* ConnectorTools.                                                         *)

time    == v1
revoked == v2
log     == v3
calls   == v4
claims  == v5
outside == v6
effects == v7

USE DEF time, revoked, log, calls, claims, outside, effects

Places == {"idle", "gate", "registry", "read", "load", "claim", "reload", "call", "wait", "complete", "done"}

Answers == {"nothing", "pending", "denied", "refused", "read", "aborted", "created", "in progress", "failed"}

Approvals == [key : EffectKeys \cup {0}, expires : {0, ApprovalTime}]

Tooling == Tools!Reads \cup Tools!Writes

Records == [at : Places, tool : Tooling, key : EffectKeys \cup {0}, approval : Approvals, said : Answers]

(* A call has a key of its own from its first step on. *)
CallsTyped ==
  /\ calls \in [Calls -> Records]
  /\ \A c \in Calls : calls[c].at # "idle" => calls[c].key \in EffectKeys

ToolsTyped ==
  /\ CallsTyped
  /\ claims \in [EffectKeys -> [status : {"none", "in_progress", "completed"}, result : Calls \cup {0}]]
  /\ outside \subseteq Calls
  /\ effects \in [EffectKeys -> Nat]

(* How one call moves on. *)
Moved(c, place, words) ==
  /\ CallsTyped'
  /\ \A o \in Calls \ {c} : calls'[o] = calls[o]
  /\ calls'[c].at = place /\ calls'[c].said = words /\ calls'[c].key = calls[c].key

LEMMA CallMovesOn ==
  ASSUME CallsTyped, NEW c \in Calls, NEW place \in Places \ {"idle"}, NEW words \in Answers, NEW a \in Approvals,
         calls' = [calls EXCEPT ![c] = [calls[c] EXCEPT !.at = place, !.said = words, !.approval = a]],
         calls[c].at # "idle"
  PROVE  Moved(c, place, words)
<1>1. [calls[c] EXCEPT !.at = place, !.said = words, !.approval = a] \in Records
  BY DEF CallsTyped, Records
<1>2. calls'[c] = [calls[c] EXCEPT !.at = place, !.said = words, !.approval = a]
  BY DEF CallsTyped
<1>3. calls'[c].at = place /\ calls'[c].said = words /\ calls'[c].key = calls[c].key
  BY <1>2 DEF CallsTyped, Records
<1> QED
  BY <1>1, <1>3 DEF CallsTyped, Moved

LEMMA CallMoves ==
  ASSUME CallsTyped, NEW c \in Calls, NEW place \in Places \ {"idle"}, NEW words \in Answers, calls[c].at # "idle",
         \/ calls' = [calls EXCEPT ![c].at = place] /\ words = calls[c].said
         \/ calls' = [calls EXCEPT ![c].at = place, ![c].said = words]
         \/ calls' = [calls EXCEPT ![c].at = place, ![c].approval = Tools!NotApproved] /\ words = calls[c].said
  PROVE  Moved(c, place, words)
<1> DEFINE To(a) == calls' = [calls EXCEPT ![c] = [calls[c] EXCEPT !.at = place, !.said = words, !.approval = a]]
<1>1. Tools!NotApproved \in Approvals
  BY DEF Approvals, Tools!NotApproved, Tools!None
<1>2. calls[c].approval \in Approvals
  BY DEF CallsTyped, Records
<1>3. CASE calls' = [calls EXCEPT ![c].at = place] /\ words = calls[c].said
  <2>1. To(calls[c].approval)
    BY <1>3 DEF CallsTyped, Records
  <2> QED
    BY <1>2, <2>1, CallMovesOn
<1>4. CASE calls' = [calls EXCEPT ![c].at = place, ![c].said = words]
  <2>1. To(calls[c].approval)
    BY <1>4 DEF CallsTyped, Records
  <2> QED
    BY <1>2, <2>1, CallMovesOn
<1>5. CASE calls' = [calls EXCEPT ![c].at = place, ![c].approval = Tools!NotApproved] /\ words = calls[c].said
  <2>1. To(Tools!NotApproved)
    BY <1>5 DEF CallsTyped, Records
  <2> QED
    BY <1>1, <2>1, CallMovesOn
<1> QED
  BY <1>3, <1>4, <1>5

LEMMA CallGoes ==
  ASSUME CallsTyped, NEW c \in Calls, NEW place \in Places \ {"idle"}, calls[c].at # "idle",
         calls' = [calls EXCEPT ![c].at = place]
  PROVE  Moved(c, place, calls[c].said)
<1>1. calls[c].said \in Answers
  BY DEF CallsTyped, Records
<1> QED
  BY <1>1, CallMoves

(* The calls whose request the service may still carry out, and those whose*)
(* effect has yet to be recorded: they claimed their key.                  *)
MayAct(c)  == calls[c].at \in {"call", "wait"} \/ c \in outside
Claimed(c) == MayAct(c) \/ calls[c].at = "complete"

Sent == \A c \in outside : calls[c].at \in {"wait", "done"}

OneClaimant ==
  \A c, d \in Calls : Claimed(c) /\ Claimed(d) /\ calls[c].key = calls[d].key => c = d

ClaimIsKept == \A c \in Calls : Claimed(c) => claims[calls[c].key].status # "none"

(* What the claims and the calls say of the effects. *)
EffectsAgree ==
  /\ \A k \in EffectKeys : /\ effects[k] <= 1
                           /\ claims[k].status = "none" => effects[k] = 0
                           /\ claims[k].status = "completed" => effects[k] = 1
  /\ \A c \in Calls : /\ MayAct(c) => effects[calls[c].key] = 0
                      /\ calls[c].at = "complete" \/ calls[c].said = "created" => effects[calls[c].key] = 1
                      /\ calls[c].at = "idle" => calls[c].said = "nothing"

ToolsSafe == ToolsTyped /\ Sent /\ OneClaimant /\ ClaimIsKept /\ EffectsAgree

LEMMA ToolsInitSafe == Tools!ToolsInit => ToolsSafe
BY DEF Tools!ToolsInit, ToolsSafe, ToolsTyped, CallsTyped, Records, Sent, OneClaimant, ClaimIsKept, EffectsAgree, MayAct,
   Claimed, Places, Answers, Approvals, Tooling, Tools!Reads, Tools!NewCall, Tools!None, Tools!NotApproved,
   Tools!Unclaimed

(* A step of one call that claims nothing, sends nothing and learns of no  *)
(* effect that did not happen.                                             *)
Quiet(c) ==
  /\ UNCHANGED <<claims, outside, effects>>
  /\ \A o \in Calls \ {c} : calls'[o] = calls[o]
  /\ calls'[c].key \in EffectKeys
  /\ calls[c].at # "idle" => calls'[c].key = calls[c].key
  /\ calls'[c].at \notin {"idle", "call", "wait", "complete"}
  /\ c \in outside => calls'[c].at = "done"
  /\ calls'[c].said = "created" => effects[calls'[c].key] = 1

LEMMA QuietIsSafe ==
  ASSUME ToolsSafe, ToolsTyped', NEW c \in Calls, Quiet(c)
  PROVE  ToolsSafe'
<1>1. \A o \in Calls : /\ Claimed(o)' => Claimed(o) /\ calls'[o].key = calls[o].key
                       /\ MayAct(o)' => MayAct(o) /\ calls'[o].key = calls[o].key
  BY DEF ToolsSafe, Sent, Quiet, Claimed, MayAct
<1>2. Sent'
  BY DEF ToolsSafe, ToolsTyped, Sent, Quiet
<1>3. OneClaimant'
  BY <1>1 DEF ToolsSafe, OneClaimant
<1>4. ClaimIsKept'
  BY <1>1 DEF ToolsSafe, ClaimIsKept, Quiet
<1>5. EffectsAgree'
  BY <1>1 DEF ToolsSafe, EffectsAgree, Quiet
<1> QED
  BY <1>2, <1>3, <1>4, <1>5 DEF ToolsSafe

LEMMA QuietSteps ==
  ASSUME ToolsSafe, NEW c \in Calls,
         \/ Tools!Begin(c) \/ Tools!Gate(c) \/ Tools!AssertUsable(c) \/ Tools!Read(c) \/ Tools!Load(c)
         \/ Tools!Reload(c) \/ Tools!Deadline(c) \/ Tools!CallDies(c)
  PROVE  ToolsTyped' /\ Quiet(c)
<1>0. ToolsTyped
  BY DEF ToolsSafe
<1>1. CASE Tools!Begin(c)
  <2>1. PICK key \in EffectKeys, tool \in Tooling,
             approval \in {Tools!NotApproved} \cup [key : EffectKeys, expires : {0, ApprovalTime}] :
          calls' = [calls EXCEPT ![c] = [Tools!NewCall EXCEPT !.at = "gate", !.tool = tool, !.key = key,
                                                              !.approval = approval]]
    BY <1>1 DEF Tools!Begin, Tooling
  <2>2. approval \in Approvals
    BY <2>1 DEF Approvals, Tools!NotApproved, Tools!None
  <2>3. calls[c].at = "idle" /\ UNCHANGED <<claims, outside, effects>>
    BY <1>1 DEF Tools!Begin
  <2>4. ASSUME NEW new \in Records, new.said = "nothing"
        PROVE  LET made == [new EXCEPT !.at = "gate", !.tool = tool, !.key = key, !.approval = approval]
               IN  made \in Records /\ made.at = "gate" /\ made.key = key /\ made.said = "nothing"
    BY <2>2, <2>4 DEF Records, Places
  <2>5. Tools!NewCall \in Records /\ Tools!NewCall.said = "nothing"
    BY DEF Records, Places, Answers, Approvals, Tooling, Tools!Reads, Tools!NewCall, Tools!NotApproved, Tools!None
  <2>6. PICK made \in Records : /\ calls' = [calls EXCEPT ![c] = made]
                                /\ made.at = "gate" /\ made.key = key /\ made.said = "nothing"
    BY <2>1, <2>4, <2>5
  <2>7. CallsTyped'
    BY <1>0, <2>6 DEF CallsTyped, ToolsTyped
  <2>8. c \notin outside
    BY <2>3 DEF ToolsSafe, Sent
  <2> QED
    BY <1>0, <2>3, <2>6, <2>7, <2>8 DEF CallsTyped, ToolsTyped, Quiet
<1>2. ASSUME UNCHANGED <<claims, outside, effects>>, calls[c].at \notin {"idle", "call", "wait", "complete", "done"},
             NEW place \in {"registry", "read", "load", "claim", "reload"}, Moved(c, place, calls[c].said)
      PROVE  ToolsTyped' /\ Quiet(c)
  <2>1. calls[c].said # "created" \/ effects[calls[c].key] = 1
    BY DEF ToolsSafe, EffectsAgree
  <2>2. c \notin outside
    BY <1>2 DEF ToolsSafe, Sent
  <2> QED
    BY <1>0, <1>2, <2>1, <2>2 DEF ToolsTyped, CallsTyped, Quiet, Moved
<1>3. ASSUME UNCHANGED <<claims, outside, effects>>, calls[c].at # "idle", NEW s \in Answers,
             s = "created" => effects[calls[c].key] = 1, Moved(c, "done", s)
      PROVE  ToolsTyped' /\ Quiet(c)
  BY <1>0, <1>3 DEF ToolsTyped, CallsTyped, Quiet, Moved
<1>4. /\ CallsTyped /\ (calls[c].said \in Answers)
      /\ {"registry", "read", "load", "claim", "reload", "done"} \subseteq Places \ {"idle"}
      /\ {"pending", "denied", "refused", "read", "aborted", "created", "in progress", "failed"} \subseteq Answers
  BY <1>0 DEF ToolsTyped, CallsTyped, Records, Places, Answers
<1>5. CASE Tools!Gate(c)
  <2>1. CASE Tools!Allowed(calls[c])
    <3>1. PICK place \in {"registry", "load"} :
            calls' = [calls EXCEPT ![c].at = place, ![c].approval = Tools!NotApproved]
      BY <1>5, <2>1 DEF Tools!Gate, Tools!Answer
    <3> QED
      BY <1>2, <1>4, <1>5, <3>1, CallMoves DEF Tools!Gate
  <2>2. CASE ~Tools!Allowed(calls[c])
    BY <1>3, <1>4, <1>5, <2>2, CallMoves DEF Tools!Gate, Tools!Answer
  <2> QED
    BY <2>1, <2>2
<1>9. CASE Tools!AssertUsable(c)
  BY <1>2, <1>3, <1>4, <1>9, CallMoves DEF Tools!AssertUsable, Tools!Goto, Tools!Answer
<1>6. claims[calls[c].key].status = "completed" /\ calls[c].at # "idle" => effects[calls[c].key] = 1
  BY <1>0 DEF ToolsSafe, ToolsTyped, CallsTyped, EffectsAgree
<1>7. CASE Tools!Load(c) \/ Tools!Reload(c)
  BY <1>2, <1>3, <1>4, <1>6, <1>7, CallMoves DEF Tools!Load, Tools!Reload, Tools!Goto, Tools!Answer
<1>8. CASE Tools!Read(c) \/ Tools!Deadline(c) \/ Tools!CallDies(c)
  BY <1>3, <1>4, <1>8, CallMoves DEF Tools!Read, Tools!Deadline, Tools!CallDies, Tools!Answer
<1> QED
  BY <1>1, <1>5, <1>7, <1>8, <1>9

LEMMA ClaimIsSafe == ASSUME ToolsSafe, NEW c \in Calls, Tools!Claim(c) PROVE ToolsSafe'
<1>0. ToolsTyped /\ calls[c].key \in EffectKeys /\ calls[c].at = "claim"
  BY DEF ToolsSafe, ToolsTyped, CallsTyped, Tools!Claim
<1>1. CASE claims[calls[c].key].status = "none"
  <2>1. /\ claims' = [claims EXCEPT ![calls[c].key] = Tools!InProgress]
        /\ calls' = [calls EXCEPT ![c].at = "call"] /\ UNCHANGED <<outside, effects>>
    BY <1>1 DEF Tools!Claim, Tools!Take, Tools!Goto
  <2>2. ToolsTyped' /\ Moved(c, "call", calls[c].said)
    <3>1. Moved(c, "call", calls[c].said)
      BY <1>0, <2>1, CallGoes DEF ToolsTyped, Places
    <3> QED
      BY <1>0, <2>1, <3>1 DEF ToolsTyped, Moved, Tools!InProgress, Tools!None
  <2>3. /\ \A o \in Calls \ {c} : calls'[o] = calls[o] /\ (Claimed(o) => calls[o].key # calls[c].key)
        /\ \A o \in Calls \ {c} : (Claimed(o)' <=> Claimed(o)) /\ (MayAct(o)' <=> MayAct(o))
        /\ calls'[c].key = calls[c].key /\ calls'[c].at = "call" /\ calls'[c].said = calls[c].said
        /\ c \notin outside
    BY <1>0, <1>1, <2>1, <2>2 DEF ToolsSafe, Moved, ClaimIsKept, Claimed, MayAct, Sent
  <2>4. /\ \A k \in EffectKeys \ {calls[c].key} : claims'[k] = claims[k]
        /\ claims'[calls[c].key].status = "in_progress"
    BY <1>0, <2>1 DEF ToolsTyped, Tools!InProgress
  <2>5. effects[calls[c].key] = 0
    BY <1>0, <1>1 DEF ToolsSafe, EffectsAgree
  <2>6. Sent'
    BY <1>0, <2>1, <2>3 DEF ToolsSafe, Sent, ToolsTyped
  <2>7. OneClaimant'
    BY <2>3 DEF ToolsSafe, OneClaimant
  <2>8. ClaimIsKept'
    <3>1. ASSUME NEW o \in Calls, Claimed(o)' PROVE claims'[calls'[o].key].status # "none"
      <4>1. CASE o = c
        BY <2>3, <2>4, <4>1
      <4>2. CASE o # c
        <5>1. Claimed(o) /\ calls[o].key # calls[c].key /\ calls'[o].key = calls[o].key
          BY <2>3, <3>1, <4>2
        <5>2. calls[o].key \in EffectKeys /\ claims[calls[o].key].status # "none"
          BY <1>0, <5>1 DEF ToolsSafe, ClaimIsKept, ToolsTyped, CallsTyped, Claimed, MayAct, Sent
        <5> QED
          BY <2>4, <5>1, <5>2
      <4> QED
        BY <4>1, <4>2
    <3> QED
      BY <3>1 DEF ClaimIsKept
  <2>9. EffectsAgree'
    BY <1>0, <2>1, <2>3, <2>4, <2>5 DEF ToolsSafe, EffectsAgree
  <2> QED
    BY <2>2, <2>6, <2>7, <2>8, <2>9 DEF ToolsSafe
<1>2. CASE claims[calls[c].key].status # "none"
  <2>1. Quiet(c) /\ ToolsTyped'
    <3>1. calls' = [calls EXCEPT ![c].at = "reload"] /\ UNCHANGED <<claims, outside, effects>>
      BY <1>2 DEF Tools!Claim, Tools!Take, Tools!Goto
    <3>2. Moved(c, "reload", calls[c].said)
      BY <1>0, <3>1, CallGoes DEF ToolsTyped, Places
    <3> QED
      BY <1>0, <3>1, <3>2 DEF ToolsSafe, ToolsTyped, Sent, EffectsAgree, Quiet, Moved
  <2> QED
    BY <2>1, QuietIsSafe
<1> QED
  BY <1>1, <1>2

LEMMA SendIsSafe == ASSUME ToolsSafe, NEW c \in Calls, Tools!CallService(c) PROVE ToolsSafe'
<1>0. ToolsTyped /\ Sent
  BY DEF ToolsSafe
<1>1. /\ calls[c].at = "call" /\ calls' = [calls EXCEPT ![c].at = "wait"] /\ outside' = outside \cup {c}
      /\ UNCHANGED <<claims, effects>>
  BY DEF Tools!CallService, Tools!Goto
<1>2. Moved(c, "wait", calls[c].said)
  BY <1>0, <1>1, CallGoes DEF ToolsTyped, Places
<1>6. ToolsTyped' /\ Sent'
  BY <1>0, <1>1, <1>2 DEF ToolsTyped, Sent, Moved
<1>3. \A o \in Calls : /\ calls'[o].key = calls[o].key /\ calls'[o].said = calls[o].said
                       /\ (Claimed(o)' <=> Claimed(o)) /\ (MayAct(o)' <=> MayAct(o))
                       /\ (calls'[o].at \in {"complete", "idle"} => calls'[o].at = calls[o].at)
  BY <1>0, <1>1, <1>2 DEF Moved, Claimed, MayAct
<1>4. OneClaimant' /\ ClaimIsKept'
  BY <1>1, <1>3 DEF ToolsSafe, OneClaimant, ClaimIsKept
<1>5. EffectsAgree'
  BY <1>1, <1>3 DEF ToolsSafe, EffectsAgree
<1> QED
  BY <1>4, <1>5, <1>6 DEF ToolsSafe

(* A write is done for the one call that claimed its key, by the service   *)
(* or by the tool itself.                                                  *)
LEMMA ActedIsSafe ==
  ASSUME ToolsSafe, NEW c \in Calls, MayAct(c), NEW place \in {"complete", "done"}, Moved(c, place, calls[c].said),
         outside' = outside \ {c}, claims' = claims, effects' = [effects EXCEPT ![calls[c].key] = @ + 1]
  PROVE  ToolsSafe'
<1>1. /\ ToolsTyped /\ Sent /\ calls[c].at # "idle" /\ calls[c].key \in EffectKeys
      /\ Claimed(c) /\ effects[calls[c].key] = 0
  BY DEF ToolsSafe, ToolsTyped, CallsTyped, Sent, EffectsAgree, Claimed, MayAct
<1>2. /\ \A o \in Calls \ {c} : calls'[o] = calls[o] /\ (Claimed(o)' <=> Claimed(o)) /\ (MayAct(o)' <=> MayAct(o))
      /\ calls'[c].key = calls[c].key /\ calls'[c].said = calls[c].said /\ ~MayAct(c)'
      /\ calls'[c].at # "idle"
  BY <1>1 DEF Moved, Claimed, MayAct
<1>3. /\ effects'[calls[c].key] = 1
      /\ \A k \in EffectKeys \ {calls[c].key} : effects'[k] = effects[k]
      /\ effects' \in [EffectKeys -> Nat]
  BY <1>1 DEF ToolsTyped
<1>4. claims[calls[c].key].status = "in_progress"
  <2>1. claims[calls[c].key].status # "none"
    BY <1>1 DEF ToolsSafe, ClaimIsKept
  <2>2. claims[calls[c].key].status # "completed"
    BY <1>1 DEF ToolsSafe, EffectsAgree
  <2> QED
    BY <1>1, <2>1, <2>2 DEF ToolsTyped
<1>5. \A o \in Calls \ {c} : Claimed(o) => calls[o].key # calls[c].key
  BY <1>1 DEF ToolsSafe, OneClaimant
<1>6. Sent' /\ ToolsTyped'
  BY <1>1, <1>2, <1>3 DEF Sent, ToolsTyped, Moved
<1>7. OneClaimant' /\ ClaimIsKept'
  BY <1>1, <1>2, <1>5 DEF ToolsSafe, OneClaimant, ClaimIsKept
<1>8. EffectsAgree'
  <2>1. \A k \in EffectKeys : /\ effects'[k] <= 1
                              /\ claims'[k].status = "none" => effects'[k] = 0
                              /\ claims'[k].status = "completed" => effects'[k] = 1
    BY <1>1, <1>3, <1>4 DEF ToolsSafe, EffectsAgree
  <2>2. ASSUME NEW o \in Calls
        PROVE  /\ MayAct(o)' => effects'[calls'[o].key] = 0
               /\ calls'[o].at = "complete" \/ calls'[o].said = "created" => effects'[calls'[o].key] = 1
               /\ calls'[o].at = "idle" => calls'[o].said = "nothing"
    <3>1. CASE o = c
      BY <1>2, <1>3, <3>1
    <3>2. CASE o # c
      <4>1. MayAct(o) => calls[o].key # calls[c].key
        BY <1>5, <3>2 DEF Claimed
      <4>2. calls[o].at = "complete" => calls[o].key # calls[c].key
        BY <1>5, <3>2 DEF Claimed
      <4>3. calls[o].said = "created" => calls[o].key # calls[c].key
        BY <1>1, <3>2 DEF ToolsSafe, EffectsAgree
      <4>4. calls[o].at # "idle" => calls[o].key \in EffectKeys
        BY <1>1 DEF ToolsTyped, CallsTyped
      <4>5. MayAct(o) => calls[o].at # "idle"
        BY <1>1 DEF MayAct, Sent
      <4> QED
        BY <1>2, <1>3, <3>2, <4>1, <4>2, <4>3, <4>4, <4>5 DEF ToolsSafe, EffectsAgree
    <3> QED
      BY <3>1, <3>2
  <2> QED
    BY <2>1, <2>2 DEF EffectsAgree
<1> QED
  BY <1>6, <1>7, <1>8 DEF ToolsSafe

(* The service acts for a call, or forgets it.                             *)
LEMMA ServiceIsSafe ==
  ASSUME ToolsSafe, NEW c \in Calls, Tools!ServiceActs(c) \/ Tools!ServiceDrops(c)
  PROVE  ToolsSafe'
<1>0. /\ ToolsTyped /\ Sent /\ c \in outside /\ calls[c].at \in {"wait", "done"} /\ calls[c].key \in EffectKeys
      /\ Claimed(c) /\ MayAct(c) /\ effects[calls[c].key] = 0 /\ outside' = outside \ {c} /\ claims' = claims
  BY DEF ToolsSafe, ToolsTyped, CallsTyped, Sent, EffectsAgree, Claimed, MayAct, Tools!ServiceActs, Tools!ServiceDrops
<1>1. CASE Tools!ServiceDrops(c)
  <2>1. UNCHANGED <<calls, effects>>
    BY <1>1 DEF Tools!ServiceDrops
  <2>2. \A o \in Calls : (Claimed(o)' => Claimed(o)) /\ (MayAct(o)' => MayAct(o))
    BY <1>0, <2>1 DEF Claimed, MayAct
  <2> QED
    <3>1. ToolsTyped' /\ Sent'
      BY <1>0, <2>1 DEF ToolsTyped, CallsTyped, Sent
    <3>2. OneClaimant' /\ ClaimIsKept'
      BY <1>0, <2>1, <2>2 DEF ToolsSafe, OneClaimant, ClaimIsKept
    <3>3. EffectsAgree'
      BY <1>0, <2>1, <2>2 DEF ToolsSafe, EffectsAgree
    <3> QED
      BY <3>1, <3>2, <3>3 DEF ToolsSafe
<1>2. CASE Tools!ServiceActs(c)
  <2>1. /\ effects' = [effects EXCEPT ![calls[c].key] = @ + 1]
        /\ calls' = IF calls[c].at = "wait" THEN [calls EXCEPT ![c].at = "complete"] ELSE calls
    BY <1>2 DEF Tools!ServiceActs
  <2>2. PICK place \in {"complete", "done"} : Moved(c, place, calls[c].said)
    <3>1. CASE calls[c].at = "wait"
      BY <1>0, <2>1, <3>1, CallGoes DEF ToolsTyped, Places
    <3>2. CASE calls[c].at = "done"
      BY <1>0, <2>1, <3>2 DEF ToolsTyped, CallsTyped, Moved
    <3> QED
      BY <1>0, <3>1, <3>2
  <2> QED
    BY <1>0, <2>1, <2>2, ActedIsSafe
<1> QED
  BY <1>1, <1>2

LEMMA LocalActIsSafe == ASSUME ToolsSafe, NEW c \in Calls, Tools!ActLocally(c) PROVE ToolsSafe'
<1>1. /\ ToolsTyped /\ MayAct(c) /\ calls[c].at = "call" /\ calls' = [calls EXCEPT ![c].at = "complete"]
      /\ effects' = [effects EXCEPT ![calls[c].key] = @ + 1] /\ outside' = outside \ {c} /\ claims' = claims
  BY DEF ToolsSafe, Sent, MayAct, ToolsTyped, Tools!ActLocally, Tools!Goto
<1>2. Moved(c, "complete", calls[c].said)
  BY <1>1, CallGoes DEF ToolsTyped, Places
<1> QED
  BY <1>1, <1>2, ActedIsSafe

LEMMA RecordIsSafe == ASSUME ToolsSafe, NEW c \in Calls, Tools!Complete(c) PROVE ToolsSafe'
<1>0. /\ ToolsTyped /\ Sent /\ calls[c].at = "complete" /\ calls[c].key \in EffectKeys /\ c \notin outside
      /\ effects[calls[c].key] = 1
  BY DEF ToolsSafe, ToolsTyped, CallsTyped, Sent, EffectsAgree, Tools!Complete
<1>1. /\ claims' = [claims EXCEPT ![calls[c].key] = [status |-> "completed", result |-> c]]
      /\ calls' = [calls EXCEPT ![c].at = "done", ![c].said = "created"]
      /\ UNCHANGED <<outside, effects>>
  BY DEF Tools!Complete, Tools!Answer
<1>7. Moved(c, "done", "created")
  BY <1>0, <1>1, CallMoves DEF ToolsTyped, CallsTyped, Places, Answers
<1>2. ToolsTyped' /\ Sent'
  BY <1>0, <1>1, <1>7 DEF ToolsTyped, Sent, Moved
<1>3. /\ \A o \in Calls \ {c} : calls'[o] = calls[o] /\ (Claimed(o)' <=> Claimed(o)) /\ (MayAct(o)' <=> MayAct(o))
      /\ calls'[c].key = calls[c].key /\ ~Claimed(c)' /\ ~MayAct(c)' /\ calls'[c].at = "done"
  BY <1>0, <1>1, <1>7 DEF Moved, Claimed, MayAct
<1>4. /\ claims'[calls[c].key].status = "completed"
      /\ \A k \in EffectKeys \ {calls[c].key} : claims'[k] = claims[k]
  BY <1>0, <1>1 DEF ToolsTyped
<1>8. \A o \in Calls : Claimed(o) => calls[o].key \in EffectKeys
  BY <1>0 DEF ToolsTyped, CallsTyped, Claimed, MayAct, Sent
<1>5. OneClaimant' /\ ClaimIsKept'
  <2>1. \A o \in Calls : Claimed(o)' => o # c /\ Claimed(o) /\ calls'[o].key = calls[o].key
    BY <1>3
  <2>2. OneClaimant'
    BY <2>1 DEF ToolsSafe, OneClaimant
  <2>3. ASSUME NEW o \in Calls, Claimed(o)' PROVE claims'[calls'[o].key].status # "none"
    <3>1. /\ calls[o].key \in EffectKeys /\ calls'[o].key = calls[o].key
          /\ claims[calls[o].key].status # "none"
      BY <1>8, <2>1, <2>3 DEF ToolsSafe, ClaimIsKept
    <3>2. CASE calls[o].key = calls[c].key
      BY <1>4, <3>1, <3>2
    <3>3. CASE calls[o].key # calls[c].key
      BY <1>4, <3>1, <3>3
    <3> QED
      BY <3>2, <3>3
  <2> QED
    BY <2>2, <2>3 DEF ClaimIsKept
<1>6. EffectsAgree'
  <2>1. \A k \in EffectKeys : /\ effects'[k] <= 1
                              /\ claims'[k].status = "none" => effects'[k] = 0
                              /\ claims'[k].status = "completed" => effects'[k] = 1
    BY <1>0, <1>1, <1>4 DEF ToolsSafe, EffectsAgree
  <2>2. ASSUME NEW o \in Calls
        PROVE  /\ MayAct(o)' => effects'[calls'[o].key] = 0
               /\ calls'[o].at = "complete" \/ calls'[o].said = "created" => effects'[calls'[o].key] = 1
               /\ calls'[o].at = "idle" => calls'[o].said = "nothing"
    BY <1>0, <1>1, <1>3 DEF ToolsSafe, EffectsAgree
  <2> QED
    BY <2>1, <2>2 DEF EffectsAgree
<1> QED
  BY <1>2, <1>5, <1>6 DEF ToolsSafe

LEMMA ToolsStepSafe == ToolsSafe /\ [Tools!ToolsNext]_Tools!toolVars => ToolsSafe'
<1> SUFFICES ASSUME ToolsSafe, [Tools!ToolsNext]_Tools!toolVars PROVE ToolsSafe'
  OBVIOUS
<1>1. CASE UNCHANGED <<calls, claims, outside, effects>>
  BY <1>1 DEF ToolsSafe, ToolsTyped, CallsTyped, Sent, OneClaimant, ClaimIsKept, EffectsAgree, Claimed, MayAct
<1>2. ASSUME NEW c \in Calls,
             \/ Tools!Begin(c) \/ Tools!Gate(c) \/ Tools!AssertUsable(c) \/ Tools!Read(c) \/ Tools!Load(c)
             \/ Tools!Reload(c) \/ Tools!Deadline(c) \/ Tools!CallDies(c)
      PROVE  ToolsSafe'
  BY <1>2, QuietSteps, QuietIsSafe
<1>3. CASE Tools!Revoke \/ Tools!Elapse \/ UNCHANGED Tools!toolVars
  BY <1>1, <1>3 DEF Tools!Revoke, Tools!Elapse, Tools!toolVars
<1> QED
  BY <1>2, <1>3, ClaimIsSafe, SendIsSafe, ServiceIsSafe, LocalActIsSafe, RecordIsSafe DEF Tools!ToolsNext

(* A write happens at most once per key, and a call that says it happened  *)
(* is right, however many calls carry the key and wherever they die        *)
(* (IdempotentExecutor.run).                                               *)
THEOREM EffectsHappenOnce == Spec => []WritesHappenOnce
<1> DEFINE Safe == part = "tools" => ToolsSafe
<1>1. Init => Safe
  BY ToolsInitSafe DEF Init
<1>2. Safe /\ [Next]_allVars => Safe'
  <2> SUFFICES ASSUME Safe, [Next]_allVars, part' = "tools" PROVE ToolsSafe'
    OBVIOUS
  <2>1. part = "tools"
    BY DEF Next, allVars
  <2>2. [Tools!ToolsNext]_Tools!toolVars
    BY <2>1 DEF Next, allVars, slots, Tools!toolVars
  <2> QED
    BY <2>1, <2>2, ToolsStepSafe
<1>3. Safe => WritesHappenOnce
  BY DEF ToolsSafe, EffectsAgree, WritesHappenOnce, Tools!WritesHappenOnce
<1> QED
  BY <1>1, <1>2, <1>3, PTL DEF Spec

-----------------------------------------------------------------------------
(* ViewAs.                                                                 *)

audits     == v1
turns      == v2
executions == v3

USE DEF audits, turns, executions

TurnPlaces == {"idle", "load", "claim", "run", "match", "finish", "done", "refused", "died"}

TurnRecords ==
  [at : TurnPlaces, admin : Admins \cup {"none"}, person : People \cup {"none"}, id : RequestIds \cup {"none"},
   answer : {"error", "grounded", "insufficient_evidence"}, cited : BOOLEAN, diagnostic : BOOLEAN, tries : 0..2,
   released : BOOLEAN]

AuditRecords ==
  [admin : Admins \cup {"none"}, person : People \cup {"none"},
   answer : {"null", "error", "grounded", "insufficient_evidence"}, cited : BOOLEAN, diagnostic : BOOLEAN]

TurnsTyped ==
  /\ turns \in [Turns -> TurnRecords]
  /\ \A t \in Turns : turns[t].at # "idle" => turns[t].id \in RequestIds /\ turns[t].admin \in Admins

AuditsTyped == audits \in [RequestIds -> AuditRecords] /\ executions \in Seq(Turns)

(* The turns that claimed their request id, and did not die since. *)
Claims(t) == turns[t].at \in {"run", "match", "finish", "done"}

(* The row of a claim is the claiming turn's, and nobody else's. *)
RowsAreClaimed ==
  /\ \A t \in Turns : Claims(t) => /\ audits[turns[t].id].admin = turns[t].admin
                                   /\ audits[turns[t].id].person = turns[t].person
  /\ \A t, u \in Turns : Claims(t) /\ Claims(u) /\ turns[t].id = turns[u].id => t = u

(* What ran, ran once per request id. *)
RunsOnce ==
  /\ \A i \in DOMAIN executions :
       LET t == executions[i]
       IN  turns[t].at \in {"match", "finish", "done", "died"} /\ audits[turns[t].id].admin \in Admins
  /\ \A i, j \in DOMAIN executions : turns[executions[i]].id = turns[executions[j]].id => i = j
  /\ \A t \in Turns : turns[t].at = "run" => \A i \in DOMAIN executions : turns[executions[i]].id # turns[t].id

ReleasedIsWritten ==
  \A t \in Turns : turns[t].released =>
    /\ turns[t].at = "done"
    /\ audits[turns[t].id].answer = turns[t].answer
    /\ audits[turns[t].id].cited = turns[t].cited
    /\ audits[turns[t].id].diagnostic = turns[t].diagnostic

ViewSafe == TurnsTyped /\ AuditsTyped /\ RowsAreClaimed /\ RunsOnce /\ ReleasedIsWritten

LEMMA ViewInitSafe == View!ViewInit => ViewSafe
<1> SUFFICES ASSUME View!ViewInit PROVE ViewSafe
  OBVIOUS
<1>1. /\ turns = [t \in Turns |-> View!NewTurn] /\ audits = [id \in RequestIds |-> View!NoRow] /\ executions = <<>>
      /\ View!NewTurn.at = "idle" /\ ~View!NewTurn.released
  BY DEF View!ViewInit, View!NewTurn
<1>2. TurnsTyped
  BY <1>1 DEF TurnsTyped, TurnRecords, TurnPlaces, View!NewTurn
<1>3. AuditsTyped
  BY <1>1 DEF AuditsTyped, AuditRecords, View!NoRow
<1>4. RowsAreClaimed /\ ReleasedIsWritten
  BY <1>1 DEF RowsAreClaimed, ReleasedIsWritten, Claims
<1>5. RunsOnce
  BY <1>1 DEF RunsOnce
<1> QED
  BY <1>2, <1>3, <1>4, <1>5 DEF ViewSafe

(* One turn becomes another record, with the request that it had. *)
Becomes(t, new) ==
  /\ turns' = [turns EXCEPT ![t] = new]
  /\ new \in TurnRecords /\ new.at # "idle"
  /\ new.id = turns[t].id /\ new.admin = turns[t].admin /\ new.person = turns[t].person

LEMMA TurnBecomes ==
  ASSUME TurnsTyped, NEW t \in Turns, turns[t].at # "idle", NEW new, Becomes(t, new)
  PROVE  /\ TurnsTyped'
         /\ \A u \in Turns \ {t} : turns'[u] = turns[u]
         /\ turns'[t] = new
BY DEF TurnsTyped, Becomes

(* The steps of a turn that write no row and run nothing. *)
LEMMA TurnGoesSafely ==
  ASSUME ViewSafe, NEW t \in Turns, NEW new, Becomes(t, new), turns[t].at # "idle",
         UNCHANGED <<audits, executions>>, ~new.released,
         turns[t].at \in {"match", "finish", "done", "died"} => new.at \in {"match", "finish", "done", "died"},
         new.at \in {"match", "finish", "done"} => turns[t].at \in {"match", "finish"},
         new.at # "run"
  PROVE  ViewSafe'
<1>1. /\ TurnsTyped' /\ turns'[t] = new /\ new.id = turns[t].id
      /\ \A u \in Turns \ {t} : turns'[u] = turns[u]
  BY TurnBecomes DEF ViewSafe, Becomes
<1>2. AuditsTyped' /\ \A i \in DOMAIN executions : executions[i] \in Turns
  BY DEF ViewSafe, AuditsTyped
<1>3. \A u \in Turns : /\ Claims(u)' => Claims(u)
                       /\ Claims(u)' => turns'[u].id = turns[u].id /\ turns'[u].admin = turns[u].admin
                                        /\ turns'[u].person = turns[u].person
  BY <1>1 DEF Claims, Becomes
<1>4. RowsAreClaimed'
  BY <1>3 DEF ViewSafe, RowsAreClaimed
<1>5. /\ \A i \in DOMAIN executions : /\ turns'[executions[i]].id = turns[executions[i]].id
                                      /\ turns[executions[i]].at \in {"match", "finish", "done", "died"}
                                      /\ turns'[executions[i]].at \in {"match", "finish", "done", "died"}
  BY <1>1, <1>2 DEF ViewSafe, RunsOnce
<1>6. \A u \in Turns : turns'[u].at = "run" => turns[u].at = "run" /\ turns'[u].id = turns[u].id
  BY <1>1
<1>7. RunsOnce'
  BY <1>2, <1>5, <1>6 DEF ViewSafe, RunsOnce
<1>8. ReleasedIsWritten'
  BY <1>1 DEF ViewSafe, ReleasedIsWritten
<1> QED
  BY <1>1, <1>2, <1>4, <1>7, <1>8 DEF ViewSafe

LEMMA BeginIsSafe == ASSUME ViewSafe, NEW t \in Turns, View!Begin(t) PROVE ViewSafe'
<1>1. PICK admin \in Admins, person \in People, id \in RequestIds :
        turns' = [turns EXCEPT ![t] = [View!NewTurn EXCEPT !.at = "load", !.admin = admin, !.person = person, !.id = id]]
  BY DEF View!Begin
<1> DEFINE new == [View!NewTurn EXCEPT !.at = "load", !.admin = admin, !.person = person, !.id = id]
<1>2. turns[t].at = "idle" /\ UNCHANGED <<audits, executions>>
  BY DEF View!Begin
<1>3. new \in TurnRecords /\ new.at = "load" /\ new.id = id /\ new.admin = admin /\ ~new.released
  <2>1. ASSUME NEW base \in TurnRecords, ~base.released
        PROVE  LET begun == [base EXCEPT !.at = "load", !.admin = admin, !.person = person, !.id = id]
               IN  /\ begun \in TurnRecords /\ begun.at = "load" /\ begun.id = id /\ begun.admin = admin
                   /\ ~begun.released
    BY <1>1, <2>1 DEF TurnRecords, TurnPlaces
  <2>2. View!NewTurn \in TurnRecords /\ ~View!NewTurn.released
    BY DEF TurnRecords, TurnPlaces, View!NewTurn
  <2> QED
    BY <2>1, <2>2
<1> HIDE DEF new
<1>4. TurnsTyped' /\ turns'[t] = new /\ \A u \in Turns \ {t} : turns'[u] = turns[u]
  BY <1>1, <1>3 DEF ViewSafe, TurnsTyped, new
<1>5. AuditsTyped' /\ \A i \in DOMAIN executions : executions[i] \in Turns \ {t}
  BY <1>2 DEF ViewSafe, AuditsTyped, RunsOnce
<1>6. RowsAreClaimed'
  BY <1>2, <1>3, <1>4 DEF ViewSafe, RowsAreClaimed, Claims
<1>7. \A i \in DOMAIN executions : turns'[executions[i]] = turns[executions[i]]
  BY <1>4, <1>5
<1>8. \A u \in Turns : turns'[u].at = "run" => turns'[u] = turns[u]
  BY <1>3, <1>4
<1>9. RunsOnce'
  BY <1>2, <1>5, <1>7, <1>8 DEF ViewSafe, RunsOnce
<1>10. ReleasedIsWritten'
  BY <1>2, <1>3, <1>4 DEF ViewSafe, ReleasedIsWritten
<1> QED
  BY <1>4, <1>5, <1>6, <1>9, <1>10 DEF ViewSafe

(* The turns whose step touches nothing but themselves. *)
LEMMA QuietTurnsAreSafe ==
  ASSUME ViewSafe, NEW t \in Turns, View!LoadPerson(t) \/ View!MatchTitles(t) \/ View!TurnDies(t)
  PROVE  ViewSafe'
<1>0. /\ turns[t] \in TurnRecords /\ turns \in [Turns -> TurnRecords]
      /\ turns[t].at \in {"load", "claim", "run", "match", "finish"} /\ ~turns[t].released
      /\ UNCHANGED <<audits, executions>>
  BY DEF ViewSafe, TurnsTyped, ReleasedIsWritten, View!LoadPerson, View!MatchTitles, View!TurnDies
<1>1. ASSUME NEW place \in {"claim", "refused", "died"}, turns' = [turns EXCEPT ![t].at = place],
             turns[t].at \in {"match", "finish"} => place = "died"
      PROVE  ViewSafe'
  <2>1. Becomes(t, [turns[t] EXCEPT !.at = place]) /\ ~[turns[t] EXCEPT !.at = place].released
    BY <1>0, <1>1 DEF Becomes, TurnRecords, TurnPlaces
  <2>2. [turns[t] EXCEPT !.at = place].at = place
    BY <1>0 DEF TurnRecords
  <2> QED
    BY <1>0, <1>1, <2>1, <2>2, TurnGoesSafely
<1>2. CASE View!LoadPerson(t) \/ View!TurnDies(t)
  BY <1>1, <1>2 DEF View!LoadPerson, View!Refuse, View!TurnDies
<1>3. CASE View!MatchTitles(t)
  <2>1. PICK found \in BOOLEAN : turns' = [turns EXCEPT ![t].at = "finish", ![t].diagnostic = found]
    BY <1>3 DEF View!MatchTitles
  <2>2. turns[t].at = "match"
    BY <1>3 DEF View!MatchTitles
  <2> DEFINE new == [turns[t] EXCEPT !.at = "finish", !.diagnostic = found]
  <2>3. Becomes(t, new) /\ ~new.released /\ new.at = "finish"
    BY <1>0, <2>1 DEF Becomes, TurnRecords, TurnPlaces
  <2> HIDE DEF new
  <2> QED
    BY <1>0, <2>2, <2>3, TurnGoesSafely
<1> QED
  BY <1>2, <1>3

LEMMA ClaimAuditIsSafe == ASSUME ViewSafe, NEW t \in Turns, View!ClaimAudit(t) PROVE ViewSafe'
<1>0. /\ turns[t] \in TurnRecords /\ turns \in [Turns -> TurnRecords] /\ audits \in [RequestIds -> AuditRecords]
      /\ turns[t].at = "claim" /\ ~turns[t].released /\ turns[t].id \in RequestIds /\ turns[t].admin \in Admins
      /\ executions' = executions
  BY DEF ViewSafe, TurnsTyped, AuditsTyped, ReleasedIsWritten, View!ClaimAudit
<1>1. CASE View!Refuse(t) /\ UNCHANGED audits
  <2>1. Becomes(t, [turns[t] EXCEPT !.at = "refused"]) /\ ~[turns[t] EXCEPT !.at = "refused"].released
    BY <1>0, <1>1 DEF Becomes, TurnRecords, TurnPlaces, View!Refuse
  <2>2. [turns[t] EXCEPT !.at = "refused"].at = "refused"
    BY <1>0 DEF TurnRecords
  <2> QED
    BY <1>0, <1>1, <2>1, <2>2, TurnGoesSafely
<1>2. CASE audits[turns[t].id] = View!NoRow /\ turns' = [turns EXCEPT ![t].at = "run"]
           /\ audits' = [audits EXCEPT ![turns[t].id] = [View!NoRow EXCEPT !.admin = turns[t].admin,
                                                                           !.person = turns[t].person]]
  <2> DEFINE new == [turns[t] EXCEPT !.at = "run"]
             row == [View!NoRow EXCEPT !.admin = turns[t].admin, !.person = turns[t].person]
  <2>1. Becomes(t, new) /\ ~new.released /\ new.at = "run" /\ new.id = turns[t].id
    BY <1>0, <1>2 DEF Becomes, TurnRecords, TurnPlaces
  <2>2. row \in AuditRecords /\ row.admin = turns[t].admin /\ row.person = turns[t].person
    BY <1>0 DEF AuditRecords, View!NoRow, TurnRecords
  <2>3. audits[turns[t].id].admin = "none"
    BY <1>2 DEF View!NoRow
  <2> HIDE DEF new, row
  <2>4. TurnsTyped' /\ turns'[t] = new /\ \A u \in Turns \ {t} : turns'[u] = turns[u]
    BY <1>0, <2>1, TurnBecomes DEF ViewSafe
  <2>5. /\ audits' \in [RequestIds -> AuditRecords] /\ audits'[turns[t].id] = row
        /\ \A id \in RequestIds \ {turns[t].id} : audits'[id] = audits[id]
    BY <1>0, <1>2, <2>2 DEF row
  <2>6. AuditsTyped' /\ \A i \in DOMAIN executions : executions[i] \in Turns
    BY <1>0, <2>5 DEF ViewSafe, AuditsTyped
  <2>7. \A u \in Turns : Claims(u) => turns[u].id \in RequestIds \ {turns[t].id} /\ turns'[u] = turns[u]
    BY <1>0, <2>3, <2>4, NobodyIsNoAdmin DEF ViewSafe, RowsAreClaimed, TurnsTyped, Claims
  <2>8. RowsAreClaimed'
    BY <2>1, <2>2, <2>4, <2>5, <2>7 DEF ViewSafe, RowsAreClaimed, Claims, Becomes
  <2>9. \A i \in DOMAIN executions : /\ turns[executions[i]].id \in RequestIds \ {turns[t].id}
                                     /\ turns'[executions[i]] = turns[executions[i]]
    BY <1>0, <2>3, <2>4, <2>6, NobodyIsNoAdmin DEF ViewSafe, RunsOnce, TurnsTyped
  <2>10. RunsOnce'
    BY <1>0, <2>1, <2>4, <2>5, <2>6, <2>9 DEF ViewSafe, RunsOnce
  <2>11. ReleasedIsWritten'
    BY <2>1, <2>4, <2>5, <2>7 DEF ViewSafe, ReleasedIsWritten, Claims
  <2> QED
    BY <2>4, <2>6, <2>8, <2>10, <2>11 DEF ViewSafe
<1> QED
  BY <1>1, <1>2 DEF View!ClaimAudit, View!Unclaimed

LEMMA AnsweredIsSafe == ASSUME ViewSafe, NEW t \in Turns, View!Answered(t) PROVE ViewSafe'
<1>0. /\ turns[t] \in TurnRecords /\ turns \in [Turns -> TurnRecords] /\ executions \in Seq(Turns)
      /\ turns[t].at = "run" /\ ~turns[t].released /\ turns[t].id \in RequestIds /\ turns[t].admin \in Admins
      /\ audits' = audits /\ executions' = Append(executions, t)
  BY DEF ViewSafe, TurnsTyped, AuditsTyped, ReleasedIsWritten, View!Answered
<1>1. PICK new \in TurnRecords : Becomes(t, new) /\ new.at \in {"match", "finish"} /\ ~new.released
  <2>1. CASE \E cited \in BOOLEAN :
               turns' = [turns EXCEPT ![t].at = "finish", ![t].answer = "grounded", ![t].cited = cited]
    <3>1. PICK cited \in BOOLEAN :
            turns' = [turns EXCEPT ![t].at = "finish", ![t].answer = "grounded", ![t].cited = cited]
      BY <2>1
    <3> DEFINE new == [turns[t] EXCEPT !.at = "finish", !.answer = "grounded", !.cited = cited]
    <3>2. Becomes(t, new) /\ new.at = "finish" /\ ~new.released
      BY <1>0, <3>1 DEF Becomes, TurnRecords, TurnPlaces
    <3> QED
      BY <3>2 DEF Becomes
  <2>2. CASE turns' = [turns EXCEPT ![t].at = "match", ![t].answer = "insufficient_evidence"]
    <3> DEFINE new == [turns[t] EXCEPT !.at = "match", !.answer = "insufficient_evidence"]
    <3>1. Becomes(t, new) /\ new.at = "match" /\ ~new.released
      BY <1>0, <2>2 DEF Becomes, TurnRecords, TurnPlaces
    <3> QED
      BY <3>1 DEF Becomes
  <2>3. CASE turns' = [turns EXCEPT ![t].at = "finish"]
    <3> DEFINE new == [turns[t] EXCEPT !.at = "finish"]
    <3>1. Becomes(t, new) /\ new.at = "finish" /\ ~new.released
      BY <1>0, <2>3 DEF Becomes, TurnRecords, TurnPlaces
    <3> QED
      BY <3>1 DEF Becomes
  <2> QED
    BY <2>1, <2>2, <2>3 DEF View!Answered
<1>2. TurnsTyped' /\ turns'[t] = new /\ new.id = turns[t].id /\ \A u \in Turns \ {t} : turns'[u] = turns[u]
  BY <1>0, <1>1, TurnBecomes DEF ViewSafe, Becomes
<1>3. /\ AuditsTyped'
      /\ DOMAIN executions' = DOMAIN executions \cup {Len(executions) + 1}
      /\ Len(executions) + 1 \notin DOMAIN executions
      /\ executions'[Len(executions) + 1] = t
      /\ \A i \in DOMAIN executions : executions'[i] = executions[i] /\ executions[i] \in Turns \ {t}
  BY <1>0 DEF ViewSafe, AuditsTyped, RunsOnce
<1>4. RowsAreClaimed'
  BY <1>0, <1>1, <1>2 DEF ViewSafe, RowsAreClaimed, Claims, Becomes
<1>5. audits[turns[t].id].admin \in Admins
  BY <1>0 DEF ViewSafe, RowsAreClaimed, Claims
<1>6. \A i \in DOMAIN executions : turns'[executions[i]] = turns[executions[i]] /\ turns[executions[i]].id # turns[t].id
  BY <1>0, <1>2, <1>3 DEF ViewSafe, RunsOnce
<1>7. \A u \in Turns \ {t} : turns[u].at = "run" => turns'[u] = turns[u] /\ turns[u].id # turns[t].id
  BY <1>0, <1>2 DEF ViewSafe, RowsAreClaimed, Claims
<1>8. RunsOnce'
  <2>1. \A i \in DOMAIN executions' :
          turns'[executions'[i]].at \in {"match", "finish", "done", "died"}
          /\ audits'[turns'[executions'[i]].id].admin \in Admins
    BY <1>0, <1>1, <1>2, <1>3, <1>5, <1>6 DEF ViewSafe, RunsOnce
  <2>2. \A i, j \in DOMAIN executions' : turns'[executions'[i]].id = turns'[executions'[j]].id => i = j
    BY <1>2, <1>3, <1>6 DEF ViewSafe, RunsOnce
  <2>3. \A u \in Turns : turns'[u].at = "run" => \A i \in DOMAIN executions' : turns'[executions'[i]].id # turns'[u].id
    BY <1>1, <1>2, <1>3, <1>6, <1>7 DEF ViewSafe, RunsOnce
  <2> QED
    BY <2>1, <2>2, <2>3 DEF RunsOnce
<1>9. ReleasedIsWritten'
  BY <1>0, <1>1, <1>2 DEF ViewSafe, ReleasedIsWritten
<1> QED
  BY <1>2, <1>3, <1>4, <1>8, <1>9 DEF ViewSafe

(* The row of a request id after its answer was written. *)
LEMMA RowIsWritten ==
  ASSUME ViewSafe, NEW t \in Turns, turns[t].at = "finish", View!Write(t)
  PROVE  /\ audits' \in [RequestIds -> AuditRecords]
         /\ \A id \in RequestIds : /\ audits'[id].admin = audits[id].admin /\ audits'[id].person = audits[id].person
                                   /\ id # turns[t].id => audits'[id] = audits[id]
         /\ audits'[turns[t].id].answer = turns[t].answer
         /\ audits'[turns[t].id].cited = turns[t].cited
         /\ audits'[turns[t].id].diagnostic = turns[t].diagnostic
<1>1. turns[t] \in TurnRecords /\ audits \in [RequestIds -> AuditRecords] /\ turns[t].id \in RequestIds
  BY DEF ViewSafe, TurnsTyped, AuditsTyped
<1> DEFINE row == [audits[turns[t].id] EXCEPT !.answer = turns[t].answer, !.cited = turns[t].cited,
                                              !.diagnostic = turns[t].diagnostic]
<1>2. audits' = [audits EXCEPT ![turns[t].id] = row]
  BY <1>1 DEF View!Write
<1>3. /\ row \in AuditRecords /\ row.admin = audits[turns[t].id].admin /\ row.person = audits[turns[t].id].person
      /\ row.answer = turns[t].answer /\ row.cited = turns[t].cited /\ row.diagnostic = turns[t].diagnostic
  <2>1. ASSUME NEW base \in AuditRecords, NEW turn \in TurnRecords
        PROVE  LET new == [base EXCEPT !.answer = turn.answer, !.cited = turn.cited, !.diagnostic = turn.diagnostic]
               IN  /\ new \in AuditRecords /\ new.admin = base.admin /\ new.person = base.person
                   /\ new.answer = turn.answer /\ new.cited = turn.cited /\ new.diagnostic = turn.diagnostic
    BY DEF AuditRecords, TurnRecords
  <2>2. audits[turns[t].id] \in AuditRecords
    BY <1>1
  <2> QED
    BY <1>1, <2>1, <2>2
<1> HIDE DEF row
<1> QED
  BY <1>1, <1>2, <1>3

LEMMA FinishIsSafe ==
  ASSUME ViewSafe, NEW t \in Turns, View!FinishAudit(t) \/ View!FinishFails(t)
  PROVE  ViewSafe'
<1>0. /\ turns[t] \in TurnRecords /\ turns \in [Turns -> TurnRecords] /\ audits \in [RequestIds -> AuditRecords]
      /\ turns[t].at = "finish" /\ ~turns[t].released /\ turns[t].id \in RequestIds
      /\ executions' = executions
  BY DEF ViewSafe, TurnsTyped, AuditsTyped, ReleasedIsWritten, View!FinishAudit, View!FinishFails
<1>1. /\ audits' \in [RequestIds -> AuditRecords]
      /\ \A id \in RequestIds : /\ audits'[id].admin = audits[id].admin /\ audits'[id].person = audits[id].person
                                /\ id # turns[t].id => audits'[id] = audits[id]
  BY <1>0, RowIsWritten DEF View!FinishAudit, View!FinishFails
<1>2. ASSUME NEW new \in TurnRecords, Becomes(t, new), new.at \in {"finish", "done"},
             new.released => new.at = "done" /\ View!Write(t),
             new.answer = turns[t].answer, new.cited = turns[t].cited, new.diagnostic = turns[t].diagnostic
      PROVE  ViewSafe'
  <2>1. TurnsTyped' /\ turns'[t] = new /\ \A u \in Turns \ {t} : turns'[u] = turns[u]
    BY <1>0, <1>2, TurnBecomes DEF ViewSafe
  <2>2. AuditsTyped' /\ \A i \in DOMAIN executions : executions[i] \in Turns
    BY <1>0, <1>1 DEF ViewSafe, AuditsTyped
  <2>3. \A u \in Turns : /\ turns'[u].id = turns[u].id /\ turns'[u].admin = turns[u].admin
                         /\ turns'[u].person = turns[u].person
                         /\ Claims(u)' => Claims(u)
    BY <1>0, <1>2, <2>1 DEF Claims, Becomes
  <2>4. \A u \in Turns : Claims(u) => turns[u].id \in RequestIds
    BY DEF ViewSafe, TurnsTyped, Claims
  <2>5. RowsAreClaimed'
    BY <1>1, <2>3, <2>4 DEF ViewSafe, RowsAreClaimed
  <2>6. \A i \in DOMAIN executions : /\ turns[executions[i]].id \in RequestIds
                                     /\ turns'[executions[i]].at \in {"match", "finish", "done", "died"}
    BY <1>2, <2>1, <2>2 DEF ViewSafe, RunsOnce, TurnsTyped
  <2>7. \A u \in Turns : turns'[u].at = "run" => turns[u].at = "run"
    BY <1>2, <2>1
  <2>8. RunsOnce'
    BY <1>0, <1>1, <2>2, <2>3, <2>6, <2>7 DEF ViewSafe, RunsOnce
  <2>9. ASSUME NEW u \in Turns \ {t}, turns'[u].released
        PROVE  turns[u].released /\ turns[u].id \in RequestIds \ {turns[t].id}
    BY <1>0, <2>1, <2>4, <2>9 DEF ViewSafe, RowsAreClaimed, ReleasedIsWritten, Claims
  <2>10. new.released => /\ audits'[turns[t].id].answer = turns[t].answer
                         /\ audits'[turns[t].id].cited = turns[t].cited
                         /\ audits'[turns[t].id].diagnostic = turns[t].diagnostic
    BY <1>0, <1>2, RowIsWritten
  <2>11. ReleasedIsWritten'
    BY <1>1, <1>2, <2>1, <2>9, <2>10 DEF ViewSafe, ReleasedIsWritten, Becomes
  <2> QED
    BY <2>1, <2>2, <2>5, <2>8, <2>11 DEF ViewSafe
<1>3. ASSUME NEW tries \in {1, 2}, NEW shown \in BOOLEAN, shown => View!Write(t),
             turns' = [turns EXCEPT ![t].at = "done", ![t].tries = tries, ![t].released = shown]
      PROVE  ViewSafe'
  <2> DEFINE new == [turns[t] EXCEPT !.at = "done", !.tries = tries, !.released = shown]
  <2>0. tries \in 0..2
    BY <1>3
  <2>1. ASSUME NEW base \in TurnRecords
        PROVE  LET ended == [base EXCEPT !.at = "done", !.tries = tries, !.released = shown]
               IN  /\ ended \in TurnRecords /\ ended.at = "done" /\ ended.released = shown
                   /\ ended.id = base.id /\ ended.admin = base.admin /\ ended.person = base.person
                   /\ ended.answer = base.answer /\ ended.cited = base.cited
                   /\ ended.diagnostic = base.diagnostic
    BY <2>0 DEF TurnRecords, TurnPlaces
  <2>2. turns' = [turns EXCEPT ![t] = new]
    BY <1>0, <1>3
  <2>3. /\ new \in TurnRecords /\ Becomes(t, new) /\ new.at = "done" /\ new.released = shown
        /\ new.answer = turns[t].answer /\ new.cited = turns[t].cited /\ new.diagnostic = turns[t].diagnostic
    BY <1>0, <2>1, <2>2 DEF Becomes
  <2> HIDE DEF new
  <2> QED
    BY <1>2, <1>3, <2>3
<1>4. CASE turns' = [turns EXCEPT ![t].tries = 1]
  <2> DEFINE new == [turns[t] EXCEPT !.tries = 1]
  <2>1. /\ new \in TurnRecords /\ Becomes(t, new) /\ new.at = "finish" /\ ~new.released
        /\ new.answer = turns[t].answer /\ new.cited = turns[t].cited /\ new.diagnostic = turns[t].diagnostic
    BY <1>0, <1>4 DEF Becomes, TurnRecords, TurnPlaces
  <2> HIDE DEF new
  <2> QED
    BY <1>2, <2>1
<1>5. CASE View!Write(t) /\ View!End(t, TRUE, 1)
  <2> DEFINE shown == turns[t].answer # "error"
  <2>1. turns' = [turns EXCEPT ![t].at = "done", ![t].tries = 1, ![t].released = shown]
    BY <1>5, Zenon DEF View!End, View!Releasable
  <2> QED
    BY <1>3, <1>5, <2>1
<1>6. CASE View!End(t, FALSE, 2)
  <2>1. turns' = [turns EXCEPT ![t].at = "done", ![t].tries = 2, ![t].released = FALSE]
    BY <1>6 DEF View!End, View!Releasable
  <2> QED
    BY <1>3, <2>1
<1> QED
  BY <1>4, <1>5, <1>6 DEF View!FinishAudit, View!FinishFails

LEMMA ViewStepSafe == ViewSafe /\ [View!ViewNext]_View!viewVars => ViewSafe'
<1> SUFFICES ASSUME ViewSafe, [View!ViewNext]_View!viewVars PROVE ViewSafe'
  OBVIOUS
<1>1. CASE UNCHANGED View!viewVars
  BY <1>1 DEF View!viewVars, ViewSafe, TurnsTyped, AuditsTyped, RowsAreClaimed, RunsOnce, ReleasedIsWritten, Claims
<1> QED
  BY <1>1, BeginIsSafe, QuietTurnsAreSafe, ClaimAuditIsSafe, AnsweredIsSafe, FinishIsSafe DEF View!ViewNext

(* An answer given as another person is released only when its row says    *)
(* who asked, as whom, and what was shown, and its request id ran once,    *)
(* however many turns carry it and wherever they die (runViewAsTurn).      *)
THEOREM ReleasesAreAudited == Spec => []ReleasedIsAudited
<1> DEFINE Safe == part = "view" => ViewSafe
<1>1. Init => Safe
  BY ViewInitSafe DEF Init
<1>2. Safe /\ [Next]_allVars => Safe'
  <2> SUFFICES ASSUME Safe, [Next]_allVars, part' = "view" PROVE ViewSafe'
    OBVIOUS
  <2>1. part = "view"
    BY DEF Next, allVars
  <2>2. [View!ViewNext]_View!viewVars
    BY <2>1 DEF Next, allVars, slots, View!viewVars
  <2> QED
    BY <2>1, <2>2, ViewStepSafe
<1>3. Safe => ReleasedIsAudited
  <2> SUFFICES ASSUME ViewSafe, NEW t \in Turns, turns[t].released
               PROVE  /\ audits[turns[t].id] = [admin |-> turns[t].admin, person |-> turns[t].person,
                                                answer |-> turns[t].answer, cited |-> turns[t].cited,
                                                diagnostic |-> turns[t].diagnostic]
                      /\ \A i, j \in DOMAIN executions :
                           turns[executions[i]].id = turns[t].id /\ turns[executions[j]].id = turns[t].id => i = j
    BY DEF ReleasedIsAudited, View!ReleasedIsAudited
  <2>1. turns[t].at = "done" /\ turns[t].id \in RequestIds /\ Claims(t)
    BY DEF ViewSafe, ReleasedIsWritten, TurnsTyped, Claims
  <2>2. audits[turns[t].id] \in AuditRecords
    BY <2>1 DEF ViewSafe, AuditsTyped
  <2> QED
    BY <2>1, <2>2 DEF ViewSafe, RowsAreClaimed, RunsOnce, ReleasedIsWritten, AuditRecords
<1> QED
  BY <1>1, <1>2, <1>3, PTL DEF Spec

-----------------------------------------------------------------------------
(* SourcesPage.                                                            *)

corpus   == v1
shown    == v2
chain    == v3
loads    == v4
action   == v5
confirm  == v6
error    == v7
silent  == v8

USE DEF corpus, shown, chain, loads, action, confirm, error, silent

Drafts == [id : Nat, state : {"none", "building", "checking", "checks_passed", "checks_failed"}]
Chains == [at : {"none", "timer", "asked", "exhausted"}, polls : Nat, seen : Drafts]

PageTyped ==
  /\ corpus \in Drafts /\ shown \in Drafts /\ chain \in Chains
  /\ loads \in [Loads -> [at : {"none", "asked"}, seen : Drafts, ofAction : BOOLEAN]]

PageSafe == PageTyped /\ Sources!PageFollowsTheDraft

LEMMA ChainsAreTyped ==
  /\ Sources!NoDraft \in Drafts /\ Sources!NoChain \in Chains /\ Sources!NewChain \in Chains
  /\ Sources!NewChain.at = "timer"
BY DEF Sources!NoDraft, Sources!NoChain, Sources!NewChain, Drafts, Chains

LEMMA PageInitSafe == Sources!PageInit => PageSafe
<1> SUFFICES ASSUME Sources!PageInit PROVE PageSafe
  OBVIOUS
<1>1. corpus \in Drafts /\ shown = corpus
  BY ChainsAreTyped DEF Sources!PageInit, Drafts
<1>2. chain = IF Sources!Polling(corpus) THEN Sources!NewChain ELSE Sources!NoChain
  BY DEF Sources!PageInit
<1>3. loads \in [Loads -> [at : {"none", "asked"}, seen : Drafts, ofAction : BOOLEAN]]
  BY ChainsAreTyped DEF Sources!PageInit, Sources!NoLoad
<1> QED
  BY <1>1, <1>2, <1>3, ChainsAreTyped DEF PageSafe, PageTyped, Sources!PageFollowsTheDraft

(* A draft is shown: what was left of the chain goes on following, unless  *)
(* it is the chain of another kind of draft, which starts or ends with it. *)
LEMMA ShowingFollows ==
  ASSUME PageSafe, NEW draft \in Drafts, NEW left \in Chains, Sources!Show(draft, left), UNCHANGED error,
         left = chain \/ left.at \in {"timer", "exhausted"}
  PROVE  shown' \in Drafts /\ chain' \in Chains /\ Sources!PageFollowsTheDraft'
<1>1. /\ shown' = draft
      /\ chain' = IF Sources!Polling(draft) = Sources!Polling(shown) THEN left
                  ELSE IF Sources!Polling(draft) THEN Sources!NewChain ELSE Sources!NoChain
      /\ silent' = (silent /\ Sources!Polling(draft) /\ Sources!Polling(shown))
  BY DEF Sources!Show
<1>2. shown' \in Drafts /\ chain' \in Chains
  BY <1>1, ChainsAreTyped
<1>3. ASSUME Sources!Polling(draft) PROVE Sources!PageFollowsTheDraft'
  <2>1. CASE Sources!Polling(shown)
    BY <1>1, <1>3, <2>1 DEF PageSafe, Sources!PageFollowsTheDraft, Sources!Polling
  <2>2. CASE ~Sources!Polling(shown)
    BY <1>1, <1>3, <2>2, ChainsAreTyped DEF Sources!PageFollowsTheDraft, Sources!Polling
  <2> QED
    BY <2>1, <2>2
<1> QED
  BY <1>1, <1>2, <1>3 DEF Sources!PageFollowsTheDraft, Sources!Polling

LEMMA PollsAreSafe ==
  ASSUME PageSafe,
         \/ Sources!PollFires \/ Sources!PollReturns \/ Sources!PollFails \/ Sources!PollRejects
         \/ Sources!ClickRetry
  PROVE  PageSafe'
<1>1. PageTyped
  BY DEF PageSafe
<1>2. CASE Sources!PollFires
  <2>1. chain' \in Chains /\ chain'.at = "asked" /\ UNCHANGED <<corpus, shown, loads>>
    BY <1>1, <1>2 DEF PageTyped, Sources!PollFires, Chains
  <2> QED
    BY <1>1, <2>1 DEF PageSafe, PageTyped, Sources!PageFollowsTheDraft
<1>3. CASE Sources!PollReturns
  <2> DEFINE left == IF chain.polls + 1 < MaxPagePolls THEN [Sources!NewChain EXCEPT !.polls = chain.polls + 1]
                     ELSE [Sources!NoChain EXCEPT !.at = "exhausted"]
  <2>1. chain.seen \in Drafts /\ left \in Chains /\ left.at \in {"timer", "exhausted"}
    <3>1. chain.polls \in Nat /\ chain.seen \in Drafts
      BY <1>1 DEF PageTyped, Chains
    <3>2. ASSUME NEW p \in Nat, NEW base \in Chains PROVE [base EXCEPT !.polls = p] \in Chains
      BY DEF Chains
    <3>3. ASSUME NEW p \in Nat PROVE [Sources!NewChain EXCEPT !.polls = p].at = "timer"
      BY DEF Sources!NewChain, Sources!NoChain
    <3>4. [Sources!NoChain EXCEPT !.at = "exhausted"] \in Chains
      BY ChainsAreTyped DEF Chains
    <3>5. [Sources!NoChain EXCEPT !.at = "exhausted"].at = "exhausted"
      BY DEF Sources!NoChain
    <3> QED
      BY <3>1, <3>2, <3>3, <3>4, <3>5, ChainsAreTyped
  <2>2. Sources!Show(chain.seen, left) /\ UNCHANGED <<error, corpus, loads>>
    BY <1>3 DEF Sources!PollReturns
  <2> HIDE DEF left
  <2> QED
    BY <1>1, <2>1, <2>2, ShowingFollows DEF PageSafe, PageTyped
<1>4. CASE Sources!PollFails
  BY <1>1, <1>4, ChainsAreTyped DEF Sources!PollFails, PageSafe, PageTyped, Sources!PageFollowsTheDraft
<1>5. CASE Sources!ClickRetry
  BY <1>1, <1>5, ChainsAreTyped
     DEF Sources!ClickRetry, Sources!Restarted, PageSafe, PageTyped, Sources!PageFollowsTheDraft
<1>6. CASE Sources!PollRejects
  BY <1>1, <1>6, ChainsAreTyped DEF Sources!PollRejects, PageSafe, PageTyped, Sources!PageFollowsTheDraft
<1> QED
  BY <1>2, <1>3, <1>4, <1>5, <1>6

LEMMA LoadsAreSafe ==
  ASSUME PageSafe, NEW l \in Loads,
         Sources!Reload(l) \/ Sources!LoadReturns(l) \/ Sources!LoadFails(l) \/ Sources!LoadRejects(l)
  PROVE  PageSafe'
<1>1. PageTyped
  BY DEF PageSafe
<1>2. CASE Sources!Reload(l)
  <2>1. /\ loads' = [loads EXCEPT ![l] = [at |-> "asked", seen |-> corpus, ofAction |-> FALSE]]
        /\ UNCHANGED <<corpus, shown, chain, error, silent>>
    BY <1>2 DEF Sources!Reload, Sources!StartLoad
  <2> QED
    BY <1>1, <2>1 DEF PageSafe, PageTyped, Sources!PageFollowsTheDraft
<1>3. ASSUME NEW left, Sources!EndLoad(l, left)
      PROVE  /\ loads' \in [Loads -> [at : {"none", "asked"}, seen : Drafts, ofAction : BOOLEAN]]
             /\ loads[l].seen \in Drafts
  BY <1>1, <1>3, ChainsAreTyped DEF PageTyped, Sources!EndLoad, Sources!NoLoad
<1>4. CASE Sources!LoadReturns(l)
  BY <1>1, <1>3, <1>4, ShowingFollows DEF Sources!LoadReturns, PageSafe, PageTyped
<1>5. CASE Sources!LoadFails(l)
  <2>1. UNCHANGED <<corpus, shown, chain>> /\ silent' = (silent \/ error = "retry")
    BY <1>5 DEF Sources!LoadFails, Sources!SetError
  <2>2. Sources!EndLoad(l, "none")
    BY <1>5 DEF Sources!LoadFails
  <2> QED
    BY <1>1, <1>3, <2>1, <2>2 DEF PageSafe, PageTyped, Sources!PageFollowsTheDraft
<1>6. CASE Sources!LoadRejects(l)
  <2>1. UNCHANGED <<corpus, shown, chain, error, silent>> /\ Sources!EndLoad(l, confirm)
    BY <1>6 DEF Sources!LoadRejects
  <2> QED
    BY <1>1, <1>3, <2>1 DEF PageSafe, PageTyped, Sources!PageFollowsTheDraft
<1> QED
  BY <1>2, <1>4, <1>5, <1>6

LEMMA ActionsAreSafe ==
  ASSUME PageSafe,
         \/ \E kind \in {"promote", "discard"} : Sources!Ask(kind)
         \/ Sources!CancelDialog \/ Sources!Confirmed \/ Sources!Reindex \/ Sources!ActionFails \/ Sources!ActionRejects
         \/ \E l \in Loads : Sources!ActionSucceeds(l)
         \/ Sources!CorpusMoves
  PROVE  PageSafe'
<1>1. PageTyped
  BY DEF PageSafe
<1>2. Sources!AfterIt(corpus) \in Drafts
  BY <1>1 DEF PageTyped, Sources!AfterIt, Drafts
<1>3. UNCHANGED <<shown, chain>> /\ corpus' \in Drafts
  <2>1. CASE Sources!CorpusMoves
    BY <1>1, <2>1 DEF Sources!CorpusMoves, PageTyped, Drafts
  <2> QED
    BY <1>1, <1>2, <2>1
       DEF Sources!Ask, Sources!CancelDialog, Sources!Confirmed, Sources!Reindex, Sources!ActionFails,
           Sources!ActionRejects, Sources!MayBeDone, Sources!ActionSucceeds, PageTyped
<1>4. UNCHANGED <<error, silent>> \/ silent' = (silent \/ error = "retry")
  BY DEF Sources!Ask, Sources!CancelDialog, Sources!Confirmed, Sources!Reindex, Sources!ActionFails, Sources!Run,
         Sources!ActionRejects, Sources!ActionSucceeds, Sources!CorpusMoves, Sources!SetError
<1>5. loads' \in [Loads -> [at : {"none", "asked"}, seen : Drafts, ofAction : BOOLEAN]]
  <2>1. ASSUME NEW l \in Loads, Sources!ActionSucceeds(l)
        PROVE  loads' = [loads EXCEPT ![l] = [at |-> "asked", seen |-> corpus', ofAction |-> TRUE]]
    BY <2>1 DEF Sources!ActionSucceeds, Sources!StartLoad
  <2>2. \/ \E l \in Loads : Sources!ActionSucceeds(l)
        \/ UNCHANGED loads
    BY DEF Sources!Ask, Sources!CancelDialog, Sources!Confirmed, Sources!Reindex, Sources!ActionFails,
           Sources!ActionRejects, Sources!CorpusMoves
  <2>3. CASE \E l \in Loads : Sources!ActionSucceeds(l)
    <3>1. PICK l \in Loads : loads' = [loads EXCEPT ![l] = [at |-> "asked", seen |-> corpus', ofAction |-> TRUE]]
      BY <2>1, <2>3
    <3>2. [at |-> "asked", seen |-> corpus', ofAction |-> TRUE]
            \in [at : {"none", "asked"}, seen : Drafts, ofAction : BOOLEAN]
      BY <1>3
    <3> QED
      BY <1>1, <3>1, <3>2 DEF PageTyped
  <2>4. CASE UNCHANGED loads
    BY <1>1, <2>4 DEF PageTyped
  <2> QED
    BY <2>2, <2>3, <2>4
<1>6. Sources!PageFollowsTheDraft'
  <2>1. CASE UNCHANGED <<error, silent>>
    BY <1>3, <2>1 DEF PageSafe, Sources!PageFollowsTheDraft
  <2>2. CASE silent' = (silent \/ error = "retry")
    BY <1>3, <2>2 DEF PageSafe, Sources!PageFollowsTheDraft
  <2> QED
    BY <1>4, <2>1, <2>2
<1> QED
  BY <1>1, <1>3, <1>5, <1>6 DEF PageSafe, PageTyped

LEMMA PageStepSafe == PageSafe /\ [Sources!PageNext]_Sources!pageVars => PageSafe'
<1> SUFFICES ASSUME PageSafe, [Sources!PageNext]_Sources!pageVars PROVE PageSafe'
  OBVIOUS
<1>1. CASE UNCHANGED Sources!pageVars
  BY <1>1 DEF Sources!pageVars, PageSafe, PageTyped, Sources!PageFollowsTheDraft
<1> QED
  BY <1>1, PollsAreSafe, LoadsAreSafe, ActionsAreSafe DEF Sources!PageNext

-----------------------------------------------------------------------------
(* ChatPanel.  Its turns, those with evidence, are called answers here.    *)

url     == v1
written == v2
handled == v3
panel   == v4
reader  == v5
seq     == v6
fetches == v7
answers == v8

USE DEF url, written, handled, panel, reader, seq, fetches, answers

LinksSeen == [doc : Docs \cup {0}, n : 0..1]

PanelTyped ==
  /\ written \in Seq(LinksSeen)
  /\ panel \in [open : BOOLEAN, turn : Nat]
  /\ reader \in [doc : Docs \cup {0}, n : 0..1, turn : Nat, status : {"none", "loading", "ready", "missing", "failed"},
                 view : Docs \cup {0}]
  /\ seq \in Nat /\ answers \in Nat
  /\ \A f \in fetches : f \in [seq : Nat, doc : Docs \cup {0}]

NoReader == Panel!NoReader

ClosedHasNoReader == ~panel.open => reader = NoReader

(* A fetch that carries the number of the last opening is for the document *)
(* that was opened last.                                                   *)
FetchesAreNumbered ==
  \A f \in fetches : f.seq <= seq /\ (f.seq = seq /\ reader # NoReader => f.doc = reader.doc)

PanelSafe == PanelTyped /\ ClosedHasNoReader /\ FetchesAreNumbered /\ Panel!ReaderShowsItsDocument

LEMMA PanelTurnIsNat == ASSUME PanelTyped PROVE Panel!PanelTurn \in Nat
BY DEF PanelTyped, Panel!PanelTurn

LEMMA PanelInitSafe == Panel!PanelInit => PanelSafe
<1> SUFFICES ASSUME Panel!PanelInit PROVE PanelSafe
  OBVIOUS
<1>1. written = <<>> /\ panel = [open |-> url # Panel!NoLink, turn |-> 0] /\ answers \in {0, 1}
  BY DEF Panel!PanelInit, Panel!NoTurn
<1>2. CASE url = Panel!NoLink
  <2>1. reader = NoReader /\ seq = 0 /\ fetches = {}
    BY <1>2 DEF Panel!PanelInit, NoReader
  <2> QED
    BY <1>1, <1>2, <2>1 DEF PanelSafe, PanelTyped, ClosedHasNoReader, FetchesAreNumbered,
       Panel!ReaderShowsItsDocument, NoReader, Panel!NoReader, Panel!NoDoc, Panel!NoTurn
<1>3. CASE url # Panel!NoLink
  <2>1. url \in Panel!Links /\ url.doc \in Docs /\ url.n \in 0..1
    BY <1>3 DEF Panel!PanelInit, Panel!Links
  <2>2. /\ reader = [doc |-> url.doc, n |-> url.n, turn |-> 0, status |-> "loading", view |-> 0]
        /\ seq = 1 /\ fetches = {[seq |-> 1, doc |-> url.doc]}
    BY <1>3 DEF Panel!PanelInit, Panel!LoadingReader, Panel!Fetch, Panel!NoTurn, Panel!NoDoc
  <2>3. PanelTyped
    BY <1>1, <2>1, <2>2 DEF PanelTyped
  <2>4. panel.open
    BY <1>1, <1>3
  <2> QED
    BY <2>2, <2>3, <2>4 DEF PanelSafe, ClosedHasNoReader, FetchesAreNumbered, Panel!ReaderShowsItsDocument,
       Panel!Fetch, Panel!NoTurn
<1> QED
  BY <1>2, <1>3

(* The link of what is shown is written and, later, seen.                  *)
LEMMA LinkIsWritten ==
  ASSUME NEW p, NEW r, NEW before \in Seq(LinksSeen), Panel!Show(p, r, before), r.doc \in Docs \cup {0}, r.n \in 0..1
  PROVE  written' \in Seq(LinksSeen) /\ panel' = p /\ reader' = r
<1>1. Panel!LinkOf(p, r) \in LinksSeen
  BY DEF Panel!LinkOf, Panel!NoLink, Panel!NoDoc, LinksSeen
<1> QED
  BY <1>1 DEF Panel!Show

(* A document is opened: its fetch has a number no other fetch has.        *)
LEMMA OpeningIsSafe ==
  ASSUME PanelSafe, NEW doc \in Docs, NEW n \in 0..1, NEW turn \in {0, Panel!PanelTurn},
         seq' = seq + 1, fetches' = fetches \cup {Panel!Fetch(seq + 1, doc)}, UNCHANGED answers,
         panel' = panel \/ panel' = [panel EXCEPT !.open = TRUE], panel'.open,
         reader' = Panel!LoadingReader([doc |-> doc, n |-> n], turn),
         written' \in Seq(LinksSeen)
  PROVE  PanelSafe'
<1>0. PanelTyped
  BY DEF PanelSafe
<1>1. reader' = [doc |-> doc, n |-> n, turn |-> turn, status |-> "loading", view |-> 0]
  BY DEF Panel!LoadingReader, Panel!NoDoc
<1>2. panel' \in [open : BOOLEAN, turn : Nat] /\ panel'.turn = panel.turn
  BY <1>0 DEF PanelTyped
<1>3. PanelTyped'
  BY <1>0, <1>1, <1>2, PanelTurnIsNat DEF PanelTyped, Panel!Fetch
<1>4. ClosedHasNoReader'
  BY DEF ClosedHasNoReader
<1>5. FetchesAreNumbered'
  <2>1. ASSUME NEW f \in fetches PROVE f.seq <= seq /\ f.seq \in Nat
    BY <1>0 DEF PanelSafe, PanelTyped, FetchesAreNumbered
  <2> QED
    BY <1>0, <1>1, <2>1 DEF PanelTyped, FetchesAreNumbered, Panel!Fetch
<1>6. Panel!PanelTurn' = Panel!PanelTurn
  BY <1>2 DEF Panel!PanelTurn
<1>7. Panel!ReaderShowsItsDocument'
  BY <1>1, <1>6 DEF Panel!ReaderShowsItsDocument, Panel!NoTurn
<1> QED
  BY <1>3, <1>4, <1>5, <1>7 DEF PanelSafe

LEMMA OpenDocumentIsSafe == ASSUME PanelSafe, Panel!OpenDocument PROVE PanelSafe'
<1>0. PanelTyped
  BY DEF PanelSafe
<1>1. PICK doc \in Docs : Panel!Open(panel, [doc |-> doc, n |-> 1], Panel!PanelTurn, written)
  BY DEF Panel!OpenDocument
<1> DEFINE new == Panel!LoadingReader([doc |-> doc, n |-> 1], Panel!PanelTurn)
<1>2. seq' = seq + 1 /\ fetches' = fetches \cup {Panel!Fetch(seq + 1, doc)} /\ Panel!Show(panel, new, written)
  BY <1>1 DEF Panel!Open
<1>3. new.doc = doc /\ new.n = 1
  BY DEF Panel!LoadingReader
<1> HIDE DEF new
<1>4. written' \in Seq(LinksSeen) /\ panel' = panel /\ reader' = new
  BY <1>0, <1>2, <1>3, LinkIsWritten DEF PanelTyped
<1>5. UNCHANGED answers /\ panel'.open
  BY <1>4 DEF Panel!OpenDocument
<1>6. 1 \in 0..1 /\ Panel!PanelTurn \in {0, Panel!PanelTurn}
  OBVIOUS
<1>7. reader' = Panel!LoadingReader([doc |-> doc, n |-> 1], Panel!PanelTurn)
  BY <1>4 DEF new
<1> QED
  BY <1>2, <1>4, <1>5, <1>6, <1>7, OpeningIsSafe

(* The page's own link comes back, or search pushes one.                   *)
LEMMA LinksAreSafe ==
  ASSUME PanelSafe, Panel!FollowLink \/ \E i \in DOMAIN written : Panel!ParamsShowUp(i)
  PROVE  PanelSafe'
<1>0. PanelTyped
  BY DEF PanelSafe
<1>1. UNCHANGED answers
  BY DEF Panel!FollowLink, Panel!ParamsShowUp
<1>2. ASSUME UNCHANGED <<panel, reader, seq, fetches>>, written' \in Seq(LinksSeen)
      PROVE  PanelSafe'
  BY <1>1, <1>2 DEF PanelSafe, PanelTyped, ClosedHasNoReader, FetchesAreNumbered, Panel!ReaderShowsItsDocument,
     Panel!PanelTurn, Panel!Fetch
<1>3. CASE Panel!FollowLink
  <2>1. PICK doc \in Docs :
          /\ \/ /\ seq' = seq + 1
                /\ fetches' = fetches \cup {Panel!Fetch(seq + 1, doc)}
                /\ panel' = [panel EXCEPT !.open = TRUE]
                /\ reader' = Panel!LoadingReader([doc |-> doc, n |-> 0], 0)
             \/ UNCHANGED <<seq, fetches, panel, reader>>
          /\ written' = <<>>
    BY <1>3 DEF Panel!FollowLink, Panel!NoTurn
  <2>2. panel.open' \/ UNCHANGED <<seq, fetches, panel, reader>>
    BY <1>0, <2>1 DEF PanelTyped
  <2>3. written' \in Seq(LinksSeen)
    BY <2>1
  <2>4. CASE UNCHANGED <<seq, fetches, panel, reader>>
    BY <1>2, <2>3, <2>4
  <2>5. CASE /\ seq' = seq + 1
             /\ fetches' = fetches \cup {Panel!Fetch(seq + 1, doc)}
             /\ panel' = [panel EXCEPT !.open = TRUE]
             /\ reader' = Panel!LoadingReader([doc |-> doc, n |-> 0], 0)
    <3>1. panel'.open
      BY <1>0, <2>5 DEF PanelTyped
    <3>2. 0 \in 0..1 /\ 0 \in {0, Panel!PanelTurn}
      OBVIOUS
    <3> QED
      BY <1>1, <2>3, <2>5, <3>1, <3>2, OpeningIsSafe
  <2> QED
    BY <2>1, <2>4, <2>5
<1>4. ASSUME NEW i \in DOMAIN written, Panel!ParamsShowUp(i) PROVE PanelSafe'
  <2> DEFINE link == written[i]
             left == SubSeq(written, i + 1, Len(written))
  <2>1. link \in LinksSeen /\ left \in Seq(LinksSeen)
    BY <1>0, <1>4 DEF PanelTyped
  <2>2. CASE written' = left /\ UNCHANGED <<url, panel, reader, seq, fetches>>
    BY <1>2, <2>1, <2>2
  <2>3. CASE Panel!Follows(link) /\ Panel!Open([panel EXCEPT !.open = TRUE], link, Panel!TurnOf(link), left)
    <3> DEFINE new == Panel!LoadingReader(link, Panel!TurnOf(link))
               open == [panel EXCEPT !.open = TRUE]
    <3>1. link.doc \in Docs /\ link.n \in 0..1 /\ link = [doc |-> link.doc, n |-> link.n]
      BY <2>1, <2>3 DEF Panel!Follows, LinksSeen, Panel!NoDoc
    <3>2. seq' = seq + 1 /\ fetches' = fetches \cup {Panel!Fetch(seq + 1, link.doc)} /\ Panel!Show(open, new, left)
      BY <2>3 DEF Panel!Open
    <3>3. new.doc = link.doc /\ new.n = link.n /\ open.open
      BY <1>0 DEF Panel!LoadingReader, PanelTyped
    <3>4. Panel!TurnOf(link) \in {0, Panel!PanelTurn}
      BY DEF Panel!TurnOf, Panel!NoTurn
    <3>5. written' \in Seq(LinksSeen) /\ panel' = open /\ reader' = new
      <4> HIDE DEF new, open, link, left
      <4> QED
        BY <2>1, <3>1, <3>2, <3>3, LinkIsWritten
    <3> QED
      <4> HIDE DEF link, left
      <4> QED
        BY <1>1, <3>1, <3>2, <3>3, <3>4, <3>5, OpeningIsSafe
  <2> QED
    BY <1>4, <2>2, <2>3 DEF Panel!ParamsShowUp
<1> QED
  BY <1>3, <1>4

(* What is shown changes, and no document is opened.                       *)
LEMMA ShowingIsSafe ==
  ASSUME PanelSafe, NEW p \in [open : BOOLEAN, turn : Nat], NEW r, Panel!Show(p, r, written), UNCHANGED <<seq, fetches>>,
         answers' \in Nat,
         r = NoReader \/ (r = reader /\ p.open /\ (reader.turn # 0 => reader.turn = Panel!PanelTurn'))
  PROVE  PanelSafe'
<1>0. PanelTyped
  BY DEF PanelSafe
<1>1. r.doc \in Docs \cup {0} /\ r.n \in 0..1
  BY <1>0 DEF PanelTyped, NoReader, Panel!NoReader, Panel!NoDoc
<1>2. written' \in Seq(LinksSeen) /\ panel' = p /\ reader' = r
  BY <1>0, <1>1, LinkIsWritten DEF PanelTyped
<1>3. CASE r = NoReader
  <2>1. reader' = [doc |-> 0, n |-> 0, turn |-> 0, status |-> "none", view |-> 0]
    BY <1>2, <1>3 DEF NoReader, Panel!NoReader, Panel!NoDoc, Panel!NoTurn
  <2>2. PanelTyped'
    BY <1>0, <1>2, <2>1 DEF PanelTyped
  <2> QED
    BY <1>2, <1>3, <2>2 DEF PanelSafe, ClosedHasNoReader, FetchesAreNumbered, Panel!ReaderShowsItsDocument, NoReader
<1>4. CASE r = reader /\ p.open /\ (reader.turn # 0 => reader.turn = Panel!PanelTurn')
  <2>1. PanelTyped'
    BY <1>0, <1>2, <1>4 DEF PanelTyped
  <2> QED
    BY <1>2, <1>4, <2>1 DEF PanelSafe, ClosedHasNoReader, FetchesAreNumbered, Panel!ReaderShowsItsDocument,
       Panel!Fetch, Panel!NoTurn
<1> QED
  BY <1>3, <1>4

LEMMA TurnsAreSafe ==
  ASSUME PanelSafe,
         \/ Panel!NewAnswer \/ Panel!ClosePanel \/ Panel!TogglePanel \/ Panel!Back
         \/ \E turn \in 1..MaxAnswers : Panel!OpenEvidenceFor(turn)
  PROVE  PanelSafe'
<1>0. PanelTyped /\ ClosedHasNoReader
  BY DEF PanelSafe
<1>1. UNCHANGED <<seq, fetches>>
  BY DEF Panel!NewAnswer, Panel!ClosePanel, Panel!TogglePanel, Panel!Back, Panel!OpenEvidenceFor
<1>2. CASE Panel!NewAnswer
  <2> DEFINE p == IF panel.open THEN [panel EXCEPT !.turn = answers + 1] ELSE panel
  <2>1. Panel!Show(p, NoReader, written) /\ answers' = answers + 1
    BY <1>2 DEF Panel!NewAnswer, Panel!ReaderAfterAnswer, NoReader
  <2>2. p \in [open : BOOLEAN, turn : Nat] /\ answers' \in Nat
    BY <1>0, <2>1 DEF PanelTyped
  <2> HIDE DEF p
  <2> QED
    BY <1>1, <2>1, <2>2, ShowingIsSafe
<1>3. CASE Panel!ClosePanel
  <2> DEFINE p == [panel EXCEPT !.open = FALSE]
  <2>1. Panel!Show(p, NoReader, written) /\ answers' \in Nat
    BY <1>0, <1>3 DEF Panel!ClosePanel, NoReader, PanelTyped
  <2>2. p \in [open : BOOLEAN, turn : Nat]
    BY <1>0 DEF PanelTyped
  <2> HIDE DEF p
  <2> QED
    BY <1>1, <2>1, <2>2, ShowingIsSafe
<1>4. CASE Panel!TogglePanel
  <2> DEFINE p == [open |-> TRUE, turn |-> answers]
  <2>1. Panel!Show(p, NoReader, written) /\ answers' \in Nat
    BY <1>0, <1>4 DEF Panel!TogglePanel, PanelTyped, ClosedHasNoReader
  <2>2. p \in [open : BOOLEAN, turn : Nat]
    BY <1>0 DEF PanelTyped
  <2> HIDE DEF p
  <2> QED
    BY <1>1, <2>1, <2>2, ShowingIsSafe
<1>5. CASE Panel!Back
  <2>1. Panel!Show(panel, NoReader, written) /\ answers' \in Nat /\ panel \in [open : BOOLEAN, turn : Nat]
    BY <1>0, <1>5 DEF Panel!Back, PanelTyped, NoReader
  <2> QED
    BY <1>1, <2>1, ShowingIsSafe
<1>6. ASSUME NEW turn \in 1..MaxAnswers, Panel!OpenEvidenceFor(turn) PROVE PanelSafe'
  <2> DEFINE p == [open |-> TRUE, turn |-> turn]
             r == IF reader.turn \in {0, turn} THEN reader ELSE NoReader
  <2>1. Panel!Show(p, r, written) /\ answers' = answers /\ turn \in 1..answers
    BY <1>6 DEF Panel!OpenEvidenceFor, NoReader, Panel!NoTurn
  <2>2. p \in [open : BOOLEAN, turn : Nat] /\ answers' \in Nat /\ p.open
    BY <1>0, <2>1 DEF PanelTyped
  <2>3. panel' = p
    BY <2>1 DEF Panel!Show
  <2>4. Panel!PanelTurn' = turn
    BY <2>1, <2>3 DEF Panel!PanelTurn
  <2>5. r = NoReader \/ (r = reader /\ (reader.turn # 0 => reader.turn = turn))
    OBVIOUS
  <2> HIDE DEF p, r
  <2> QED
    BY <1>1, <2>1, <2>2, <2>4, <2>5, ShowingIsSafe
<1> QED
  BY <1>2, <1>3, <1>4, <1>5, <1>6

LEMMA FetchReturnsIsSafe == ASSUME PanelSafe, NEW f \in fetches, Panel!FetchReturns(f) PROVE PanelSafe'
<1>0. /\ PanelTyped /\ ClosedHasNoReader /\ FetchesAreNumbered /\ Panel!ReaderShowsItsDocument
      /\ f \in [seq : Nat, doc : Docs \cup {0}]
  BY DEF PanelSafe, PanelTyped
<1>1. fetches' = fetches \ {f} /\ UNCHANGED <<seq, answers>>
  BY DEF Panel!FetchReturns
<1>2. CASE ~Panel!Current(f) /\ UNCHANGED <<url, written, panel, reader>>
  <2>1. PanelTyped' /\ ClosedHasNoReader' /\ FetchesAreNumbered'
    BY <1>0, <1>1, <1>2 DEF PanelTyped, ClosedHasNoReader, FetchesAreNumbered
  <2>2. reader # NoReader => f # Panel!Fetch(seq, reader.doc)
    BY <1>2 DEF Panel!Current, Panel!Fetch, NoReader
  <2>3. Panel!ReaderShowsItsDocument'
    BY <1>0, <1>1, <1>2, <2>2 DEF Panel!ReaderShowsItsDocument, Panel!PanelTurn, Panel!Fetch, NoReader
  <2> QED
    BY <2>1, <2>3 DEF PanelSafe
<1>3. ASSUME Panel!Current(f), NEW status \in {"ready", "missing", "failed"}, NEW view \in {f.doc, 0},
             Panel!Shown(status, view), status = "ready" => view = f.doc
      PROVE  PanelSafe'
  <2> DEFINE new == [reader EXCEPT !.status = status, !.view = view]
  <2>1. view \in Docs \cup {0} /\ status \in {"none", "loading", "ready", "missing", "failed"}
    BY <1>0
  <2>2. /\ new \in [doc : Docs \cup {0}, n : 0..1, turn : Nat,
                    status : {"none", "loading", "ready", "missing", "failed"}, view : Docs \cup {0}]
        /\ new.doc = reader.doc /\ new.n = reader.n /\ new.turn = reader.turn /\ new.status = status /\ new.view = view
    BY <1>0, <2>1 DEF PanelTyped
  <2>3. reader # NoReader /\ f.seq = seq /\ f.doc = reader.doc
    BY <1>0, <1>3 DEF Panel!Current, FetchesAreNumbered, NoReader
  <2>4. panel.open
    BY <1>0, <2>3 DEF ClosedHasNoReader
  <2>5. Panel!Show(panel, new, written)
    BY <1>3 DEF Panel!Shown
  <2> HIDE DEF new
  <2>6. written' \in Seq(LinksSeen) /\ panel' = panel /\ reader' = new
    BY <1>0, <2>2, <2>5, LinkIsWritten DEF PanelTyped
  <2>7. PanelTyped'
    BY <1>0, <1>1, <2>2, <2>6 DEF PanelTyped
  <2>8. ClosedHasNoReader'
    BY <2>4, <2>6 DEF ClosedHasNoReader
  <2>9. FetchesAreNumbered'
    BY <1>0, <1>1, <2>2, <2>3, <2>6 DEF FetchesAreNumbered
  <2>10. Panel!PanelTurn' = Panel!PanelTurn
    BY <1>1, <2>6 DEF Panel!PanelTurn
  <2>11. Panel!ReaderShowsItsDocument'
    BY <1>0, <1>3, <2>2, <2>3, <2>6, <2>10 DEF Panel!ReaderShowsItsDocument, NoReader
  <2> QED
    BY <2>7, <2>8, <2>9, <2>11 DEF PanelSafe
<1> QED
  <2>1. CASE Panel!Current(f) /\ Panel!Shown("ready", f.doc)
    BY <1>3, <2>1
  <2>2. CASE Panel!Current(f) /\ Panel!Shown("missing", 0)
    BY <1>3, <2>2
  <2>3. CASE Panel!Current(f) /\ Panel!Shown("failed", 0)
    BY <1>3, <2>3
  <2> QED
    BY <1>2, <2>1, <2>2, <2>3 DEF Panel!FetchReturns, Panel!NoDoc

LEMMA PanelStepSafe == PanelSafe /\ [Panel!PanelNext]_Panel!panelVars => PanelSafe'
<1> SUFFICES ASSUME PanelSafe, [Panel!PanelNext]_Panel!panelVars PROVE PanelSafe'
  OBVIOUS
<1>1. CASE UNCHANGED Panel!panelVars
  BY <1>1 DEF Panel!panelVars, PanelSafe, PanelTyped, ClosedHasNoReader, FetchesAreNumbered,
     Panel!ReaderShowsItsDocument, Panel!PanelTurn, Panel!Fetch
<1> QED
  BY <1>1, OpenDocumentIsSafe, LinksAreSafe, TurnsAreSafe, FetchReturnsIsSafe DEF Panel!PanelNext

-----------------------------------------------------------------------------
(* TurnProgress.  Its turns have the second slot, like those of ViewAs.    *)

lock    == v1
reached == v3
writing == v4
pending == v5
timer   == v6
polls   == v7
line    == v8

USE DEF lock, reached, writing, pending, timer, polls, line

Stages == {"none", "searching", "reading", "writing"}
Rank   == Progress!Lock!StageRank

(* A stage that the run has recorded, or one that says nothing.            *)
IsReached(stage, run) ==
  stage \in {"none", "searching"} \/ (run \in Runs /\ Rank[stage] <= Rank[reached[run]])

ProgressTyped ==
  /\ lock \in [{Chat} -> [run : Runs \cup {NoRun}, cancelled : BOOLEAN, stage : Stages, count : Progress!Lock!Counts]]
  /\ turns \in [Runs -> {"none", "claimed", "pending", "completed", "failed"}]
  /\ reached \in [Runs -> Stages]
  /\ writing \subseteq Runs
  /\ pending \in Runs \cup {NoRun} /\ timer \in BOOLEAN /\ (timer => pending # NoRun)
  /\ polls \subseteq [run : Runs, at : {"turn", "lock", "answer"}, stage : Stages]
  /\ line \in [run : Runs \cup {NoRun}, stage : Stages]

(* The lock knows how far its holder is, and a run that does not hold it   *)
(* has recorded nothing unless it has ended.                               *)
LockIsOfItsHolder ==
  \A r \in Runs :
    /\ lock[Chat].run = r => reached[r] = lock[Chat].stage
    /\ lock[Chat].run # r /\ turns[r] \notin {"completed", "failed"} => reached[r] = "none"

HolderIsStored == \A r \in Runs : lock[Chat].run = r => turns[r] \notin {"none", "claimed"}

ReadIsReached ==
  /\ \A p \in polls : IsReached(p.stage, p.run)
  /\ IsReached(line.stage, line.run)

IsAsked == pending # NoRun => timer \/ \E p \in polls : p.run = pending

ProgressSafe == ProgressTyped /\ LockIsOfItsHolder /\ HolderIsStored /\ ReadIsReached /\ IsAsked

LEMMA ProgressInitSafe == Progress!ProgressInit => ProgressSafe
<1> SUFFICES ASSUME Progress!ProgressInit PROVE ProgressSafe
  OBVIOUS
<1>1. lock = [c \in {Chat} |-> [run |-> NoRun, cancelled |-> FALSE, stage |-> "none", count |-> "none"]]
  BY DEF Progress!ProgressInit, Progress!Lock!LockInit, Progress!Lock!Unlocked
<1>2. /\ turns = [r \in Runs |-> "none"] /\ reached = [r \in Runs |-> "none"]
      /\ writing = {} /\ pending = NoRun /\ timer = FALSE /\ polls = {}
      /\ line = [run |-> NoRun, stage |-> "none"]
  BY DEF Progress!ProgressInit, Progress!NoLine
<1>3. ProgressTyped
  BY <1>1, <1>2 DEF ProgressTyped, Stages, Progress!Lock!Counts
<1>4. LockIsOfItsHolder /\ HolderIsStored
  BY <1>1, <1>2, NoRunIsNoRun DEF LockIsOfItsHolder, HolderIsStored
<1>5. ReadIsReached /\ IsAsked
  BY <1>2 DEF ReadIsReached, IsReached, IsAsked
<1> QED
  BY <1>3, <1>4, <1>5 DEF ProgressSafe

LEMMA RankIsMonotone ==
  /\ \A s \in Stages : Rank[s] \in 0..3
  /\ \A s \in Stages : Rank["none"] <= Rank[s]
BY DEF Stages, Rank, Progress!Lock!StageRank

(* The Brain moves: the page's polls and line keep what they know, because *)
(* no run falls back.                                                      *)
LEMMA BrainKeepsThePage ==
  ASSUME ProgressSafe, ProgressTyped', LockIsOfItsHolder', HolderIsStored', UNCHANGED <<pending, timer, polls, line>>,
         \A r \in Runs : Rank[reached[r]] <= Rank[reached'[r]]
  PROVE  ProgressSafe'
<1>1. ASSUME NEW stage \in Stages, NEW run, IsReached(stage, run) PROVE IsReached(stage, run)'
  <2>1. CASE stage \in {"none", "searching"}
    BY <2>1 DEF IsReached
  <2>2. CASE run \in Runs /\ Rank[stage] <= Rank[reached[run]]
    <3>1. Rank[stage] \in Nat /\ Rank[reached[run]] \in Nat /\ Rank[reached'[run]] \in Nat
      BY <1>1, <2>2, RankIsMonotone DEF ProgressSafe, ProgressTyped
    <3> QED
      BY <2>2, <3>1 DEF IsReached
  <2> QED
    BY <1>1, <2>1, <2>2 DEF IsReached
<1>2. \A p \in polls : p.stage \in Stages
  BY DEF ProgressSafe, ProgressTyped
<1>3. line.stage \in Stages
  BY DEF ProgressSafe, ProgressTyped
<1>4. ReadIsReached'
  BY <1>1, <1>2, <1>3 DEF ProgressSafe, ReadIsReached
<1>5. IsAsked'
  BY DEF ProgressSafe, IsAsked
<1> QED
  BY <1>4, <1>5 DEF ProgressSafe

(* A mark moves the holder on, and nobody else.                            *)
LEMMA MarkMovesOn ==
  ASSUME ProgressSafe, NEW r \in Runs, NEW stage \in Stages \ {"none"}, Progress!Mark(r, stage)
  PROVE  /\ lock' \in [{Chat} -> [run : Runs \cup {NoRun}, cancelled : BOOLEAN, stage : Stages,
                                  count : Progress!Lock!Counts]]
         /\ reached' \in [Runs -> Stages]
         /\ lock'[Chat].run = lock[Chat].run
         /\ \A o \in Runs : o # r \/ lock[Chat].run # r => reached'[o] = reached[o]
         /\ lock[Chat].run # r => lock' = lock
         /\ lock[Chat].run = r => reached'[r] = lock'[Chat].stage /\ Rank[reached[r]] <= Rank[reached'[r]]
<1>0. ProgressTyped /\ LockIsOfItsHolder
  BY DEF ProgressSafe
<1>1. CASE UNCHANGED <<lock, reached>>
  BY <1>0, <1>1, RankIsMonotone DEF ProgressTyped, LockIsOfItsHolder
<1>2. CASE /\ Progress!Lock!SetStage(Chat, r, stage)
           /\ reached' = [reached EXCEPT ![r] = IF lock'[Chat].run = r THEN lock'[Chat].stage ELSE @]
  <2> DEFINE row == lock[Chat]
             moves == row.run = r /\ Rank[stage] > Rank[row.stage]
             count == Progress!Lock!StoredCount(row.stage, stage, row.count)
             new == [row EXCEPT !.stage = stage, !.count = count]
  <2>1. /\ row \in [run : Runs \cup {NoRun}, cancelled : BOOLEAN, stage : Stages, count : Progress!Lock!Counts]
        /\ reached[r] \in Stages
    BY <1>0 DEF ProgressTyped
  <2>2. count \in Progress!Lock!Counts
    <3>1. row.count \in Progress!Lock!Counts
      BY <2>1
    <3> QED
      BY <3>1, Zenon DEF Progress!Lock!StoredCount, Progress!Lock!Counts
  <2>3. lock' = IF moves THEN [lock EXCEPT ![Chat].stage = stage, ![Chat].count = count] ELSE lock
    BY <1>2 DEF Progress!Lock!SetStage, Rank
  <2> HIDE DEF count
  <2>4. [lock EXCEPT ![Chat].stage = stage, ![Chat].count = count] = [lock EXCEPT ![Chat] = new]
    BY <1>0, <2>1 DEF ProgressTyped
  <2>5. /\ new \in [run : Runs \cup {NoRun}, cancelled : BOOLEAN, stage : Stages, count : Progress!Lock!Counts]
        /\ new.run = row.run /\ new.stage = stage
    BY <2>1, <2>2
  <2> HIDE DEF new
  <2>6. CASE moves
    <3>1. lock' = [lock EXCEPT ![Chat] = new]
      BY <2>3, <2>4, <2>6
    <3>2. lock'[Chat] = new
      BY <1>0, <3>1 DEF ProgressTyped
    <3>3. reached' = [reached EXCEPT ![r] = stage]
      BY <1>2, <2>5, <2>6, <3>2
    <3>4. Rank[reached[r]] <= Rank[stage]
      BY <1>0, <2>1, <2>6, RankIsMonotone DEF LockIsOfItsHolder
    <3> QED
      BY <1>0, <2>1, <2>5, <2>6, <3>1, <3>2, <3>3, <3>4 DEF ProgressTyped
  <2>7. CASE ~moves
    <3>1. lock' = lock
      BY <2>3, <2>7
    <3>2. reached' = reached
      <4>1. CASE row.run = r
        <5>1. reached' = [reached EXCEPT ![r] = reached[r]]
          BY <1>0, <1>2, <3>1, <4>1 DEF LockIsOfItsHolder
        <5> QED
          BY <1>0, <5>1 DEF ProgressTyped
      <4>2. CASE row.run # r
        BY <1>0, <1>2, <3>1, <4>2 DEF ProgressTyped
      <4> QED
        BY <4>1, <4>2
    <3> QED
      BY <1>0, <2>1, <3>1, <3>2, RankIsMonotone DEF ProgressTyped, LockIsOfItsHolder
  <2> QED
    BY <2>6, <2>7
<1> QED
  BY <1>1, <1>2 DEF Progress!Mark

LEMMA MarksAreSafe ==
  ASSUME ProgressSafe, NEW r \in Runs,
         Progress!MarkAwaited(r) \/ (r \in writing /\ Progress!WritingArrives(r))
  PROVE  ProgressSafe'
<1>0. ProgressTyped /\ LockIsOfItsHolder /\ HolderIsStored
  BY DEF ProgressSafe
<1>1. PICK stage \in Stages \ {"none"} : Progress!Mark(r, stage)
  BY DEF Progress!MarkAwaited, Progress!WritingArrives, Stages
<1>2. UNCHANGED <<turns, pending, timer, polls, line>> /\ writing' \subseteq writing
  BY DEF Progress!MarkAwaited, Progress!WritingArrives
<1>3. /\ lock' \in [{Chat} -> [run : Runs \cup {NoRun}, cancelled : BOOLEAN, stage : Stages,
                               count : Progress!Lock!Counts]]
      /\ reached' \in [Runs -> Stages]
      /\ lock'[Chat].run = lock[Chat].run
      /\ \A o \in Runs : o # r \/ lock[Chat].run # r => reached'[o] = reached[o]
      /\ lock[Chat].run # r => lock' = lock
      /\ lock[Chat].run = r => reached'[r] = lock'[Chat].stage /\ Rank[reached[r]] <= Rank[reached'[r]]
  BY <1>1, MarkMovesOn
<1>4. ProgressTyped'
  BY <1>0, <1>2, <1>3 DEF ProgressTyped
<1>5. LockIsOfItsHolder'
  BY <1>0, <1>2, <1>3 DEF LockIsOfItsHolder
<1>6. HolderIsStored'
  BY <1>0, <1>2, <1>3 DEF HolderIsStored
<1>7. ASSUME NEW o \in Runs PROVE Rank[reached[o]] <= Rank[reached'[o]]
  <2>1. Rank[reached[o]] \in 0..3
    BY <1>0, RankIsMonotone DEF ProgressTyped
  <2>2. CASE reached'[o] = reached[o]
    BY <2>1, <2>2
  <2>3. CASE o = r /\ lock[Chat].run = r
    BY <1>3, <2>3
  <2> QED
    BY <1>3, <1>7, <2>2, <2>3
<1> QED
  BY <1>2, <1>4, <1>5, <1>6, <1>7, BrainKeepsThePage

LEMMA BrainIsSafe ==
  ASSUME ProgressSafe, NEW r \in Runs,
         \/ Progress!Materialize(r) \/ Progress!TakeLock(r) \/ Progress!SendWriting(r) \/ Progress!EndTurn(r)
         \/ Progress!Release(r) \/ Progress!AskElsewhere(r)
  PROVE  ProgressSafe'
<1>0. ProgressTyped /\ LockIsOfItsHolder /\ HolderIsStored /\ turns[r] \in {"none", "claimed", "pending", "completed", "failed"}
  BY DEF ProgressSafe, ProgressTyped
<1>1. UNCHANGED <<reached, pending, timer, polls, line>> /\ writing' \subseteq Runs
  BY <1>0 DEF Progress!Materialize, Progress!TakeLock, Progress!SendWriting, Progress!EndTurn, Progress!Release,
     Progress!AskElsewhere, ProgressTyped
<1>2. \A o \in Runs : Rank[reached[o]] <= Rank[reached'[o]]
  <2>1. \A o \in Runs : Rank[reached[o]] \in 0..3
    BY <1>0, RankIsMonotone DEF ProgressTyped
  <2> QED
    BY <1>1, <2>1
<1>3. ASSUME ProgressTyped', LockIsOfItsHolder', HolderIsStored' PROVE ProgressSafe'
  BY <1>1, <1>2, <1>3, BrainKeepsThePage
<1>4. ASSUME UNCHANGED lock,
             \/ turns[r] \in {"none", "claimed", "pending"} /\ lock[Chat].run # r
                /\ turns' = [turns EXCEPT ![r] = "claimed"] /\ turns[r] = "none"
             \/ turns[r] = "claimed" /\ turns' = [turns EXCEPT ![r] = "pending"]
             \/ turns[r] = "pending" /\ turns' = [turns EXCEPT ![r] = "failed"]
             \/ turns[r] = "pending" /\ turns' = [turns EXCEPT ![r] = "completed"]
             \/ UNCHANGED turns
      PROVE  ProgressSafe'
  <2>1. ProgressTyped'
    BY <1>0, <1>1, <1>4 DEF ProgressTyped
  <2>2. LockIsOfItsHolder'
    BY <1>0, <1>1, <1>4 DEF LockIsOfItsHolder, ProgressTyped
  <2>3. HolderIsStored'
    BY <1>0, <1>1, <1>4 DEF HolderIsStored, ProgressTyped
  <2> QED
    BY <1>3, <2>1, <2>2, <2>3
<1>5. CASE Progress!Materialize(r)
  BY <1>4, <1>5 DEF Progress!Materialize
<1>6. CASE Progress!SendWriting(r)
  BY <1>4, <1>6 DEF Progress!SendWriting
<1>7. CASE Progress!EndTurn(r)
  BY <1>4, <1>7 DEF Progress!EndTurn, Progress!Holding
<1>8. CASE Progress!AskElsewhere(r)
  <2>1. turns[r] = "none" /\ lock[Chat].run # r
    BY <1>0, <1>8 DEF Progress!AskElsewhere, HolderIsStored
  <2> QED
    BY <1>4, <1>8, <2>1 DEF Progress!AskElsewhere
<1>9. CASE Progress!TakeLock(r)
  <2>1. CASE turns' = [turns EXCEPT ![r] = "failed"] /\ UNCHANGED lock
    BY <1>4, <1>9, <2>1 DEF Progress!TakeLock
  <2>2. CASE Progress!Lock!Acquire(Chat, r) /\ UNCHANGED turns
    <3> DEFINE new == [Progress!Lock!Unlocked EXCEPT !.run = r]
    <3>1. /\ lock' = [lock EXCEPT ![Chat] = new] /\ lock[Chat].run \in {NoRun, r}
          /\ turns[r] = "pending" /\ lock[Chat].run # r
      BY <1>9, <2>2 DEF Progress!TakeLock, Progress!Lock!Acquire, Progress!Lock!CanAcquire
    <3>2. /\ new \in [run : Runs \cup {NoRun}, cancelled : BOOLEAN, stage : Stages, count : Progress!Lock!Counts]
          /\ new.run = r /\ new.stage = "none"
      BY DEF Progress!Lock!Unlocked, Progress!Lock!Counts, Stages
    <3> HIDE DEF new
    <3>3. lock'[Chat] = new
      BY <1>0, <3>1 DEF ProgressTyped
    <3>4. ProgressTyped'
      BY <1>0, <1>1, <2>2, <3>1, <3>2 DEF ProgressTyped
    <3>5. LockIsOfItsHolder'
      BY <1>0, <1>1, <2>2, <3>1, <3>2, <3>3, NoRunIsNoRun DEF LockIsOfItsHolder
    <3>6. HolderIsStored'
      BY <1>0, <2>2, <3>1, <3>2, <3>3 DEF HolderIsStored
    <3> QED
      BY <1>3, <3>4, <3>5, <3>6
  <2> QED
    BY <1>9, <2>1, <2>2 DEF Progress!TakeLock
<1>10. CASE Progress!Release(r)
  <2> DEFINE new == Progress!Lock!Unlocked
  <2>1. lock' = [lock EXCEPT ![Chat] = new] /\ lock[Chat].run = r /\ UNCHANGED turns /\ turns[r] \in {"completed", "failed"}
    BY <1>10 DEF Progress!Release, Progress!Lock!Release, Progress!Lock!CanRelease
  <2>2. /\ new \in [run : Runs \cup {NoRun}, cancelled : BOOLEAN, stage : Stages, count : Progress!Lock!Counts]
        /\ new.run = NoRun
    BY DEF Progress!Lock!Unlocked, Progress!Lock!Counts, Stages
  <2> HIDE DEF new
  <2>3. lock'[Chat] = new
    BY <1>0, <2>1 DEF ProgressTyped
  <2>4. ProgressTyped'
    BY <1>0, <1>1, <2>1, <2>2 DEF ProgressTyped
  <2>5. LockIsOfItsHolder'
    BY <1>0, <1>1, <2>1, <2>2, <2>3, NoRunIsNoRun DEF LockIsOfItsHolder
  <2>6. HolderIsStored'
    BY <1>0, <2>1, <2>2, <2>3, NoRunIsNoRun DEF HolderIsStored
  <2> QED
    BY <1>3, <2>4, <2>5, <2>6
<1> QED
  BY <1>5, <1>6, <1>7, <1>8, <1>9, <1>10

(* The page moves: the runs stay where they are.                           *)
LEMMA PageKeepsTheRuns ==
  ASSUME ProgressSafe, UNCHANGED <<lock, reached, writing>>, turns' = turns,
         ProgressTyped', ReadIsReached', IsAsked'
  PROVE  ProgressSafe'
BY DEF ProgressSafe, LockIsOfItsHolder, HolderIsStored

LEMMA AskIsSafe == ASSUME ProgressSafe, NEW r \in Runs, Progress!Ask(r) PROVE ProgressSafe'
<1>0. ProgressTyped /\ LockIsOfItsHolder /\ HolderIsStored /\ ReadIsReached
  BY DEF ProgressSafe
<1>1. /\ turns[r] = "none" /\ turns' = [turns EXCEPT ![r] = "claimed"] /\ pending' = r /\ timer' = FALSE
      /\ polls' = polls \cup {Progress!NewPoll(r)} /\ UNCHANGED <<lock, reached, writing, line>>
  BY DEF Progress!Ask
<1> DEFINE new == Progress!NewPoll(r)
<1>2. /\ new \in [run : Runs, at : {"turn", "lock", "answer"}, stage : Stages]
      /\ new.run = r /\ new.stage = "none"
  BY DEF Progress!NewPoll, Stages
<1> HIDE DEF new
<1>3. ProgressTyped'
  BY <1>0, <1>1, <1>2 DEF ProgressTyped, new
<1>4. LockIsOfItsHolder'
  BY <1>0, <1>1 DEF LockIsOfItsHolder, ProgressTyped
<1>5. HolderIsStored'
  BY <1>0, <1>1 DEF HolderIsStored, ProgressTyped
<1>6. ReadIsReached'
  BY <1>0, <1>1, <1>2 DEF ReadIsReached, IsReached, new
<1>7. IsAsked'
  BY <1>1, <1>2 DEF IsAsked, new
<1> QED
  BY <1>3, <1>4, <1>5, <1>6, <1>7 DEF ProgressSafe

LEMMA PollIsSafe ==
  ASSUME ProgressSafe, NEW p \in polls,
         Progress!ReadTurn(p) \/ Progress!ReadLock(p) \/ Progress!PollReturns(p) \/ Progress!PollFails(p)
  PROVE  ProgressSafe'
<1>0. /\ ProgressTyped /\ LockIsOfItsHolder /\ ReadIsReached /\ IsAsked
      /\ p \in [run : Runs, at : {"turn", "lock", "answer"}, stage : Stages]
  BY DEF ProgressSafe, ProgressTyped
<1>1. UNCHANGED <<lock, turns, reached, writing, pending>>
  BY DEF Progress!ReadTurn, Progress!ReadLock, Progress!PollReturns, Progress!PollFails
<1>2. ASSUME NEW place \in {"lock", "answer"}, NEW stage \in Stages, Progress!Move(p, place, stage),
             IsReached(stage, p.run), UNCHANGED <<timer, line>>
      PROVE  ProgressSafe'
  <2> DEFINE q == [p EXCEPT !.at = place, !.stage = stage]
  <2>1. q \in [run : Runs, at : {"turn", "lock", "answer"}, stage : Stages] /\ q.run = p.run /\ q.stage = stage
    BY <1>0, <1>2
  <2>2. polls' = (polls \ {p}) \cup {q}
    BY <1>2 DEF Progress!Move
  <2> HIDE DEF q
  <2>3. ProgressTyped'
    BY <1>0, <1>1, <1>2, <2>1, <2>2 DEF ProgressTyped
  <2>4. ReadIsReached'
    BY <1>0, <1>1, <1>2, <2>1, <2>2 DEF ReadIsReached, IsReached
  <2>5. IsAsked'
    <3> SUFFICES ASSUME pending # NoRun, ~timer, NEW o \in polls, o.run = pending PROVE \E i \in polls' : i.run = pending
      BY <1>0, <1>1, <1>2 DEF IsAsked
    <3> QED
      BY <2>1, <2>2
  <2> QED
    BY <1>1, <2>3, <2>4, <2>5, PageKeepsTheRuns
<1>3. CASE Progress!ReadTurn(p)
  <2>1. "none" \in Stages /\ IsReached("none", p.run)
    BY DEF Stages, IsReached
  <2>2. UNCHANGED <<timer, line>> /\ \E place \in {"lock", "answer"} : Progress!Move(p, place, "none")
    BY <1>3 DEF Progress!ReadTurn
  <2> QED
    BY <1>2, <2>1, <2>2
<1>4. CASE Progress!ReadLock(p)
  <2> DEFINE stage == Progress!StageOf(p.run)
  <2>1. stage \in Stages
    BY <1>0 DEF Progress!StageOf, ProgressTyped, Stages
  <2>2. IsReached(stage, p.run)
    <3>1. CASE lock[Chat].run = p.run /\ lock[Chat].stage # "none"
      <4>1. stage = reached[p.run]
        BY <1>0, <3>1 DEF Progress!StageOf, Progress!Holds, LockIsOfItsHolder
      <4>2. Rank[stage] \in 0..3
        BY <2>1, RankIsMonotone
      <4> QED
        BY <1>0, <4>1, <4>2 DEF IsReached
    <3>2. CASE ~(lock[Chat].run = p.run /\ lock[Chat].stage # "none")
      BY <3>2 DEF Progress!StageOf, Progress!Holds, IsReached
    <3> QED
      BY <3>1, <3>2
  <2>3. UNCHANGED <<timer, line>> /\ Progress!Move(p, "answer", stage)
    BY <1>4 DEF Progress!ReadLock
  <2> HIDE DEF stage
  <2> QED
    BY <1>2, <2>1, <2>2, <2>3
<1>5. CASE Progress!PollReturns(p) \/ Progress!PollFails(p)
  <2>1. /\ polls' = polls \ {p}
        /\ timer' = (timer \/ p.run = pending)
        /\ line' = [run |-> p.run, stage |-> p.stage] \/ line' = line
    BY <1>5 DEF Progress!PollReturns, Progress!PollFails, Progress!GoesOn
  <2>2. ProgressTyped'
    BY <1>0, <1>1, <2>1, NoRunIsNoRun DEF ProgressTyped
  <2>3. ReadIsReached'
    BY <1>0, <1>1, <2>1 DEF ReadIsReached, IsReached
  <2>4. IsAsked'
    BY <1>0, <1>1, <2>1 DEF IsAsked
  <2> QED
    BY <1>1, <2>2, <2>3, <2>4, PageKeepsTheRuns
<1> QED
  BY <1>3, <1>4, <1>5

LEMMA WaitingIsSafe == ASSUME ProgressSafe, Progress!Settle \/ Progress!TimerFires PROVE ProgressSafe'
<1>0. ProgressTyped /\ ReadIsReached /\ IsAsked
  BY DEF ProgressSafe
<1>1. UNCHANGED <<lock, turns, reached, writing, line>>
  BY DEF Progress!Settle, Progress!TimerFires
<1>2. CASE Progress!Settle
  <2>1. pending' = NoRun /\ timer' = FALSE /\ polls' = polls
    BY <1>2 DEF Progress!Settle
  <2>2. ProgressTyped' /\ ReadIsReached' /\ IsAsked'
    BY <1>0, <1>1, <2>1 DEF ProgressTyped, ReadIsReached, IsReached, IsAsked
  <2> QED
    BY <1>1, <2>2, PageKeepsTheRuns
<1>3. CASE Progress!TimerFires
  <2> DEFINE new == Progress!NewPoll(pending)
  <2>1. timer /\ pending' = pending /\ timer' = FALSE /\ polls' = polls \cup {new}
    BY <1>3 DEF Progress!TimerFires
  <2>2. /\ pending \in Runs /\ new.run = pending /\ new.stage = "none"
        /\ new \in [run : Runs, at : {"turn", "lock", "answer"}, stage : Stages]
    BY <1>0, <2>1 DEF ProgressTyped, Progress!NewPoll, Stages
  <2> HIDE DEF new
  <2>3. ProgressTyped'
    BY <1>0, <1>1, <2>1, <2>2 DEF ProgressTyped
  <2>4. ReadIsReached'
    BY <1>0, <1>1, <2>1, <2>2 DEF ReadIsReached, IsReached
  <2>5. IsAsked'
    BY <2>1, <2>2 DEF IsAsked
  <2> QED
    BY <1>1, <2>3, <2>4, <2>5, PageKeepsTheRuns
<1> QED
  BY <1>2, <1>3

LEMMA ProgressStepSafe == ProgressSafe /\ [Progress!ProgressNext]_Progress!progressVars => ProgressSafe'
<1> SUFFICES ASSUME ProgressSafe, [Progress!ProgressNext]_Progress!progressVars PROVE ProgressSafe'
  OBVIOUS
<1>1. CASE UNCHANGED Progress!progressVars
  BY <1>1 DEF Progress!progressVars, ProgressSafe, ProgressTyped, LockIsOfItsHolder, HolderIsStored, ReadIsReached,
     IsReached, IsAsked
<1>2. writing \subseteq Runs
  BY DEF ProgressSafe, ProgressTyped
<1> QED
  BY <1>1, <1>2, MarksAreSafe, BrainIsSafe, AskIsSafe, PollIsSafe, WaitingIsSafe DEF Progress!ProgressNext

LEMMA LineIsReached == ASSUME ProgressSafe PROVE Progress!LineIsOfTheTurn
<1> SUFFICES ASSUME pending # NoRun
             PROVE  /\ Progress!ShownStage # "searching" => Rank[Progress!ShownStage] <= Rank[reached[pending]]
                    /\ timer \/ \E p \in polls : p.run = pending
  BY DEF Progress!LineIsOfTheTurn, Rank
<1>1. pending \in Runs /\ reached[pending] \in Stages
  BY DEF ProgressSafe, ProgressTyped
<1>2. Progress!ShownStage # "searching" => Progress!ShownStage = line.stage /\ line.run = pending
  BY DEF Progress!ShownStage
<1>3. IsReached(line.stage, line.run)
  BY DEF ProgressSafe, ReadIsReached
<1>4. Progress!ShownStage # "searching" => Rank[Progress!ShownStage] <= Rank[reached[pending]]
  BY <1>1, <1>2, <1>3, RankIsMonotone DEF IsReached
<1> QED
  BY <1>4 DEF ProgressSafe, IsAsked

-----------------------------------------------------------------------------
(* UploadDialog.  Its polls are not named here: the proof needs no count.  *)

entries == v1
added   == v2
choice  == v3
sends   == v4
uploads == v5
poll    == v7
lost    == v9
mounted == v10

USE DEF entries, added, choice, sends, uploads, poll, lost, mounted

EntryRecords ==
  [key : Upload!Keys, name : Names, started : BOOLEAN, batch : Nat, stage : {"parsing", "ready", "failed", "none"},
   serverFailed : BOOLEAN, note : {"none", "unavailable", "processing"}]

SendRecords ==
  [batch : Upload!Keys, keys : SUBSET Upload!Keys, left : SUBSET Upload!Keys, readers : Readers, created : BOOLEAN]

Polls == [on : BOOLEAN, open : SUBSET Upload!Keys, left : SUBSET (Nat \ {0}), broken : BOOLEAN]

UploadTyped ==
  /\ choice \in Readers \cup {"undecided"}
  /\ sends \subseteq SendRecords
  /\ uploads \in [Upload!Keys -> [state : {"none", "waiting", "working", "ready", "failed"},
                                  readers : Readers \cup {"undecided"}]]
  /\ timer \in BOOLEAN /\ mounted \in BOOLEAN
  /\ poll \in Polls

(* A batch has its own files, which the server does not know before it was *)
(* asked to create the batch.                                              *)
OwnSends ==
  \A s \in sends :
    /\ s.batch \in s.keys /\ s.left \subseteq s.keys
    /\ ~s.created => \A k \in s.keys : uploads[k].state = "none"
    /\ \A t \in sends, k \in s.keys : k \in t.keys => t = s

(* What is true of the entries, and of a list that is about to be flushed. *)
Numbered(list, top) ==
  /\ \A e \in list : e.key <= top /\ e.batch <= top
  /\ \A s \in sends : \A k \in s.keys : k <= top
  /\ \A k \in Upload!Keys : uploads[k].state # "none" => k <= top

OwnKeys(list) == \A e, f \in list : e.key = f.key => e = f

Unstarted(list) ==
  \A e \in list : ~e.started =>
    /\ e.batch = 0 /\ ~e.serverFailed /\ e.stage # "failed" /\ uploads[e.key].state = "none"
    /\ \A s \in sends : e.key \notin s.keys
    /\ \A f \in list : f.batch # e.key

SendsAgree(list) ==
  \A s \in sends, e \in list :
    /\ ~s.created => e.batch \notin s.keys /\ (e.key \in s.keys => e.batch = 0 /\ e.stage # "failed")
    /\ s.created /\ e.key \in s.keys => e.batch = s.batch

ServerAgrees(list) ==
  \A e \in list :
    /\ e.serverFailed => e.stage = "failed" /\ uploads[e.key].state = "failed"
    /\ uploads[e.key].state \in {"working", "ready"} => e.started /\ e.batch # 0

ListSafe(list, top) ==
  /\ list \subseteq EntryRecords /\ top \in 0..MaxEntries
  /\ Numbered(list, top) /\ OwnKeys(list) /\ Unstarted(list) /\ SendsAgree(list) /\ ServerAgrees(list)

(* A file that holds the readers was sent with those the dialog shows.     *)
ReadersAgree(list, readers) ==
  mounted => \A e \in list : Upload!HoldsReaders(e) =>
    /\ uploads[e.key].state # "none" => uploads[e.key].readers = readers
    /\ \A s \in sends : e.key \in s.keys => s.readers = readers

UploadSafe ==
  /\ UploadTyped /\ OwnSends
  /\ ListSafe(entries, added) /\ ReadersAgree(entries, choice)
  /\ Upload!EveryFileIsFollowed

LEMMA UploadInitSafe == Upload!UploadInit => UploadSafe
<1> SUFFICES ASSUME Upload!UploadInit PROVE UploadSafe
  OBVIOUS
<1>1. /\ entries = {} /\ added = 0 /\ choice = "undecided" /\ sends = {} /\ timer = FALSE /\ mounted = TRUE
      /\ uploads = [k \in Upload!Keys |-> [state |-> "none", readers |-> "undecided"]]
      /\ poll = [on |-> FALSE, open |-> {}, left |-> {}, broken |-> FALSE]
  BY DEF Upload!UploadInit, Upload!Undecided, Upload!NoFile, Upload!NoPoll
<1>2. UploadTyped /\ OwnSends
  BY <1>1 DEF UploadTyped, OwnSends, Polls
<1>3. ListSafe(entries, added)
  BY <1>1, UploadsAreBounded DEF ListSafe, Numbered, OwnKeys, Unstarted, SendsAgree, ServerAgrees, Upload!Keys
<1>4. ReadersAgree(entries, choice) /\ Upload!EveryFileIsFollowed
  BY <1>1 DEF ReadersAgree, Upload!EveryFileIsFollowed
<1> QED
  BY <1>2, <1>3, <1>4 DEF UploadSafe

(* Entries keep their keys when some of them are patched.                  *)
LEMMA PatchedEntries ==
  ASSUME NEW m, entries' = {m[e] : e \in entries}, \A e \in entries : m[e].key = e.key, OwnKeys(entries)
  PROVE  /\ OwnKeys(entries)'
         /\ \A f \in entries' : \E e \in entries : f = m[e]
BY DEF OwnKeys

(* The server changes what it has of some files, and the page only reads.  *)
LEMMA EveryUploadIsKept ==
  ASSUME UploadSafe, UNCHANGED <<entries, added, choice, sends, uploads, mounted>>,
         timer' \in BOOLEAN, poll' \in Polls,
         Upload!EveryFileIsFollowed'
  PROVE  UploadSafe'
BY DEF UploadSafe, UploadTyped, OwnSends, ListSafe, Numbered, OwnKeys, Unstarted, SendsAgree, ServerAgrees, ReadersAgree,
   Upload!HoldsReaders

(* Reports and notes change the stage of entries of a batch, and say that  *)
(* the server failed a file only when it did.                              *)
LEMMA ReportsAreSafe ==
  ASSUME UploadSafe, UNCHANGED <<added, choice, sends, uploads, mounted>>,
         timer' \in BOOLEAN, poll' \in Polls,
         Upload!EveryFileIsFollowed',
         NEW m, entries' = {m[e] : e \in entries},
         \A e \in entries :
           /\ m[e] \in EntryRecords
           /\ m[e].key = e.key /\ m[e].started = e.started /\ m[e].batch = e.batch
           /\ \/ m[e].stage = e.stage /\ m[e].serverFailed = e.serverFailed
              \/ /\ e.batch # 0 /\ e.stage # "failed"
                 /\ m[e].serverFailed => m[e].stage = "failed" /\ uploads[e.key].state = "failed"
  PROVE  UploadSafe'
<1>0. /\ UploadTyped /\ OwnSends /\ ListSafe(entries, added) /\ ReadersAgree(entries, choice)
      /\ Numbered(entries, added) /\ OwnKeys(entries) /\ Unstarted(entries) /\ SendsAgree(entries)
      /\ ServerAgrees(entries)
  BY DEF UploadSafe, ListSafe
<1>1. OwnKeys(entries)' /\ \A f \in entries' : \E e \in entries : f = m[e]
  BY <1>0, PatchedEntries
<1>2. UploadTyped' /\ OwnSends'
  BY <1>0 DEF UploadTyped, OwnSends
<1>3. Numbered(entries, added)'
  BY <1>0, <1>1 DEF Numbered
<1>4. Unstarted(entries)'
  BY <1>0, <1>1 DEF Unstarted
<1>5. SendsAgree(entries)'
  BY <1>0, <1>1 DEF SendsAgree
<1>6. ServerAgrees(entries)'
  BY <1>0, <1>1 DEF ServerAgrees
<1>7. ReadersAgree(entries, choice)'
  BY <1>0, <1>1 DEF ReadersAgree, Upload!HoldsReaders
<1>8. ListSafe(entries, added)'
  BY <1>0, <1>1, <1>3, <1>4, <1>5, <1>6 DEF ListSafe
<1> QED
  BY <1>2, <1>7, <1>8 DEF UploadSafe

(* The least of some numbers.                                              *)
LEMMA LeastOfInitial ==
  ASSUME NEW n \in Nat, NEW T \in SUBSET (0..n), T # {}
  PROVE  \E k \in T : \A j \in T : k <= j
<1> DEFINE R == StrictSubsetOrdering(0..n)
           Down == {0..k : k \in T}
<1>1. IsWellFoundedOn(R, FiniteSubsetsOf(0..n))
  BY FS_Interval, FS_StrictSubsetOrderingWellFounded
<1>2. Down \subseteq FiniteSubsetsOf(0..n) /\ Down # {}
  <2>1. \A k \in T : 0..k \in SUBSET (0..n) /\ IsFiniteSet(0..k)
    BY FS_Interval
  <2> QED
    BY <2>1 DEF FiniteSubsetsOf
<1>3. PICK D \in Down : \A E \in Down : <<E, D>> \notin R
  <2> HIDE DEF R, Down
  <2> QED
    BY <1>1, <1>2, WFMin
<1>4. PICK k \in T : D = 0..k
  OBVIOUS
<1>5. ASSUME NEW j \in T, j < k PROVE FALSE
  <2>1. 0..j \in Down
    OBVIOUS
  <2>2. 0..j \in SUBSET (0..n) /\ 0..k \in SUBSET (0..n)
    OBVIOUS
  <2>3. 0..j \subseteq 0..k /\ 0..j # 0..k
    BY <1>5
  <2>4. <<0..j, 0..k>> \in R
    BY <2>2, <2>3 DEF StrictSubsetOrdering
  <2> QED
    BY <1>3, <1>4, <2>1, <2>4
<1> QED
  BY <1>5

LEMMA FirstKeyIsOne ==
  ASSUME NEW T \in SUBSET Upload!Keys, T # {}
  PROVE  (CHOOSE k \in T : \A j \in T : k <= j) \in T
<1>1. MaxEntries \in Nat /\ T \in SUBSET (0..MaxEntries)
  BY UploadsAreBounded DEF Upload!Keys
<1>2. \E k \in T : \A j \in T : k <= j
  BY <1>1, LeastOfInitial
<1> QED
  BY <1>2

(* What has not started is sent.                                           *)
LEMMA FlushIsSafe ==
  ASSUME UploadTyped, OwnSends, NEW list, NEW top \in Nat, ListSafe(list, top), NEW readers \in Readers \cup {"undecided"},
         ReadersAgree(list, readers), Upload!Flush(list, readers),
         added' = top, choice' = readers, UNCHANGED <<uploads, timer, poll, mounted>>
  PROVE  /\ UploadTyped' /\ OwnSends' /\ ListSafe(entries, added)' /\ ReadersAgree(entries, choice)'
         /\ sends \subseteq sends'
         /\ \A f \in entries' : \E e \in list : f.batch = e.batch /\ f.stage = e.stage /\ f.note = e.note
<1> DEFINE waiting == {e.key : e \in {f \in list : ~f.started}}
<1>0. /\ list \subseteq EntryRecords /\ Numbered(list, top) /\ OwnKeys(list) /\ Unstarted(list) /\ SendsAgree(list)
      /\ ServerAgrees(list) /\ top \in 0..MaxEntries
  BY DEF ListSafe
<1>1. CASE readers = "undecided" \/ waiting = {}
  <2>1. entries' = list /\ sends' = sends
    BY <1>1 DEF Upload!Flush, Upload!Undecided
  <2>2. UploadTyped' /\ OwnSends'
    BY <2>1 DEF UploadTyped, OwnSends
  <2>3. ListSafe(entries, added)'
    BY <1>0, <2>1 DEF ListSafe, Numbered, OwnKeys, Unstarted, SendsAgree, ServerAgrees
  <2>4. ReadersAgree(entries, choice)'
    BY <2>1 DEF ReadersAgree, Upload!HoldsReaders
  <2> QED
    BY <2>1, <2>2, <2>3, <2>4
<1>2. CASE ~(readers = "undecided" \/ waiting = {})
  <2> DEFINE first == CHOOSE k \in waiting : \A j \in waiting : k <= j
             new == [batch |-> first, keys |-> waiting, left |-> waiting, readers |-> readers, created |-> FALSE]
             m == [e \in list |-> IF e.key \in waiting THEN [e EXCEPT !.started = TRUE] ELSE e]
  <2>1. entries' = {m[e] : e \in list} /\ sends' = sends \cup {new}
    BY <1>2 DEF Upload!Flush, Upload!Undecided
  <2>2. waiting \in SUBSET Upload!Keys /\ first \in waiting
    <3>1. waiting \in SUBSET Upload!Keys
      BY <1>0 DEF EntryRecords
    <3> QED
      <4> HIDE DEF waiting
      <4> QED
        BY <1>2, <3>1, FirstKeyIsOne
  <2>3. /\ \A e \in list : e.key \in waiting <=> ~e.started
        /\ \A k \in waiting : \E e \in list : ~e.started /\ k = e.key
    BY <1>0 DEF OwnKeys
  <2>4. /\ new \in SendRecords /\ new.batch = first /\ new.keys = waiting /\ new.left = waiting
        /\ new.readers = readers /\ ~new.created
    BY <1>2, <2>2 DEF SendRecords
  <2>5. \A e \in list : /\ m[e] \in EntryRecords
                        /\ m[e].key = e.key /\ m[e].started /\ m[e].batch = e.batch /\ m[e].stage = e.stage
                        /\ m[e].serverFailed = e.serverFailed /\ m[e].note = e.note
    BY <1>0, <2>3 DEF EntryRecords
  <2>6. \A f \in entries' : \E e \in list : f = m[e]
    BY <2>1
  <2>7. \A s \in sends : \A k \in s.keys : k \notin waiting
    BY <1>0, <2>3 DEF Unstarted
  <2>8. \A k \in waiting : uploads[k].state = "none" /\ k <= top
    BY <1>0, <2>3 DEF Unstarted, Numbered
  <2> HIDE DEF new, m, first, waiting
  <2>9. UploadTyped'
    BY <2>1, <2>4 DEF UploadTyped
  <2>10. OwnSends'
    BY <2>1, <2>2, <2>4, <2>7, <2>8 DEF OwnSends
  <2>11. Numbered(entries, added)'
    BY <1>0, <2>1, <2>4, <2>5, <2>6, <2>8 DEF Numbered
  <2>12. OwnKeys(entries)'
    BY <1>0, <2>5, <2>6 DEF OwnKeys
  <2>13. Unstarted(entries)'
    BY <2>5, <2>6 DEF Unstarted
  <2>14. SendsAgree(entries)'
    <3> SUFFICES ASSUME NEW s \in sends', NEW e \in list
                 PROVE  /\ ~s.created => e.batch \notin s.keys /\ (e.key \in s.keys => e.batch = 0 /\ e.stage # "failed")
                        /\ s.created /\ e.key \in s.keys => e.batch = s.batch
      BY <2>5, <2>6 DEF SendsAgree
    <3>1. CASE s \in sends
      BY <1>0, <3>1 DEF SendsAgree
    <3>2. CASE s = new
      BY <1>0, <2>3, <2>4, <3>2 DEF Unstarted
    <3> QED
      BY <2>1, <3>1, <3>2
  <2>15. ServerAgrees(entries)'
    BY <1>0, <2>5, <2>6 DEF ServerAgrees
  <2>16. ReadersAgree(entries, choice)'
    <3> SUFFICES ASSUME mounted, NEW e \in list, Upload!HoldsReaders(m[e])
                 PROVE  /\ uploads[e.key].state # "none" => uploads[e.key].readers = readers
                        /\ \A s \in sends' : e.key \in s.keys => s.readers = readers
      BY <2>5, <2>6 DEF ReadersAgree
    <3>1. CASE e.started
      <4>1. Upload!HoldsReaders(e)
        BY <2>5, <3>1 DEF Upload!HoldsReaders
      <4> QED
        BY <2>1, <2>4, <4>1 DEF ReadersAgree
    <3>2. CASE ~e.started
      <4>1. e.key \in waiting
        BY <2>3, <3>2
      <4> QED
        BY <2>1, <2>4, <2>7, <2>8, <4>1
    <3> QED
      BY <3>1, <3>2
  <2>17. ListSafe(entries, added)'
    BY <1>0, <2>5, <2>6, <2>11, <2>12, <2>13, <2>14, <2>15 DEF ListSafe
  <2> QED
    BY <2>1, <2>5, <2>6, <2>9, <2>10, <2>16, <2>17
<1> QED
  BY <1>1, <1>2

LEMMA ChooseIsSafe == ASSUME UploadSafe, Upload!Choose PROVE UploadSafe'
<1>1. PICK r \in Readers \cup {"undecided"} : choice' = r /\ Upload!Flush(entries, r)
  BY DEF Upload!Choose, Upload!Undecided
<1>2. UNCHANGED <<added, uploads, timer, poll, mounted>> /\ ~Upload!Locked
  BY DEF Upload!Choose
<1>3. ReadersAgree(entries, r)
  BY <1>2 DEF ReadersAgree, Upload!Locked
<1>4. UploadTyped /\ OwnSends /\ ListSafe(entries, added) /\ added \in Nat /\ Upload!EveryFileIsFollowed
  BY UploadsAreBounded DEF UploadSafe, ListSafe
<1>5. /\ UploadTyped' /\ OwnSends' /\ ListSafe(entries, added)' /\ ReadersAgree(entries, choice)'
      /\ sends \subseteq sends'
      /\ \A f \in entries' : \E e \in entries : f.batch = e.batch /\ f.stage = e.stage /\ f.note = e.note
  BY <1>1, <1>2, <1>3, <1>4, FlushIsSafe
<1>6. Upload!EveryFileIsFollowed'
  BY <1>2, <1>4, <1>5 DEF Upload!EveryFileIsFollowed, Upload!Open, Upload!Terminal
<1> QED
  BY <1>5, <1>6 DEF UploadSafe

(* Files are listed under keys that nothing uses.                          *)
LEMMA AddFilesIsSafe == ASSUME UploadSafe, Upload!AddFiles PROVE UploadSafe'
<1>0. /\ UploadTyped /\ OwnSends /\ ListSafe(entries, added) /\ ReadersAgree(entries, choice)
      /\ entries \subseteq EntryRecords /\ added \in 0..MaxEntries
      /\ Numbered(entries, added) /\ OwnKeys(entries) /\ Unstarted(entries) /\ SendsAgree(entries)
      /\ ServerAgrees(entries) /\ Upload!EveryFileIsFollowed
  BY DEF UploadSafe, ListSafe
<1>1. PICK names \in SUBSET Names :
        /\ names # {} /\ added + Cardinality(names) <= MaxEntries
        /\ \A e \in entries : e.name \notin names
        /\ \E key \in [names -> added + 1..added + Cardinality(names)] :
             /\ \A m, n \in names : m # n => key[m] # key[n]
             /\ Upload!Flush(entries \cup Upload!Listed(names, key), choice)
        /\ added' = added + Cardinality(names)
  <2>1. \A names : Upload!Cardinality(names) = Cardinality(names)
    BY Zenon DEF Upload!Cardinality, Cardinality
  <2> QED
    BY <2>1 DEF Upload!AddFiles
<1> DEFINE top == added + Cardinality(names)
<1>2. PICK key \in [names -> added + 1..top] :
        /\ \A m, n \in names : m # n => key[m] # key[n]
        /\ Upload!Flush(entries \cup Upload!Listed(names, key), choice)
  BY <1>1
<1> DEFINE new == Upload!Listed(names, key)
           list == entries \cup new
<1>3. Cardinality(names) \in Nat
  BY UploadsAreBounded, FS_Subset, FS_CardinalityType
<1>4. top \in 0..MaxEntries /\ added <= top /\ MaxEntries \in Nat
  BY <1>0, <1>1, <1>3, UploadsAreBounded
<1>5. \A n \in names : key[n] \in Upload!Keys /\ key[n] > added /\ key[n] <= top
  BY <1>0, <1>2, <1>4 DEF Upload!Keys
<1>6. \A e \in new : /\ e \in EntryRecords /\ ~e.started /\ e.batch = 0 /\ ~e.serverFailed /\ e.stage = "parsing"
                     /\ e.key \in Upload!Keys /\ e.key > added /\ e.key <= top
  <2> SUFFICES ASSUME NEW n \in names, NEW e,
                      e = [key |-> key[n], name |-> n, started |-> FALSE, batch |-> 0, stage |-> "parsing",
                           serverFailed |-> FALSE, note |-> "none"]
               PROVE  /\ e \in EntryRecords /\ ~e.started /\ e.batch = 0 /\ ~e.serverFailed /\ e.stage = "parsing"
                      /\ e.key \in Upload!Keys /\ e.key > added /\ e.key <= top
    BY DEF Upload!Listed
  <2> HIDE DEF top
  <2> QED
    BY <1>5 DEF EntryRecords
<1>7. \A e, f \in new : e.key = f.key => e = f
  <2> SUFFICES ASSUME NEW e \in new, NEW f \in new, e.key = f.key PROVE e = f
    OBVIOUS
  <2>1. PICK i \in names : e = [key |-> key[i], name |-> i, started |-> FALSE, batch |-> 0, stage |-> "parsing",
                                serverFailed |-> FALSE, note |-> "none"]
    BY DEF Upload!Listed
  <2>2. PICK j \in names : f = [key |-> key[j], name |-> j, started |-> FALSE, batch |-> 0, stage |-> "parsing",
                                serverFailed |-> FALSE, note |-> "none"]
    BY DEF Upload!Listed
  <2>3. key[i] = key[j]
    BY <2>1, <2>2
  <2> QED
    BY <1>2, <2>1, <2>2, <2>3
<1>8. \A e \in new : uploads[e.key].state = "none" /\ \A s \in sends : e.key \notin s.keys
  <2> SUFFICES ASSUME NEW e \in new
               PROVE  uploads[e.key].state = "none" /\ \A s \in sends : e.key \notin s.keys
    OBVIOUS
  <2>1. e.key \in Upload!Keys /\ ~(e.key <= added)
    BY <1>0, <1>6 DEF Upload!Keys
  <2> QED
    BY <1>0, <2>1 DEF Numbered
<1>9. \A e \in entries : e.key \in Upload!Keys /\ e.key <= added /\ e.batch <= added /\ e.batch \in Nat
  BY <1>0 DEF Numbered, EntryRecords
<1> HIDE DEF new, top
<1>10. list \subseteq EntryRecords
  BY <1>0, <1>6
<1>11. Numbered(list, top)
  <2>1. \A e \in list : e.key <= top /\ e.batch <= top
    BY <1>0, <1>4, <1>6, <1>9 DEF Upload!Keys
  <2>2. \A s \in sends : \A k \in s.keys : k \in Upload!Keys /\ k <= added
    BY <1>0 DEF Numbered, UploadTyped, SendRecords
  <2>3. \A s \in sends : \A k \in s.keys : k <= top
    BY <1>0, <1>4, <2>2 DEF Upload!Keys
  <2>4. \A k \in Upload!Keys : uploads[k].state # "none" => k <= top
    BY <1>0, <1>4 DEF Numbered, Upload!Keys
  <2> QED
    BY <2>1, <2>3, <2>4 DEF Numbered
<1>12. OwnKeys(list)
  <2> SUFFICES ASSUME NEW e \in list, NEW f \in list, e.key = f.key PROVE e = f
    BY DEF OwnKeys
  <2>1. e \in entries /\ f \in entries => e = f
    BY <1>0 DEF OwnKeys
  <2>2. e \in new /\ f \in new => e = f
    BY <1>7
  <2>3. ~(e \in entries /\ f \in new) /\ ~(e \in new /\ f \in entries)
    BY <1>0, <1>6, <1>9 DEF Upload!Keys
  <2> QED
    BY <2>1, <2>2, <2>3
<1>13. Unstarted(list)
  <2> SUFFICES ASSUME NEW e \in list, ~e.started
               PROVE  /\ e.batch = 0 /\ ~e.serverFailed /\ e.stage # "failed" /\ uploads[e.key].state = "none"
                      /\ \A s \in sends : e.key \notin s.keys
                      /\ \A f \in list : f.batch # e.key
    BY DEF Unstarted
  <2>1. CASE e \in entries
    <3>1. \A f \in new : f.batch # e.key
      BY <1>6, <1>9, <2>1 DEF Upload!Keys
    <3> QED
      BY <1>0, <2>1, <3>1 DEF Unstarted
  <2>2. CASE e \in new
    <3>1. \A f \in list : f.batch # e.key
      BY <1>0, <1>6, <1>9, <2>2 DEF Upload!Keys
    <3> QED
      BY <1>6, <1>8, <2>2, <3>1
  <2> QED
    BY <2>1, <2>2
<1>14. SendsAgree(list)
  <2>1. \A s \in sends : 0 \notin s.keys
    BY <1>0 DEF UploadTyped, SendRecords, Upload!Keys
  <2> QED
    BY <1>0, <1>6, <1>8, <2>1 DEF SendsAgree
<1>15. ServerAgrees(list)
  BY <1>0, <1>6, <1>8 DEF ServerAgrees
<1>16. ReadersAgree(list, choice)
  BY <1>0, <1>6 DEF ReadersAgree, Upload!HoldsReaders
<1>17. ListSafe(list, top) /\ top \in Nat
  BY <1>4, <1>10, <1>11, <1>12, <1>13, <1>14, <1>15 DEF ListSafe
<1>18. Upload!Flush(list, choice) /\ added' = top /\ UNCHANGED <<choice, uploads, timer, poll, mounted>>
  BY <1>1, <1>2 DEF Upload!AddFiles, new, top
<1>19. /\ UploadTyped' /\ OwnSends' /\ ListSafe(entries, added)' /\ ReadersAgree(entries, choice)'
       /\ sends \subseteq sends'
       /\ \A f \in entries' : \E e \in list : f.batch = e.batch /\ f.stage = e.stage /\ f.note = e.note
  <2>1. choice \in Readers \cup {"undecided"}
    BY <1>0 DEF UploadTyped
  <2> HIDE DEF list
  <2> QED
    BY <1>0, <1>16, <1>17, <1>18, <2>1, FlushIsSafe
<1>20. Upload!EveryFileIsFollowed'
  <2> SUFFICES ASSUME mounted', NEW f \in entries', Upload!Open(f)
               PROVE  timer' \/ poll'.on \/ poll'.broken \/ f.note = "processing" \/ \E s \in sends' : s.batch = f.batch
    BY DEF Upload!EveryFileIsFollowed, Upload!Open, Upload!Terminal
  <2>1. PICK e \in list : f.batch = e.batch /\ f.stage = e.stage /\ f.note = e.note
    BY <1>19
  <2>2. e \in entries /\ Upload!Open(e)
    BY <1>6, <2>1 DEF Upload!Open, Upload!Terminal
  <2> QED
    BY <1>0, <1>18, <1>19, <2>1, <2>2 DEF Upload!EveryFileIsFollowed
<1> QED
  BY <1>19, <1>20 DEF UploadSafe

LEMMA RemoveIsSafe == ASSUME UploadSafe, Upload!Remove PROVE UploadSafe'
<1>1. entries' \subseteq entries /\ UNCHANGED <<added, choice, sends, uploads, timer, poll, mounted>>
  BY DEF Upload!Remove
<1>2. UploadTyped' /\ OwnSends'
  BY <1>1 DEF UploadSafe, UploadTyped, OwnSends
<1>3. ListSafe(entries, added)'
  BY <1>1 DEF UploadSafe, ListSafe, Numbered, OwnKeys, Unstarted, SendsAgree, ServerAgrees
<1>4. ReadersAgree(entries, choice)' /\ Upload!EveryFileIsFollowed'
  BY <1>1 DEF UploadSafe, ReadersAgree, Upload!EveryFileIsFollowed, Upload!HoldsReaders, Upload!Open, Upload!Terminal
<1> QED
  BY <1>2, <1>3, <1>4 DEF UploadSafe

LEMMA ServerWorksIsSafe == ASSUME UploadSafe, Upload!ServerWorks PROVE UploadSafe'
<1>0. /\ UploadTyped /\ OwnSends /\ ListSafe(entries, added) /\ ReadersAgree(entries, choice)
      /\ entries \subseteq EntryRecords /\ added \in 0..MaxEntries
      /\ Numbered(entries, added) /\ OwnKeys(entries) /\ Unstarted(entries) /\ SendsAgree(entries)
      /\ ServerAgrees(entries) /\ Upload!EveryFileIsFollowed
  BY DEF UploadSafe, ListSafe
<1>1. PICK k \in Upload!Keys, o \in {"ready", "failed"} :
        /\ uploads[k].state \in {"waiting", "working"} /\ (o = "ready" => uploads[k].state = "working")
        /\ uploads' = [uploads EXCEPT ![k].state = o]
        /\ UNCHANGED <<entries, added, choice, sends, timer, poll, mounted>>
  BY DEF Upload!ServerWorks
<1>2. /\ \A j \in Upload!Keys : j # k => uploads'[j] = uploads[j]
      /\ uploads'[k].state = o /\ uploads'[k].readers = uploads[k].readers
      /\ uploads' \in [Upload!Keys -> [state : {"none", "waiting", "working", "ready", "failed"},
                                       readers : Readers \cup {"undecided"}]]
  BY <1>0, <1>1 DEF UploadTyped
<1>3. \A e \in entries : e.key \in Upload!Keys
  BY <1>0 DEF EntryRecords
<1>4. \A s \in sends : s.keys \subseteq Upload!Keys
  BY <1>0 DEF UploadTyped, SendRecords
<1>5. UploadTyped'
  BY <1>0, <1>1, <1>2 DEF UploadTyped
<1>6. OwnSends'
  BY <1>0, <1>1, <1>2, <1>4 DEF OwnSends
<1>7. Numbered(entries, added)' /\ OwnKeys(entries)' /\ SendsAgree(entries)'
  BY <1>0, <1>1, <1>2 DEF Numbered, OwnKeys, SendsAgree
<1>8. Unstarted(entries)'
  BY <1>0, <1>1, <1>2, <1>3 DEF Unstarted
<1>9. ServerAgrees(entries)'
  BY <1>0, <1>1, <1>2, <1>3 DEF ServerAgrees
<1>10. ReadersAgree(entries, choice)'
  BY <1>0, <1>1, <1>2, <1>3 DEF ReadersAgree, Upload!HoldsReaders
<1>11. Upload!EveryFileIsFollowed'
  BY <1>0, <1>1 DEF Upload!EveryFileIsFollowed
<1> QED
  BY <1>0, <1>1, <1>5, <1>6, <1>7, <1>8, <1>9, <1>10, <1>11 DEF UploadSafe, ListSafe

(* The server creates a batch, or refuses it, or its answer is lost.       *)
LEMMA CreateIsSafe == ASSUME UploadSafe, Upload!Create PROVE UploadSafe'
<1>0. /\ UploadTyped /\ OwnSends /\ ListSafe(entries, added) /\ ReadersAgree(entries, choice)
      /\ entries \subseteq EntryRecords /\ added \in 0..MaxEntries
      /\ Numbered(entries, added) /\ OwnKeys(entries) /\ Unstarted(entries) /\ SendsAgree(entries)
      /\ ServerAgrees(entries) /\ Upload!EveryFileIsFollowed
  BY DEF UploadSafe, ListSafe
<1>1. PICK s \in sends : \E made \in BOOLEAN, answer \in {"created", "refused", "rejected"} :
        /\ ~s.created /\ (answer = "created" => made)
        /\ uploads' = IF made THEN [k \in Upload!Keys |-> IF k \in s.keys THEN [state |-> "waiting", readers |-> s.readers]
                                                          ELSE uploads[k]]
                      ELSE uploads
        /\ \/ /\ answer = "created"
              /\ entries' = {IF e.key \in s.keys THEN [e EXCEPT !.batch = s.batch] ELSE e : e \in entries}
              /\ sends' = (sends \ {s}) \cup {[s EXCEPT !.created = TRUE]}
           \/ /\ answer = "refused"
              /\ entries' = {IF e.key \in s.keys THEN [e EXCEPT !.stage = "failed"] ELSE e : e \in entries}
              /\ sends' = sends \ {s}
           \/ answer = "rejected" /\ UNCHANGED entries /\ sends' = sends \ {s}
        /\ UNCHANGED <<added, choice, timer, poll, mounted>>
  BY DEF Upload!Create, Upload!Patch
<1>2. UNCHANGED <<added, choice, timer, poll, mounted>> /\ ~s.created
  BY <1>1
<1>3. /\ s \in SendRecords /\ s.keys \subseteq Upload!Keys /\ s.readers \in Readers
      /\ s.batch \in s.keys /\ s.batch \in Upload!Keys /\ s.batch # 0
      /\ \A k \in s.keys : uploads[k].state = "none" /\ k <= added
      /\ \A t \in sends : \A k \in s.keys : k \in t.keys => t = s
      /\ \A t \in sends : t.keys \subseteq Upload!Keys
  BY <1>0, <1>2 DEF UploadTyped, SendRecords, OwnSends, Numbered, Upload!Keys
(* What the server has of the files of the batch, and of the others.       *)
<1>4. /\ \A k \in Upload!Keys \ s.keys : uploads'[k] = uploads[k]
      /\ \A k \in s.keys : \/ uploads'[k].state = "none"
                           \/ uploads'[k].state = "waiting" /\ uploads'[k].readers = s.readers
      /\ uploads' \in [Upload!Keys -> [state : {"none", "waiting", "working", "ready", "failed"},
                                       readers : Readers \cup {"undecided"}]]
  <2> DEFINE all == [k \in Upload!Keys |-> IF k \in s.keys THEN [state |-> "waiting", readers |-> s.readers]
                                           ELSE uploads[k]]
  <2>1. uploads' = all \/ uploads' = uploads
    BY <1>1
  <2>2. CASE uploads' = all
    BY <1>0, <1>3, <2>2 DEF UploadTyped
  <2>3. CASE uploads' = uploads
    BY <1>0, <1>3, <2>3 DEF UploadTyped
  <2> QED
    BY <2>1, <2>2, <2>3
<1>5. \A e \in entries : e.key \in Upload!Keys /\ e.batch \in Nat
  BY <1>0 DEF EntryRecords
<1>6. \A e \in entries : e.key \in s.keys => e.started /\ e.batch = 0 /\ e.stage # "failed" /\ ~e.serverFailed
  BY <1>0, <1>2, <1>3 DEF Unstarted, SendsAgree, ServerAgrees
<1>7. CASE /\ entries' = {IF e.key \in s.keys THEN [e EXCEPT !.batch = s.batch] ELSE e : e \in entries}
           /\ sends' = (sends \ {s}) \cup {[s EXCEPT !.created = TRUE]}
  <2> DEFINE m == [e \in entries |-> IF e.key \in s.keys THEN [e EXCEPT !.batch = s.batch] ELSE e]
             new == [s EXCEPT !.created = TRUE]
  <2>1. entries' = {m[e] : e \in entries} /\ sends' = (sends \ {s}) \cup {new}
    BY <1>7
  <2>2. \A e \in entries : /\ m[e] \in EntryRecords /\ m[e].key = e.key /\ m[e].started = e.started
                           /\ m[e].stage = e.stage /\ m[e].serverFailed = e.serverFailed /\ m[e].note = e.note
                           /\ e.key \in s.keys => m[e].batch = s.batch
                           /\ e.key \notin s.keys => m[e] = e
    BY <1>0, <1>3 DEF EntryRecords, Upload!Keys
  <2>3. /\ new \in SendRecords /\ new.keys = s.keys /\ new.left = s.left /\ new.batch = s.batch /\ new.created
        /\ new.readers = s.readers
    BY <1>3 DEF SendRecords
  <2> HIDE DEF m, new
  <2>4. OwnKeys(entries)' /\ \A f \in entries' : \E e \in entries : f = m[e]
    BY <1>0, <2>1, <2>2, PatchedEntries
  <2>5. UploadTyped'
    BY <1>0, <1>2, <1>4, <2>1, <2>3 DEF UploadTyped
  <2>6. OwnSends'
    <3> SUFFICES ASSUME NEW t \in sends'
                 PROVE  /\ t.batch \in t.keys /\ t.left \subseteq t.keys
                        /\ ~t.created => \A k \in t.keys : uploads'[k].state = "none"
                        /\ \A u \in sends', k \in t.keys : k \in u.keys => u = t
      BY DEF OwnSends
    <3>1. CASE t = new
      BY <1>0, <1>3, <2>1, <2>3, <3>1 DEF OwnSends
    <3>2. CASE t \in sends /\ t # s
      BY <1>0, <1>3, <1>4, <2>1, <2>3, <3>2 DEF OwnSends
    <3> QED
      BY <2>1, <3>1, <3>2
  <2>7. Numbered(entries, added)'
    <3>1. \A e \in entries : m[e].key <= added /\ m[e].batch <= added
      BY <1>0, <1>3, <2>2 DEF Numbered
    <3>2. \A t \in sends' : \A k \in t.keys : k <= added
      BY <1>0, <2>1, <2>3 DEF Numbered
    <3>3. \A k \in Upload!Keys : uploads'[k].state # "none" => k <= added
      BY <1>0, <1>3, <1>4 DEF Numbered
    <3> QED
      BY <1>2, <2>4, <3>1, <3>2, <3>3 DEF Numbered
  <2>8. Unstarted(entries)'
    <3> SUFFICES ASSUME NEW e \in entries, ~e.started
                 PROVE  /\ e.key \notin s.keys /\ e.batch = 0 /\ ~e.serverFailed /\ e.stage # "failed"
                        /\ uploads'[e.key].state = "none"
                        /\ \A t \in sends' : e.key \notin t.keys
                        /\ \A f \in entries : m[f].batch # e.key
      BY <2>2, <2>4 DEF Unstarted
    <3>1. e.key \notin s.keys
      BY <1>6
    <3>2. \A f \in entries : m[f].batch # e.key
      BY <1>0, <1>3, <2>2, <3>1 DEF Unstarted
    <3> QED
      BY <1>0, <1>4, <1>5, <2>1, <2>3, <3>1, <3>2 DEF Unstarted
  <2>9. SendsAgree(entries)'
    <3> SUFFICES ASSUME NEW t \in sends', NEW e \in entries
                 PROVE  /\ ~t.created => m[e].batch \notin t.keys
                                         /\ (e.key \in t.keys => m[e].batch = 0 /\ e.stage # "failed")
                        /\ t.created /\ e.key \in t.keys => m[e].batch = t.batch
      BY <2>2, <2>4 DEF SendsAgree
    <3>1. CASE t = new
      BY <2>2, <2>3, <3>1
    <3>2. CASE t \in sends /\ t # s
      BY <1>0, <1>3, <2>2, <3>2 DEF SendsAgree
    <3> QED
      BY <2>1, <3>1, <3>2
  <2>10. ServerAgrees(entries)'
    <3> SUFFICES ASSUME NEW e \in entries
                 PROVE  /\ e.serverFailed => e.stage = "failed" /\ uploads'[e.key].state = "failed"
                        /\ uploads'[e.key].state \in {"working", "ready"} => e.started /\ m[e].batch # 0
      BY <2>2, <2>4 DEF ServerAgrees
    <3> QED
      BY <1>0, <1>4, <1>5, <1>6, <2>2 DEF ServerAgrees
  <2>11. ReadersAgree(entries, choice)'
    <3> SUFFICES ASSUME mounted, NEW e \in entries, Upload!HoldsReaders(m[e])
                 PROVE  /\ uploads'[e.key].state # "none" => uploads'[e.key].readers = choice
                        /\ \A t \in sends' : e.key \in t.keys => t.readers = choice
      BY <1>2, <2>2, <2>4 DEF ReadersAgree
    <3>1. Upload!HoldsReaders(e)
      BY <1>6, <2>2 DEF Upload!HoldsReaders
    <3> QED
      BY <1>0, <1>4, <1>5, <2>1, <2>3, <3>1 DEF ReadersAgree
  <2>12. Upload!EveryFileIsFollowed'
    <3> SUFFICES ASSUME mounted, NEW e \in entries, Upload!Open(m[e])
                 PROVE  timer \/ poll.on \/ poll.broken \/ e.note = "processing" \/ \E t \in sends' : t.batch = m[e].batch
      BY <1>2, <2>2, <2>4 DEF Upload!EveryFileIsFollowed, Upload!Open, Upload!Terminal
    <3>1. CASE e.key \in s.keys
      BY <2>1, <2>2, <2>3, <3>1
    <3>2. CASE e.key \notin s.keys
      BY <1>0, <2>1, <2>2, <2>3, <3>2 DEF Upload!EveryFileIsFollowed
    <3> QED
      BY <3>1, <3>2
  <2> QED
    BY <1>0, <1>2, <2>2, <2>4, <2>5, <2>6, <2>7, <2>8, <2>9, <2>10, <2>11, <2>12 DEF UploadSafe, ListSafe
<1>8. CASE /\ entries' = {IF e.key \in s.keys THEN [e EXCEPT !.stage = "failed"] ELSE e : e \in entries}
           /\ sends' = sends \ {s}
  <2> DEFINE m == [e \in entries |-> IF e.key \in s.keys THEN [e EXCEPT !.stage = "failed"] ELSE e]
  <2>1. entries' = {m[e] : e \in entries}
    BY <1>8
  <2>2. \A e \in entries : /\ m[e] \in EntryRecords /\ m[e].key = e.key /\ m[e].started = e.started
                           /\ m[e].batch = e.batch /\ m[e].serverFailed = e.serverFailed /\ m[e].note = e.note
                           /\ e.key \in s.keys => m[e].stage = "failed"
                           /\ e.key \notin s.keys => m[e] = e
    BY <1>0 DEF EntryRecords
  <2> HIDE DEF m
  <2>3. OwnKeys(entries)' /\ \A f \in entries' : \E e \in entries : f = m[e]
    BY <1>0, <2>1, <2>2, PatchedEntries
  <2>4. UploadTyped'
    BY <1>0, <1>2, <1>4, <1>8 DEF UploadTyped
  <2>5. OwnSends'
    BY <1>0, <1>3, <1>4, <1>8 DEF OwnSends
  <2>6. Numbered(entries, added)'
    BY <1>0, <1>2, <1>3, <1>4, <1>8, <2>2, <2>3 DEF Numbered
  <2>7. Unstarted(entries)'
    <3> SUFFICES ASSUME NEW e \in entries, ~e.started
                 PROVE  /\ e.key \notin s.keys /\ e.batch = 0 /\ ~e.serverFailed /\ e.stage # "failed"
                        /\ uploads'[e.key].state = "none"
                        /\ \A t \in sends' : e.key \notin t.keys
                        /\ \A f \in entries : f.batch # e.key
      BY <2>2, <2>3 DEF Unstarted
    <3>1. e.key \notin s.keys
      BY <1>6
    <3> QED
      BY <1>0, <1>4, <1>5, <1>8, <3>1 DEF Unstarted
  <2>8. SendsAgree(entries)'
    <3> SUFFICES ASSUME NEW t \in sends, t # s, NEW e \in entries
                 PROVE  /\ ~t.created => e.batch \notin t.keys
                                         /\ (e.key \in t.keys => e.batch = 0 /\ m[e].stage # "failed")
                        /\ t.created /\ e.key \in t.keys => e.batch = t.batch
      BY <1>8, <2>2, <2>3 DEF SendsAgree
    <3>1. e.key \in t.keys => m[e] = e
      BY <1>3, <2>2
    <3> QED
      BY <1>0, <3>1 DEF SendsAgree
  <2>9. ServerAgrees(entries)'
    <3> SUFFICES ASSUME NEW e \in entries
                 PROVE  /\ e.serverFailed => m[e].stage = "failed" /\ uploads'[e.key].state = "failed"
                        /\ uploads'[e.key].state \in {"working", "ready"} => e.started /\ e.batch # 0
      BY <2>2, <2>3 DEF ServerAgrees
    <3> QED
      BY <1>0, <1>4, <1>5, <1>6, <2>2 DEF ServerAgrees
  <2>10. ReadersAgree(entries, choice)'
    <3> SUFFICES ASSUME mounted, NEW e \in entries, Upload!HoldsReaders(m[e])
                 PROVE  /\ uploads'[e.key].state # "none" => uploads'[e.key].readers = choice
                        /\ \A t \in sends' : e.key \in t.keys => t.readers = choice
      BY <1>2, <2>2, <2>3 DEF ReadersAgree
    <3>1. e.key \notin s.keys /\ Upload!HoldsReaders(e)
      BY <1>6, <2>2 DEF Upload!HoldsReaders
    <3> QED
      BY <1>0, <1>4, <1>5, <1>8, <3>1 DEF ReadersAgree
  <2>11. Upload!EveryFileIsFollowed'
    <3> SUFFICES ASSUME mounted, NEW e \in entries, Upload!Open(m[e])
                 PROVE  timer \/ poll.on \/ poll.broken \/ e.note = "processing" \/ \E t \in sends' : t.batch = e.batch
      BY <1>2, <2>2, <2>3 DEF Upload!EveryFileIsFollowed, Upload!Open, Upload!Terminal
    <3>1. e.key \notin s.keys /\ Upload!Open(e)
      BY <2>2 DEF Upload!Open, Upload!Terminal
    <3>2. e.batch # s.batch
      BY <1>0, <1>2, <1>3 DEF SendsAgree
    <3> QED
      BY <1>0, <1>8, <3>1, <3>2 DEF Upload!EveryFileIsFollowed
  <2> QED
    BY <1>0, <1>2, <2>2, <2>3, <2>4, <2>5, <2>6, <2>7, <2>8, <2>9, <2>10, <2>11 DEF UploadSafe, ListSafe
<1>9. CASE entries' = entries /\ sends' = sends \ {s}
  <2>1. UploadTyped' /\ OwnSends'
    BY <1>0, <1>2, <1>3, <1>4, <1>9 DEF UploadTyped, OwnSends
  <2>2. Numbered(entries, added)' /\ OwnKeys(entries)' /\ SendsAgree(entries)'
    BY <1>0, <1>2, <1>3, <1>4, <1>9 DEF Numbered, OwnKeys, SendsAgree
  <2>3. Unstarted(entries)' /\ ServerAgrees(entries)'
    BY <1>0, <1>4, <1>5, <1>6, <1>9 DEF Unstarted, ServerAgrees
  <2>4. ReadersAgree(entries, choice)'
    <3> SUFFICES ASSUME mounted, NEW e \in entries, Upload!HoldsReaders(e)
                 PROVE  /\ uploads'[e.key].state # "none" => uploads'[e.key].readers = choice
                        /\ \A t \in sends' : e.key \in t.keys => t.readers = choice
      BY <1>2, <1>9 DEF ReadersAgree
    <3> QED
      BY <1>0, <1>4, <1>5, <1>9 DEF ReadersAgree
  <2>5. Upload!EveryFileIsFollowed'
    <3> SUFFICES ASSUME mounted, NEW e \in entries, Upload!Open(e)
                 PROVE  timer \/ poll.on \/ poll.broken \/ e.note = "processing" \/ \E t \in sends' : t.batch = e.batch
      BY <1>2, <1>9 DEF Upload!EveryFileIsFollowed, Upload!Open, Upload!Terminal
    <3>1. e.batch # s.batch
      BY <1>0, <1>2, <1>3 DEF SendsAgree
    <3> QED
      BY <1>0, <1>9, <3>1 DEF Upload!EveryFileIsFollowed
  <2> QED
    BY <1>0, <1>2, <1>9, <2>1, <2>2, <2>3, <2>4, <2>5 DEF UploadSafe, ListSafe
<1> QED
  BY <1>1, <1>7, <1>8, <1>9

(* A file is transferred, or its transfer fails on one side alone.         *)
LEMMA PutIsSafe == ASSUME UploadSafe, Upload!Put PROVE UploadSafe'
<1>0. /\ UploadTyped /\ OwnSends /\ ListSafe(entries, added) /\ ReadersAgree(entries, choice)
      /\ entries \subseteq EntryRecords /\ added \in 0..MaxEntries
      /\ Numbered(entries, added) /\ OwnKeys(entries) /\ Unstarted(entries) /\ SendsAgree(entries)
      /\ ServerAgrees(entries) /\ Upload!EveryFileIsFollowed
  BY DEF UploadSafe, ListSafe
<1>1. PICK s \in sends, landed \in BOOLEAN, ok \in BOOLEAN :
        /\ s.created /\ s.left # {} /\ (ok => landed)
        /\ LET k == CHOOSE x \in s.left : \A y \in s.left : x <= y
           IN  /\ landed => uploads[k].state = "waiting"
               /\ uploads' = IF landed THEN [uploads EXCEPT ![k].state = "working"] ELSE uploads
               /\ sends' = (sends \ {s}) \cup {[s EXCEPT !.left = @ \ {k}]}
               /\ Upload!Patch(IF ok THEN {} ELSE {k}, LAMBDA e : [e EXCEPT !.stage = "failed"])
        /\ UNCHANGED <<added, choice, timer, poll, mounted>>
  BY DEF Upload!Put
<1> DEFINE k == CHOOSE x \in s.left : \A y \in s.left : x <= y
           new == [s EXCEPT !.left = s.left \ {k}]
           patched == IF ok THEN {} ELSE {k}
           m == [e \in entries |-> IF e.key \in patched THEN [e EXCEPT !.stage = "failed"] ELSE e]
<1>2. UNCHANGED <<added, choice, timer, poll, mounted>> /\ s.created
  BY <1>1
<1>3. /\ landed => uploads[k].state = "waiting"
      /\ uploads' = IF landed THEN [uploads EXCEPT ![k].state = "working"] ELSE uploads
      /\ sends' = (sends \ {s}) \cup {new}
  BY <1>1
<1>4. entries' = {m[e] : e \in entries}
  BY <1>1 DEF Upload!Patch
<1>5. s \in SendRecords /\ s.left \in SUBSET Upload!Keys /\ s.left \subseteq s.keys /\ s.keys \subseteq Upload!Keys
  BY <1>0 DEF UploadTyped, SendRecords, OwnSends
<1>6. k \in s.left
  BY <1>1, <1>5, FirstKeyIsOne
<1>7. /\ new \in SendRecords /\ new.keys = s.keys /\ new.left = s.left \ {k} /\ new.batch = s.batch /\ new.created
      /\ new.readers = s.readers
  BY <1>2, <1>5 DEF SendRecords
<1>8. \A e \in entries : /\ m[e] \in EntryRecords /\ m[e].key = e.key /\ m[e].started = e.started
                         /\ m[e].batch = e.batch /\ m[e].serverFailed = e.serverFailed /\ m[e].note = e.note
                         /\ m[e] = e \/ (e.key = k /\ m[e].stage = "failed")
  BY <1>0 DEF EntryRecords
<1> HIDE DEF k, new, m, patched
<1>9. /\ k \in s.keys /\ k \in Upload!Keys
      /\ \A t \in sends : k \in t.keys => t = s
      /\ \A t \in sends : t.keys \subseteq Upload!Keys
      /\ \A e \in entries : e.key \in Upload!Keys
  BY <1>0, <1>5, <1>6 DEF OwnSends, UploadTyped, SendRecords, EntryRecords
<1>10. /\ \A j \in Upload!Keys : j # k => uploads'[j] = uploads[j]
       /\ uploads'[k].readers = uploads[k].readers
       /\ uploads'[k].state = uploads[k].state \/ (uploads[k].state = "waiting" /\ uploads'[k].state = "working")
       /\ uploads' \in [Upload!Keys -> [state : {"none", "waiting", "working", "ready", "failed"},
                                        readers : Readers \cup {"undecided"}]]
  BY <1>0, <1>3, <1>9 DEF UploadTyped
<1>11. \A e \in entries : e.key = k => e.started /\ e.batch = s.batch /\ e.batch # 0
  BY <1>0, <1>2, <1>5, <1>9 DEF Unstarted, SendsAgree, SendRecords, Upload!Keys
<1>12. OwnKeys(entries)' /\ \A f \in entries' : \E e \in entries : f = m[e]
  BY <1>0, <1>4, <1>8, PatchedEntries
<1>13. UploadTyped'
  BY <1>0, <1>2, <1>3, <1>7, <1>10 DEF UploadTyped
<1>14. OwnSends'
  <2> SUFFICES ASSUME NEW t \in sends'
               PROVE  /\ t.batch \in t.keys /\ t.left \subseteq t.keys
                      /\ ~t.created => \A j \in t.keys : uploads'[j].state = "none"
                      /\ \A u \in sends', j \in t.keys : j \in u.keys => u = t
    BY DEF OwnSends
  <2>1. CASE t = new
    BY <1>0, <1>3, <1>7, <2>1 DEF OwnSends
  <2>2. CASE t \in sends /\ t # s
    BY <1>0, <1>3, <1>7, <1>9, <1>10, <2>2 DEF OwnSends
  <2> QED
    BY <1>3, <2>1, <2>2
<1>15. Numbered(entries, added)'
  <2>1. \A t \in sends' : \A j \in t.keys : j <= added
    BY <1>0, <1>3, <1>7 DEF Numbered
  <2>2. \A j \in Upload!Keys : uploads'[j].state # "none" => j <= added
    BY <1>0, <1>9, <1>10 DEF Numbered
  <2> QED
    BY <1>0, <1>2, <1>8, <1>12, <2>1, <2>2 DEF Numbered
<1>16. Unstarted(entries)'
  <2> SUFFICES ASSUME NEW e \in entries, ~e.started
               PROVE  /\ m[e] = e /\ e.batch = 0 /\ ~e.serverFailed /\ e.stage # "failed"
                      /\ uploads'[e.key].state = "none"
                      /\ \A t \in sends' : e.key \notin t.keys
                      /\ \A f \in entries : f.batch # e.key
    BY <1>8, <1>12 DEF Unstarted
  <2>1. e.key # k
    BY <1>11
  <2> QED
    BY <1>0, <1>3, <1>7, <1>8, <1>9, <1>10, <2>1 DEF Unstarted
<1>17. SendsAgree(entries)'
  <2> SUFFICES ASSUME NEW t \in sends', NEW e \in entries
               PROVE  /\ ~t.created => e.batch \notin t.keys
                                       /\ (e.key \in t.keys => e.batch = 0 /\ m[e].stage # "failed")
                      /\ t.created /\ e.key \in t.keys => e.batch = t.batch
    BY <1>8, <1>12 DEF SendsAgree
  <2>1. CASE t = new
    BY <1>0, <1>2, <1>7, <2>1 DEF SendsAgree
  <2>2. CASE t \in sends /\ t # s
    <3>1. e.key \in t.keys => m[e] = e
      BY <1>8, <1>9, <2>2
    <3> QED
      BY <1>0, <2>2, <3>1 DEF SendsAgree
  <2> QED
    BY <1>3, <2>1, <2>2
<1>18. ServerAgrees(entries)'
  <2> SUFFICES ASSUME NEW e \in entries
               PROVE  /\ e.serverFailed => m[e].stage = "failed" /\ uploads'[e.key].state = "failed"
                      /\ uploads'[e.key].state \in {"working", "ready"} => e.started /\ e.batch # 0
    BY <1>8, <1>12 DEF ServerAgrees
  <2>1. e.serverFailed => uploads'[e.key].state = "failed"
    BY <1>0, <1>9, <1>10 DEF ServerAgrees
  <2>2. e.serverFailed => m[e].stage = "failed"
    BY <1>0, <1>8 DEF ServerAgrees
  <2>3. uploads'[e.key].state \in {"working", "ready"} => e.started /\ e.batch # 0
    BY <1>0, <1>9, <1>10, <1>11 DEF ServerAgrees
  <2> QED
    BY <2>1, <2>2, <2>3
<1>19. ReadersAgree(entries, choice)'
  <2> SUFFICES ASSUME mounted, NEW e \in entries, Upload!HoldsReaders(m[e])
               PROVE  /\ uploads'[e.key].state # "none" => uploads'[e.key].readers = choice
                      /\ \A t \in sends' : e.key \in t.keys => t.readers = choice
    BY <1>2, <1>8, <1>12 DEF ReadersAgree
  <2>1. Upload!HoldsReaders(e)
    BY <1>8, <1>11 DEF Upload!HoldsReaders
  <2> QED
    BY <1>0, <1>3, <1>7, <1>9, <1>10, <2>1 DEF ReadersAgree
<1>20. Upload!EveryFileIsFollowed'
  <2> SUFFICES ASSUME mounted, NEW e \in entries, Upload!Open(m[e])
               PROVE  timer \/ poll.on \/ poll.broken \/ e.note = "processing" \/ \E t \in sends' : t.batch = e.batch
    BY <1>2, <1>8, <1>12 DEF Upload!EveryFileIsFollowed, Upload!Open, Upload!Terminal
  <2>1. Upload!Open(e)
    BY <1>8 DEF Upload!Open, Upload!Terminal
  <2> QED
    BY <1>0, <1>3, <1>7, <2>1 DEF Upload!EveryFileIsFollowed
<1> QED
  BY <1>0, <1>2, <1>8, <1>12, <1>13, <1>14, <1>15, <1>16, <1>17, <1>18, <1>19, <1>20 DEF UploadSafe, ListSafe

LEMMA BatchSentIsSafe == ASSUME UploadSafe, Upload!BatchSent PROVE UploadSafe'
<1>0. UploadTyped /\ timer \in BOOLEAN /\ mounted \in BOOLEAN
  BY DEF UploadSafe, UploadTyped
<1>1. sends' \subseteq sends /\ timer' = (timer \/ mounted) /\ UNCHANGED <<entries, added, choice, uploads, poll, mounted>>
  BY DEF Upload!BatchSent, Upload!SchedulePoll
<1>2. UploadTyped' /\ OwnSends'
  BY <1>0, <1>1 DEF UploadSafe, UploadTyped, OwnSends
<1>3. ListSafe(entries, added)'
  BY <1>1 DEF UploadSafe, ListSafe, Numbered, OwnKeys, Unstarted, SendsAgree, ServerAgrees
<1>4. ReadersAgree(entries, choice)'
  BY <1>1 DEF UploadSafe, ReadersAgree, Upload!HoldsReaders
<1>5. Upload!EveryFileIsFollowed'
  BY <1>0, <1>1 DEF Upload!EveryFileIsFollowed
<1> QED
  BY <1>2, <1>3, <1>4, <1>5 DEF UploadSafe

LEMMA CloseIsSafe == ASSUME UploadSafe, Upload!Close PROVE UploadSafe'
<1>1. mounted' = FALSE /\ timer' = FALSE /\ UNCHANGED <<entries, added, choice, sends, uploads, poll>>
  BY DEF Upload!Close
<1>2. UploadTyped' /\ OwnSends'
  BY <1>1 DEF UploadSafe, UploadTyped, OwnSends
<1>3. ListSafe(entries, added)'
  BY <1>1 DEF UploadSafe, ListSafe, Numbered, OwnKeys, Unstarted, SendsAgree, ServerAgrees
<1>4. ReadersAgree(entries, choice)' /\ Upload!EveryFileIsFollowed'
  BY <1>1 DEF ReadersAgree, Upload!EveryFileIsFollowed
<1> QED
  BY <1>2, <1>3, <1>4 DEF UploadSafe

LEMMA StartPollIsSafe == ASSUME UploadSafe, Upload!StartPoll PROVE UploadSafe'
<1>0. UploadTyped /\ entries \subseteq EntryRecords
  BY DEF UploadSafe, ListSafe
<1> DEFINE open == {e \in entries : Upload!Open(e)}
           new == [Upload!NoPoll EXCEPT !.on = TRUE, !.open = {e.key : e \in open}, !.left = {e.batch : e \in open}]
<1>1. timer' = FALSE /\ UNCHANGED <<entries, added, choice, sends, uploads, mounted>>
  BY DEF Upload!StartPoll
<1>2. poll' = IF poll.on THEN poll ELSE new
  BY DEF Upload!StartPoll
<1>3. new \in Polls /\ new.on
  <2>1. {e.key : e \in open} \in SUBSET Upload!Keys
    BY <1>0 DEF EntryRecords
  <2>2. {e.batch : e \in open} \in SUBSET (Nat \ {0})
    BY <1>0 DEF EntryRecords, Upload!Open
  <2> QED
    BY <2>1, <2>2 DEF Polls, Upload!NoPoll
<1> HIDE DEF new
<1>4. poll' \in Polls /\ poll'.on
  BY <1>0, <1>2, <1>3 DEF UploadTyped, Polls
<1> QED
  BY <1>1, <1>4, EveryUploadIsKept DEF Upload!EveryFileIsFollowed

LEMMA ReadStatusIsSafe == ASSUME UploadSafe, Upload!ReadStatus PROVE UploadSafe'
<1>0. /\ UploadTyped /\ poll.on /\ OwnKeys(entries) /\ ServerAgrees(entries)
      /\ poll \in Polls
      /\ entries \subseteq EntryRecords
  BY DEF UploadSafe, UploadTyped, ListSafe, Upload!ReadStatus
<1>1. PICK b \in poll.left, ok \in BOOLEAN :
        /\ poll' = IF mounted THEN [poll EXCEPT !.left = @ \ {b}] ELSE Upload!NoPoll
        /\ IF ~mounted THEN UNCHANGED <<entries, lost>>
           ELSE IF ok THEN Upload!Patch(Upload!OfBatch(b), Upload!Reported) /\ lost' = 0
           ELSE /\ lost' = IF lost < MaxStatusFailures THEN lost + 1 ELSE lost
                /\ Upload!Patch(IF lost' >= MaxStatusFailures THEN Upload!OfBatch(b) ELSE {},
                                LAMBDA e : IF Upload!Terminal(e) THEN e ELSE [e EXCEPT !.note = "unavailable"])
  BY DEF Upload!ReadStatus
<1>2. UNCHANGED <<added, choice, sends, uploads, timer, mounted>>
  BY DEF Upload!ReadStatus
<1>3. poll' \in Polls /\ (mounted => poll'.on)
  <2>1. CASE mounted
    <3>1. poll' = [poll EXCEPT !.left = poll.left \ {b}]
      BY <1>1, <2>1
    <3> QED
      BY <1>0, <3>1 DEF Polls
  <2>2. CASE ~mounted
    BY <1>1, <2>2 DEF Upload!NoPoll, Polls
  <2> QED
    BY <2>1, <2>2
<1>4. Upload!EveryFileIsFollowed'
  BY <1>2, <1>3 DEF Upload!EveryFileIsFollowed
<1>5. timer' \in BOOLEAN
  BY <1>0, <1>2 DEF UploadTyped
<1>6. CASE UNCHANGED entries
  BY <1>2, <1>3, <1>4, <1>5, <1>6, EveryUploadIsKept
<1>7. b # 0
  BY <1>0, <1>1 DEF Polls
<1>8. CASE entries' = {IF e.key \in Upload!OfBatch(b) THEN Upload!Reported(e) ELSE e : e \in entries}
  <2> DEFINE m == [e \in entries |-> IF e.key \in Upload!OfBatch(b) THEN Upload!Reported(e) ELSE e]
  <2>1. entries' = {m[e] : e \in entries}
    BY <1>8
  <2>2. ASSUME NEW e \in entries
        PROVE  /\ m[e] \in EntryRecords
               /\ m[e].key = e.key /\ m[e].started = e.started /\ m[e].batch = e.batch
               /\ \/ m[e].stage = e.stage /\ m[e].serverFailed = e.serverFailed
                  \/ /\ e.batch # 0 /\ e.stage # "failed"
                     /\ m[e].serverFailed => m[e].stage = "failed" /\ uploads[e.key].state = "failed"
    <3>1. e \in EntryRecords /\ e.key \in Upload!Keys
      BY <1>0 DEF EntryRecords
    <3>2. CASE e.key \notin Upload!OfBatch(b) \/ Upload!Terminal(e)
      BY <3>1, <3>2 DEF Upload!Reported
    <3>3. CASE e.key \in Upload!OfBatch(b) /\ ~Upload!Terminal(e)
      <4>1. e.batch = b /\ e.stage # "failed"
        BY <1>0, <3>3 DEF Upload!OfBatch, Upload!Terminal, OwnKeys
      <4> DEFINE now == uploads[e.key].state
                 stage == IF now = "waiting" \/ now = "working" THEN "parsing" ELSE now
                 new == [e EXCEPT !.stage = stage, !.note = "none", !.serverFailed = (stage = "failed")]
      <4>2. m[e] = new
        BY <3>3 DEF Upload!Reported
      <4>3. now \in {"none", "waiting", "working", "ready", "failed"}
        BY <1>0, <3>1 DEF UploadTyped
      <4>4. stage \in {"parsing", "ready", "failed", "none"} /\ (stage = "failed" => now = "failed")
        BY <4>3
      <4> HIDE DEF stage
      <4>5. /\ new \in EntryRecords /\ new.key = e.key /\ new.started = e.started /\ new.batch = e.batch
            /\ new.stage = stage /\ new.serverFailed = (stage = "failed")
        BY <3>1, <4>4 DEF EntryRecords
      <4> HIDE DEF new, m
      <4> QED
        BY <1>7, <4>1, <4>2, <4>4, <4>5
    <3> QED
      BY <3>2, <3>3
  <2> HIDE DEF m
  <2> QED
    BY <1>2, <1>3, <1>4, <1>5, <2>1, <2>2, ReportsAreSafe
<1>9. ASSUME NEW keys_,
             entries' = {IF e.key \in keys_
                         THEN IF Upload!Terminal(e) THEN e ELSE [e EXCEPT !.note = "unavailable"]
                         ELSE e : e \in entries}
      PROVE  UploadSafe'
  <2> DEFINE m == [e \in entries |-> IF e.key \in keys_
                                     THEN IF Upload!Terminal(e) THEN e ELSE [e EXCEPT !.note = "unavailable"]
                                     ELSE e]
  <2>1. entries' = {m[e] : e \in entries}
    BY <1>9
  <2>2. \A e \in entries : /\ m[e] \in EntryRecords
                           /\ m[e].key = e.key /\ m[e].started = e.started /\ m[e].batch = e.batch
                           /\ m[e].stage = e.stage /\ m[e].serverFailed = e.serverFailed
    BY <1>0 DEF EntryRecords
  <2> HIDE DEF m
  <2> QED
    BY <1>2, <1>3, <1>4, <1>5, <2>1, <2>2, ReportsAreSafe
<1>10. CASE ~mounted
  BY <1>1, <1>6, <1>10
<1>11. CASE mounted /\ ok
  <2>1. Upload!Patch(Upload!OfBatch(b), Upload!Reported)
    BY <1>1, <1>11
  <2> QED
    BY <1>8, <2>1 DEF Upload!Patch
<1>12. CASE mounted /\ ~ok
  <2> DEFINE keys_ == IF lost' >= MaxStatusFailures THEN Upload!OfBatch(b) ELSE {}
  <2>1. entries' = {IF e.key \in keys_
                    THEN IF Upload!Terminal(e) THEN e ELSE [e EXCEPT !.note = "unavailable"]
                    ELSE e : e \in entries}
    BY <1>1, <1>12 DEF Upload!Patch
  <2> HIDE DEF keys_
  <2> QED
    BY <1>9, <2>1
<1> QED
  BY <1>10, <1>11, <1>12

LEMMA StatusRejectsIsSafe == ASSUME UploadSafe, Upload!StatusRejects PROVE UploadSafe'
<1>1. UNCHANGED <<entries, added, choice, sends, uploads, timer, mounted>> /\ timer \in BOOLEAN
  BY DEF Upload!StatusRejects, UploadSafe, UploadTyped
<1>2. poll' \in Polls /\ poll'.broken
  BY DEF Upload!StatusRejects, Upload!NoPoll, Polls
<1> QED
  BY <1>1, <1>2, EveryUploadIsKept DEF Upload!EveryFileIsFollowed

LEMMA EndPollIsSafe == ASSUME UploadSafe, Upload!EndPoll PROVE UploadSafe'
<1>0. /\ UploadTyped /\ timer \in BOOLEAN /\ mounted \in BOOLEAN /\ entries \subseteq EntryRecords
      /\ Upload!EveryFileIsFollowed
  BY DEF UploadSafe, UploadTyped, ListSafe
<1>1. UNCHANGED <<added, choice, sends, uploads, mounted>> /\ poll' = Upload!NoPoll
  BY DEF Upload!EndPoll
<1>2. poll' \in Polls
  BY <1>1 DEF Upload!NoPoll, Polls
<1>3. CASE (~mounted \/ ~\E e \in entries : Upload!Open(e)) /\ UNCHANGED <<entries, timer>>
  <2>1. Upload!EveryFileIsFollowed'
    BY <1>1, <1>3 DEF Upload!EveryFileIsFollowed, Upload!Open, Upload!Terminal
  <2> QED
    BY <1>0, <1>1, <1>2, <1>3, <2>1, EveryUploadIsKept
<1>4. CASE mounted /\ timer' = (timer \/ mounted) /\ UNCHANGED entries
  <2>1. timer' = TRUE
    BY <1>0, <1>4
  <2>2. Upload!EveryFileIsFollowed'
    BY <2>1 DEF Upload!EveryFileIsFollowed
  <2> QED
    BY <1>1, <1>2, <1>4, <2>1, <2>2, EveryUploadIsKept
<1>5. CASE UNCHANGED timer /\ Upload!Patch({e.key : e \in {f \in entries : Upload!Open(f)}},
                                           LAMBDA e : [e EXCEPT !.note = "processing"])
  <2> DEFINE open == {e.key : e \in {f \in entries : Upload!Open(f)}}
             m == [e \in entries |-> IF e.key \in open THEN [e EXCEPT !.note = "processing"] ELSE e]
  <2>1. entries' = {m[e] : e \in entries}
    BY <1>5 DEF Upload!Patch
  <2>2. \A e \in entries : /\ m[e] \in EntryRecords
                           /\ m[e].key = e.key /\ m[e].started = e.started /\ m[e].batch = e.batch
                           /\ m[e].stage = e.stage /\ m[e].serverFailed = e.serverFailed
                           /\ e.key \in open => m[e].note = "processing"
    BY <1>0 DEF EntryRecords
  <2>3. \A e \in entries : Upload!Open(e) => e.key \in open
    OBVIOUS
  <2> HIDE DEF m, open
  <2>4. Upload!EveryFileIsFollowed'
    BY <2>1, <2>2, <2>3 DEF Upload!EveryFileIsFollowed, Upload!Open, Upload!Terminal
  <2> QED
    BY <1>0, <1>1, <1>2, <1>5, <2>1, <2>2, <2>4, ReportsAreSafe
<1> QED
  BY <1>3, <1>4, <1>5 DEF Upload!EndPoll, Upload!SchedulePoll, Upload!StillOpen

LEMMA UploadStepSafe == UploadSafe /\ [Upload!UploadNext]_Upload!uploadVars => UploadSafe'
<1> SUFFICES ASSUME UploadSafe, [Upload!UploadNext]_Upload!uploadVars PROVE UploadSafe'
  OBVIOUS
<1>1. CASE UNCHANGED Upload!uploadVars
  <2>1. UNCHANGED <<entries, added, choice, sends, uploads, timer, poll, mounted>>
    BY <1>1 DEF Upload!uploadVars
  <2>2. timer \in BOOLEAN /\ poll \in Polls
    BY DEF UploadSafe, UploadTyped
  <2>3. Upload!EveryFileIsFollowed'
    BY <2>1 DEF UploadSafe, Upload!EveryFileIsFollowed, Upload!Open, Upload!Terminal
  <2> QED
    BY <2>1, <2>2, <2>3, EveryUploadIsKept
<1> QED
  BY <1>1, AddFilesIsSafe, ChooseIsSafe, RemoveIsSafe, CreateIsSafe, PutIsSafe, BatchSentIsSafe, ServerWorksIsSafe,
     StartPollIsSafe, ReadStatusIsSafe, StatusRejectsIsSafe, EndPollIsSafe, CloseIsSafe DEF Upload!UploadNext

LEMMA ReadersAreUsed == ASSUME UploadSafe PROVE Upload!ShownReadersAreUsed
<1> SUFFICES ASSUME mounted, NEW e \in entries, uploads[e.key].state \in {"working", "ready"}
             PROVE  uploads[e.key].readers = choice
  BY DEF Upload!ShownReadersAreUsed
<1>1. Upload!HoldsReaders(e)
  BY DEF UploadSafe, ListSafe, ServerAgrees, Upload!HoldsReaders
<1> QED
  BY <1>1 DEF UploadSafe, ReadersAgree

-----------------------------------------------------------------------------
(* The pages that poll, and the panel                                      *)

(* What a page that polls shows keeps up, whatever answers are late or     *)
(* say that they failed: every uploaded file is followed to its end, or    *)
(* shown as not, and has the readers the dialog shows (upload-flow.tsx);   *)
(* the page of sources follows its draft, offers Retry or has polled as    *)
(* often as it does, unless the Retry was taken away                       *)
(* (sources-workspace.tsx); the status line asks on, and never shows a     *)
(* stage its turn has not reached.  A status call or a poll of the two     *)
(* admin pages that is rejected ends its loop, for nothing catches it:     *)
(* the theorem says that no other failure does.                            *)
THEOREM PollsGoOn == Spec => []PollsKeepUp
<1> DEFINE Safe == /\ part = "upload" => UploadSafe
                   /\ part = "page" => PageSafe
                   /\ part = "progress" => ProgressSafe
<1>1. Init => Safe
  BY UploadInitSafe, PageInitSafe, ProgressInitSafe DEF Init
<1>2. Safe /\ [Next]_allVars => Safe'
  <2> SUFFICES ASSUME Safe, [Next]_allVars PROVE Safe'
    OBVIOUS
  <2>1. part' = part
    BY DEF Next, allVars
  <2>2. ASSUME part = "upload" PROVE UploadSafe'
    <3>1. [Upload!UploadNext]_Upload!uploadVars
      BY <2>2 DEF Next, allVars, slots, Upload!uploadVars
    <3> QED
      BY <2>2, <3>1, UploadStepSafe
  <2>3. ASSUME part = "page" PROVE PageSafe'
    <3>1. [Sources!PageNext]_Sources!pageVars
      BY <2>3 DEF Next, allVars, slots, Sources!pageVars
    <3> QED
      BY <2>3, <3>1, PageStepSafe
  <2>4. ASSUME part = "progress" PROVE ProgressSafe'
    <3>1. [Progress!ProgressNext]_Progress!progressVars
      BY <2>4 DEF Next, allVars, slots, Progress!progressVars
    <3> QED
      BY <2>4, <3>1, ProgressStepSafe
  <2> QED
    BY <2>1, <2>2, <2>3, <2>4
<1>3. Safe => PollsKeepUp
  <2>1. ASSUME UploadSafe PROVE Upload!EveryFileIsFollowed /\ Upload!ShownReadersAreUsed
    BY <2>1, ReadersAreUsed DEF UploadSafe
  <2>2. ASSUME PageSafe PROVE Sources!PageFollowsTheDraft
    BY <2>2 DEF PageSafe
  <2> QED
    BY <2>1, <2>2, LineIsReached DEF PollsKeepUp
<1> QED
  BY <1>1, <1>2, <1>3, PTL DEF Spec

(* The panel shows the document it was opened for or still waits for it,   *)
(* beside the turn whose citation it highlights, whatever documents arrive *)
(* late, whichever answer comes last and whatever links come back          *)
(* (chat-view.tsx, evidence-panel.tsx).                                    *)
THEOREM PanelKeepsItsDocument == Spec => []PanelShowsItsDocument
<1> DEFINE Safe == part = "panel" => PanelSafe
<1>1. Init => Safe
  BY PanelInitSafe DEF Init
<1>2. Safe /\ [Next]_allVars => Safe'
  <2> SUFFICES ASSUME Safe, [Next]_allVars, part' = "panel" PROVE PanelSafe'
    OBVIOUS
  <2>1. part = "panel"
    BY DEF Next, allVars
  <2>2. [Panel!PanelNext]_Panel!panelVars
    BY <2>1 DEF Next, allVars, slots, Panel!panelVars
  <2> QED
    BY <2>1, <2>2, PanelStepSafe
<1>3. Safe => PanelShowsItsDocument
  BY DEF PanelSafe, PanelShowsItsDocument
<1> QED
  BY <1>1, <1>2, <1>3, PTL DEF Spec
-----------------------------------------------------------------------------
(* ChatClient.  Its turns have the slot of those of ViewAs; the question   *)
(* in flight is its variable pending, and the address bar its url.         *)

session      == v1
conversation == v3
question     == v4
guard        == v5
stoppedRoute == v6
asks         == v7
stops        == v8
lookups      == v9
address      == v10
asked        == v11
hurried      == v12

USE DEF turns, session, conversation, question, guard, stoppedRoute, asks, stops, lookups, address, asked, hurried

ChatTurns == [ask : Nat, shown : {"answer", "failed", "stopped"}, known : BOOLEAN]

Outcomes == {"running", "answered", "failed", "unstored", "cancelled"}

AskActions == [ask : Nat, session : Tab!Sessions, token : Nat, prior : Seq(ChatTurns), into : Nat,
               replaces : Nat, outcome : Outcomes]

StopActions == [ask : Nat, session : Tab!Sessions, prior : Seq(ChatTurns), replaces : Nat, into : Nat,
                reply : {"none", "ok", "refused"}]

LookupActions == [session : Tab!Sessions, turn : Nat, prior : Seq(ChatTurns), into : Nat]

TabTyped ==
  /\ session \in Tab!Sessions /\ turns \in Seq(ChatTurns) /\ conversation \in Nat /\ question \in 0..asked
  /\ guard \in [Tab!Sessions -> Nat] /\ stoppedRoute \in [Tab!Sessions -> Nat]
  /\ asks \subseteq AskActions /\ stops \subseteq StopActions /\ lookups \subseteq LookupActions
  /\ asked \in Nat

(* A question is in the transcript once, and what is retried is no answer. *)
AskedBefore(list, n) == \A i \in DOMAIN list : list[i].ask \in 1..n

NoneTwice(list) == \A i, j \in DOMAIN list : list[i].ask = list[j].ask => i = j

NoAnswer(list, replaces) == \A i \in DOMAIN list : list[i].ask = replaces => list[i].shown # "answer"

TurnsAreOfQuestions ==
  /\ AskedBefore(turns, asked) /\ NoneTwice(turns)
  /\ question # 0 => \A i \in DOMAIN turns : turns[i].ask # question

(* The one action whose reply will be placed is that of the question in    *)
(* flight, and it knows the transcript on the screen.                      *)
Wanted(a) == a.session = session /\ a.token = guard[session]

AskFits(a) ==
  /\ a.ask \in 1..asked /\ a.token <= guard[a.session] /\ a.session <= session
  /\ a.session < session => a.token < guard[a.session]
  /\ Wanted(a) <=> a.ask = question
  /\ Wanted(a) => a.prior = turns /\ a.into = conversation /\ NoAnswer(turns, a.replaces)

AsksAreNumbered == \A a, b \in asks : a.ask = b.ask => a = b

LookupFits(l) ==
  /\ l.session = session /\ question = 0 /\ stops = {} /\ lookups = {l}
  /\ l.prior = turns /\ l.into = conversation /\ NoAnswer(turns, l.turn)

(* A stop is awaited while its question is in flight, or after its reply   *)
(* has come, which then was that of a cancelled turn if the stop worked.   *)
StopsInFlight(s) ==
  /\ s.ask = question /\ s.prior = turns
  /\ \E a \in asks : /\ a.ask = s.ask /\ a.replaces = s.replaces /\ s.into = Tab!ConversationOf(a)
                     /\ s.reply = "ok" => a.outcome = "cancelled"

StopsTooLate(s) ==
  /\ question = 0 /\ \A a \in asks : a.ask # s.ask
  /\ conversation \in {0, s.into}
  /\ s.reply = "ok" =>
       conversation = s.into
       /\ \E known \in BOOLEAN : turns = Tab!Place(s.prior, Tab!Turn(s.ask, "stopped", known), s.replaces)

StopFits(s) ==
  /\ s.session = session /\ stops = {s} /\ s.ask \in 1..asked
  /\ StopsInFlight(s) \/ StopsTooLate(s)

AddressesFit ==
  /\ address \in {0, conversation} /\ stoppedRoute[session] \in {0, conversation}
  /\ \A s \in Tab!Sessions \ {session} : stoppedRoute[s] = 0

(* Nothing is said of a member who did not wait.                           *)
TabSafe ==
  /\ hurried \in BOOLEAN
  /\ ~hurried =>
       /\ TabTyped /\ TurnsAreOfQuestions /\ AsksAreNumbered /\ AddressesFit
       /\ \A a \in asks : AskFits(a)
       /\ \A l \in lookups : LookupFits(l)
       /\ \A s \in stops : StopFits(s)

(* What is placed anew is one turn, in the place of what it replaces.      *)
PlacedIn(new, list, t, r) ==
  /\ new \in Seq(ChatTurns) /\ NoneTwice(new)
  /\ \A j \in DOMAIN new : new[j] = t \/ (j \in DOMAIN list /\ new[j] = list[j])
  /\ \A i \in DOMAIN list : list[i].ask # r \/ r = 0 => i \in DOMAIN new /\ new[i] = list[i]

(* Placing a turn of a question that the transcript does not have yet.     *)
LEMMA PlacedOnce ==
  ASSUME NEW list \in Seq(ChatTurns), NEW t \in ChatTurns, NEW r \in Nat, NoneTwice(list),
         \A i \in DOMAIN list : list[i].ask # t.ask
  PROVE  PlacedIn(Tab!Place(list, t, r), list, t, r)
<1> DEFINE new == Tab!Place(list, t, r)
<1>1. CASE r = 0
  <2>1. new = Append(list, t)
    BY <1>1 DEF Tab!Place
  <2> HIDE DEF new
  <2>2. /\ new \in Seq(ChatTurns) /\ DOMAIN new = 1..(Len(list) + 1) /\ DOMAIN list = 1..Len(list)
        /\ Len(list) \in Nat /\ new[Len(list) + 1] = t /\ \A i \in 1..Len(list) : new[i] = list[i]
    BY <2>1
  <2>3. NoneTwice(new)
    <3> SUFFICES ASSUME NEW i \in DOMAIN new, NEW j \in DOMAIN new, new[i].ask = new[j].ask PROVE i = j
      BY DEF NoneTwice
    <3>1. CASE i \in DOMAIN list /\ j \in DOMAIN list
      BY <2>2, <3>1 DEF NoneTwice
    <3>2. CASE i = Len(list) + 1 \/ j = Len(list) + 1
      BY <2>2, <3>2
    <3> QED
      BY <2>2, <3>1, <3>2
  <2>4. /\ \A j \in DOMAIN new : new[j] = t \/ (j \in DOMAIN list /\ new[j] = list[j])
        /\ \A i \in DOMAIN list : i \in DOMAIN new /\ new[i] = list[i]
    BY <2>2
  <2> QED
    BY <2>2, <2>3, <2>4 DEF new, PlacedIn
<1>2. CASE r # 0
  <2>1. new = [i \in DOMAIN list |-> IF list[i].ask = r THEN t ELSE list[i]]
    BY <1>2 DEF Tab!Place
  <2> HIDE DEF new
  <2>2. /\ DOMAIN new = DOMAIN list /\ DOMAIN list = 1..Len(list) /\ Len(list) \in Nat
        /\ \A i \in DOMAIN list : new[i] = IF list[i].ask = r THEN t ELSE list[i]
    BY <2>1
  <2>3. new \in Seq(ChatTurns)
    <3>1. \A i \in 1..Len(list) : new[i] \in ChatTurns
      BY <2>2
    <3>2. new \in [1..Len(list) -> ChatTurns]
      BY <2>1, <2>2, <3>1
    <3> QED
      BY <2>2, <3>2
  <2>4. NoneTwice(new)
    BY <2>2 DEF NoneTwice
  <2>5. /\ \A j \in DOMAIN new : new[j] = t \/ (j \in DOMAIN list /\ new[j] = list[j])
        /\ \A i \in DOMAIN list : list[i].ask # r => i \in DOMAIN new /\ new[i] = list[i]
    BY <2>2
  <2> QED
    BY <1>2, <2>3, <2>4, <2>5 DEF new, PlacedIn
<1> QED
  BY <1>1, <1>2

LEMMA TabInitSafe == Tab!Init => TabSafe
<1> SUFFICES ASSUME Tab!Init PROVE TabSafe
  OBVIOUS
<1>1. 1 \in Tab!Sessions
  BY AChatIsOpened DEF Tab!Sessions
<1>2. turns = <<>> /\ asks = {} /\ stops = {} /\ lookups = {} /\ hurried = FALSE
      /\ stoppedRoute = [s \in Tab!Sessions |-> 0] /\ session = 1 /\ address = 0
  BY DEF Tab!Init
<1>3. TabTyped
  BY <1>1 DEF Tab!Init, TabTyped
<1>4. TurnsAreOfQuestions /\ AsksAreNumbered /\ AddressesFit
  BY <1>1, <1>2 DEF TurnsAreOfQuestions, AskedBefore, NoneTwice, AsksAreNumbered, AddressesFit
<1> QED
  BY <1>2, <1>3, <1>4 DEF TabSafe

-----------------------------------------------------------------------------

LEMMA WithoutWaiting ==
  ASSUME TabSafe, ~hurried
  PROVE  (stops = {} /\ lookups = {}) \/ Tab!Awaited
BY DEF TabSafe, LookupFits, StopFits, Tab!Awaited

LEMMA QuestionIsSafe ==
  ASSUME TabSafe, ~hurried, NEW r \in Nat, NoAnswer(turns, r), question = 0, stops = {},
         Tab!Send(session, turns, conversation, r), lookups' = {}, hurried' = FALSE,
         UNCHANGED <<session, turns, conversation, guard, stops, address>>
  PROVE  TabSafe'
<1>0. /\ TabTyped /\ TurnsAreOfQuestions /\ AsksAreNumbered /\ AddressesFit
      /\ \A a \in asks : AskFits(a)
  BY DEF TabSafe
<1>. PICK new : new = [ask |-> asked + 1, session |-> session, token |-> guard[session], prior |-> turns,
                       into |-> conversation, replaces |-> r, outcome |-> "running"]
  OBVIOUS
<1>1. /\ asked' = asked + 1 /\ asks' = asks \cup {new} /\ question' = asked + 1
      /\ stoppedRoute' = [stoppedRoute EXCEPT ![session] = 0]
  BY DEF Tab!Send
<1>2. /\ new \in AskActions /\ new.ask = asked + 1 /\ new.session = session /\ new.token = guard[session]
      /\ new.prior = turns /\ new.into = conversation /\ new.replaces = r
  BY <1>0 DEF TabTyped, AskActions, Outcomes
<1>3. asked \in Nat /\ \A a \in asks : a.ask \in 1..asked /\ ~Wanted(a)
  BY <1>0 DEF TabTyped, AskFits
<1>4. TabTyped'
  BY <1>0, <1>1, <1>2 DEF TabTyped
<1>5. AsksAreNumbered'
  BY <1>0, <1>1, <1>2, <1>3 DEF AsksAreNumbered
<1>6. TurnsAreOfQuestions'
  BY <1>0, <1>1, <1>3 DEF TurnsAreOfQuestions, AskedBefore
<1>7. AddressesFit'
  BY <1>0, <1>1 DEF AddressesFit, TabTyped
<1>8. \A a \in asks : AskFits(a)'
  <2> SUFFICES ASSUME NEW a \in asks PROVE AskFits(a)'
    OBVIOUS
  <2> QED
    BY <1>0, <1>1, <1>3 DEF AskFits, Wanted
<1>9. AskFits(new)'
  <2>1. guard[session] \in Nat /\ session \in Nat
    BY <1>0 DEF TabTyped, Tab!Sessions
  <2> QED
    BY <1>1, <1>2, <1>3, <2>1 DEF AskFits, Wanted, NoAnswer
<1>10. \A a \in asks' : AskFits(a)'
  BY <1>1, <1>8, <1>9
<1> QED
  BY <1>4, <1>5, <1>6, <1>7, <1>10 DEF TabSafe

LEMMA SubmitIsSafe == ASSUME TabSafe, ~hurried', Tab!Submit PROVE TabSafe'
<1>1. ~hurried /\ ~Tab!Awaited /\ question = 0 /\ hurried' = FALSE
  BY DEF Tab!Submit, TabSafe
<1>2. stops = {} /\ lookups = {} /\ lookups' = {}
  BY <1>1, WithoutWaiting DEF Tab!Submit
<1>3. NoAnswer(turns, 0)
  BY <1>1 DEF TabSafe, TurnsAreOfQuestions, AskedBefore, NoAnswer, TabTyped
<1>4. Tab!Send(session, turns, conversation, 0) /\ UNCHANGED <<session, turns, conversation, guard, stops, address>>
  BY DEF Tab!Submit
<1> QED
  BY <1>1, <1>2, <1>3, <1>4, QuestionIsSafe

LEMMA RetryIsSafe == ASSUME TabSafe, ~hurried', Tab!Retry PROVE TabSafe'
<1>1. ~hurried /\ ~Tab!Awaited /\ question = 0 /\ hurried' = FALSE
  BY DEF Tab!Retry, TabSafe
<1>2. stops = {} /\ lookups = {}
  BY <1>1, WithoutWaiting
<1>3. UNCHANGED <<session, turns, conversation, guard, stops, address>>
  BY DEF Tab!Retry
<1>4. /\ TabTyped /\ TurnsAreOfQuestions /\ AsksAreNumbered /\ AddressesFit
      /\ \A a \in asks : AskFits(a)
  BY <1>1 DEF TabSafe
<1>5. PICK i \in DOMAIN turns :
        IF turns[i].shown = "answer" \/ turns[i].known \/ conversation = 0
        THEN /\ Tab!Send(session, turns, conversation, IF turns[i].shown = "answer" THEN 0 ELSE turns[i].ask)
             /\ UNCHANGED lookups
        ELSE /\ lookups' = lookups \cup {[session |-> session, turn |-> turns[i].ask,
                                          prior |-> turns, into |-> conversation]}
             /\ UNCHANGED <<asked, asks, stoppedRoute, question>>
  BY DEF Tab!Retry
<1>6. turns[i] \in ChatTurns /\ turns[i].ask \in 1..asked
  BY <1>4 DEF TabTyped, TurnsAreOfQuestions, AskedBefore
<1>7. turns[i].shown # "answer" => NoAnswer(turns, turns[i].ask)
  BY <1>4 DEF TurnsAreOfQuestions, NoneTwice, NoAnswer
<1>8. CASE turns[i].shown = "answer" \/ turns[i].known \/ conversation = 0
  <2>1. PICK r \in Nat : r = IF turns[i].shown = "answer" THEN 0 ELSE turns[i].ask
    BY <1>6 DEF ChatTurns
  <2>2. NoAnswer(turns, r)
    <3>1. NoAnswer(turns, 0)
      BY <1>4 DEF TurnsAreOfQuestions, AskedBefore, NoAnswer, TabTyped
    <3> QED
      BY <1>7, <2>1, <3>1
  <2>3. Tab!Send(session, turns, conversation, r) /\ UNCHANGED lookups
    BY <1>5, <1>8, <2>1
  <2>4. lookups' = {}
    BY <1>2, <2>3
  <2> QED
    BY <1>1, <1>2, <1>3, <2>2, <2>3, <2>4, QuestionIsSafe
<1>9. CASE ~(turns[i].shown = "answer" \/ turns[i].known \/ conversation = 0)
  <2>. PICK l : l = [session |-> session, turn |-> turns[i].ask, prior |-> turns, into |-> conversation]
    OBVIOUS
  <2>1. lookups' = {l} /\ UNCHANGED <<asked, asks, stoppedRoute, question>>
    BY <1>2, <1>5, <1>9
  <2>2. /\ l \in LookupActions /\ l.session = session /\ l.prior = turns /\ l.into = conversation
        /\ l.turn = turns[i].ask
    BY <1>4, <1>6 DEF TabTyped, LookupActions, ChatTurns
  <2>3. NoAnswer(turns, l.turn)
    BY <1>7, <1>9, <2>2
  <2>4. LookupFits(l)'
    BY <1>1, <1>2, <1>3, <2>1, <2>2, <2>3 DEF LookupFits, NoAnswer
  <2>5. TabTyped' /\ TurnsAreOfQuestions' /\ AsksAreNumbered' /\ AddressesFit'
    BY <1>3, <1>4, <2>1, <2>2 DEF TabTyped, TurnsAreOfQuestions, AsksAreNumbered, AddressesFit, AskedBefore
  <2>6. ASSUME NEW a \in asks PROVE AskFits(a)'
    BY <1>3, <1>4, <2>1 DEF AskFits, Wanted
  <2> QED
    BY <1>1, <1>2, <1>3, <2>1, <2>4, <2>5, <2>6 DEF TabSafe
<1> QED
  BY <1>8, <1>9

LEMMA LookupReturnsIsSafe == ASSUME TabSafe, ~hurried', Tab!LookupReturns PROVE TabSafe'
<1>1. ~hurried /\ hurried' = FALSE /\ UNCHANGED <<session, turns, conversation, guard, stops, address>>
  BY DEF Tab!LookupReturns, TabSafe
<1>2. PICK l \in lookups : lookups' = lookups \ {l} /\ Tab!Send(l.session, l.prior, l.into, l.turn)
  BY DEF Tab!LookupReturns
<1>3. LookupFits(l) /\ l \in LookupActions
  BY <1>1 DEF TabSafe, TabTyped
<1>4. /\ l.session = session /\ l.prior = turns /\ l.into = conversation /\ question = 0 /\ stops = {}
      /\ lookups' = {} /\ NoAnswer(turns, l.turn) /\ l.turn \in Nat
  BY <1>2, <1>3 DEF LookupFits, LookupActions
<1>5. Tab!Send(session, turns, conversation, l.turn)
  BY <1>2, <1>4
<1> QED
  BY <1>1, <1>4, <1>5, QuestionIsSafe

SameAsk(b, a) ==
  /\ b.ask = a.ask /\ b.session = a.session /\ b.token = a.token /\ b.prior = a.prior /\ b.into = a.into
  /\ b.replaces = a.replaces

(* What changes in the actions in flight is how they end.                  *)
LEMMA OutcomesAside ==
  ASSUME TabSafe, ~hurried, AsksAreNumbered', asks' \subseteq AskActions,
         \A b \in asks' : \E a \in asks : SameAsk(b, a),
         UNCHANGED <<session, turns, conversation, question, guard, stoppedRoute, lookups, address, asked, hurried>>,
         stops' \subseteq StopActions, stops = {} => stops' = {}, \A s \in stops' : StopFits(s)'
  PROVE  TabSafe'
<1>0. /\ TabTyped /\ TurnsAreOfQuestions /\ AsksAreNumbered /\ AddressesFit
      /\ \A a \in asks : AskFits(a)
      /\ \A l \in lookups : LookupFits(l)
  BY DEF TabSafe
<1>1. TabTyped'
  BY <1>0 DEF TabTyped
<1>2. TurnsAreOfQuestions' /\ AddressesFit'
  BY <1>0 DEF TurnsAreOfQuestions, AskedBefore, NoneTwice, AddressesFit
<1>3. \A b \in asks' : AskFits(b)'
  <2> SUFFICES ASSUME NEW b \in asks' PROVE AskFits(b)'
    OBVIOUS
  <2>1. PICK a \in asks : SameAsk(b, a)
    OBVIOUS
  <2>2. AskFits(a)
    BY <1>0
  <2> QED
    BY <2>1, <2>2 DEF AskFits, Wanted, NoAnswer, SameAsk
<1>4. \A l \in lookups' : LookupFits(l)'
  BY <1>0 DEF LookupFits, NoAnswer
<1> QED
  BY <1>1, <1>2, <1>3, <1>4 DEF TabSafe

LEMMA ServerEndsIsSafe == ASSUME TabSafe, ~hurried', Tab!ServerEnds PROVE TabSafe'
<1>1. /\ ~hurried
      /\ UNCHANGED <<session, turns, conversation, question, guard, stoppedRoute, lookups, address, asked, hurried>>
      /\ UNCHANGED stops
  BY DEF Tab!ServerEnds
<1>2. PICK ended \in asks, o \in {"answered", "failed", "unstored"} :
        /\ ended.outcome = "running"
        /\ asks' = (asks \ {ended}) \cup {[ended EXCEPT !.outcome = o]}
  BY DEF Tab!ServerEnds
<1>3. asks \subseteq AskActions /\ stops \subseteq StopActions /\ \A s \in stops : StopFits(s)
  BY <1>1 DEF TabSafe, TabTyped
<1>. PICK new : new = [ended EXCEPT !.outcome = o]
  OBVIOUS
<1>. PICK g : g = [a \in asks |-> IF a = ended THEN new ELSE a]
  OBVIOUS
<1>4. /\ new \in AskActions /\ new.ask = ended.ask /\ new.session = ended.session /\ new.token = ended.token
      /\ new.prior = ended.prior /\ new.into = ended.into /\ new.replaces = ended.replaces
  BY <1>3 DEF AskActions, Outcomes
<1>5. \A a \in asks : g[a] = IF a = ended THEN new ELSE a
  OBVIOUS
<1>6. asks' = {g[a] : a \in asks}
  BY <1>2, <1>5
<1>7. \A s \in stops' : StopFits(s)'
  <2> SUFFICES ASSUME NEW s \in stops PROVE StopFits(s)'
    BY <1>1
  <2>1. StopFits(s)
    BY <1>3
  <2>2. CASE StopsInFlight(s)
    <3>1. PICK a \in asks : /\ a.ask = s.ask /\ a.replaces = s.replaces /\ s.into = Tab!ConversationOf(a)
                            /\ s.reply = "ok" => a.outcome = "cancelled"
      BY <2>2 DEF StopsInFlight
    <3>2. /\ g[a].ask = s.ask /\ g[a].replaces = s.replaces /\ s.into = Tab!ConversationOf(g[a])
          /\ s.reply = "ok" => g[a].outcome = "cancelled"
      BY <1>2, <1>4, <1>5, <3>1 DEF Tab!ConversationOf
    <3>3. g[a] \in asks'
      BY <1>6
    <3>4. StopsInFlight(s)'
      BY <1>1, <2>2, <3>2, <3>3 DEF StopsInFlight
    <3> QED
      BY <1>1, <2>1, <3>4 DEF StopFits
  <2>3. CASE StopsTooLate(s)
    <3>1. \A b \in asks' : b.ask # s.ask
      BY <1>4, <1>5, <1>6, <2>3 DEF StopsTooLate
    <3>2. StopsTooLate(s)'
      BY <1>1, <2>3, <3>1 DEF StopsTooLate
    <3> QED
      BY <1>1, <2>1, <3>2 DEF StopFits
  <2> QED
    BY <2>1, <2>2, <2>3 DEF StopFits
<1>8. stops' \subseteq StopActions /\ (stops = {} => stops' = {})
  BY <1>1, <1>3
<1>9. \A a \in asks : g[a] \in AskActions /\ SameAsk(g[a], a)
  BY <1>3, <1>4, <1>5 DEF SameAsk
<1>10. AsksAreNumbered'
  <2> SUFFICES ASSUME NEW x \in asks', NEW y \in asks', x.ask = y.ask PROVE x = y
    BY DEF AsksAreNumbered
  <2>1. PICK a \in asks, b \in asks : x = g[a] /\ y = g[b]
    BY <1>6
  <2>2. a.ask = b.ask
    BY <1>9, <2>1 DEF SameAsk
  <2> QED
    BY <1>1, <2>1, <2>2 DEF TabSafe, AsksAreNumbered
<1>11. asks' \subseteq AskActions /\ \A b \in asks' : \E a \in asks : SameAsk(b, a)
  BY <1>6, <1>9
<1> QED
  BY <1>1, <1>7, <1>8, <1>10, <1>11, OutcomesAside

LEMMA ServerCancelsIsSafe == ASSUME TabSafe, ~hurried', Tab!ServerCancels PROVE TabSafe'
<1>1. /\ ~hurried
      /\ UNCHANGED <<session, turns, conversation, question, guard, stoppedRoute, lookups, address, asked, hurried>>
  BY DEF Tab!ServerCancels
<1>2. PICK s \in stops, ok \in BOOLEAN :
        /\ s.reply = "none"
        /\ ok => \E a \in asks : a.ask = s.ask /\ a.outcome = "running"
        /\ stops' = (stops \ {s}) \cup {[s EXCEPT !.reply = IF ok THEN "ok" ELSE "refused"]}
        /\ asks' = IF ok THEN {IF a.ask = s.ask THEN [a EXCEPT !.outcome = "cancelled"] ELSE a : a \in asks}
                         ELSE asks
  BY DEF Tab!ServerCancels
<1>3. asks \subseteq AskActions /\ s \in StopActions /\ StopFits(s) /\ stops = {s}
  BY <1>1 DEF TabSafe, TabTyped, StopFits
<1>. PICK said : said = [s EXCEPT !.reply = IF ok THEN "ok" ELSE "refused"]
  OBVIOUS
<1>. PICK g : g = [a \in asks |-> IF ok /\ a.ask = s.ask THEN [a EXCEPT !.outcome = "cancelled"] ELSE a]
  OBVIOUS
<1>4. /\ said \in StopActions /\ said.ask = s.ask /\ said.session = s.session /\ said.prior = s.prior
      /\ said.replaces = s.replaces /\ said.into = s.into /\ said.reply = IF ok THEN "ok" ELSE "refused"
  BY <1>3 DEF StopActions
<1>5. \A a \in asks : g[a] = IF ok /\ a.ask = s.ask THEN [a EXCEPT !.outcome = "cancelled"] ELSE a
  OBVIOUS
<1>6. ASSUME NEW a \in asks
      PROVE  /\ g[a] \in AskActions /\ SameAsk(g[a], a)
             /\ ok /\ a.ask = s.ask => g[a].outcome = "cancelled"
  <2>. PICK new : new = [a EXCEPT !.outcome = "cancelled"]
    OBVIOUS
  <2>1. new \in AskActions /\ SameAsk(new, a) /\ new.outcome = "cancelled" /\ a \in AskActions /\ SameAsk(a, a)
    BY <1>3 DEF AskActions, Outcomes, SameAsk
  <2> QED
    BY <1>5, <2>1
<1>7. asks' = {g[a] : a \in asks}
  <2>1. CASE ok
    BY <1>2, <1>5, <2>1
  <2>2. CASE ~ok
    <3>1. \A a \in asks : g[a] = a
      BY <1>5, <2>2
    <3> QED
      BY <1>2, <2>2, <3>1
  <2> QED
    BY <2>1, <2>2
<1>8. stops' = {said}
  BY <1>2, <1>3
<1>9. StopFits(said)'
  <2>1. CASE StopsInFlight(s)
    <3>1. PICK a \in asks : a.ask = s.ask /\ a.replaces = s.replaces /\ s.into = Tab!ConversationOf(a)
      BY <2>1 DEF StopsInFlight
    <3>2. ok => g[a].outcome = "cancelled"
      BY <1>6, <3>1
    <3>3. g[a].ask = said.ask /\ g[a].replaces = said.replaces /\ said.into = Tab!ConversationOf(g[a])
      BY <1>4, <1>6, <3>1 DEF Tab!ConversationOf, SameAsk
    <3>4. g[a] \in asks'
      BY <1>7
    <3>5. said.reply = "ok" => ok
      BY <1>4
    <3>6. StopsInFlight(said)'
      BY <1>1, <1>4, <2>1, <3>2, <3>3, <3>4, <3>5 DEF StopsInFlight
    <3> QED
      BY <1>1, <1>3, <1>4, <1>8, <3>6 DEF StopFits
  <2>2. CASE StopsTooLate(s)
    <3>1. ~ok /\ asks' = asks /\ said.reply = "refused"
      BY <1>2, <1>4, <2>2 DEF StopsTooLate
    <3>2. StopsTooLate(said)'
      BY <1>1, <1>4, <2>2, <3>1 DEF StopsTooLate
    <3> QED
      BY <1>1, <1>3, <1>4, <1>8, <3>2 DEF StopFits
  <2> QED
    BY <1>3, <2>1, <2>2 DEF StopFits
<1>10. stops' \subseteq StopActions /\ (stops = {} => stops' = {}) /\ \A t \in stops' : StopFits(t)'
  BY <1>3, <1>4, <1>8, <1>9
<1>11. AsksAreNumbered'
  <2> SUFFICES ASSUME NEW x \in asks', NEW y \in asks', x.ask = y.ask PROVE x = y
    BY DEF AsksAreNumbered
  <2>1. PICK a \in asks, b \in asks : x = g[a] /\ y = g[b]
    BY <1>7
  <2>2. a.ask = b.ask
    BY <1>6, <2>1 DEF SameAsk
  <2> QED
    BY <1>1, <2>1, <2>2 DEF TabSafe, AsksAreNumbered
<1>12. asks' \subseteq AskActions /\ \A b \in asks' : \E a \in asks : SameAsk(b, a)
  BY <1>6, <1>7
<1> QED
  BY <1>1, <1>10, <1>11, <1>12, OutcomesAside

LEMMA StoppingIsSafe == ASSUME TabSafe, ~hurried', Tab!Stop PROVE TabSafe'
<1>1. /\ ~hurried /\ ~\E l \in lookups : l.session = session
      /\ hurried' = FALSE
      /\ UNCHANGED <<session, turns, conversation, question, guard, stoppedRoute, asks, lookups, address, asked>>
  BY DEF Tab!Stop, TabSafe
<1>2. stops = {} /\ lookups = {}
  BY <1>1 DEF TabSafe, StopFits, LookupFits, Tab!Stop
<1>3. PICK a \in asks :
        /\ a.ask = question
        /\ stops' = stops \cup {[ask |-> question, session |-> session, prior |-> turns,
                                 replaces |-> a.replaces, into |-> Tab!ConversationOf(a), reply |-> "none"]}
  BY DEF Tab!Stop
<1>. PICK s : s = [ask |-> question, session |-> session, prior |-> turns,
                   replaces |-> a.replaces, into |-> Tab!ConversationOf(a), reply |-> "none"]
  OBVIOUS
<1>4. /\ TabTyped /\ TurnsAreOfQuestions /\ AsksAreNumbered /\ AddressesFit
      /\ \A b \in asks : AskFits(b)
  BY <1>1 DEF TabSafe
<1>5. a \in AskActions /\ a.ask \in 1..asked
  BY <1>4 DEF TabTyped, AskFits
<1>6. Tab!ConversationOf(a) \in Nat
  BY <1>5 DEF Tab!ConversationOf, AskActions
<1>7. /\ s \in StopActions /\ s.ask = question /\ s.session = session /\ s.prior = turns
      /\ s.replaces = a.replaces /\ s.into = Tab!ConversationOf(a) /\ s.reply = "none"
  BY <1>3, <1>4, <1>5, <1>6 DEF TabTyped, StopActions, AskActions
<1>8. stops' = {s}
  BY <1>2, <1>3
<1>9. StopsInFlight(s)'
  BY <1>1, <1>3, <1>7 DEF StopsInFlight
<1>10. StopFits(s)'
  BY <1>1, <1>3, <1>5, <1>7, <1>8, <1>9 DEF StopFits
<1>11. TabTyped'
  BY <1>1, <1>4, <1>7, <1>8 DEF TabTyped
<1>12. TurnsAreOfQuestions' /\ AsksAreNumbered' /\ AddressesFit'
  BY <1>1, <1>4 DEF TurnsAreOfQuestions, AskedBefore, NoneTwice, AsksAreNumbered, AddressesFit
<1>13. \A b \in asks' : AskFits(b)'
  BY <1>1, <1>4 DEF AskFits, Wanted, NoAnswer
<1> QED
  BY <1>1, <1>2, <1>8, <1>10, <1>11, <1>12, <1>13 DEF TabSafe

(* The reply of an ask: it is placed when it is the wanted one.            *)
LEMMA AskReturnsIsSafe ==
  ASSUME TabSafe, ~hurried', Tab!AskReturns
  PROVE  TabSafe' /\ Tab!AnswersAreKept
<1>1. /\ ~hurried /\ hurried' = FALSE /\ UNCHANGED <<session, guard, stops, lookups, asked>>
  BY DEF Tab!AskReturns, TabSafe
<1>2. PICK a \in asks :
        /\ a.outcome # "running"
        /\ asks' = asks \ {a}
        /\ IF Tab!Current(a) THEN Tab!Land(a) ELSE Tab!FinishStoppedRoute(a)
  BY DEF Tab!AskReturns
<1>3. /\ TabTyped /\ TurnsAreOfQuestions /\ AsksAreNumbered /\ AddressesFit
      /\ \A b \in asks : AskFits(b)
      /\ \A l \in lookups : LookupFits(l)
      /\ \A s \in stops : StopFits(s)
  BY <1>1 DEF TabSafe
<1>4. /\ a \in AskActions /\ a.ask \in 1..asked /\ asked \in Nat /\ session \in Nat /\ a.session \in Nat
      /\ a.into \in Nat /\ a.replaces \in Nat /\ conversation \in Nat /\ turns \in Seq(ChatTurns)
  BY <1>3 DEF TabTyped, AskFits, AskActions, Tab!Sessions
<1>5. AsksAreNumbered' /\ asks' \subseteq AskActions
  BY <1>2, <1>3 DEF AsksAreNumbered, TabTyped
<1>6. Tab!Current(a) <=> Wanted(a)
  BY <1>3, <1>4 DEF AskFits, Wanted, Tab!Current, TabTyped, AskActions
<1>7. CASE Wanted(a)
  <2>1. /\ a.ask = question /\ question # 0 /\ a.prior = turns /\ a.into = conversation /\ a.session = session
        /\ NoAnswer(turns, a.replaces)
    BY <1>3, <1>4, <1>7 DEF AskFits, Wanted
  <2>. PICK t : t = Tab!TurnOf(a)
    OBVIOUS
  <2>. PICK opens \in BOOLEAN :
         opens <=> a.outcome = "answered" \/ (a.outcome \in {"failed", "cancelled"} /\ a.into = 0)
    OBVIOUS
  <2>2. /\ turns' = Tab!Place(turns, t, a.replaces)
        /\ conversation' = IF opens THEN Tab!ConversationOf(a) ELSE conversation
        /\ question' = 0
        /\ address' = IF a.outcome = "answered" THEN Tab!ConversationOf(a) ELSE address
        /\ stoppedRoute' = stoppedRoute
    BY <1>2, <1>6, <1>7, <2>1 DEF Tab!Land, Tab!Mounted
  <2>3. /\ t \in ChatTurns /\ t.ask = question
        /\ a.outcome = "cancelled" => t = Tab!Turn(a.ask, "stopped", TRUE)
    <3>1. a.outcome \in {"answered", "failed", "unstored", "cancelled"}
      BY <1>2, <1>4 DEF AskActions, Outcomes
    <3>2. CASE a.outcome = "answered"
      <4>1. t = [ask |-> a.ask, shown |-> "answer", known |-> TRUE]
        BY <3>2 DEF Tab!TurnOf, Tab!Turn
      <4> QED
        BY <1>4, <2>1, <3>2, <4>1 DEF ChatTurns
    <3>3. CASE a.outcome = "failed"
      <4>1. t = [ask |-> a.ask, shown |-> "failed", known |-> TRUE]
        BY <3>3 DEF Tab!TurnOf, Tab!Turn
      <4> QED
        BY <1>4, <2>1, <3>3, <4>1 DEF ChatTurns
    <3>4. CASE a.outcome = "unstored"
      <4>1. t = [ask |-> a.ask, shown |-> "failed", known |-> FALSE]
        BY <3>4 DEF Tab!TurnOf, Tab!Turn
      <4> QED
        BY <1>4, <2>1, <3>4, <4>1 DEF ChatTurns
    <3>5. CASE a.outcome = "cancelled"
      <4>1. t = [ask |-> a.ask, shown |-> "stopped", known |-> TRUE]
        BY <3>5 DEF Tab!TurnOf, Tab!Turn
      <4> QED
        BY <1>4, <2>1, <3>5, <4>1 DEF ChatTurns, Tab!Turn
    <3> QED
      BY <3>1, <3>2, <3>3, <3>4, <3>5
  <2>4. NoneTwice(turns) /\ \A i \in DOMAIN turns : turns[i].ask # t.ask
    BY <1>3, <2>1, <2>3 DEF TurnsAreOfQuestions
  <2>5. /\ turns' \in Seq(ChatTurns) /\ NoneTwice(turns')
        /\ \A j \in DOMAIN turns' : turns'[j] = t \/ (j \in DOMAIN turns /\ turns'[j] = turns[j])
        /\ \A i \in DOMAIN turns : turns[i].ask # a.replaces \/ a.replaces = 0
                                     => i \in DOMAIN turns' /\ turns'[i] = turns[i]
    <3>1. PlacedIn(Tab!Place(turns, t, a.replaces), turns, t, a.replaces)
      BY <1>4, <2>3, <2>4, PlacedOnce
    <3> QED
      BY <2>2, <3>1 DEF PlacedIn
  <2>6. TurnsAreOfQuestions'
    <3>1. AskedBefore(turns', asked')
      BY <1>1, <1>3, <1>4, <2>1, <2>3, <2>5 DEF TurnsAreOfQuestions, AskedBefore
    <3> QED
      BY <2>2, <2>5, <3>1 DEF TurnsAreOfQuestions, NoneTwice
  <2>7. Tab!AnswersAreKept
    BY <2>1, <2>5 DEF NoAnswer, Tab!AnswersAreKept
  <2>8. Tab!ConversationOf(a) = (IF conversation = 0 THEN question ELSE conversation) /\ Tab!ConversationOf(a) \in Nat
    BY <1>4, <2>1 DEF Tab!ConversationOf
  <2>9. TabTyped'
    BY <1>1, <1>3, <1>4, <1>5, <2>2, <2>5, <2>8 DEF TabTyped
  <2>10. AddressesFit'
    BY <1>1, <1>3, <2>1, <2>2, <2>8 DEF AddressesFit
  <2>11. lookups' = {}
    BY <1>1, <1>3, <2>1 DEF LookupFits
  <2>12. ASSUME NEW b \in asks' PROVE AskFits(b)'
    <3>1. b \in asks /\ b.ask # question /\ AskFits(b) /\ b.ask # 0
      BY <1>2, <1>3, <2>1 DEF AsksAreNumbered, AskFits
    <3> QED
      BY <1>1, <2>2, <3>1 DEF AskFits, Wanted
  <2>13. ASSUME NEW s \in stops PROVE StopFits(s)'
    <3>1. StopFits(s) /\ StopsInFlight(s)
      BY <1>3, <2>1 DEF StopFits, StopsTooLate
    <3>2. /\ s.ask = question /\ s.prior = turns /\ a.replaces = s.replaces /\ s.into = Tab!ConversationOf(a)
          /\ s.reply = "ok" => a.outcome = "cancelled"
      BY <1>3, <2>1, <3>1 DEF StopsInFlight, AsksAreNumbered
    <3>3. question' = 0 /\ \A b \in asks' : b.ask # s.ask
      BY <1>2, <1>3, <2>1, <2>2, <3>2 DEF AsksAreNumbered
    <3>4. conversation' \in {0, s.into}
      BY <2>2, <2>8, <3>2
    <3>5. ASSUME s.reply = "ok"
          PROVE  /\ conversation' = s.into
                 /\ \E known \in BOOLEAN : turns' = Tab!Place(s.prior, Tab!Turn(s.ask, "stopped", known), s.replaces)
      <4>1. a.outcome = "cancelled" /\ t = Tab!Turn(s.ask, "stopped", TRUE)
        BY <2>1, <2>3, <3>2, <3>5
      <4>2. conversation' = s.into
        BY <2>1, <2>2, <2>8, <3>2, <4>1
      <4>3. turns' = Tab!Place(s.prior, Tab!Turn(s.ask, "stopped", TRUE), s.replaces)
        BY <2>2, <3>2, <4>1
      <4> QED
        BY <4>2, <4>3
    <3>6. StopsTooLate(s)'
      BY <3>3, <3>4, <3>5 DEF StopsTooLate
    <3> QED
      BY <1>1, <3>1, <3>6 DEF StopFits
  <2> QED
    BY <1>1, <1>5, <2>6, <2>7, <2>9, <2>10, <2>11, <2>12, <2>13 DEF TabSafe
<1>8. CASE ~Wanted(a)
  <2>1. /\ address' = IF stoppedRoute[a.session] # 0 THEN stoppedRoute[a.session] ELSE address
        /\ stoppedRoute' = [stoppedRoute EXCEPT ![a.session] = 0]
        /\ turns' = turns /\ conversation' = conversation /\ question' = question
    BY <1>2, <1>6, <1>8 DEF Tab!FinishStoppedRoute
  <2>2. a.ask # question /\ a.session \in Tab!Sessions
    BY <1>3, <1>4, <1>8 DEF AskFits, AskActions
  <2>3. TabTyped'
    BY <1>1, <1>3, <1>5, <2>1 DEF TabTyped
  <2>4. TurnsAreOfQuestions'
    BY <1>1, <1>3, <2>1 DEF TurnsAreOfQuestions, AskedBefore, NoneTwice
  <2>5. AddressesFit'
    BY <1>1, <1>3, <2>1, <2>2 DEF AddressesFit, TabTyped
  <2>6. ASSUME NEW b \in asks' PROVE AskFits(b)'
    BY <1>1, <1>2, <1>3, <2>1 DEF AskFits, Wanted, NoAnswer
  <2>7. ASSUME NEW l \in lookups PROVE LookupFits(l)'
    BY <1>1, <1>3, <2>1 DEF LookupFits, NoAnswer
  <2>8. ASSUME NEW s \in stops PROVE StopFits(s)'
    <3>1. StopFits(s)
      BY <1>3
    <3>2. StopsInFlight(s) => StopsInFlight(s)'
      BY <1>2, <2>1, <2>2 DEF StopsInFlight
    <3>3. StopsTooLate(s) => StopsTooLate(s)'
      BY <1>2, <2>1 DEF StopsTooLate
    <3> QED
      BY <1>1, <3>1, <3>2, <3>3 DEF StopFits
  <2>9. Tab!AnswersAreKept
    BY <2>1 DEF Tab!AnswersAreKept
  <2> QED
    BY <1>1, <1>5, <2>3, <2>4, <2>5, <2>6, <2>7, <2>8, <2>9 DEF TabSafe
<1> QED
  BY <1>7, <1>8

AskedAlike(new, old) ==
  new \in Seq(ChatTurns) /\ DOMAIN new = DOMAIN old /\ \A i \in DOMAIN old : new[i].ask = old[i].ask

LEMMA PlacedAlike ==
  ASSUME NEW list \in Seq(ChatTurns), NEW r \in Nat, NEW n \in Nat, NEW known \in BOOLEAN, NEW again \in BOOLEAN
  PROVE  AskedAlike(Tab!Place(list, Tab!Turn(n, "stopped", again), r),
                    Tab!Place(list, Tab!Turn(n, "stopped", known), r))
<1> DEFINE old == Tab!Place(list, Tab!Turn(n, "stopped", known), r)
           new == Tab!Place(list, Tab!Turn(n, "stopped", again), r)
<1>. PICK t : t = Tab!Turn(n, "stopped", known)
  OBVIOUS
<1>. PICK u : u = Tab!Turn(n, "stopped", again)
  OBVIOUS
<1>1. t \in ChatTurns /\ u \in ChatTurns /\ t.ask = n /\ u.ask = n
  BY DEF Tab!Turn, ChatTurns
<1>2. CASE r = 0
  <2>1. old = Append(list, t) /\ new = Append(list, u)
    BY <1>2 DEF Tab!Place
  <2> HIDE DEF old, new
  <2> QED
    <3>1. AskedAlike(new, old)
      BY <1>1, <2>1 DEF AskedAlike
    <3> QED
      BY <3>1 DEF old, new
<1>3. CASE r # 0
  <2>1. /\ old = [i \in DOMAIN list |-> IF list[i].ask = r THEN t ELSE list[i]]
        /\ new = [i \in DOMAIN list |-> IF list[i].ask = r THEN u ELSE list[i]]
    BY <1>3 DEF Tab!Place
  <2> HIDE DEF old, new
  <2>2. DOMAIN new = DOMAIN old /\ \A i \in DOMAIN old : new[i].ask = old[i].ask
    BY <1>1, <2>1
  <2>3. DOMAIN list = 1..Len(list) /\ Len(list) \in Nat /\ \A i \in 1..Len(list) : new[i] \in ChatTurns
    BY <1>1, <2>1
  <2>4. new \in [1..Len(list) -> ChatTurns]
    BY <2>1, <2>3
  <2> QED
    <3>1. AskedAlike(new, old)
      BY <2>2, <2>3, <2>4 DEF AskedAlike
    <3> QED
      BY <3>1 DEF old, new
<1> QED
  BY <1>2, <1>3

(* The reply of a stop: the turn is shown as stopped in the place that the *)
(* question had, even if the reply of the question came first.             *)
LEMMA StopReturnsIsSafe ==
  ASSUME TabSafe, ~hurried', Tab!StopReturns
  PROVE  TabSafe' /\ Tab!AnswersAreKept
<1>1. /\ ~hurried /\ hurried' = FALSE /\ UNCHANGED <<session, asks, lookups, address, asked>>
  BY DEF Tab!StopReturns, TabSafe
<1>2. PICK s \in stops :
        /\ s.reply # "none"
        /\ stops' = stops \ {s}
        /\ IF s.reply = "refused"
           THEN UNCHANGED <<turns, conversation, question, guard, stoppedRoute>>
           ELSE /\ guard' = [guard EXCEPT ![s.session] = @ + 1]
                /\ stoppedRoute' = [stoppedRoute EXCEPT ![s.session] = s.into]
                /\ IF s.session = session THEN Tab!ShowStopped(s) ELSE UNCHANGED <<turns, question, conversation>>
  BY DEF Tab!StopReturns
<1>3. /\ TabTyped /\ TurnsAreOfQuestions /\ AsksAreNumbered /\ AddressesFit
      /\ \A b \in asks : AskFits(b)
      /\ \A l \in lookups : LookupFits(l)
      /\ StopFits(s)
  BY <1>1 DEF TabSafe
<1>4. /\ s \in StopActions /\ s.session = session /\ stops' = {} /\ s.ask \in 1..asked
      /\ asked \in Nat /\ s.prior \in Seq(ChatTurns) /\ s.replaces \in Nat /\ s.into \in Nat
  BY <1>2, <1>3 DEF TabTyped, StopFits, StopActions
<1>5. lookups = {}
  BY <1>2, <1>3 DEF LookupFits
<1>6. CASE s.reply = "refused"
  <2>1. UNCHANGED <<turns, conversation, question, guard, stoppedRoute>>
    BY <1>2, <1>6
  <2>2. TabTyped'
    BY <1>1, <1>3, <1>4, <2>1 DEF TabTyped
  <2>3. TurnsAreOfQuestions' /\ AsksAreNumbered' /\ AddressesFit'
    BY <1>1, <1>3, <2>1 DEF TurnsAreOfQuestions, AskedBefore, NoneTwice, AsksAreNumbered, AddressesFit
  <2>4. \A b \in asks' : AskFits(b)'
    BY <1>1, <1>3, <2>1 DEF AskFits, Wanted, NoAnswer
  <2>5. Tab!AnswersAreKept
    BY <2>1 DEF Tab!AnswersAreKept
  <2> QED
    BY <1>1, <1>4, <1>5, <2>2, <2>3, <2>4, <2>5 DEF TabSafe
<1>7. CASE s.reply = "ok"
  <2>1. /\ guard' = [guard EXCEPT ![session] = @ + 1]
        /\ stoppedRoute' = [stoppedRoute EXCEPT ![session] = s.into]
        /\ turns' = Tab!Place(s.prior, Tab!Turn(s.ask, "stopped", FALSE), s.replaces)
        /\ conversation' = s.into /\ question' = 0
    BY <1>2, <1>4, <1>7 DEF Tab!ShowStopped
  <2>2. /\ turns' \in Seq(ChatTurns) /\ AskedBefore(turns', asked) /\ NoneTwice(turns')
        /\ Tab!AnswersAreKept /\ address \in {0, s.into}
    <3>1. CASE StopsInFlight(s)
      <4>1. PICK a \in asks : a.ask = s.ask /\ a.replaces = s.replaces /\ s.into = Tab!ConversationOf(a)
        BY <3>1 DEF StopsInFlight
      <4>2. s.ask = question /\ question # 0 /\ s.prior = turns /\ a.into = conversation /\ NoAnswer(turns, s.replaces)
        BY <1>3, <1>4, <3>1, <4>1 DEF StopsInFlight, AskFits
      <4>. PICK t : t = Tab!Turn(s.ask, "stopped", FALSE)
        OBVIOUS
      <4>3. t \in ChatTurns /\ t.ask = s.ask
        BY <1>4 DEF Tab!Turn, ChatTurns
      <4>4. turns \in Seq(ChatTurns) /\ NoneTwice(turns) /\ \A i \in DOMAIN turns : turns[i].ask # t.ask
        BY <1>3, <4>2, <4>3 DEF TurnsAreOfQuestions, TabTyped
      <4>5. turns' = Tab!Place(turns, t, s.replaces)
        BY <2>1, <4>2
      <4>6. /\ turns' \in Seq(ChatTurns) /\ NoneTwice(turns')
            /\ \A j \in DOMAIN turns' : turns'[j] = t \/ (j \in DOMAIN turns /\ turns'[j] = turns[j])
            /\ \A i \in DOMAIN turns : turns[i].ask # s.replaces \/ s.replaces = 0
                                         => i \in DOMAIN turns' /\ turns'[i] = turns[i]
        <5>1. PlacedIn(Tab!Place(turns, t, s.replaces), turns, t, s.replaces)
          BY <1>4, <4>3, <4>4, PlacedOnce
        <5> QED
          BY <4>5, <5>1 DEF PlacedIn
      <4>7. AskedBefore(turns', asked)
        BY <1>3, <1>4, <4>3, <4>6 DEF TurnsAreOfQuestions, AskedBefore
      <4>8. Tab!AnswersAreKept
        BY <4>2, <4>6 DEF NoAnswer, Tab!AnswersAreKept
      <4>9. address \in {0, s.into}
        BY <1>3, <4>1, <4>2 DEF AddressesFit, Tab!ConversationOf
      <4> QED
        BY <4>6, <4>7, <4>8, <4>9
    <3>2. CASE StopsTooLate(s)
      <4>1. PICK known \in BOOLEAN : turns = Tab!Place(s.prior, Tab!Turn(s.ask, "stopped", known), s.replaces)
        BY <1>7, <3>2 DEF StopsTooLate
      <4>2. s.ask \in Nat
        BY <1>4
      <4>3. /\ turns' \in Seq(ChatTurns) /\ DOMAIN turns' = DOMAIN turns
            /\ \A i \in DOMAIN turns : turns'[i].ask = turns[i].ask
        <5>1. AskedAlike(Tab!Place(s.prior, Tab!Turn(s.ask, "stopped", FALSE), s.replaces),
                         Tab!Place(s.prior, Tab!Turn(s.ask, "stopped", known), s.replaces))
          BY <1>4, <4>2, PlacedAlike
        <5> QED
          BY <2>1, <4>1, <5>1 DEF AskedAlike
      <4>4. AskedBefore(turns', asked) /\ NoneTwice(turns')
        BY <1>3, <4>3 DEF TurnsAreOfQuestions, AskedBefore, NoneTwice
      <4>5. Tab!AnswersAreKept
        BY <4>3 DEF Tab!AnswersAreKept
      <4>6. address \in {0, s.into}
        BY <1>3, <1>7, <3>2 DEF AddressesFit, StopsTooLate
      <4> QED
        BY <4>3, <4>4, <4>5, <4>6
    <3> QED
      BY <1>3, <3>1, <3>2 DEF StopFits
  <2>3. session \in Tab!Sessions /\ session \in Nat /\ guard \in [Tab!Sessions -> Nat] /\ guard[session] \in Nat
    BY <1>3 DEF TabTyped, Tab!Sessions
  <2>4. TabTyped'
    <3>1. guard' \in [Tab!Sessions -> Nat] /\ stoppedRoute' \in [Tab!Sessions -> Nat]
      BY <1>3, <1>4, <2>1, <2>3 DEF TabTyped
    <3>2. conversation' \in Nat /\ question' \in 0..asked' /\ session' \in Tab!Sessions
      BY <1>1, <1>4, <2>1, <2>3
    <3>3. asks' \subseteq AskActions /\ stops' \subseteq StopActions /\ lookups' \subseteq LookupActions /\ asked' \in Nat
      BY <1>1, <1>3, <1>4, <1>5 DEF TabTyped
    <3> QED
      BY <2>2, <3>1, <3>2, <3>3 DEF TabTyped
  <2>5. TurnsAreOfQuestions' /\ AsksAreNumbered'
    BY <1>1, <1>3, <2>1, <2>2 DEF TurnsAreOfQuestions, AskedBefore, NoneTwice, AsksAreNumbered
  <2>6. AddressesFit'
    BY <1>1, <1>3, <2>1, <2>2, <2>3 DEF AddressesFit, TabTyped
  <2>7. ASSUME NEW b \in asks PROVE AskFits(b)'
    <3>1. AskFits(b) /\ b.session \in Tab!Sessions /\ b.session \in Nat /\ b.token \in Nat
      BY <1>3 DEF TabTyped, AskActions, Tab!Sessions
    <3>2. guard' \in [Tab!Sessions -> Nat] /\ guard'[session] = guard[session] + 1
          /\ (b.session # session => guard'[b.session] = guard[b.session])
      BY <2>1, <2>3, <3>1
    <3>3. ~Wanted(b)'
      BY <1>1, <2>3, <3>1, <3>2 DEF Wanted, AskFits
    <3>4. b.ask # 0 /\ question' = 0
      BY <1>3, <2>1 DEF AskFits, TabTyped
    <3>5. b.token <= guard'[b.session] /\ (b.session < session => b.token < guard'[b.session])
      BY <2>3, <3>1, <3>2 DEF AskFits
    <3> QED
      BY <1>1, <3>1, <3>3, <3>4, <3>5 DEF AskFits
  <2> QED
    BY <1>1, <1>4, <1>5, <2>2, <2>4, <2>5, <2>6, <2>7 DEF TabSafe
<1> QED
  BY <1>2, <1>4, <1>6, <1>7 DEF StopActions

LEMMA LeaveIsSafe == ASSUME TabSafe, ~hurried', Tab!Leave PROVE TabSafe'
<1>1. /\ ~hurried /\ ~Tab!Awaited /\ hurried' = FALSE
      /\ session < MaxSessions /\ session' = session + 1
      /\ guard' = [guard EXCEPT ![session] = @ + 1]
      /\ stoppedRoute' = [stoppedRoute EXCEPT ![session] = 0]
      /\ turns' = <<>> /\ conversation' = 0 /\ question' = 0 /\ address' = 0
      /\ UNCHANGED <<asks, stops, lookups, asked>>
  BY DEF Tab!Leave, TabSafe
<1>2. stops' = {} /\ lookups' = {}
  BY <1>1, WithoutWaiting
<1>3. TabTyped /\ AsksAreNumbered /\ AddressesFit /\ \A a \in asks : AskFits(a)
  BY <1>1 DEF TabSafe
<1>4. /\ session \in Tab!Sessions /\ session \in Nat /\ session' \in Tab!Sessions /\ session' # session
      /\ guard \in [Tab!Sessions -> Nat] /\ guard[session] \in Nat
      /\ stoppedRoute \in [Tab!Sessions -> Nat]
  BY <1>1, <1>3, AChatIsOpened DEF TabTyped, Tab!Sessions
<1>5. guard' \in [Tab!Sessions -> Nat] /\ stoppedRoute' \in [Tab!Sessions -> Nat]
  BY <1>1, <1>4
<1>6. TabTyped'
  BY <1>1, <1>2, <1>3, <1>4, <1>5 DEF TabTyped
<1>7. TurnsAreOfQuestions' /\ AsksAreNumbered'
  BY <1>1, <1>3 DEF TurnsAreOfQuestions, AskedBefore, NoneTwice, AsksAreNumbered
<1>8. AddressesFit'
  BY <1>1, <1>3, <1>4 DEF AddressesFit
<1>9. ASSUME NEW a \in asks PROVE AskFits(a)'
  <2>1. AskFits(a) /\ a.session \in Tab!Sessions /\ a.session \in Nat /\ a.token \in Nat
    BY <1>3 DEF TabTyped, AskActions, Tab!Sessions
  <2>2. guard'[session] = guard[session] + 1 /\ (a.session # session => guard'[a.session] = guard[a.session])
    BY <1>1, <1>4, <2>1
  <2>3. a.session < session' /\ a.session <= session' /\ a.token < guard'[a.session] /\ a.token <= guard'[a.session]
    BY <1>1, <1>4, <2>1, <2>2 DEF AskFits
  <2>4. ~Wanted(a)' /\ a.ask # question'
    BY <1>1, <1>4, <2>1, <2>3 DEF Wanted, AskFits
  <2> QED
    BY <1>1, <2>1, <2>3, <2>4 DEF AskFits
<1> QED
  BY <1>1, <1>2, <1>6, <1>7, <1>8, <1>9 DEF TabSafe

(* The inductive step, with what each step may do to the answers.          *)
LEMMA TabStepSafe ==
  ASSUME TabSafe, [Tab!Next]_Tab!vars
  PROVE  TabSafe' /\ (~hurried' => Tab!AnswersAreKept)
<1>1. CASE hurried'
  <2>1. hurried' \in BOOLEAN
    BY DEF Tab!Next, Tab!vars, Tab!Submit, Tab!Retry, Tab!LookupReturns, Tab!ServerEnds, Tab!AskReturns,
           Tab!Stop, Tab!ServerCancels, Tab!StopReturns, Tab!Leave, TabSafe
  <2> QED
    BY <1>1, <2>1 DEF TabSafe
<1>2. CASE ~hurried' /\ Tab!Next
  <2>1. CASE Tab!AskReturns
    BY <1>2, <2>1, AskReturnsIsSafe
  <2>2. CASE Tab!StopReturns
    BY <1>2, <2>2, StopReturnsIsSafe
  <2>3. CASE Tab!Leave
    <3>1. session' # session
      BY <2>3, <1>2 DEF Tab!Leave, TabSafe, TabTyped, Tab!Sessions
    <3> QED
      BY <1>2, <2>3, <3>1, LeaveIsSafe DEF Tab!AnswersAreKept
  <2>4. CASE \/ Tab!Submit \/ Tab!Retry \/ Tab!LookupReturns \/ Tab!ServerEnds \/ Tab!Stop \/ Tab!ServerCancels
    <3>1. turns' = turns
      BY <2>4 DEF Tab!Submit, Tab!Retry, Tab!LookupReturns, Tab!ServerEnds, Tab!Stop, Tab!ServerCancels
    <3>2. Tab!AnswersAreKept
      BY <3>1 DEF Tab!AnswersAreKept
    <3> QED
      BY <1>2, <2>4, <3>2, SubmitIsSafe, RetryIsSafe, LookupReturnsIsSafe, ServerEndsIsSafe, StoppingIsSafe,
         ServerCancelsIsSafe
  <2> QED
    BY <1>2, <2>1, <2>2, <2>3, <2>4 DEF Tab!Next
<1>3. CASE ~hurried' /\ UNCHANGED Tab!vars
  <2>1. /\ ~hurried
        /\ UNCHANGED <<session, turns, conversation, question, guard, stoppedRoute, asks, stops, lookups, address,
                       asked, hurried>>
    BY <1>3 DEF Tab!vars
  <2>2. /\ TabTyped' /\ TurnsAreOfQuestions' /\ AsksAreNumbered' /\ AddressesFit'
        /\ \A a \in asks' : AskFits(a)'
    BY <2>1 DEF TabSafe, TabTyped, TurnsAreOfQuestions, AskedBefore, NoneTwice, AsksAreNumbered, AddressesFit,
                AskFits, Wanted, NoAnswer
  <2>3. \A l \in lookups' : LookupFits(l)'
    BY <2>1 DEF TabSafe, LookupFits, NoAnswer
  <2>4. \A s \in stops' : StopFits(s)'
    BY <2>1 DEF TabSafe, StopFits, StopsInFlight, StopsTooLate
  <2>5. Tab!AnswersAreKept
    BY <2>1 DEF Tab!AnswersAreKept
  <2> QED
    BY <1>3, <2>1, <2>2, <2>3, <2>4, <2>5 DEF TabSafe
<1> QED
  BY <1>1, <1>2, <1>3

(* While the member waits for a stop or a retry to get under way, a reply  *)
(* moves the address bar only to the conversation on the screen, and does  *)
(* not lose an answer (guard, stoppedRouteRef and setTurns of useChatTurn).*)
THEOREM RepliesStayInTheirChat == Spec => RepliesMeetTheirChat
<1> DEFINE Safe == part = "chat" => TabSafe
<1>1. Init => Safe
  BY TabInitSafe DEF Init
<1>2. Safe /\ [Next]_allVars => Safe' /\ [part = "chat" => Tab!KeepsTheChat]_allVars
  <2> SUFFICES ASSUME Safe, [Next]_allVars PROVE Safe' /\ (part = "chat" => Tab!KeepsTheChat)
    OBVIOUS
  <2>1. part' = part
    BY DEF Next, allVars
  <2>2. CASE part = "chat"
    <3>1. [Tab!Next]_Tab!vars
      BY <2>2 DEF Next, allVars, slots, Tab!vars
    <3>2. TabSafe' /\ (~hurried' => Tab!AnswersAreKept)
      BY <2>2, <3>1, TabStepSafe
    <3>3. TabSafe' => (~hurried' => Tab!UrlIsOfTheChat')
      BY DEF TabSafe, AddressesFit, Tab!UrlIsOfTheChat
    <3> QED
      BY <3>2, <3>3 DEF Tab!KeepsTheChat
  <2> QED
    BY <2>1, <2>2
<1> QED
  BY <1>1, <1>2, PTL DEF Spec, RepliesMeetTheirChat
=============================================================================
