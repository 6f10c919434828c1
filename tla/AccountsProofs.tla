--------------------------- MODULE AccountsProofs ---------------------------
(***************************************************************************)
(* Proofs about Accounts for any addresses, roles and finite set of calls, *)
(* any lifetimes and limits.                                               *)
(***************************************************************************)
EXTENDS Accounts, FiniteSetTheorems, TLAPS

-----------------------------------------------------------------------------
(* Types.                                                                  *)

LEMMA TypeInit == AccountsInit => AccountsTypeOK
  BY DEF AccountsInit, AccountsTypeOK, Absent, Accounts, NoRole, CallsOf, Idle

(* What a call in flight carries. *)
LEMMA CallShapes ==
  ASSUME AccountsTypeOK, NEW c \in Calls
  PROVE  /\ call[c].op \in {"create", "purge", "insert"} =>
              /\ call[c] \in [op : {"create", "purge", "insert"}, email : Emails, role : Roles, at : Nat]
         /\ call[c].op = "read" => call[c] \in [op : {"read"}, invite : Nat, at : Nat]
         /\ call[c].op = "claim" => call[c] \in [op : {"claim"}, invite : Invites, at : Nat]
         /\ call[c].op \in {"signup", "register", "count", "verify"} =>
              call[c] \in [op : {"signup", "register", "count", "verify"}, email : Emails, at : Nat]
  BY DEF AccountsTypeOK, CallsOf, Idle

(* What a call is after it began. *)
LEMMA CallsBegin ==
  ASSUME AccountsTypeOK, NEW c \in Calls,
         BeginInvite(c) \/ BeginAccept(c) \/ BeginSignup(c) \/ BeginLogin(c)
  PROVE  \E next \in CallsOf : Go(c, next) /\ next.op \notin {"claim", "verify"}
<1>1. CASE BeginInvite(c)
  <2>1. PICK e \in Emails, r \in Roles : Go(c, [op |-> "create", email |-> e, role |-> r, at |-> clock])
    BY <1>1 DEF BeginInvite
  <2>2. [op |-> "create", email |-> e, role |-> r, at |-> clock] \in CallsOf
    BY DEF CallsOf, AccountsTypeOK
  <2> QED
    BY <2>1, <2>2
<1>2. CASE BeginAccept(c)
  <2>1. PICK n \in 1..rows : Go(c, [op |-> "read", invite |-> n, at |-> clock])
    BY <1>2 DEF BeginAccept
  <2>2. [op |-> "read", invite |-> n, at |-> clock] \in CallsOf
    BY DEF CallsOf, AccountsTypeOK
  <2> QED
    BY <2>1, <2>2
<1>3. CASE BeginSignup(c)
  <2>1. PICK e \in Emails : Go(c, [op |-> "signup", email |-> e, at |-> clock])
    BY <1>3 DEF BeginSignup
  <2>2. [op |-> "signup", email |-> e, at |-> clock] \in CallsOf
    BY DEF CallsOf, AccountsTypeOK
  <2> QED
    BY <2>1, <2>2
<1>4. CASE BeginLogin(c)
  <2>1. PICK e \in Emails : Go(c, [op |-> "count", email |-> e, at |-> clock])
    BY <1>4 DEF BeginLogin
  <2>2. [op |-> "count", email |-> e, at |-> clock] \in CallsOf
    BY DEF CallsOf, AccountsTypeOK
  <2> QED
    BY <2>1, <2>2
<1> QED
  BY <1>1, <1>2, <1>3, <1>4

LEMMA TypeStep == AccountsTypeOK /\ [AccountsNext]_accountVars => AccountsTypeOK'
<1> SUFFICES ASSUME AccountsTypeOK, [AccountsNext]_accountVars PROVE AccountsTypeOK'
  OBVIOUS
<1>1. ASSUME NEW c \in Calls, CallStep(c) PROVE AccountsTypeOK'
  <2>1. PICK next \in CallsOf : Go(c, next)
    <3>1. CASE BeginInvite(c) \/ BeginAccept(c) \/ BeginSignup(c) \/ BeginLogin(c)
      BY <3>1, CallsBegin
    <3>2. CASE CheckAddress(c) \/ PurgeExpired(c)
      BY <3>2, CallShapes DEF CheckAddress, PurgeExpired, End, CallsOf
    <3>3. CASE ReadInvite(c)
      BY <3>3, CallShapes DEF ReadInvite, End, CallsOf, AccountsTypeOK
    <3>4. CASE CheckUser(c) \/ CountFailures(c)
      BY <3>4, CallShapes DEF CheckUser, CountFailures, End, CallsOf
    <3>5. CASE InsertInvite(c) \/ Claim(c) \/ Register(c) \/ LogIn(c) \/ RecordFailure(c)
      BY <3>5 DEF InsertInvite, Claim, Register, LogIn, RecordFailure, End, CallsOf
    <3> QED
      BY <1>1, <3>1, <3>2, <3>3, <3>4, <3>5 DEF CallStep
  <2>2. call' \in [Calls -> CallsOf]
    BY <2>1 DEF Go, AccountsTypeOK
  <2>3. clock' = clock /\ rows' \in Nat
    BY <1>1 DEF CallStep, BeginInvite, CheckAddress, PurgeExpired, InsertInvite, BeginAccept,
       ReadInvite, Claim, BeginSignup, CheckUser, Register, BeginLogin, CountFailures, LogIn,
       RecordFailure, NewRow, AccountsTypeOK
  <2>4. /\ invites' \subseteq Invites /\ sessions' \subseteq Sessions /\ failures' \subseteq Failures
        /\ accounts' \in [Emails -> Accounts]
    <3>1. CASE UNCHANGED <<invites, sessions, failures, accounts>>
      BY <3>1 DEF AccountsTypeOK
    <3>2. CASE PurgeExpired(c)
      BY <3>2 DEF PurgeExpired, AccountsTypeOK
    <3>3. CASE InsertInvite(c)
      <4> DEFINE new == [id |-> rows + 1, email |-> call[c].email, role |-> call[c].role,
                         expires |-> call[c].at + Lifetime, accepted |-> FALSE]
      <4>1. Lifetime \in Nat /\ rows \in Nat
        BY LimitsAreNats DEF AccountsTypeOK
      <4>2. call[c].email \in Emails /\ call[c].role \in Roles /\ call[c].at \in Nat
        BY <3>3, CallShapes DEF InsertInvite
      <4>3. new \in Invites
        BY <4>1, <4>2 DEF Invites
      <4>4. invites' = invites \/ invites' = invites \cup {new}
        BY <3>3 DEF InsertInvite
      <4> QED
        BY <3>3, <4>3, <4>4 DEF InsertInvite, AccountsTypeOK
    <3>4. CASE Claim(c)
      <4>1. call[c].invite \in Invites /\ UNCHANGED failures
        BY <3>4, CallShapes DEF Claim
      <4>2. rows' \in Nat /\ (rows' # rows => NewRow)
        BY <2>3, <3>4 DEF Claim
      <4>3. invites' \subseteq Invites
        <5>1. \A j \in invites : [j EXCEPT !.accepted = TRUE] \in Invites
          BY DEF AccountsTypeOK, Invites
        <5> QED
          BY <3>4, <5>1 DEF Claim, AccountsTypeOK
      <4>4. sessions' \subseteq Sessions
        BY <3>4, <4>1, <4>2 DEF Claim, AccountsTypeOK, Sessions, NewSession, Invites
      <4>5. accounts' \in [Emails -> Accounts]
        BY <3>4, <4>1 DEF Claim, AccountsTypeOK, Accounts, Invited, Invites
      <4> QED
        BY <4>1, <4>3, <4>4, <4>5 DEF AccountsTypeOK
    <3>5. CASE Register(c)
      BY <2>3, <3>5, CallShapes DEF Register, AccountsTypeOK, Sessions, NewSession, Accounts, Signed, NoRole
    <3>6. CASE LogIn(c)
      BY <2>3, <3>6, CallShapes DEF LogIn, AccountsTypeOK, Sessions, NewSession
    <3>7. CASE RecordFailure(c)
      BY <2>3, <3>7, CallShapes DEF RecordFailure, AccountsTypeOK, Failures
    <3> QED
      BY <1>1, <3>1, <3>2, <3>3, <3>4, <3>5, <3>6, <3>7 DEF CallStep, BeginInvite, CheckAddress,
         BeginAccept, ReadInvite, BeginSignup, CheckUser, BeginLogin, CountFailures
  <2> QED
    BY <2>2, <2>3, <2>4 DEF AccountsTypeOK
<1>2. ASSUME NEW e \in Emails, LoadDirectory(e) PROVE AccountsTypeOK'
  BY <1>2 DEF LoadDirectory, AccountsTypeOK, Accounts, Directory, NoRole
<1>3. CASE LogOut \/ Tick
  BY <1>3 DEF LogOut, Tick, AccountsTypeOK
<1>4. CASE UNCHANGED accountVars
  BY <1>4 DEF accountVars, AccountsTypeOK
<1> QED
  BY <1>1, <1>2, <1>3, <1>4 DEF AccountsNext

(* Every variable has its type. *)
THEOREM AccountsTyped == AccountsSpec => []AccountsTypeOK
  BY TypeInit, TypeStep, PTL DEF AccountsSpec

-----------------------------------------------------------------------------
(* Invites and the accounts made from them.                                *)

(* An id is given to one invite only. *)
NumberedInvites ==
  /\ \A i \in invites : i.id \in 1..rows
  /\ \A i, j \in invites : i.id = j.id => i = j

(* A call that redeems an invite holds an open copy, which may be stale:   *)
(* the stored one may be accepted by now, but it is about the same person. *)
Held(v) ==
  /\ ~v.accepted /\ v.id \in 1..rows
  /\ \A j \in invites : j.id = v.id => j.email = v.email /\ j.role = v.role

HeldInvites == \A c \in Calls : call[c].op = "claim" => Held(call[c].invite)

InvitesInv == AccountsTypeOK /\ NumberedInvites /\ HeldInvites /\ InvitedAccounts

LEMMA InvitesInit == AccountsInit => InvitesInv
  BY TypeInit DEF AccountsInit, InvitesInv, NumberedInvites, HeldInvites, InvitedAccounts, Idle, Absent

LEMMA InvitesStep == InvitesInv /\ [AccountsNext]_accountVars => InvitesInv'
<1> SUFFICES ASSUME InvitesInv, [AccountsNext]_accountVars PROVE InvitesInv'
  OBVIOUS
<1>0. AccountsTypeOK /\ NumberedInvites /\ HeldInvites /\ InvitedAccounts
  BY DEF InvitesInv
<1>1. AccountsTypeOK'
  BY <1>0, TypeStep
(* Nothing but the calls changes, and no call takes up a stored invite.    *)
<1>2. ASSUME UNCHANGED <<invites, accounts>>, rows' \in Nat, rows' >= rows,
             \A c \in Calls : call'[c].op = "claim" => call'[c] = call[c]
      PROVE  NumberedInvites' /\ HeldInvites' /\ InvitedAccounts'
  <2>1. NumberedInvites'
    BY <1>0, <1>2 DEF NumberedInvites, AccountsTypeOK
  <2>2. HeldInvites'
    BY <1>0, <1>2 DEF HeldInvites, Held, AccountsTypeOK
  <2>3. InvitedAccounts'
    BY <1>0, <1>2 DEF InvitedAccounts
  <2> QED
    BY <2>1, <2>2, <2>3
<1>3. ASSUME NEW c \in Calls, CallStep(c) PROVE InvitesInv'
  <2>1. CASE \/ BeginInvite(c) \/ CheckAddress(c) \/ BeginAccept(c) \/ BeginSignup(c) \/ CheckUser(c)
             \/ BeginLogin(c) \/ CountFailures(c) \/ LogIn(c) \/ RecordFailure(c)
    <3>1. UNCHANGED <<invites, accounts>> /\ rows' \in Nat /\ rows' >= rows
      BY <1>0, <2>1 DEF BeginInvite, CheckAddress, BeginAccept, BeginSignup, CheckUser, BeginLogin,
         CountFailures, LogIn, RecordFailure, NewRow, AccountsTypeOK
    <3>3. \A d \in Calls : call'[d].op = "claim" => call'[d] = call[d]
      <4>1. PICK next : Go(c, next) /\ next.op # "claim"
        <5>1. CASE BeginInvite(c) \/ BeginAccept(c) \/ BeginSignup(c) \/ BeginLogin(c)
          BY <1>0, <5>1, CallsBegin
        <5>2. CASE CheckAddress(c)
          BY <1>0, <5>2, CallShapes DEF CheckAddress, End, Idle
        <5>3. CASE CheckUser(c) \/ CountFailures(c)
          BY <1>0, <5>3, CallShapes DEF CheckUser, CountFailures, End, Idle
        <5>4. CASE LogIn(c) \/ RecordFailure(c)
          BY <5>4 DEF LogIn, RecordFailure, End, Idle
        <5> QED
          BY <2>1, <5>1, <5>2, <5>3, <5>4
      <4> QED
        BY <1>0, <4>1 DEF Go, AccountsTypeOK
    <3> QED
      BY <1>1, <1>2, <3>1, <3>3 DEF InvitesInv
  <2>2. CASE PurgeExpired(c)
    <3>1. /\ UNCHANGED <<rows, accounts>> /\ invites' \subseteq invites
          /\ \A i \in invites : i.accepted => i \in invites'
      BY <2>2 DEF PurgeExpired, Stale, Open
    <3>2. \A d \in Calls : call'[d].op = "claim" => call'[d] = call[d]
      BY <1>0, <2>2, CallShapes DEF PurgeExpired, Go, AccountsTypeOK
    <3>3. NumberedInvites' /\ HeldInvites'
      BY <1>0, <3>1, <3>2 DEF NumberedInvites, HeldInvites, Held
    <3>4. InvitedAccounts'
      BY <1>0, <3>1 DEF InvitedAccounts
    <3> QED
      BY <1>1, <3>3, <3>4 DEF InvitesInv
  <2>3. CASE InsertInvite(c)
    <3>1. /\ accounts' = accounts
          /\ \/ UNCHANGED <<rows, invites>>
             \/ /\ rows' = rows + 1
                /\ \E i : invites' = invites \cup {i} /\ i.id = rows + 1 /\ ~i.accepted
      <4> DEFINE new == [id |-> rows + 1, email |-> call[c].email, role |-> call[c].role,
                         expires |-> call[c].at + Lifetime, accepted |-> FALSE]
      <4>1. /\ accounts' = accounts
            /\ \/ UNCHANGED <<rows, invites>>
               \/ rows' = rows + 1 /\ invites' = invites \cup {new}
        BY <2>3 DEF InsertInvite, NewRow
      <4>2. new.id = rows + 1 /\ ~new.accepted
        OBVIOUS
      <4> HIDE DEF new
      <4> QED
        BY <4>1, <4>2
    <3>2. \A d \in Calls : call'[d].op = "claim" => call'[d] = call[d]
      BY <1>0, <2>3 DEF InsertInvite, End, Go, Idle, AccountsTypeOK
    <3>3. rows \in Nat
      BY <1>0 DEF AccountsTypeOK
    <3>4. NumberedInvites'
      BY <1>0, <3>1, <3>3 DEF NumberedInvites
    <3>5. HeldInvites'
      BY <1>0, <3>1, <3>2, <3>3 DEF HeldInvites, Held
    <3>6. InvitedAccounts'
      BY <1>0, <3>1 DEF InvitedAccounts
    <3> QED
      BY <1>1, <3>4, <3>5, <3>6 DEF InvitesInv
  <2>4. CASE ReadInvite(c)
    <3>1. UNCHANGED <<rows, invites, accounts>>
      BY <2>4 DEF ReadInvite
    <3>2. \A d \in Calls : call'[d].op = "claim" =>
            call'[d] = call[d] \/ \E i \in invites : call'[d].invite = i /\ Open(i)
      BY <1>0, <2>4 DEF ReadInvite, Redeemable, End, Go, Idle, AccountsTypeOK
    <3>3. HeldInvites'
      BY <1>0, <3>1, <3>2 DEF HeldInvites, Held, NumberedInvites, Open
    <3> QED
      BY <1>0, <1>1, <3>1, <3>3 DEF InvitesInv, NumberedInvites, InvitedAccounts
  <2>5. CASE Claim(c)
    <3> DEFINE claimed == {j \in invites : Redeemable(j, call[c].invite.id, call[c].at)}
    <3>1. PICK v \in Invites : v = call[c].invite /\ Held(v)
      BY <1>0, <2>5, CallShapes DEF Claim, HeldInvites
    <3>2. \A d \in Calls : call'[d].op = "claim" => call'[d] = call[d]
      BY <1>0, <2>5 DEF Claim, End, Go, Idle, AccountsTypeOK
    <3>3. CASE UNCHANGED <<rows, invites, accounts>>
      BY <1>0, <1>1, <1>2, <3>2, <3>3 DEF InvitesInv, AccountsTypeOK
    <3>4. ASSUME NEW j \in invites, Redeemable(j, v.id, call[c].at), accounts[v.email] = Absent,
                 NewRow, accounts' = [accounts EXCEPT ![v.email] = Invited(v)],
                 invites' = (invites \ {j}) \cup {[j EXCEPT !.accepted = TRUE]}
          PROVE  NumberedInvites' /\ HeldInvites' /\ InvitedAccounts'
      <4> DEFINE a == [j EXCEPT !.accepted = TRUE]
      <4>1. /\ j.id = v.id /\ j.email = v.email /\ j.role = v.role /\ ~j.accepted
            /\ j \in Invites
        BY <1>0, <3>1, <3>4 DEF Redeemable, Open, Held, AccountsTypeOK
      <4>2. a.id = v.id /\ a.email = v.email /\ a.role = v.role /\ a.accepted
        BY <4>1 DEF Invites
      <4> HIDE DEF a
      <4>3. rows \in Nat /\ rows' = rows + 1 /\ invites' = (invites \ {j}) \cup {a}
        BY <1>0, <3>4 DEF NewRow, AccountsTypeOK, a
      <4>4. NumberedInvites'
        BY <1>0, <4>1, <4>2, <4>3 DEF NumberedInvites
      <4>5. HeldInvites'
        BY <1>0, <3>2, <4>1, <4>2, <4>3 DEF HeldInvites, Held
      <4>6. accounts'[v.email] = Invited(v) /\ \A e \in Emails : e # v.email => accounts'[e] = accounts[e]
        BY <1>0, <3>1, <3>4 DEF AccountsTypeOK, Invites
      <4>7. \A e \in Emails : accounts'[e].by # 0 =>
              \E i \in invites' : i.id = accounts'[e].by /\ i.accepted /\ i.email = e /\ i.role = accounts'[e].role
        BY <1>0, <4>1, <4>2, <4>3, <4>6 DEF InvitedAccounts, Invited
      <4>8. \A i \in invites' : i.accepted => accounts'[i.email] = Invited(i)
        <5> SUFFICES ASSUME NEW i \in invites', i.accepted PROVE accounts'[i.email] = Invited(i)
          OBVIOUS
        <5>1. CASE i = a
          BY <4>2, <4>6, <5>1 DEF Invited
        <5>2. CASE i # a
          <6>1. i \in invites /\ i.email \in Emails /\ accounts[i.email] = Invited(i)
            BY <1>0, <4>3, <5>2 DEF InvitedAccounts, AccountsTypeOK, Invites
          <6>2. i.email # v.email
            BY <3>4, <6>1 DEF Absent, Invited
          <6> QED
            BY <4>6, <6>1, <6>2
        <5> QED
          BY <5>1, <5>2
      <4> QED
        BY <4>4, <4>5, <4>7, <4>8 DEF InvitedAccounts
    <3>5. CASE claimed # {} /\ accounts[v.email] = Absent
      <4>1. PICK j \in invites : Redeemable(j, v.id, call[c].at)
        BY <3>1, <3>5
      <4>2. claimed = {j}
        BY <1>0, <3>1, <4>1 DEF NumberedInvites, Redeemable
      <4>3. {[k EXCEPT !.accepted = TRUE] : k \in claimed} = {[j EXCEPT !.accepted = TRUE]}
        BY <4>2
      <4>4. /\ NewRow /\ accounts' = [accounts EXCEPT ![v.email] = Invited(v)]
            /\ invites' = (invites \ {j}) \cup {[j EXCEPT !.accepted = TRUE]}
        BY <2>5, <3>1, <3>5, <4>2, <4>3 DEF Claim, MayInsert
      <4> QED
        BY <1>1, <3>4, <3>5, <4>1, <4>4 DEF InvitesInv
    <3>6. CASE ~(claimed # {} /\ accounts[v.email] = Absent)
      BY <2>5, <3>1, <3>3, <3>6 DEF Claim, MayInsert
    <3> QED
      BY <3>5, <3>6
  <2>6. CASE Register(c)
    <3>1. call[c].email \in Emails /\ UNCHANGED invites
      BY <1>0, <2>6, CallShapes DEF Register
    <3>2. \A d \in Calls : call'[d].op = "claim" => call'[d] = call[d]
      BY <1>0, <2>6 DEF Register, End, Go, Idle, AccountsTypeOK
    <3>3. rows \in Nat /\ rows' \in Nat /\ rows' >= rows
      BY <1>0, <2>6 DEF Register, NewRow, AccountsTypeOK
    <3>4. accounts' = accounts \/ (accounts[call[c].email] = Absent /\
                                   accounts' = [accounts EXCEPT ![call[c].email] = Signed])
      BY <2>6 DEF Register
    <3>5. InvitedAccounts'
      BY <1>0, <3>1, <3>4 DEF InvitedAccounts, AccountsTypeOK, Invites, Invited, Absent, Signed
    <3>6. NumberedInvites' /\ HeldInvites'
      BY <1>0, <3>1, <3>2, <3>3 DEF NumberedInvites, HeldInvites, Held
    <3> QED
      BY <1>1, <3>5, <3>6 DEF InvitesInv
  <2> QED
    BY <1>3, <2>1, <2>2, <2>3, <2>4, <2>5, <2>6 DEF CallStep
<1>4. ASSUME NEW e \in Emails, LoadDirectory(e) PROVE InvitesInv'
  <2>1. InvitedAccounts'
    BY <1>0, <1>4 DEF LoadDirectory, InvitedAccounts, AccountsTypeOK, Invites, Invited, Absent, Directory
  <2>2. NumberedInvites' /\ HeldInvites'
    BY <1>0, <1>4 DEF LoadDirectory, NumberedInvites, HeldInvites, Held
  <2> QED
    BY <1>1, <2>1, <2>2 DEF InvitesInv
<1>5. CASE LogOut \/ Tick \/ UNCHANGED accountVars
  BY <1>0, <1>1, <1>2, <1>5 DEF LogOut, Tick, accountVars, InvitesInv, AccountsTypeOK
<1> QED
  BY <1>3, <1>4, <1>5 DEF AccountsNext

(* An accepted invite and the account made from it belong together, one to *)
(* one, with the invite's own address and role, whatever other calls       *)
(* create, purge and redeem meanwhile (acceptInvite, createInvite).        *)
THEOREM InvitesMakeAccounts == AccountsSpec => []InvitedAccounts
<1>1. InvitesInv => InvitedAccounts
  BY DEF InvitesInv
<1> QED
  BY <1>1, InvitesInit, InvitesStep, PTL DEF AccountsSpec

-----------------------------------------------------------------------------
(* Wrong guesses.                                                          *)

Within(at, t) == at <= t /\ at + Window > t

(* The wrong guesses in the window that ends at t, and the calls that may  *)
(* still add one.                                                          *)
Guesses(e, t)   == {f \in failures : f.email = e /\ Within(f.at, t)}
Verifying(e, t) == {c \in Calls : call[c].op = "verify" /\ call[c].email = e /\ Within(call[c].at, t)}

GuessesFit(e, t) ==
  Cardinality(Guesses(e, t)) + Cardinality(Verifying(e, t)) <= MaxFailedLogins - 1 + Cardinality(Calls)

GuessesInv ==
  /\ AccountsTypeOK /\ IsFiniteSet(failures)
  /\ \A e \in Emails, t \in Nat : GuessesFit(e, t)

LEMMA Counts ==
  ASSUME IsFiniteSet(failures), NEW e, NEW t
  PROVE  /\ IsFiniteSet(Guesses(e, t)) /\ Cardinality(Guesses(e, t)) \in Nat
         /\ IsFiniteSet(Verifying(e, t)) /\ Cardinality(Verifying(e, t)) \in Nat
         /\ Cardinality(Calls) \in Nat /\ Cardinality(Verifying(e, t)) <= Cardinality(Calls)
<1>1. Guesses(e, t) \in SUBSET failures /\ Verifying(e, t) \in SUBSET Calls
  BY DEF Guesses, Verifying
<1>2. IsFiniteSet(Guesses(e, t)) /\ IsFiniteSet(Verifying(e, t))
  BY <1>1, FS_Subset, CallsAreFinite
<1> QED
  BY <1>1, <1>2, FS_Subset, FS_CardinalityType, CallsAreFinite

(* Without a new guess, and no call newly at the password, nothing grows.  *)
LEMMA NothingGrows ==
  ASSUME GuessesInv, UNCHANGED failures,
         \A c \in Calls : call'[c].op = "verify" => call'[c] = call[c]
  PROVE  \A e \in Emails, t \in Nat : GuessesFit(e, t)'
<1> SUFFICES ASSUME NEW e \in Emails, NEW t \in Nat PROVE GuessesFit(e, t)'
  OBVIOUS
<1>1. Guesses(e, t)' = Guesses(e, t)
  BY DEF Guesses
<1>2. Verifying(e, t)' \in SUBSET Verifying(e, t)
  BY DEF Verifying
<1>3. Cardinality(Verifying(e, t)') <= Cardinality(Verifying(e, t)) /\ Cardinality(Verifying(e, t)') \in Nat
  BY <1>2, Counts, FS_Subset, FS_CardinalityType DEF GuessesInv
<1>4. GuessesFit(e, t) /\ Cardinality(Guesses(e, t)) \in Nat /\ Cardinality(Verifying(e, t)) \in Nat
      /\ Cardinality(Calls) \in Nat
  BY Counts DEF GuessesInv
<1> QED
  BY <1>1, <1>3, <1>4, LimitsAreNats DEF GuessesFit

LEMMA GuessesStep == GuessesInv /\ [AccountsNext]_accountVars => GuessesInv'
<1> SUFFICES ASSUME GuessesInv, [AccountsNext]_accountVars PROVE GuessesInv'
  OBVIOUS
<1>0. AccountsTypeOK /\ IsFiniteSet(failures) /\ AccountsTypeOK'
  BY TypeStep DEF GuessesInv
<1>1. ASSUME NEW c \in Calls, CallStep(c) PROVE GuessesInv'
  <2>1. CASE CountFailures(c)
    <3>1. failures' = failures
      BY <2>1 DEF CountFailures
    <3>2. PICK e \in Emails, at \in Nat : call[c].op = "count" /\ call[c].email = e /\ call[c].at = at
      BY <1>0, <2>1, CallShapes DEF CountFailures
    <3>3. CASE Limited(e, at)
      <4>1. \A d \in Calls : call'[d].op = "verify" => call'[d] = call[d]
        BY <1>0, <2>1, <3>2, <3>3 DEF CountFailures, End, Go, Idle, AccountsTypeOK
      <4> QED
        BY <1>0, <3>1, <4>1, NothingGrows DEF GuessesInv
    <3>4. CASE ~Limited(e, at)
      <4>1. /\ \A d \in Calls \ {c} : call'[d] = call[d]
            /\ call'[c] = [call[c] EXCEPT !.op = "verify"]
        BY <1>0, <2>1, <3>2, <3>4 DEF CountFailures, Go, AccountsTypeOK
      <4>2. call'[c].email = e /\ call'[c].at = at
        BY <1>0, <3>2, <4>1, CallShapes
      <4> SUFFICES ASSUME NEW x \in Emails, NEW t \in Nat PROVE GuessesFit(x, t)'
        BY <1>0, <3>1 DEF GuessesInv
      <4>3. Guesses(x, t)' = Guesses(x, t)
        BY <3>1 DEF Guesses
      <4>4. CASE x = e /\ Within(at, t)
        <5>1. Cardinality(Guesses(x, t)) <= MaxFailedLogins - 1
          <6>1. Guesses(e, t) \in SUBSET FailedLogins(e, at)
            BY <1>0, <4>4, LimitsAreNats DEF Guesses, FailedLogins, Within, AccountsTypeOK, Failures
          <6>2. FailedLogins(e, at) \in SUBSET failures
            BY DEF FailedLogins
          <6>3. IsFiniteSet(FailedLogins(e, at)) /\ Cardinality(FailedLogins(e, at)) \in Nat
            BY <1>0, <6>2, FS_Subset, FS_CardinalityType
          <6>4. Cardinality(Guesses(e, t)) <= Cardinality(FailedLogins(e, at))
            BY <6>1, <6>3, FS_Subset
          <6>5. Cardinality(FailedLogins(e, at)) < MaxFailedLogins
            BY <3>4, <6>3, LimitsAreNats DEF Limited
          <6>6. Cardinality(Guesses(e, t)) \in Nat
            BY <1>0, Counts
          <6> QED
            BY <4>4, <6>3, <6>4, <6>5, <6>6, LimitsAreNats
        <5>2. /\ Cardinality(Verifying(x, t)') \in Nat
              /\ Cardinality(Verifying(x, t)') <= Cardinality(Calls)
              /\ Cardinality(Calls) \in Nat
          <6>1. Verifying(x, t)' \in SUBSET Calls
            BY DEF Verifying
          <6> QED
            BY <6>1, FS_Subset, FS_CardinalityType, CallsAreFinite
        <5>3. Cardinality(Guesses(x, t)) \in Nat
          BY <1>0, Counts
        <5> QED
          BY <4>3, <5>1, <5>2, <5>3, LimitsAreNats DEF GuessesFit
      <4>5. CASE ~(x = e /\ Within(at, t))
        <5>1. Verifying(x, t)' = Verifying(x, t)
          BY <3>2, <4>1, <4>2, <4>5 DEF Verifying
        <5> QED
          BY <4>3, <5>1 DEF GuessesInv, GuessesFit
      <4> QED
        BY <4>4, <4>5
    <3> QED
      BY <3>3, <3>4
  <2>2. CASE RecordFailure(c)
    <3>1. PICK e \in Emails, at \in Nat : call[c].op = "verify" /\ call[c].email = e /\ call[c].at = at
      BY <1>0, <2>2, CallShapes DEF RecordFailure
    <3> DEFINE new == [id |-> rows', email |-> e, at |-> at]
    <3>2. failures' = failures \cup {new}
      BY <2>2, <3>1 DEF RecordFailure
    <3>3. /\ \A d \in Calls \ {c} : call'[d] = call[d]
          /\ call'[c] = Idle
      BY <1>0, <2>2 DEF RecordFailure, End, Go, AccountsTypeOK
    <3>4. IsFiniteSet(failures')
      BY <1>0, <3>2, FS_AddElement
    <3>5. new.email = e /\ new.at = at
      OBVIOUS
    <3> HIDE DEF new
    <3> SUFFICES ASSUME NEW x \in Emails, NEW t \in Nat PROVE GuessesFit(x, t)'
      BY <1>0, <3>4 DEF GuessesInv
    <3>6. CASE x = e /\ Within(at, t)
      <4>1. Guesses(x, t)' = Guesses(x, t) \cup {new}
        BY <3>2, <3>5, <3>6 DEF Guesses
      <4>2. Verifying(x, t)' = Verifying(x, t) \ {c} /\ c \in Verifying(x, t)
        BY <3>1, <3>3, <3>6 DEF Verifying, Idle
      <4>3. /\ IsFiniteSet(Guesses(x, t)) /\ Cardinality(Guesses(x, t)) \in Nat
            /\ IsFiniteSet(Verifying(x, t)) /\ Cardinality(Verifying(x, t)) \in Nat
            /\ Cardinality(Calls) \in Nat
        BY <1>0, Counts
      <4>4. /\ Cardinality(Guesses(x, t)') \in {Cardinality(Guesses(x, t)), Cardinality(Guesses(x, t)) + 1}
            /\ Cardinality(Verifying(x, t)') = Cardinality(Verifying(x, t)) - 1
        <5>1. Cardinality(Guesses(x, t) \cup {new}) =
                IF new \in Guesses(x, t) THEN Cardinality(Guesses(x, t)) ELSE Cardinality(Guesses(x, t)) + 1
          BY <4>3, FS_AddElement
        <5>2. Cardinality(Verifying(x, t) \ {c}) = Cardinality(Verifying(x, t)) - 1
          BY <4>2, <4>3, FS_RemoveElement
        <5> QED
          BY <4>1, <4>2, <5>1, <5>2
      <4>5. GuessesFit(x, t)
        BY DEF GuessesInv
      <4> QED
        BY <4>3, <4>4, <4>5, LimitsAreNats DEF GuessesFit
    <3>7. CASE ~(x = e /\ Within(at, t))
      <4>1. Guesses(x, t)' = Guesses(x, t)
        BY <3>2, <3>5, <3>7 DEF Guesses
      <4>2. Verifying(x, t)' = Verifying(x, t)
        BY <3>1, <3>3, <3>7 DEF Verifying, Idle
      <4> QED
        BY <4>1, <4>2 DEF GuessesInv, GuessesFit
    <3> QED
      BY <3>6, <3>7
  <2>3. CASE ~CountFailures(c) /\ ~RecordFailure(c)
    <3>1. UNCHANGED failures
      BY <1>1, <2>3 DEF CallStep, BeginInvite, CheckAddress, PurgeExpired, InsertInvite, BeginAccept,
         ReadInvite, Claim, BeginSignup, CheckUser, Register, BeginLogin, LogIn
    <3>2. PICK next : Go(c, next) /\ next.op # "verify"
      <4>1. CASE BeginInvite(c) \/ BeginAccept(c) \/ BeginSignup(c) \/ BeginLogin(c)
        BY <1>0, <4>1, CallsBegin
      <4>2. CASE CheckAddress(c) \/ PurgeExpired(c)
        BY <1>0, <4>2, CallShapes DEF CheckAddress, PurgeExpired, End, Idle
      <4>3. CASE CheckUser(c)
        BY <1>0, <4>3, CallShapes DEF CheckUser, End, Idle
      <4>4. CASE InsertInvite(c) \/ Claim(c) \/ Register(c) \/ LogIn(c)
        <5>1. Go(c, Idle) /\ Idle.op # "verify"
          BY <4>4 DEF InsertInvite, Claim, Register, LogIn, End, Idle
        <5> QED
          BY <5>1
      <4>5. CASE ReadInvite(c)
        <5>1. CASE Go(c, Idle)
          <6>1. Idle.op # "verify"
            BY DEF Idle
          <6> QED
            BY <5>1, <6>1
        <5>2. CASE \E i \in invites : Go(c, [op |-> "claim", invite |-> i, at |-> call[c].at])
          <6>1. PICK i : Go(c, [op |-> "claim", invite |-> i, at |-> call[c].at])
            BY <5>2
          <6>2. [op |-> "claim", invite |-> i, at |-> call[c].at].op # "verify"
            OBVIOUS
          <6> QED
            BY <6>1, <6>2
        <5> QED
          BY <4>5, <5>1, <5>2 DEF ReadInvite, End
      <4> QED
        BY <1>1, <2>3, <4>1, <4>2, <4>3, <4>4, <4>5 DEF CallStep
    <3>3. \A d \in Calls : call'[d].op = "verify" => call'[d] = call[d]
      BY <1>0, <3>2 DEF Go, AccountsTypeOK
    <3> QED
      BY <1>0, <3>1, <3>3, NothingGrows DEF GuessesInv
  <2> QED
    BY <2>1, <2>2, <2>3
<1>2. CASE (\E e \in Emails : LoadDirectory(e)) \/ LogOut \/ Tick \/ UNCHANGED accountVars
  <2>1. UNCHANGED <<failures, call>>
    BY <1>2 DEF LoadDirectory, LogOut, Tick, accountVars
  <2> QED
    BY <1>0, <2>1, NothingGrows DEF GuessesInv
<1> QED
  BY <1>1, <1>2 DEF AccountsNext

LEMMA GuessesInit == AccountsInit => GuessesInv
<1> SUFFICES ASSUME AccountsInit PROVE GuessesInv
  OBVIOUS
<1>1. AccountsTypeOK /\ IsFiniteSet(failures) /\ failures = {}
  BY TypeInit, FS_EmptySet DEF AccountsInit
<1>2. ASSUME NEW e, NEW t PROVE GuessesFit(e, t)
  <2>1. Guesses(e, t) = {} /\ Verifying(e, t) = {}
    BY <1>1 DEF AccountsInit, Guesses, Verifying, Idle
  <2>2. Cardinality(Calls) \in Nat
    BY CallsAreFinite, FS_CardinalityType
  <2> QED
    BY <2>1, <2>2, FS_EmptySet, LimitsAreNats DEF GuessesFit
<1> QED
  BY <1>1, <1>2 DEF GuessesInv

(* Within any window an address is given at most MaxFailedLogins - 1 wrong *)
(* guesses and one for every login in flight (authenticateAccount).        *)
THEOREM GuessesStayBounded == AccountsSpec => []GuessesAreBounded
<1>1. GuessesInv => GuessesAreBounded
  <2> SUFFICES ASSUME GuessesInv, NEW e \in Emails, NEW t \in Times
               PROVE  Cardinality(Guesses(e, t)) < MaxFailedLogins + Cardinality(Calls)
    BY DEF GuessesAreBounded, Guesses, Within
  <2>1. t \in Nat /\ GuessesFit(e, t)
    BY LimitsAreNats DEF Times, GuessesInv
  <2>3. /\ Cardinality(Guesses(e, t)) \in Nat /\ Cardinality(Verifying(e, t)) \in Nat
        /\ Cardinality(Calls) \in Nat
    BY Counts DEF GuessesInv
  <2> QED
    BY <2>1, <2>3, LimitsAreNats DEF GuessesFit
<1> QED
  BY <1>1, GuessesInit, GuessesStep, PTL DEF AccountsSpec

=============================================================================
