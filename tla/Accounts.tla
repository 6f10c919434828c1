------------------------------ MODULE Accounts ------------------------------
(***************************************************************************)
(* Invites, accounts and sessions: an administrator invites an address,    *)
(* the invited person or a signup makes the account, members log in and    *)
(* out.  Every call reads first and writes later, one database statement   *)
(* or batch at a time, with the clock it read when it began.               *)
(*                                                                         *)
(* UNIQUE (kind, subject) and UNIQUE (email) make an address the key of    *)
(* its principal, so the accounts are a function of the addresses.         *)
(***************************************************************************)
EXTENDS Naturals, FiniteSets

CONSTANTS Emails, Roles, Calls,
          Lifetime,        \* INVITE_TTL_MS
          Window,          \* LOGIN_WINDOW_MS
          MaxFailedLogins, \* MAX_FAILED_LOGINS
          MaxTime,         \* bound: the clock
          MaxRows          \* bound: rows with an id of their own

ASSUME CallsAreFinite == IsFiniteSet(Calls)
ASSUME LimitsAreNats == {Lifetime, Window, MaxTime, MaxRows} \subseteq Nat /\ MaxFailedLogins \in Nat \ {0}

VARIABLES
  clock,     \* Date.now()
  rows,      \* ids handed out so far
  invites,   \* table invites
  accounts,  \* principals, auth_users, roles: by address
  sessions,  \* table auth_sessions
  failures,  \* table auth_login_attempts
  call       \* the calls in flight

accountVars == <<clock, rows, invites, accounts, sessions, failures, call>>

Times  == 0..MaxTime
NoRole == "none"

Idle == [op |-> "idle"]

(* A principal loaded by the operator has no auth_users row; one that      *)
(* signed up has no grants.  "by" is the invite it was made from, 0 none.  *)
Absent     == [kind |-> "absent", by |-> 0, role |-> NoRole]
Directory  == [kind |-> "directory", by |-> 0, role |-> NoRole]
Signed     == [kind |-> "user", by |-> 0, role |-> NoRole]
Invited(i) == [kind |-> "user", by |-> i.id, role |-> i.role]

Accounts == [kind : {"absent", "directory", "user"}, by : Nat, role : Roles \cup {NoRole}]
Invites  == [id : Nat, email : Emails, role : Roles, expires : Nat, accepted : BOOLEAN]
Sessions == [id : Nat, email : Emails]
Failures == [id : Nat, email : Emails, at : Nat]
CallsOf  ==
       {Idle}
  \cup [op : {"create", "purge", "insert"}, email : Emails, role : Roles, at : Nat]
  \cup [op : {"read"}, invite : Nat, at : Nat]
  \cup [op : {"claim"}, invite : Invites, at : Nat]
  \cup [op : {"signup", "register", "count", "verify"}, email : Emails, at : Nat]

AccountsTypeOK ==
  /\ clock \in Nat /\ rows \in Nat
  /\ invites \subseteq Invites /\ sessions \subseteq Sessions /\ failures \subseteq Failures
  /\ accounts \in [Emails -> Accounts]
  /\ call \in [Calls -> CallsOf]

AccountsInit ==
  /\ clock = 0 /\ rows = 0
  /\ invites = {} /\ sessions = {} /\ failures = {}
  /\ accounts = [e \in Emails |-> Absent]
  /\ call = [c \in Calls |-> Idle]

-----------------------------------------------------------------------------
Go(c, next) == call' = [call EXCEPT ![c] = next]

End(c) == Go(c, Idle)

NewRow == rows < MaxRows /\ rows' = rows + 1

Open(i) == ~i.accepted

(* The session an account is given when it is made or logs in.  It lasts   *)
(* longer (SESSION_TTL_SECONDS) than the clock of an instance runs.        *)
NewSession(id, e) == [id |-> id, email |-> e]

(* POST /admin/invites (requireAdmin): who already has an account or a     *)
(* principal is refused.                                                   *)
BeginInvite(c) ==
  /\ call[c] = Idle
  /\ \E e \in Emails, r \in Roles : Go(c, [op |-> "create", email |-> e, role |-> r, at |-> clock])
  /\ UNCHANGED <<clock, rows, invites, accounts, sessions, failures>>

CheckAddress(c) ==
  /\ call[c].op = "create"
  /\ IF accounts[call[c].email].kind # "absent" THEN End(c) ELSE Go(c, [call[c] EXCEPT !.op = "purge"])
  /\ UNCHANGED <<clock, rows, invites, accounts, sessions, failures>>

(* Mutant: an accepted invite is purged too.                               *)
MutStaleAccepted(i, e, at) == i.email = e /\ i.expires <= at

Stale(i, e, at) == i.email = e /\ Open(i) /\ i.expires <= at

PurgeExpired(c) ==
  /\ call[c].op = "purge"
  /\ invites' = {i \in invites : ~Stale(i, call[c].email, call[c].at)}
  /\ Go(c, [call[c] EXCEPT !.op = "insert"])
  /\ UNCHANGED <<clock, rows, accounts, sessions, failures>>

(* The index invites_open_email refuses a second open invite.              *)
InsertInvite(c) ==
  /\ call[c].op = "insert"
  /\ LET new == [id |-> rows + 1, email |-> call[c].email, role |-> call[c].role,
                 expires |-> call[c].at + Lifetime, accepted |-> FALSE]
     IN  IF \E i \in invites : i.email = new.email /\ Open(i)
         THEN UNCHANGED <<rows, invites>>
         ELSE NewRow /\ invites' = invites \cup {new}
  /\ End(c)
  /\ UNCHANGED <<clock, accounts, sessions, failures>>

-----------------------------------------------------------------------------
(* POST /auth/invite/accept with the token of some invite, old or new.     *)
BeginAccept(c) ==
  /\ call[c] = Idle
  /\ \E n \in 1..rows : Go(c, [op |-> "read", invite |-> n, at |-> clock])
  /\ UNCHANGED <<clock, rows, invites, accounts, sessions, failures>>

Redeemable(i, n, at) == i.id = n /\ Open(i) /\ i.expires > at

ReadInvite(c) ==
  /\ call[c].op = "read"
  /\ IF \E i \in invites : Redeemable(i, call[c].invite, call[c].at)
     THEN \E i \in invites :
            /\ Redeemable(i, call[c].invite, call[c].at)
            /\ Go(c, [op |-> "claim", invite |-> i, at |-> call[c].at])
     ELSE End(c)
  /\ UNCHANGED <<clock, rows, invites, accounts, sessions, failures>>

MayInsert(claimed) == claimed # {}

(* The batch, after the password was hashed: the claim, and only if it     *)
(* took the invite the principal, user, grants and session.  A principal   *)
(* of that address violates UNIQUE and rolls the batch back, claim too.    *)
Claim(c) ==
  /\ call[c].op = "claim"
  /\ LET i == call[c].invite
         claimed == {j \in invites : Redeemable(j, i.id, call[c].at)}
     IN  IF MayInsert(claimed) /\ accounts[i.email] = Absent
         THEN /\ NewRow
              /\ invites' = (invites \ claimed) \cup {[j EXCEPT !.accepted = TRUE] : j \in claimed}
              /\ accounts' = [accounts EXCEPT ![i.email] = Invited(i)]
              /\ sessions' = sessions \cup {NewSession(rows', i.email)}
         ELSE UNCHANGED <<rows, invites, accounts, sessions>>
  /\ End(c)
  /\ UNCHANGED <<clock, failures>>

(* POST /auth/signup with the right code: looks for a user, then one batch.*)
BeginSignup(c) ==
  /\ call[c] = Idle
  /\ \E e \in Emails : Go(c, [op |-> "signup", email |-> e, at |-> clock])
  /\ UNCHANGED <<clock, rows, invites, accounts, sessions, failures>>

CheckUser(c) ==
  /\ call[c].op = "signup"
  /\ IF accounts[call[c].email].kind = "user" THEN End(c) ELSE Go(c, [call[c] EXCEPT !.op = "register"])
  /\ UNCHANGED <<clock, rows, invites, accounts, sessions, failures>>

Register(c) ==
  /\ call[c].op = "register"
  /\ LET e == call[c].email
     IN  IF accounts[e] = Absent
         THEN /\ NewRow
              /\ accounts' = [accounts EXCEPT ![e] = Signed]
              /\ sessions' = sessions \cup {NewSession(rows', e)}
         ELSE UNCHANGED <<rows, accounts, sessions>>
  /\ End(c)
  /\ UNCHANGED <<clock, invites, failures>>

(* ensureLoopbackPrincipal, and the operator's scripts that load people.   *)
LoadDirectory(e) ==
  /\ accounts[e] = Absent
  /\ accounts' = [accounts EXCEPT ![e] = Directory]
  /\ UNCHANGED <<clock, rows, invites, sessions, failures, call>>

-----------------------------------------------------------------------------
BeginLogin(c) ==
  /\ call[c] = Idle
  /\ \E e \in Emails : Go(c, [op |-> "count", email |-> e, at |-> clock])
  /\ UNCHANGED <<clock, rows, invites, accounts, sessions, failures>>

FailedLogins(e, at) == {f \in failures : f.email = e /\ f.at + Window > at}

(* Mutant: one guess more than the limit.                                  *)
MutLimited(e, at) == Cardinality(FailedLogins(e, at)) > MaxFailedLogins

Limited(e, at) == Cardinality(FailedLogins(e, at)) >= MaxFailedLogins

CountFailures(c) ==
  /\ call[c].op = "count"
  /\ IF Limited(call[c].email, call[c].at) THEN End(c) ELSE Go(c, [call[c] EXCEPT !.op = "verify"])
  /\ UNCHANGED <<clock, rows, invites, accounts, sessions, failures>>

(* The password is verified.  A wrong one, or one of no user, is recorded. *)
LogIn(c) ==
  /\ call[c].op = "verify"
  /\ accounts[call[c].email].kind = "user"
  /\ NewRow
  /\ sessions' = sessions \cup {NewSession(rows', call[c].email)}
  /\ End(c)
  /\ UNCHANGED <<clock, invites, accounts, failures>>

RecordFailure(c) ==
  /\ call[c].op = "verify"
  /\ NewRow
  /\ failures' = failures \cup {[id |-> rows', email |-> call[c].email, at |-> call[c].at]}
  /\ End(c)
  /\ UNCHANGED <<clock, invites, accounts, sessions>>

(* POST /auth/logout: revokeSession.                                       *)
LogOut ==
  /\ \E s \in sessions : sessions' = sessions \ {s}
  /\ UNCHANGED <<clock, rows, invites, accounts, failures, call>>

Tick ==
  /\ clock < MaxTime /\ clock' = clock + 1
  /\ UNCHANGED <<rows, invites, accounts, sessions, failures, call>>

CallStep(c) ==
  \/ BeginInvite(c) \/ CheckAddress(c) \/ PurgeExpired(c) \/ InsertInvite(c)
  \/ BeginAccept(c) \/ ReadInvite(c) \/ Claim(c)
  \/ BeginSignup(c) \/ CheckUser(c) \/ Register(c)
  \/ BeginLogin(c) \/ CountFailures(c) \/ LogIn(c) \/ RecordFailure(c)

AccountsNext ==
  \/ \E c \in Calls : CallStep(c)
  \/ \E e \in Emails : LoadDirectory(e)
  \/ LogOut \/ Tick

AccountsSpec == AccountsInit /\ [][AccountsNext]_accountVars

-----------------------------------------------------------------------------
(* An accepted invite and the account made from it belong together, one to *)
(* one, with the invite's own address and role, however invites expire,    *)
(* are purged, issued again and redeemed twice meanwhile (acceptInvite,    *)
(* createInvite).                                                          *)
InvitedAccounts ==
  /\ \A e \in Emails : accounts[e].by # 0 =>
       \E i \in invites : i.id = accounts[e].by /\ i.accepted /\ i.email = e /\ i.role = accounts[e].role
  /\ \A i \in invites : i.accepted => accounts[i.email] = Invited(i)

(* Within any window an address is given at most MaxFailedLogins - 1 wrong *)
(* guesses and one for every login in flight: the count is read before the *)
(* password is checked (authenticateAccount).                              *)
GuessesAreBounded ==
  \A e \in Emails, t \in Times :
    Cardinality({f \in failures : f.email = e /\ f.at <= t /\ f.at + Window > t})
      < MaxFailedLogins + Cardinality(Calls)
=============================================================================
