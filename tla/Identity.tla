------------------------------ MODULE Identity ------------------------------
(***************************************************************************)
(* The identity module of the core engine (internal/identity): accounts,   *)
(* the one-time codes that verify a candidate's address, the tokens that   *)
(* reset a password, and the invitations by which all other accounts come  *)
(* about.                                                                  *)
(*                                                                         *)
(* As in Booking, a request is a process and one action is one statement   *)
(* with the decisions taken on its result.  A request may die between any  *)
(* two statements (Abandon), which also stands for a statement whose       *)
(* failure ends the request; the failures the code goes on after are       *)
(* disjuncts of their own.  The expiry of a code or token is a choice at   *)
(* the check.                                                              *)
(***************************************************************************)
EXTENDS Naturals, Sequences

CONSTANTS
  Emails,        \* addresses
  Accounts,      \* identifiers of rows in the six account tables
  KindOf,        \* the table an identifier is used in, as its entity type
  EmailOf,       \* the address of its row; no statement changes an address
  Root,          \* the root super admin present at the first start
  Codes,         \* one-time codes; a new code differs from the ones before
  ResetTokens,   \* tokens that reset a password
  Invitations,   \* identifiers of invitations
  InviteTokens,  \* tokens that accept an invitation
  InviteKinds,   \* bound: entity types that are invited
  MaxAttempts,   \* comparisons a code allows (VerifyOTP: 5)
  Requests,      \* requests that may be in progress at the same time
  None

(* Lookups by address try the tables in this order. *)
Tables == <<"candidate", "expert", "admin", "super_admin", "institute",
            "transport_authority">>
Kinds  == {Tables[i] : i \in 1 .. Len(Tables)}

ASSUME AccountsAssumption == /\ KindOf \in [Accounts -> Kinds]
                             /\ EmailOf \in [Accounts -> Emails]
ASSUME RootAssumption     == Root \in Accounts /\ KindOf[Root] = "super_admin"
ASSUME InviteAssumption   == InviteKinds \subseteq Kinds \ {"candidate"}
ASSUME AttemptsAssumption == MaxAttempts \in Nat \ {0}
ASSUME OwnAssumption      == "own" \notin ResetTokens
ASSUME NoneAssumption     == None \notin Accounts \cup Emails \cup Codes \cup ResetTokens
                                          \cup Invitations \cup InviteTokens \cup Kinds

VARIABLES
  account,   \* the six account tables
  otp,       \* table otp_codes
  reset,     \* table password_reset_tokens
  inv,       \* table invitations
  session,   \* the accounts somebody holds a signed token of
  issued,    \* codes and tokens generated so far
  tried,     \* history: how often each code was compared with an input
  req        \* the requests in progress

vars == <<account, otp, reset, inv, session, issued, tried, req>>

-----------------------------------------------------------------------------
UserStatus == {"active", "inactive", "suspended", "pending_verification"}
OrgStatus  == {"active", "inactive", "suspended", "pending_approval"}
Orgs       == {"institute", "transport_authority"}

(* What an administrator may set: parseUserStatus and parseOrgStatus. *)
Settable(k) == IF k \in Orgs THEN OrgStatus ELSE UserStatus \ {"pending_verification"}

(* "none" is a row not inserted yet and "deleted" one removed again.  The  *)
(* password is the one the owner chose or the one set with a reset token;  *)
(* `by` is created_by.                                                     *)
AccountRow == [status   : UserStatus \cup OrgStatus \cup {"none", "deleted"},
               password : {"own"} \cup ResetTokens,
               by       : Accounts \cup {None}]
OTPRow     == [code : Codes \cup {None}, attempts : 0 .. MaxAttempts + 1]
InviteRow  == [state : {"none", "open", "used", "cancelled"},
               email : Emails \cup {None}, kind : Kinds \cup {None},
               token : InviteTokens \cup {None}, by : Accounts \cup {None}]

NoAccount == [status |-> "none", password |-> "own", by |-> None]
NoOTP     == [code |-> None, attempts |-> 0]
NoInvite  == [state |-> "none", email |-> None, kind |-> None, token |-> None, by |-> None]

Exists(a) == account[a].status \notin {"none", "deleted"}

(* SELECT ... FROM <table> WHERE email = e *)
Row(k, e) == {a \in Accounts : Exists(a) /\ KindOf[a] = k /\ EmailOf[a] = e}

PC == {"idle", "reg_create", "otp_send", "otp_count", "otp_used", "otp_drop",
       "otp_activate", "reset_store", "reset_find", "reset_write", "change_write",
       "acc_create", "acc_mark", "inv_retoken", "inv_cancel", "del_super"}

(* a: the account, e: the address, x: the reset token, i: the invitation,  *)
(* n: the table a lookup has come to.                                      *)
Request == [pc : PC, a : Accounts \cup {None}, e : Emails \cup {None},
            x : ResetTokens \cup {None}, i : Invitations \cup {None},
            n : 1 .. Len(Tables) + 1]

Idle == [pc |-> "idle", a |-> None, e |-> None, x |-> None, i |-> None, n |-> 1]

At(r, l)    == req[r].pc = l
Goto(r, l)  == req' = [req EXCEPT ![r].pc = l]
Enter(r, q) == req' = [req EXCEPT ![r] = q]
Finish(r)   == req' = [req EXCEPT ![r] = Idle]

(* A code or token that random generation has not produced before. *)
Fresh(x) == x \notin issued
Issue(x) == issued' = issued \cup {x}

SignedInAs(ks) == \E s \in session : KindOf[s] \in ks

(* An INSERT into the table of a; the address is UNIQUE there. *)
Insertable(a) == account[a].status = "none" /\ Row(KindOf[a], EmailOf[a]) = {}
Insert(a, st, b) ==
  account' = [account EXCEPT ![a] = [status |-> st, password |-> "own", by |-> b]]

-----------------------------------------------------------------------------
(* The first start has seeded the root super admin. *)
Init ==
  /\ account = [a \in Accounts |-> IF a = Root
                  THEN [status |-> "active", password |-> "own", by |-> Root] ELSE NoAccount]
  /\ otp     = [e \in Emails |-> NoOTP]
  /\ reset   = [e \in Emails |-> None]
  /\ inv     = [i \in Invitations |-> NoInvite]
  /\ session = {}
  /\ issued  = {}
  /\ tried   = [c \in Codes |-> 0]
  /\ req     = [r \in Requests |-> Idle]

-----------------------------------------------------------------------------
(* Registration and verification of candidates.                            *)

(* The lookup by Fayida ID that follows may refuse as well: Abandon.  Both  *)
(* lookups drop their errors; a request that a failing lookup lets pass is  *)
(* refused by the UNIQUE address, for candidates are never deleted.         *)
RegisterCandidate(r, e) ==
  /\ At(r, "idle")
  /\ Row("candidate", e) = {}
  /\ Enter(r, [Idle EXCEPT !.pc = "reg_create", !.e = e])
  /\ UNCHANGED <<account, otp, reset, inv, session, issued, tried>>

CreateCandidate(r, a) ==
  /\ At(r, "reg_create")
  /\ KindOf[a] = "candidate" /\ EmailOf[a] = req[r].e
  /\ Insertable(a)
  /\ Insert(a, "pending_verification", None)
  /\ Goto(r, "otp_send")
  /\ UNCHANGED <<otp, reset, inv, session, issued, tried>>

ResendOTP(r, a) ==
  /\ At(r, "idle")
  /\ KindOf[a] = "candidate"
  /\ account[a].status = "pending_verification"
  /\ Enter(r, [Idle EXCEPT !.pc = "otp_send", !.e = EmailOf[a]])
  /\ UNCHANGED <<account, otp, reset, inv, session, issued, tried>>

(* sendOTP: the row of the address is replaced, its attempts are 0 again. *)
UpsertOTP(r, c) ==
  /\ At(r, "otp_send")
  /\ Fresh(c) /\ Issue(c)
  /\ otp' = [otp EXCEPT ![req[r].e] = [code |-> c, attempts |-> 0]]
  /\ Finish(r)
  /\ UNCHANGED <<account, reset, inv, session, tried>>

VerifyOTP(r, a) ==
  /\ At(r, "idle")
  /\ KindOf[a] = "candidate" /\ Exists(a)
  /\ Enter(r, [Idle EXCEPT !.pc = "otp_count", !.a = a, !.e = EmailOf[a]])
  /\ UNCHANGED <<account, otp, reset, inv, session, issued, tried>>

(* Mutation: `attempts > 6`. *)
CountAttemptOneMore(r) ==
  LET e == req[r].e
      n == otp[e].attempts + 1
  IN
  /\ At(r, "otp_count")
  /\ otp[e].code # None
  /\ otp' = [otp EXCEPT ![e].attempts = IF n > MaxAttempts THEN MaxAttempts + 1 ELSE n]
  /\ \/ Goto(r, "otp_drop") /\ UNCHANGED tried
     \/ /\ n <= MaxAttempts + 1
        /\ tried' = [tried EXCEPT ![otp[e].code] = @ + 1]
        /\ Goto(r, "otp_used") \/ Finish(r)
  /\ UNCHANGED <<account, reset, inv, session, issued>>

(* UPDATE otp_codes SET attempts=attempts+1 ... RETURNING: one statement   *)
(* counts and reads; too many attempts, an expired code, the right and the *)
(* wrong code.  Beyond MaxAttempts the count is told apart no further.     *)
CountAttempt(r) ==
  LET e == req[r].e
      n == otp[e].attempts + 1
  IN
  /\ At(r, "otp_count")
  /\ otp[e].code # None
  /\ otp' = [otp EXCEPT ![e].attempts = IF n > MaxAttempts THEN MaxAttempts + 1 ELSE n]
  /\ \/ Goto(r, "otp_drop") /\ UNCHANGED tried
     \/ /\ n <= MaxAttempts
        /\ tried' = [tried EXCEPT ![otp[e].code] = @ + 1]
        /\ Goto(r, "otp_used") \/ Finish(r)
  /\ UNCHANGED <<account, reset, inv, session, issued>>

(* DELETE FROM otp_codes WHERE email: whatever code is there by now.  Its  *)
(* error is dropped.                                                       *)
DropCode(r) ==
  /\ \/ At(r, "otp_drop") /\ Finish(r)
     \/ At(r, "otp_used") /\ Goto(r, "otp_activate")
  /\ otp' = [otp EXCEPT ![req[r].e] = NoOTP] \/ UNCHANGED otp
  /\ UNCHANGED <<account, reset, inv, session, issued, tried>>

(* Mutation: a status the column's type does not have. *)
ActivateAsVerified(r) ==
  /\ At(r, "otp_activate")
  /\ account' = [account EXCEPT ![req[r].a].status = "verified"]
  /\ session' = session \cup {req[r].a}
  /\ Finish(r)
  /\ UNCHANGED <<otp, reset, inv, issued, tried>>

(* UpdateCandidateStatus(active), whatever the status has become. *)
ActivateCandidate(r) ==
  /\ At(r, "otp_activate")
  /\ account' = [account EXCEPT ![req[r].a].status = "active"]
  /\ session' = session \cup {req[r].a}
  /\ Finish(r)
  /\ UNCHANGED <<otp, reset, inv, issued, tried>>

(* A super admin has no status to check.  Tokens are stateless: none is    *)
(* revoked, and RefreshToken renews it without a look at the account.      *)
Login(a) ==
  /\ Exists(a)
  /\ \/ account[a].status = "active"
     \/ KindOf[a] \in {"expert", "admin"} /\ account[a].status = "pending_verification"
     \/ KindOf[a] = "transport_authority" /\ account[a].status = "pending_approval"
  /\ session' = session \cup {a}
  /\ UNCHANGED <<account, otp, reset, inv, issued, tried, req>>

-----------------------------------------------------------------------------
(* Passwords.                                                              *)

(* emailRegistered: one of the lookups finds a row. *)
ForgotPassword(r, e) ==
  /\ At(r, "idle")
  /\ \E k \in Kinds : Row(k, e) # {}
  /\ Enter(r, [Idle EXCEPT !.pc = "reset_store", !.e = e])
  /\ UNCHANGED <<account, otp, reset, inv, session, issued, tried>>

UpsertPasswordResetToken(r, k) ==
  /\ At(r, "reset_store")
  /\ Fresh(k) /\ Issue(k)
  /\ reset' = [reset EXCEPT ![req[r].e] = k]
  /\ Finish(r)
  /\ UNCHANGED <<account, otp, inv, session, tried>>

(* ConsumePasswordResetToken: DELETE ... WHERE token RETURNING.  An expired *)
(* token is deleted as well.                                               *)
ResetPassword(r, e) ==
  /\ At(r, "idle")
  /\ reset[e] # None
  /\ reset' = [reset EXCEPT ![e] = None]
  /\ \/ Enter(r, [Idle EXCEPT !.pc = "reset_find", !.e = e, !.x = reset[e]])
     \/ UNCHANGED req
  /\ UNCHANGED <<account, otp, inv, session, issued, tried>>

(* updatePasswordByEmail tries table after table; a lookup or an UPDATE    *)
(* that fails passes on to the next one.                                   *)
FindAccount(r) ==
  LET q == req[r]  IN
  /\ At(r, "reset_find")
  /\ \/ /\ q.n <= Len(Tables)
        /\ \E a \in Row(Tables[q.n], q.e) : Enter(r, [q EXCEPT !.pc = "reset_write", !.a = a])
     \/ /\ q.n <= Len(Tables)
        /\ Enter(r, [q EXCEPT !.n = @ + 1])
     \/ q.n > Len(Tables) /\ Finish(r)
  /\ UNCHANGED <<account, otp, reset, inv, session, issued, tried>>

(* UPDATE ... WHERE id: a row deleted meanwhile is left alone. *)
SetPassword(a, p) ==
  account' = [account EXCEPT ![a].password = IF Exists(a) THEN p ELSE @]

(* Mutation: the loop over the tables does not end at the first success. *)
WriteResetEverywhere(r) ==
  LET q == req[r]  IN
  /\ At(r, "reset_write")
  /\ SetPassword(q.a, q.x) \/ UNCHANGED account
  /\ Enter(r, [q EXCEPT !.pc = "reset_find", !.a = None, !.n = @ + 1])
  /\ UNCHANGED <<otp, reset, inv, session, issued, tried>>

WriteReset(r) ==
  LET q == req[r]  IN
  /\ At(r, "reset_write")
  /\ \/ SetPassword(q.a, q.x) /\ Finish(r)
     \/ Enter(r, [q EXCEPT !.pc = "reset_find", !.a = None, !.n = @ + 1]) /\ UNCHANGED account
  /\ UNCHANGED <<otp, reset, inv, session, issued, tried>>

(* The current password, read by GetPasswordHash, is the one given. *)
ChangePassword(r, a) ==
  /\ At(r, "idle")
  /\ a \in session
  /\ Exists(a)
  /\ Enter(r, [Idle EXCEPT !.pc = "change_write", !.a = a])
  /\ UNCHANGED <<account, otp, reset, inv, session, issued, tried>>

WriteChange(r) ==
  /\ At(r, "change_write")
  /\ SetPassword(req[r].a, "own")
  /\ Finish(r)
  /\ UNCHANGED <<otp, reset, inv, session, issued, tried>>

-----------------------------------------------------------------------------
(* Invitations.                                                            *)

(* Mutation: no restriction for administrators. *)
InvitableByAll(s) == Kinds

(* The entity types the holder of a token of s may invite. *)
Invitable(s) == IF KindOf[s] = "admin" THEN {"expert", "institute"} ELSE Kinds

CreateInvitation(s, i, e, k, t) ==
  /\ s \in session
  /\ KindOf[s] \in {"admin", "super_admin"}
  /\ k \in Invitable(s)
  /\ inv[i].state = "none"
  /\ Fresh(t) /\ Issue(t)
  /\ inv' = [inv EXCEPT ![i] = [state |-> "open", email |-> e, kind |-> k,
                                token |-> t, by |-> s]]
  /\ UNCHANGED <<account, otp, reset, session, tried, req>>

(* InvitationByToken: open and, by choice, not expired. *)
AcceptInvitation(r, i) ==
  /\ At(r, "idle")
  /\ inv[i].state = "open"
  /\ Enter(r, [Idle EXCEPT !.pc = "acc_create", !.i = i])
  /\ UNCHANGED <<account, otp, reset, inv, session, issued, tried>>

(* The account of the invited entity type, created by the one who invited. *)
CreateMember(r, a) ==
  LET i == req[r].i  IN
  /\ At(r, "acc_create")
  /\ KindOf[a] = inv[i].kind /\ EmailOf[a] = inv[i].email
  /\ Insertable(a)
  /\ Insert(a, "active", inv[i].by)
  /\ req' = [req EXCEPT ![r].pc = "acc_mark", ![r].a = a]
  /\ UNCHANGED <<otp, reset, inv, session, issued, tried>>

(* MarkInvitationUsed matches no row once the invitation was cancelled; its *)
(* error is dropped.                                                       *)
MarkInvitationUsed(r) ==
  LET i == req[r].i  IN
  /\ At(r, "acc_mark")
  /\ \/ inv[i].state # "cancelled" /\ inv' = [inv EXCEPT ![i].state = "used"]
     \/ UNCHANGED inv
  /\ session' = session \cup {req[r].a}
  /\ Finish(r)
  /\ UNCHANGED <<account, otp, reset, issued, tried>>

(* GetInvitation and the check of used_at, for ResendInvitation and        *)
(* CancelInvitation.                                                       *)
ReadInvitation(r, i, l) ==
  /\ At(r, "idle")
  /\ SignedInAs({"admin", "super_admin"})
  /\ inv[i].state = "open"
  /\ Enter(r, [Idle EXCEPT !.pc = l, !.i = i])
  /\ UNCHANGED <<account, otp, reset, inv, session, issued, tried>>

ResendInvitation(r, i) == ReadInvitation(r, i, "inv_retoken")
CancelInvitation(r, i) == ReadInvitation(r, i, "inv_cancel")

(* Mutation: UPDATE invitations ... WHERE id *)
UpdateAnyInvitation(r, t) ==
  LET i == req[r].i  IN
  /\ At(r, "inv_retoken")
  /\ Fresh(t) /\ Issue(t)
  /\ inv' = [inv EXCEPT ![i].token = IF inv[i].state # "cancelled" THEN t ELSE @]
  /\ Finish(r)
  /\ UNCHANGED <<account, otp, reset, session, tried>>

(* UPDATE invitations ... WHERE id AND used_at IS NULL *)
UpdateInvitationToken(r, t) ==
  LET i == req[r].i  IN
  /\ At(r, "inv_retoken")
  /\ Fresh(t) /\ Issue(t)
  /\ inv' = [inv EXCEPT ![i].token = IF inv[i].state = "open" THEN t ELSE @]
  /\ Finish(r)
  /\ UNCHANGED <<account, otp, reset, session, tried>>

(* DELETE FROM invitations WHERE id AND used_at IS NULL *)
DeleteInvitation(r) ==
  LET i == req[r].i  IN
  /\ At(r, "inv_cancel")
  /\ inv' = [inv EXCEPT ![i].state = IF @ = "open" THEN "cancelled" ELSE @]
  /\ Finish(r)
  /\ UNCHANGED <<account, otp, reset, session, issued, tried>>

-----------------------------------------------------------------------------
(* Administration of accounts.                                             *)

Supervisors(k) == IF k \in {"candidate", "institute"} THEN {"admin", "super_admin"}
                  ELSE {"super_admin"}

(* PATCH /<table>/{id}/status.  The soft deletions set "inactive", also    *)
(* for the owner of a candidate's or an institute's account.               *)
UpdateStatus(a, st) ==
  /\ KindOf[a] # "super_admin" /\ Exists(a)
  /\ \/ SignedInAs(Supervisors(KindOf[a])) /\ st \in Settable(KindOf[a])
     \/ a \in session /\ KindOf[a] \in {"candidate", "institute"} /\ st = "inactive"
  /\ account' = [account EXCEPT ![a].status = st]
  /\ UNCHANGED <<otp, reset, inv, session, issued, tried, req>>

DeleteRow(a) == account' = [account EXCEPT ![a].status = IF Exists(a) THEN "deleted" ELSE @]

(* deleteExpert, deleteAdmin *)
DeleteMember(a) ==
  /\ KindOf[a] \in {"expert", "admin"} /\ Exists(a)
  /\ SignedInAs({"super_admin"})
  /\ DeleteRow(a)
  /\ UNCHANGED <<otp, reset, inv, session, issued, tried, req>>

(* deleteSuperAdmin of another account.  It refuses the root's row when it *)
(* can read that row; when the read fails, and nothing tells it to, it     *)
(* goes on, so that the row may be any.                                    *)
DeleteSuperAdmin(r, s, a) ==
  /\ At(r, "idle")
  /\ s \in session /\ KindOf[s] = "super_admin"
  /\ KindOf[a] = "super_admin" /\ a # s /\ Exists(a)
  /\ Enter(r, [Idle EXCEPT !.pc = "del_super", !.a = a])
  /\ UNCHANGED <<account, otp, reset, inv, session, issued, tried>>

DeleteSuperAdminRow(r) ==
  /\ At(r, "del_super")
  /\ DeleteRow(req[r].a)
  /\ Finish(r)
  /\ UNCHANGED <<otp, reset, inv, session, issued, tried>>

-----------------------------------------------------------------------------
(* The request ends early: its client or its deadline cancels it, or a     *)
(* statement fails without an effect.                                      *)
Abandon(r) ==
  /\ ~At(r, "idle")
  /\ Finish(r)
  /\ UNCHANGED <<account, otp, reset, inv, session, issued, tried>>

(* The process restarts; SeedSuperAdmin looks for the root's address. *)
Restart ==
  /\ \/ Row("super_admin", EmailOf[Root]) # {} /\ UNCHANGED account
     \/ \E a \in Accounts :
          /\ KindOf[a] = "super_admin" /\ EmailOf[a] = EmailOf[Root]
          /\ Insertable(a)
          /\ Insert(a, "active", a)
  /\ req' = [r \in Requests |-> Idle]
  /\ UNCHANGED <<otp, reset, inv, session, issued, tried>>

Begin(r) ==
  \/ \E e \in Emails : RegisterCandidate(r, e) \/ ForgotPassword(r, e) \/ ResetPassword(r, e)
  \/ \E a \in Accounts : ResendOTP(r, a) \/ VerifyOTP(r, a) \/ ChangePassword(r, a)
  \/ \E i \in Invitations :
       AcceptInvitation(r, i) \/ ResendInvitation(r, i) \/ CancelInvitation(r, i)
  \/ \E s, a \in Accounts : DeleteSuperAdmin(r, s, a)

Continue(r) ==
  \/ \E a \in Accounts : CreateCandidate(r, a) \/ CreateMember(r, a)
  \/ \E c \in Codes : UpsertOTP(r, c)
  \/ \E k \in ResetTokens : UpsertPasswordResetToken(r, k)
  \/ \E t \in InviteTokens : UpdateInvitationToken(r, t)
  \/ CountAttempt(r) \/ DropCode(r) \/ ActivateCandidate(r)
  \/ FindAccount(r) \/ WriteReset(r) \/ WriteChange(r)
  \/ MarkInvitationUsed(r) \/ DeleteInvitation(r) \/ DeleteSuperAdminRow(r)
  \/ Abandon(r)

(* Handlers of one statement *)
Single ==
  \/ \E a \in Accounts : Login(a) \/ DeleteMember(a)
  \/ \E a \in Accounts, st \in UserStatus \cup OrgStatus : UpdateStatus(a, st)
  \/ \E s \in Accounts, i \in Invitations, e \in Emails, k \in InviteKinds, t \in InviteTokens :
       CreateInvitation(s, i, e, k, t)

Next == (\E r \in Requests : Begin(r) \/ Continue(r)) \/ Single \/ Restart

Spec == Init /\ [][Next]_vars

-----------------------------------------------------------------------------
(* Properties.                                                             *)

TypeOK ==
  /\ account \in [Accounts -> AccountRow]
  /\ otp \in [Emails -> OTPRow]
  /\ reset \in [Emails -> ResetTokens \cup {None}]
  /\ inv \in [Invitations -> InviteRow]
  /\ session \in SUBSET Accounts
  /\ issued \in SUBSET (Codes \cup ResetTokens \cup InviteTokens)
  /\ tried \in [Codes -> Nat]
  /\ req \in [Requests -> Request]

(* A code that was sent is compared with an input MaxAttempts times at     *)
(* most, however verifications race and whatever is sent again meanwhile   *)
(* (repository.go:663-687).                                                *)
CodeTriesBounded == \A c \in Codes : tried[c] <= MaxAttempts

(* A reset token is in one place only: stored for one address, in the      *)
(* hands of one request, or in the password of one account, the one it     *)
(* was used for (repository.go:701, service.go:354-406).                   *)
Stored(k) == {e \in Emails : reset[e] = k}
Held(k)   == {r \in Requests : req[r].x = k}
Used(k)   == {a \in Accounts : account[a].password = k}

ResetTokenInOnePlace ==
  \A k \in ResetTokens :
    /\ \A S \in {Stored(k), Held(k), Used(k)} : \A p, q \in S : p = q
    /\ Stored(k) = {} \/ Held(k) = {}
    /\ Stored(k) = {} \/ Used(k) = {}
    /\ Held(k) = {} \/ Used(k) = {}

(* An invitation that was used is never cancelled, opened again or given a *)
(* new token, even by a request that read it before (service.go:573-608).  *)
UsedInvitationIsClosed ==
  [][\A i \in Invitations : inv[i].state = "used" => inv'[i] = inv[i]]_vars

(* Administrators, authorities and super admins are invited by super       *)
(* admins, along whatever chain of invitations they came                   *)
(* (service.go:410-422, the created_by of every row made by 452-558).      *)
Privileged == {"admin", "super_admin", "transport_authority"}

PrivilegedBySuperAdmin ==
  \A a \in Accounts :
    Exists(a) /\ KindOf[a] \in Privileged
      => account[a].by # None /\ KindOf[account[a].by] = "super_admin"
=============================================================================
