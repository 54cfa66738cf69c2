--------------------------- MODULE IdentityProofs ---------------------------
(***************************************************************************)
(* Proofs about Identity, for any accounts, addresses, codes, tokens,      *)
(* invitations and requests.                                               *)
(***************************************************************************)
EXTENDS Identity, TLAPS

-----------------------------------------------------------------------------
(* Types, and what a request knows at each program counter.                *)

Knows(q) ==
  /\ q.pc \in {"reg_create", "otp_send", "otp_count", "otp_used", "otp_drop",
               "reset_store", "reset_find", "reset_write"} => q.e # None
  /\ q.pc \in {"otp_count", "otp_used", "otp_activate", "acc_mark",
               "reset_write", "change_write", "del_super"} => q.a # None
  /\ q.pc \in {"reset_find", "reset_write"} => q.x # None
  /\ q.pc = "reset_write" => q.n <= 6
  /\ q.pc \in {"acc_create", "acc_mark", "inv_retoken", "inv_cancel"} => q.i # None

TypeInv == TypeOK /\ \A r \in Requests : Knows(req[r])

USE AccountsAssumption, RootAssumption, NoneAssumption, OwnAssumption

LEMMA SixTables == Len(Tables) = 6
BY DEF Tables

LEMMA NextTable ==
  ASSUME NEW q \in Request, NEW n \in 1 .. Len(Tables) + 1
  PROVE  [q EXCEPT !.n = n] \in Request
BY DEF Request

(* The request that becomes q keeps all requests typed. *)
LEMMA TypedRequests ==
  ASSUME TypeInv, NEW r \in Requests, NEW q \in Request, Knows(q),
         req' = [req EXCEPT ![r] = q]
  PROVE  req' \in [Requests -> Request] /\ \A s \in Requests : Knows(req'[s])
BY DEF TypeInv, TypeOK

LEMMA IdleTyped == Idle \in Request /\ Knows(Idle)
BY SixTables DEF Idle, Request, PC, Knows

LEMMA TypeInit == Init => TypeInv
<1> SUFFICES ASSUME Init PROVE TypeInv
  OBVIOUS
<1>1. account \in [Accounts -> AccountRow]
  BY DEF Init, AccountRow, NoAccount, UserStatus, OrgStatus
<1>2. otp \in [Emails -> OTPRow] /\ tried \in [Codes -> Nat]
  BY AttemptsAssumption DEF Init, OTPRow, NoOTP
<1>3. inv \in [Invitations -> InviteRow]
  BY DEF Init, InviteRow, NoInvite
<1>4. req \in [Requests -> Request] /\ \A r \in Requests : Knows(req[r])
  BY IdleTyped DEF Init
<1>5. reset \in [Emails -> ResetTokens \cup {None}] /\ session = {} /\ issued = {}
  BY DEF Init
<1> QED BY <1>1, <1>2, <1>3, <1>4, <1>5 DEF TypeInv, TypeOK

(* A request that only goes on to q, and changes no row. *)
LEMMA TypeEnter ==
  ASSUME TypeInv, NEW r \in Requests, NEW q \in Request, Knows(q), Enter(r, q),
         UNCHANGED <<account, otp, reset, inv, session, issued, tried>>
  PROVE  TypeInv'
<1>1. req' \in [Requests -> Request] /\ \A s \in Requests : Knows(req'[s])
  BY TypedRequests DEF Enter
<1> QED BY <1>1 DEF TypeInv, TypeOK, Knows

LEMMA TypeBegin ==
  ASSUME TypeInv, NEW r \in Requests, Begin(r)
  PROVE  TypeInv'
<1> USE SixTables
<1>1. ASSUME NEW e \in Emails, RegisterCandidate(r, e) PROVE TypeInv'
  <2> DEFINE q == [Idle EXCEPT !.pc = "reg_create", !.e = e]
  <2>1. q \in Request /\ Knows(q)
    BY IdleTyped DEF Request, PC, Knows
  <2> QED BY <1>1, <2>1, TypeEnter DEF RegisterCandidate
<1>2. ASSUME NEW e \in Emails, ForgotPassword(r, e) PROVE TypeInv'
  <2> DEFINE q == [Idle EXCEPT !.pc = "reset_store", !.e = e]
  <2>1. q \in Request /\ Knows(q)
    BY IdleTyped DEF Request, PC, Knows
  <2> QED BY <1>2, <2>1, TypeEnter DEF ForgotPassword
<1>3. ASSUME NEW e \in Emails, ResetPassword(r, e) PROVE TypeInv'
  <2>1. reset[e] \in ResetTokens /\ reset' \in [Emails -> ResetTokens \cup {None}]
    BY <1>3 DEF ResetPassword, TypeInv, TypeOK
  <2> DEFINE q == [Idle EXCEPT !.pc = "reset_find", !.e = e, !.x = reset[e]]
  <2>2. q \in Request /\ Knows(q)
    BY <2>1, IdleTyped DEF Request, PC, Knows
  <2>3. req' \in [Requests -> Request] /\ \A s \in Requests : Knows(req'[s])
    BY <1>3, <2>2, TypedRequests DEF ResetPassword, Enter, TypeInv, TypeOK
  <2> QED BY <1>3, <2>1, <2>3 DEF ResetPassword, TypeInv, TypeOK, Knows
<1>4. ASSUME NEW a \in Accounts, ResendOTP(r, a) PROVE TypeInv'
  <2>0. EmailOf[a] \in Emails
    OBVIOUS
  <2> DEFINE q == [Idle EXCEPT !.pc = "otp_send", !.e = EmailOf[a]]
  <2>1. q \in Request /\ Knows(q)
    BY <2>0, IdleTyped DEF Request, PC, Knows
  <2> QED BY <1>4, <2>1, TypeEnter DEF ResendOTP
<1>5. ASSUME NEW a \in Accounts, VerifyOTP(r, a) PROVE TypeInv'
  <2>0. EmailOf[a] \in Emails
    OBVIOUS
  <2> DEFINE q == [Idle EXCEPT !.pc = "otp_count", !.a = a, !.e = EmailOf[a]]
  <2>1. q \in Request /\ Knows(q)
    BY <2>0, IdleTyped DEF Request, PC, Knows
  <2> QED BY <1>5, <2>1, TypeEnter DEF VerifyOTP
<1>6. ASSUME NEW a \in Accounts, ChangePassword(r, a) PROVE TypeInv'
  <2> DEFINE q == [Idle EXCEPT !.pc = "change_write", !.a = a]
  <2>1. q \in Request /\ Knows(q)
    BY IdleTyped DEF Request, PC, Knows
  <2> QED BY <1>6, <2>1, TypeEnter DEF ChangePassword
<1>7. ASSUME NEW i \in Invitations, AcceptInvitation(r, i) PROVE TypeInv'
  <2> DEFINE q == [Idle EXCEPT !.pc = "acc_create", !.i = i]
  <2>1. q \in Request /\ Knows(q)
    BY IdleTyped DEF Request, PC, Knows
  <2> QED BY <1>7, <2>1, TypeEnter DEF AcceptInvitation
<1>8. ASSUME NEW i \in Invitations, NEW l \in {"inv_retoken", "inv_cancel"},
             ReadInvitation(r, i, l)
      PROVE  TypeInv'
  <2> DEFINE q == [Idle EXCEPT !.pc = l, !.i = i]
  <2>1. q \in Request /\ Knows(q)
    BY IdleTyped DEF Request, PC, Knows
  <2> QED BY <1>8, <2>1, TypeEnter DEF ReadInvitation
<1>9. ASSUME NEW s \in Accounts, NEW a \in Accounts, DeleteSuperAdmin(r, s, a) PROVE TypeInv'
  <2> DEFINE q == [Idle EXCEPT !.pc = "del_super", !.a = a]
  <2>1. q \in Request /\ Knows(q)
    BY IdleTyped DEF Request, PC, Knows
  <2> QED BY <1>9, <2>1, TypeEnter DEF DeleteSuperAdmin
<1> QED BY <1>1, <1>2, <1>3, <1>4, <1>5, <1>6, <1>7, <1>8, <1>9
        DEF Begin, ResendInvitation, CancelInvitation

(* The rows a request writes, and where it goes on from there. *)
LEMMA TypeRegistration ==
  ASSUME TypeInv, NEW r \in Requests,
         \/ \E a \in Accounts : CreateCandidate(r, a)
         \/ \E c \in Codes : UpsertOTP(r, c)
         \/ CountAttempt(r) \/ DropCode(r) \/ ActivateCandidate(r)
  PROVE  TypeInv'
<1> USE AttemptsAssumption
<1>0. req[r] \in Request /\ Knows(req[r])
  BY DEF TypeInv, TypeOK
<1>g. ASSUME NEW l \in PC, [req[r] EXCEPT !.pc = l] \in Request /\ Knows([req[r] EXCEPT !.pc = l]),
             Goto(r, l)
      PROVE  req' \in [Requests -> Request] /\ \A s \in Requests : Knows(req'[s])
  <2>1. req' = [req EXCEPT ![r] = [req[r] EXCEPT !.pc = l]]
    BY <1>g DEF Goto, TypeInv, TypeOK
  <2> QED BY <1>g, <2>1, TypedRequests
<1>f. ASSUME Finish(r)
      PROVE  req' \in [Requests -> Request] /\ \A s \in Requests : Knows(req'[s])
  BY <1>f, IdleTyped, TypedRequests DEF Finish
<1>1. ASSUME NEW a \in Accounts, CreateCandidate(r, a) PROVE TypeInv'
  <2>1. account' \in [Accounts -> AccountRow]
    BY <1>1 DEF CreateCandidate, Insert, AccountRow, UserStatus, TypeInv, TypeOK
  <2>2. [req[r] EXCEPT !.pc = "otp_send"] \in Request /\ Knows([req[r] EXCEPT !.pc = "otp_send"])
    BY <1>0, <1>1 DEF CreateCandidate, At, Request, PC, Knows
  <2>3. req' \in [Requests -> Request] /\ \A s \in Requests : Knows(req'[s])
    BY <1>1, <1>g, <2>2 DEF CreateCandidate, PC
  <2> QED BY <1>1, <2>1, <2>3 DEF CreateCandidate, TypeInv, TypeOK, Knows
<1>2. ASSUME NEW c \in Codes, UpsertOTP(r, c) PROVE TypeInv'
  <2>0. [code |-> c, attempts |-> 0] \in OTPRow
    BY DEF OTPRow
  <2>1. otp' \in [Emails -> OTPRow]
    BY <1>2, <2>0 DEF UpsertOTP, TypeInv, TypeOK
  <2>2. issued' \in SUBSET (Codes \cup ResetTokens \cup InviteTokens)
    BY <1>2 DEF UpsertOTP, Issue, TypeInv, TypeOK
  <2> QED BY <1>2, <1>f, <2>1, <2>2 DEF UpsertOTP, TypeInv, TypeOK, Knows
<1>3. CASE CountAttempt(r)
  <2>0. req[r].e \in Emails
    BY <1>0, <1>3 DEF CountAttempt, At, Request, Knows
  <2>1. otp' \in [Emails -> OTPRow]
    BY <1>3, <2>0 DEF CountAttempt, OTPRow, TypeInv, TypeOK
  <2>2. tried' \in [Codes -> Nat]
    BY <1>3 DEF CountAttempt, TypeInv, TypeOK
  <2>3. ASSUME NEW l \in {"otp_drop", "otp_used"}
        PROVE  [req[r] EXCEPT !.pc = l] \in Request /\ Knows([req[r] EXCEPT !.pc = l])
    BY <1>0, <1>3, <2>3 DEF CountAttempt, At, Request, PC, Knows
  <2>4. req' \in [Requests -> Request] /\ \A s \in Requests : Knows(req'[s])
    BY <1>3, <1>g, <1>f, <2>3 DEF CountAttempt, PC
  <2> QED BY <1>3, <2>1, <2>2, <2>4 DEF CountAttempt, TypeInv, TypeOK, Knows
<1>4. CASE DropCode(r)
  <2>1. otp' \in [Emails -> OTPRow]
    BY <1>4 DEF DropCode, NoOTP, OTPRow, TypeInv, TypeOK
  <2>2. At(r, "otp_used") => [req[r] EXCEPT !.pc = "otp_activate"] \in Request
                             /\ Knows([req[r] EXCEPT !.pc = "otp_activate"])
    BY <1>0 DEF At, Request, PC, Knows
  <2>3. req' \in [Requests -> Request] /\ \A s \in Requests : Knows(req'[s])
    BY <1>4, <1>g, <1>f, <2>2 DEF DropCode, PC
  <2> QED BY <1>4, <2>1, <2>3 DEF DropCode, TypeInv, TypeOK, Knows
<1>5. CASE ActivateCandidate(r)
  <2>2. req[r].a \in Accounts
    BY <1>0, <1>5 DEF ActivateCandidate, At, Request, Knows
  <2>1. account' \in [Accounts -> AccountRow]
    BY <1>5, <2>2 DEF ActivateCandidate, AccountRow, UserStatus, TypeInv, TypeOK
  <2> QED BY <1>5, <1>f, <2>1, <2>2 DEF ActivateCandidate, TypeInv, TypeOK, Knows
<1> QED BY <1>1, <1>2, <1>3, <1>4, <1>5

LEMMA TypePasswords ==
  ASSUME TypeInv, NEW r \in Requests,
         \/ \E k \in ResetTokens : UpsertPasswordResetToken(r, k)
         \/ FindAccount(r) \/ WriteReset(r) \/ WriteChange(r)
  PROVE  TypeInv'
<1>0. req[r] \in Request /\ Knows(req[r])
  BY DEF TypeInv, TypeOK
<1>f. ASSUME Finish(r)
      PROVE  req' \in [Requests -> Request] /\ \A s \in Requests : Knows(req'[s])
  BY <1>f, IdleTyped, TypedRequests DEF Finish
<1>p. ASSUME NEW a \in Accounts, NEW p \in {"own"} \cup ResetTokens, SetPassword(a, p)
      PROVE  account' \in [Accounts -> AccountRow]
  <2>1. account \in [Accounts -> AccountRow]
    BY DEF TypeInv, TypeOK
  <2>2. [account[a] EXCEPT !.password = p] \in AccountRow
    BY <2>1 DEF AccountRow
  <2>3. [account[a] EXCEPT !.password = account[a].password] \in AccountRow
    BY <2>1 DEF AccountRow
  <2>4. CASE Exists(a)
    <3>1. account' = [account EXCEPT ![a] = [account[a] EXCEPT !.password = p]]
      BY <1>p, <2>1, <2>4 DEF SetPassword
    <3> QED BY <2>1, <2>2, <3>1
  <2>5. CASE ~Exists(a)
    <3>1. account' = [account EXCEPT ![a] = [account[a] EXCEPT !.password = account[a].password]]
      BY <1>p, <2>1, <2>5 DEF SetPassword
    <3> QED BY <2>1, <2>3, <3>1
  <2> QED BY <2>4, <2>5
<1>1. ASSUME NEW k \in ResetTokens, UpsertPasswordResetToken(r, k) PROVE TypeInv'
  <2>1. reset' \in [Emails -> ResetTokens \cup {None}]
    BY <1>1 DEF UpsertPasswordResetToken, TypeInv, TypeOK
  <2>2. issued' \in SUBSET (Codes \cup ResetTokens \cup InviteTokens)
    BY <1>1 DEF UpsertPasswordResetToken, Issue, TypeInv, TypeOK
  <2> QED BY <1>1, <1>f, <2>1, <2>2 DEF UpsertPasswordResetToken, TypeInv, TypeOK, Knows
<1>2. CASE FindAccount(r)
  <2>1. CASE Finish(r)
    BY <1>2, <2>1, <1>f DEF FindAccount, TypeInv, TypeOK, Knows
  <2>2. ASSUME NEW a \in Accounts, req[r].n <= Len(Tables),
               Enter(r, [req[r] EXCEPT !.pc = "reset_write", !.a = a])
        PROVE  TypeInv'
    <3> DEFINE q == [req[r] EXCEPT !.pc = "reset_write", !.a = a]
    <3>1. q \in Request /\ Knows(q)
      BY <1>0, <1>2, <2>2, SixTables DEF FindAccount, At, Request, PC, Knows
    <3> QED BY <1>2, <2>2, <3>1, TypeEnter DEF FindAccount
  <2>3. ASSUME req[r].n <= Len(Tables), Enter(r, [req[r] EXCEPT !.n = @ + 1])
        PROVE  TypeInv'
    <3> DEFINE q == [req[r] EXCEPT !.n = @ + 1]
    <3>0. req[r].n + 1 \in 1 .. Len(Tables) + 1
      BY <1>0, <2>3, SixTables DEF Request
    <3>1. q \in Request
      BY <1>0, <3>0, NextTable
    <3>2. Knows(q)
      BY <1>0, <1>2 DEF FindAccount, At, Request, Knows
    <3> QED BY <1>2, <2>3, <3>1, <3>2, TypeEnter DEF FindAccount
  <2> QED BY <1>2, <2>1, <2>2, <2>3 DEF FindAccount, Row
<1>3. CASE WriteReset(r)
  <2>0. req[r].a \in Accounts /\ req[r].x \in ResetTokens
    BY <1>0, <1>3 DEF WriteReset, At, Request, Knows
  <2>1. CASE SetPassword(req[r].a, req[r].x) /\ Finish(r)
    BY <1>3, <1>p, <1>f, <2>0, <2>1 DEF WriteReset, TypeInv, TypeOK, Knows
  <2>2. CASE UNCHANGED account /\ Enter(r, [req[r] EXCEPT !.pc = "reset_find", !.a = None, !.n = @ + 1])
    <3> DEFINE q == [req[r] EXCEPT !.pc = "reset_find", !.a = None, !.n = @ + 1]
    <3>0. req[r].n + 1 \in 1 .. Len(Tables) + 1
      BY <1>0, <1>3, SixTables DEF WriteReset, At, Request, Knows
    <3>1. [req[r] EXCEPT !.pc = "reset_find", !.a = None] \in Request
      BY <1>0 DEF Request, PC
    <3>3. q = [[req[r] EXCEPT !.pc = "reset_find", !.a = None] EXCEPT !.n = req[r].n + 1]
      BY <1>0 DEF Request
    <3>4. q \in Request
      BY <3>0, <3>1, <3>3, NextTable
    <3>5. Knows(q)
      BY <1>0, <1>3 DEF WriteReset, At, Request, Knows
    <3> QED BY <1>3, <2>2, <3>4, <3>5, TypeEnter DEF WriteReset
  <2> QED BY <1>3, <2>1, <2>2 DEF WriteReset
<1>4. CASE WriteChange(r)
  <2>0. req[r].a \in Accounts
    BY <1>0, <1>4 DEF WriteChange, At, Request, Knows
  <2> QED BY <1>4, <1>p, <1>f, <2>0 DEF WriteChange, TypeInv, TypeOK, Knows
<1> QED BY <1>1, <1>2, <1>3, <1>4

LEMMA TypeInvitations ==
  ASSUME TypeInv, NEW r \in Requests,
         \/ \E a \in Accounts : CreateMember(r, a)
         \/ \E t \in InviteTokens : UpdateInvitationToken(r, t)
         \/ MarkInvitationUsed(r) \/ DeleteInvitation(r) \/ DeleteSuperAdminRow(r)
         \/ Abandon(r)
  PROVE  TypeInv'
<1>0. req[r] \in Request /\ Knows(req[r])
  BY DEF TypeInv, TypeOK
<1>f. ASSUME Finish(r)
      PROVE  req' \in [Requests -> Request] /\ \A s \in Requests : Knows(req'[s])
  BY <1>f, IdleTyped, TypedRequests DEF Finish
<1>1. ASSUME NEW a \in Accounts, CreateMember(r, a) PROVE TypeInv'
  <2>0. req[r].i \in Invitations
    BY <1>0, <1>1 DEF CreateMember, At, Request, Knows
  <2>1. account' \in [Accounts -> AccountRow]
    BY <1>1, <2>0 DEF CreateMember, Insert, AccountRow, InviteRow, UserStatus, TypeInv, TypeOK
  <2> DEFINE q == [req[r] EXCEPT !.pc = "acc_mark", !.a = a]
  <2>2. q \in Request /\ Knows(q)
    BY <1>0, <1>1 DEF CreateMember, At, Request, PC, Knows
  <2>3. req' = [req EXCEPT ![r] = q]
    BY <1>1 DEF CreateMember, TypeInv, TypeOK
  <2> HIDE DEF q
  <2>4. req' \in [Requests -> Request] /\ \A s \in Requests : Knows(req'[s])
    BY <2>2, <2>3, TypedRequests
  <2> QED BY <1>1, <2>1, <2>4 DEF CreateMember, TypeInv, TypeOK, Knows
<1>2. ASSUME NEW t \in InviteTokens, UpdateInvitationToken(r, t) PROVE TypeInv'
  <2>0. req[r].i \in Invitations
    BY <1>0, <1>2 DEF UpdateInvitationToken, At, Request, Knows
  <2>1. inv' \in [Invitations -> InviteRow]
    BY <1>2, <2>0 DEF UpdateInvitationToken, InviteRow, TypeInv, TypeOK
  <2>2. issued' \in SUBSET (Codes \cup ResetTokens \cup InviteTokens)
    BY <1>2 DEF UpdateInvitationToken, Issue, TypeInv, TypeOK
  <2> QED BY <1>2, <1>f, <2>1, <2>2 DEF UpdateInvitationToken, TypeInv, TypeOK, Knows
<1>3. CASE MarkInvitationUsed(r)
  <2>0. req[r].i \in Invitations /\ req[r].a \in Accounts
    BY <1>0, <1>3 DEF MarkInvitationUsed, At, Request, Knows
  <2>1. inv' \in [Invitations -> InviteRow]
    BY <1>3, <2>0 DEF MarkInvitationUsed, InviteRow, TypeInv, TypeOK
  <2> QED BY <1>3, <1>f, <2>0, <2>1 DEF MarkInvitationUsed, TypeInv, TypeOK, Knows
<1>4. CASE DeleteInvitation(r)
  <2>0. req[r].i \in Invitations
    BY <1>0, <1>4 DEF DeleteInvitation, At, Request, Knows
  <2>1. inv' \in [Invitations -> InviteRow]
    BY <1>4, <2>0 DEF DeleteInvitation, InviteRow, TypeInv, TypeOK
  <2> QED BY <1>4, <1>f, <2>1 DEF DeleteInvitation, TypeInv, TypeOK, Knows
<1>5. CASE DeleteSuperAdminRow(r)
  <2>0. req[r].a \in Accounts
    BY <1>0, <1>5 DEF DeleteSuperAdminRow, At, Request, Knows
  <2>1. account' \in [Accounts -> AccountRow]
    BY <1>5, <2>0 DEF DeleteSuperAdminRow, DeleteRow, AccountRow, TypeInv, TypeOK
  <2> QED BY <1>5, <1>f, <2>1 DEF DeleteSuperAdminRow, TypeInv, TypeOK, Knows
<1>6. CASE Abandon(r)
  BY <1>6, <1>f DEF Abandon, TypeInv, TypeOK, Knows
<1> QED BY <1>1, <1>2, <1>3, <1>4, <1>5, <1>6

LEMMA TypeSingle ==
  ASSUME TypeInv, Single \/ Restart
  PROVE  TypeInv'
<1>1. ASSUME NEW a \in Accounts, Login(a) PROVE TypeInv'
  BY <1>1 DEF Login, TypeInv, TypeOK, Knows
<1>2. ASSUME NEW a \in Accounts, DeleteMember(a) PROVE TypeInv'
  <2>1. account' \in [Accounts -> AccountRow]
    BY <1>2 DEF DeleteMember, DeleteRow, AccountRow, TypeInv, TypeOK
  <2> QED BY <1>2, <2>1 DEF DeleteMember, TypeInv, TypeOK, Knows
<1>3. ASSUME NEW a \in Accounts, NEW st \in UserStatus \cup OrgStatus, UpdateStatus(a, st)
      PROVE  TypeInv'
  <2>1. account' \in [Accounts -> AccountRow]
    BY <1>3 DEF UpdateStatus, AccountRow, TypeInv, TypeOK
  <2> QED BY <1>3, <2>1 DEF UpdateStatus, TypeInv, TypeOK, Knows
<1>4. ASSUME NEW s \in Accounts, NEW i \in Invitations, NEW e \in Emails,
             NEW k \in InviteKinds, NEW t \in InviteTokens, CreateInvitation(s, i, e, k, t)
      PROVE  TypeInv'
  <2>0. k \in Kinds
    BY InviteAssumption
  <2>1. inv' \in [Invitations -> InviteRow]
    BY <1>4, <2>0 DEF CreateInvitation, InviteRow, TypeInv, TypeOK
  <2>2. issued' \in SUBSET (Codes \cup ResetTokens \cup InviteTokens)
    BY <1>4 DEF CreateInvitation, Issue, TypeInv, TypeOK
  <2> QED BY <1>4, <2>1, <2>2 DEF CreateInvitation, TypeInv, TypeOK, Knows
<1>5. CASE Restart
  <2>1. account' \in [Accounts -> AccountRow]
    BY <1>5 DEF Restart, Insert, AccountRow, UserStatus, TypeInv, TypeOK
  <2>2. req' \in [Requests -> Request] /\ \A s \in Requests : Knows(req'[s])
    BY <1>5, IdleTyped DEF Restart
  <2> QED BY <1>5, <2>1, <2>2 DEF Restart, TypeInv, TypeOK, Knows
<1> QED BY <1>1, <1>2, <1>3, <1>4, <1>5 DEF Single

LEMMA TypeNext == TypeInv /\ [Next]_vars => TypeInv'
<1> SUFFICES ASSUME TypeInv, [Next]_vars PROVE TypeInv'
  OBVIOUS
<1>1. ASSUME NEW r \in Requests, Continue(r) PROVE TypeInv'
  BY <1>1, TypeRegistration, TypePasswords, TypeInvitations DEF Continue
<1>2. CASE UNCHANGED vars
  BY <1>2 DEF vars, TypeInv, TypeOK, Knows
<1> QED BY <1>1, <1>2, TypeBegin, TypeSingle DEF Next

(* The rows and the requests keep their types, and a request knows the     *)
(* address, account, token or invitation its next statement needs.         *)
THEOREM TypeInvariant == Spec => []TypeInv
<1> QED BY TypeInit, TypeNext, PTL DEF Spec

(* The typed state of Identity. *)
THEOREM TypeCorrect == Spec => []TypeOK
<1>1. TypeInv => TypeOK
  BY DEF TypeInv
<1> QED BY <1>1, TypeInvariant, PTL

-----------------------------------------------------------------------------
(* One-time codes.                                                         *)

(* A stored code was issued, is stored for one address only, and was tried *)
(* no more often than its row counts.                                      *)
CodeInv ==
  /\ \A c \in Codes : c \notin issued => tried[c] = 0
  /\ \A e \in Emails : otp[e].code # None
       => otp[e].code \in issued /\ tried[otp[e].code] <= otp[e].attempts
  /\ \A e, f \in Emails : otp[e].code # None /\ otp[e].code = otp[f].code => e = f
  /\ CodeTriesBounded

LEMMA CodeInit == Init => CodeInv
BY AttemptsAssumption DEF Init, CodeInv, CodeTriesBounded, NoOTP

(* The steps that leave the codes alone. *)
LEMMA CodeFrame ==
  ASSUME CodeInv, otp' = otp, tried' = tried, issued \subseteq issued'
  PROVE  CodeInv'
BY DEF CodeInv, CodeTriesBounded

LEMMA CodeUpsert ==
  ASSUME TypeInv, CodeInv, NEW r \in Requests, NEW c \in Codes, UpsertOTP(r, c)
  PROVE  CodeInv'
<1>1. /\ c \notin issued /\ issued' = issued \cup {c} /\ tried' = tried
      /\ otp' = [otp EXCEPT ![req[r].e] = [code |-> c, attempts |-> 0]]
  BY DEF UpsertOTP, Fresh, Issue
<1>2. otp \in [Emails -> OTPRow] /\ tried \in [Codes -> Nat]
  BY DEF TypeInv, TypeOK
<1>3. ASSUME NEW e \in Emails
      PROVE  \/ otp'[e] = otp[e]
             \/ otp'[e] = [code |-> c, attempts |-> 0] /\ e = req[r].e
  BY <1>1, <1>2
<1>4. tried[c] = 0
  BY <1>1 DEF CodeInv
<1>5. \A e \in Emails : otp[e].code # c
  BY <1>1 DEF CodeInv
<1>6. \A e \in Emails : otp'[e].code # None
        => otp'[e].code \in issued' /\ tried'[otp'[e].code] <= otp'[e].attempts
  BY <1>1, <1>3, <1>4 DEF CodeInv
<1>7. \A e, f \in Emails : otp'[e].code # None /\ otp'[e].code = otp'[f].code => e = f
  BY <1>3, <1>5 DEF CodeInv
<1> QED BY <1>1, <1>6, <1>7 DEF CodeInv, CodeTriesBounded

LEMMA CodeCount ==
  ASSUME TypeInv, CodeInv, NEW r \in Requests, CountAttempt(r)
  PROVE  CodeInv'
<1> DEFINE e == req[r].e
           c == otp[e].code
           n == otp[e].attempts + 1
<1>0. /\ otp \in [Emails -> OTPRow] /\ tried \in [Codes -> Nat]
      /\ req[r] \in Request /\ Knows(req[r])
  BY DEF TypeInv, TypeOK
<1>1. e \in Emails
  BY <1>0 DEF CountAttempt, At, Request, Knows
<1>2. c \in Codes /\ c \in issued /\ n \in Nat /\ tried[c] <= otp[e].attempts
  BY <1>0, <1>1, AttemptsAssumption DEF CountAttempt, OTPRow, CodeInv
<1>3. /\ issued' = issued
      /\ otp' = [otp EXCEPT ![e].attempts = IF n > MaxAttempts THEN MaxAttempts + 1 ELSE n]
      /\ \/ tried' = tried
         \/ n <= MaxAttempts /\ tried' = [tried EXCEPT ![c] = @ + 1]
  BY DEF CountAttempt
<1>4. /\ \A f \in Emails : otp'[f].code = otp[f].code
      /\ \A f \in Emails : f # e => otp'[f].attempts = otp[f].attempts
  BY <1>0, <1>1, <1>3 DEF OTPRow
<1>5. otp'[e].attempts = IF n > MaxAttempts THEN MaxAttempts + 1 ELSE n
  BY <1>0, <1>1, <1>3 DEF OTPRow
<1>6. tried[c] <= MaxAttempts /\ tried[c] \in Nat /\ otp[e].attempts \in Nat
  BY <1>0, <1>1, <1>2, AttemptsAssumption DEF CodeInv, CodeTriesBounded, OTPRow
<1>7. /\ \A d \in Codes : d # c => tried'[d] = tried[d]
      /\ tried'[c] <= otp'[e].attempts
      /\ tried'[c] <= MaxAttempts
  BY <1>0, <1>2, <1>3, <1>5, <1>6, AttemptsAssumption
<1>8. \A f \in Emails : otp'[f].code # None
        => otp'[f].code \in issued' /\ tried'[otp'[f].code] <= otp'[f].attempts
  <2> SUFFICES ASSUME NEW f \in Emails, otp'[f].code # None
               PROVE  otp'[f].code \in issued' /\ tried'[otp'[f].code] <= otp'[f].attempts
    OBVIOUS
  <2>1. CASE f = e
    BY <1>2, <1>3, <1>4, <1>7, <2>1
  <2>2. CASE f # e
    <3>0. otp[f] \in OTPRow /\ otp'[f].code = otp[f].code
      BY <1>0, <1>4
    <3>1. otp[f].code \in Codes /\ otp[f].code \in issued
      BY <3>0 DEF OTPRow, CodeInv
    <3>2. otp[f].code # c
      BY <1>1, <2>2, <3>1 DEF CodeInv
    <3> QED BY <1>3, <1>4, <1>7, <2>2, <3>1, <3>2 DEF CodeInv
  <2> QED BY <2>1, <2>2
<1>9. \A d \in Codes : d \notin issued' => tried'[d] = 0
  BY <1>2, <1>3, <1>7 DEF CodeInv
<1>10. CodeTriesBounded'
  BY <1>7 DEF CodeInv, CodeTriesBounded
<1>11. \A f, g \in Emails : otp'[f].code # None /\ otp'[f].code = otp'[g].code => f = g
  BY <1>4 DEF CodeInv
<1> QED BY <1>8, <1>9, <1>10, <1>11 DEF CodeInv

LEMMA CodeDrop ==
  ASSUME TypeInv, CodeInv, NEW r \in Requests, DropCode(r)
  PROVE  CodeInv'
<1>1. issued' = issued /\ tried' = tried /\ otp \in [Emails -> OTPRow]
  BY DEF DropCode, TypeInv, TypeOK
<1>2. \A e \in Emails : otp'[e] = otp[e] \/ otp'[e].code = None
  BY <1>1 DEF DropCode, NoOTP
<1> QED BY <1>1, <1>2 DEF CodeInv, CodeTriesBounded

LEMMA CodeNext == TypeInv /\ CodeInv /\ [Next]_vars => CodeInv'
<1> SUFFICES ASSUME TypeInv, CodeInv, [Next]_vars PROVE CodeInv'
  OBVIOUS
<1>1. ASSUME NEW r \in Requests, Begin(r) PROVE CodeInv'
  BY <1>1, CodeFrame DEF Begin, RegisterCandidate, ForgotPassword, ResetPassword, ResendOTP,
     VerifyOTP, ChangePassword, AcceptInvitation, ResendInvitation, CancelInvitation,
     ReadInvitation, DeleteSuperAdmin
<1>2. ASSUME NEW r \in Requests, Continue(r) PROVE CodeInv'
  BY <1>2, CodeFrame, CodeUpsert, CodeCount, CodeDrop
     DEF Continue, CreateCandidate, CreateMember, UpsertPasswordResetToken, Issue,
     UpdateInvitationToken, ActivateCandidate, FindAccount, WriteReset, WriteChange,
     MarkInvitationUsed, DeleteInvitation, DeleteSuperAdminRow, Abandon
<1>3. CASE Single
  BY <1>3, CodeFrame DEF Single, Login, DeleteMember, UpdateStatus, CreateInvitation, Issue
<1>4. CASE Restart
  BY <1>4, CodeFrame DEF Restart
<1>5. CASE UNCHANGED vars
  BY <1>5, CodeFrame DEF vars
<1> QED BY <1>1, <1>2, <1>3, <1>4, <1>5 DEF Next

(* VerifyOTP compares no code with more than MaxAttempts inputs, whatever  *)
(* verifications race and however often codes are sent again               *)
(* (repository.go:663-687).                                                *)
THEOREM CodeTriesCorrect == Spec => []CodeTriesBounded
<1>1. CodeInv => CodeTriesBounded
  BY DEF CodeInv
<1> QED BY <1>1, CodeInit, CodeNext, TypeInvariant, PTL DEF Spec

-----------------------------------------------------------------------------
(* Invitations.                                                            *)

LEMMA UsedInvitationStep ==
  ASSUME TypeInv, [Next]_vars, NEW i \in Invitations, inv[i].state = "used"
  PROVE  inv'[i] = inv[i]
<1>0. inv \in [Invitations -> InviteRow]
  BY DEF TypeInv, TypeOK
<1>1. CASE inv' = inv
  BY <1>1
<1>2. ASSUME NEW s \in Accounts, NEW j \in Invitations, NEW e \in Emails,
             NEW k \in InviteKinds, NEW t \in InviteTokens, CreateInvitation(s, j, e, k, t)
      PROVE  inv'[i] = inv[i]
  BY <1>0, <1>2 DEF CreateInvitation
<1>3. ASSUME NEW r \in Requests, NEW t \in InviteTokens, UpdateInvitationToken(r, t)
      PROVE  inv'[i] = inv[i]
  BY <1>0, <1>3 DEF UpdateInvitationToken, InviteRow
<1>4. ASSUME NEW r \in Requests, MarkInvitationUsed(r) PROVE inv'[i] = inv[i]
  BY <1>0, <1>4 DEF MarkInvitationUsed, InviteRow
<1>5. ASSUME NEW r \in Requests, DeleteInvitation(r) PROVE inv'[i] = inv[i]
  BY <1>0, <1>5 DEF DeleteInvitation, InviteRow
<1>6. ASSUME NEW r \in Requests, Begin(r) PROVE inv' = inv
  BY <1>6 DEF Begin, RegisterCandidate, ForgotPassword, ResetPassword, ResendOTP,
     VerifyOTP, ChangePassword, AcceptInvitation, ResendInvitation, CancelInvitation,
     ReadInvitation, DeleteSuperAdmin
<1>7. ASSUME NEW r \in Requests, Continue(r) PROVE inv'[i] = inv[i]
  BY <1>1, <1>3, <1>4, <1>5, <1>7 DEF Continue, CreateCandidate, CreateMember, UpsertOTP,
     UpsertPasswordResetToken, CountAttempt, DropCode, ActivateCandidate, FindAccount,
     WriteReset, WriteChange, DeleteSuperAdminRow, Abandon
<1>8. CASE Single
  BY <1>1, <1>2, <1>8 DEF Single, Login, DeleteMember, UpdateStatus
<1>9. CASE Restart \/ UNCHANGED vars
  BY <1>1, <1>9 DEF Restart, vars
<1> QED BY <1>1, <1>6, <1>7, <1>8, <1>9 DEF Next

(* No request, however old its reading of it, changes an invitation that   *)
(* was used (service.go:573-608).                                          *)
THEOREM UsedInvitationStaysClosed == Spec => UsedInvitationIsClosed
<1>1. TypeInv /\ [Next]_vars
      => [\A i \in Invitations : inv[i].state = "used" => inv'[i] = inv[i]]_vars
  BY UsedInvitationStep
<1> QED BY <1>1, TypeInvariant, PTL DEF Spec, UsedInvitationIsClosed

-----------------------------------------------------------------------------
(* Who invited the privileged.                                             *)

ByOf(b) == b # None /\ KindOf[b] = "super_admin"

(* Invitations carry the one who made them from their insertion on, and a  *)
(* verification acts on a candidate.                                       *)
InviterInv ==
  /\ PrivilegedBySuperAdmin
  /\ \A i \in Invitations : inv[i].kind \in Privileged => ByOf(inv[i].by)
  /\ \A r \in Requests : req[r].pc \in {"otp_count", "otp_used", "otp_activate"}
       => KindOf[req[r].a] = "candidate"

LEMMA InviterInit == Init => InviterInv
BY DEF Init, InviterInv, PrivilegedBySuperAdmin, Privileged, Exists, NoAccount, NoInvite, Idle,
       ByOf, Kinds, Tables

(* A step that keeps the inviters and adds no account. *)
LEMMA AccountsKept ==
  ASSUME InviterInv,
         \A a \in Accounts : Exists(a)' /\ KindOf[a] \in Privileged
           => Exists(a) /\ account'[a].by = account[a].by
  PROVE  PrivilegedBySuperAdmin'
BY DEF InviterInv, PrivilegedBySuperAdmin

LEMMA InviterAccounts ==
  ASSUME TypeInv, InviterInv, [Next]_vars
  PROVE  PrivilegedBySuperAdmin'
<1>0. account \in [Accounts -> AccountRow] /\ req \in [Requests -> Request]
  BY DEF TypeInv, TypeOK
<1>1. CASE account' = account
  BY <1>1, AccountsKept DEF Exists
<1>s. ASSUME NEW a \in Accounts, NEW p, SetPassword(a, p) PROVE PrivilegedBySuperAdmin'
  BY <1>0, <1>s, AccountsKept DEF SetPassword, Exists, AccountRow
<1>d. ASSUME NEW a \in Accounts, DeleteRow(a) PROVE PrivilegedBySuperAdmin'
  BY <1>0, <1>d, AccountsKept DEF DeleteRow, Exists, AccountRow
<1>i. ASSUME NEW a \in Accounts, NEW b, KindOf[a] \in Privileged => ByOf(b),
             Insert(a, "active", b) \/ Insert(a, "pending_verification", b)
      PROVE  PrivilegedBySuperAdmin'
  <2>1. account'[a].by = b /\ \A c \in Accounts : c # a => account'[c] = account[c]
    BY <1>0, <1>i DEF Insert
  <2> QED BY <1>i, <2>1 DEF InviterInv, PrivilegedBySuperAdmin, Exists, ByOf
<1>2. ASSUME NEW r \in Requests, Begin(r) PROVE account' = account
  BY <1>2 DEF Begin, RegisterCandidate, ForgotPassword, ResetPassword, ResendOTP,
     VerifyOTP, ChangePassword, AcceptInvitation, ResendInvitation, CancelInvitation,
     ReadInvitation, DeleteSuperAdmin
<1>3. ASSUME NEW r \in Requests, NEW a \in Accounts, CreateCandidate(r, a)
      PROVE  PrivilegedBySuperAdmin'
  BY <1>3, <1>i DEF CreateCandidate, Privileged
<1>4. ASSUME NEW r \in Requests, NEW a \in Accounts, CreateMember(r, a)
      PROVE  PrivilegedBySuperAdmin'
  <2>1. req[r] \in Request /\ Knows(req[r])
    BY DEF TypeInv, TypeOK
  <2>2. req[r].i \in Invitations
    BY <1>4, <2>1 DEF CreateMember, At, Request, Knows
  <2> QED BY <1>4, <1>i, <2>2 DEF CreateMember, InviterInv
<1>5. ASSUME NEW r \in Requests, ActivateCandidate(r) PROVE PrivilegedBySuperAdmin'
  <2>1. KindOf[req[r].a] \notin Privileged
    BY <1>5 DEF ActivateCandidate, At, InviterInv, Privileged
  <2>2. \A c \in Accounts : c # req[r].a => account'[c] = account[c]
    BY <1>0, <1>5 DEF ActivateCandidate
  <2> QED BY <2>1, <2>2, AccountsKept DEF Exists
<1>6. ASSUME NEW r \in Requests, WriteReset(r) \/ WriteChange(r) \/ DeleteSuperAdminRow(r)
      PROVE  PrivilegedBySuperAdmin'
  <2>1. req[r] \in Request /\ Knows(req[r])
    BY DEF TypeInv, TypeOK
  <2>2. req[r].a \in Accounts
    BY <1>6, <2>1 DEF WriteReset, WriteChange, DeleteSuperAdminRow, At, Request, Knows
  <2> QED BY <1>1, <1>6, <1>s, <1>d, <2>2 DEF WriteReset, WriteChange, DeleteSuperAdminRow
<1>7. ASSUME NEW r \in Requests, Continue(r) PROVE PrivilegedBySuperAdmin'
  BY <1>1, <1>3, <1>4, <1>5, <1>6, <1>7 DEF Continue, UpsertOTP, UpsertPasswordResetToken,
     UpdateInvitationToken, CountAttempt, DropCode, FindAccount, MarkInvitationUsed,
     DeleteInvitation, Abandon
<1>8. CASE Single
  <2>1. ASSUME NEW a \in Accounts, NEW st \in UserStatus \cup OrgStatus, UpdateStatus(a, st)
        PROVE  PrivilegedBySuperAdmin'
    BY <1>0, <2>1, AccountsKept DEF UpdateStatus, Exists, AccountRow
  <2> QED BY <1>1, <1>8, <1>d, <2>1 DEF Single, Login, DeleteMember, CreateInvitation
<1>9. CASE Restart
  <2>1. ASSUME NEW a \in Accounts, KindOf[a] = "super_admin", Insert(a, "active", a)
        PROVE  PrivilegedBySuperAdmin'
    BY <1>i, <2>1 DEF ByOf
  <2> QED BY <1>1, <1>9, <2>1 DEF Restart
<1>10. CASE UNCHANGED vars
  BY <1>1, <1>10 DEF vars
<1> QED BY <1>1, <1>2, <1>7, <1>8, <1>9, <1>10 DEF Next

LEMMA InviterInvitations ==
  ASSUME TypeInv, InviterInv, [Next]_vars, NEW i \in Invitations
  PROVE  inv'[i].kind \in Privileged => ByOf(inv'[i].by)
<1>0. inv \in [Invitations -> InviteRow]
  BY DEF TypeInv, TypeOK
<1>1. ASSUME inv'[i].kind = inv[i].kind, inv'[i].by = inv[i].by
      PROVE  inv'[i].kind \in Privileged => ByOf(inv'[i].by)
  BY <1>1 DEF InviterInv
<1>2. ASSUME NEW s \in Accounts, NEW j \in Invitations, NEW e \in Emails,
             NEW k \in InviteKinds, NEW t \in InviteTokens, CreateInvitation(s, j, e, k, t)
      PROVE  inv'[i].kind \in Privileged => ByOf(inv'[i].by)
  <2>1. CASE i = j
    BY <1>0, <1>2, <2>1 DEF CreateInvitation, Invitable, Privileged, ByOf
  <2>2. CASE i # j
    BY <1>0, <1>1, <1>2, <2>2 DEF CreateInvitation
  <2> QED BY <2>1, <2>2
<1>3. ASSUME NEW r \in Requests, NEW t \in InviteTokens, UpdateInvitationToken(r, t)
      PROVE  inv'[i].kind = inv[i].kind /\ inv'[i].by = inv[i].by
  BY <1>0, <1>3 DEF UpdateInvitationToken, InviteRow
<1>4. ASSUME NEW r \in Requests, MarkInvitationUsed(r)
      PROVE  inv'[i].kind = inv[i].kind /\ inv'[i].by = inv[i].by
  BY <1>0, <1>4 DEF MarkInvitationUsed, InviteRow
<1>5. ASSUME NEW r \in Requests, DeleteInvitation(r)
      PROVE  inv'[i].kind = inv[i].kind /\ inv'[i].by = inv[i].by
  BY <1>0, <1>5 DEF DeleteInvitation, InviteRow
<1>6. ASSUME NEW r \in Requests, Begin(r) PROVE inv' = inv
  BY <1>6 DEF Begin, RegisterCandidate, ForgotPassword, ResetPassword, ResendOTP,
     VerifyOTP, ChangePassword, AcceptInvitation, ResendInvitation, CancelInvitation,
     ReadInvitation, DeleteSuperAdmin
<1>7. ASSUME NEW r \in Requests, Continue(r)
      PROVE  inv'[i].kind = inv[i].kind /\ inv'[i].by = inv[i].by
  BY <1>3, <1>4, <1>5, <1>7 DEF Continue, CreateCandidate, CreateMember, UpsertOTP,
     UpsertPasswordResetToken, CountAttempt, DropCode, ActivateCandidate, FindAccount,
     WriteReset, WriteChange, DeleteSuperAdminRow, Abandon
<1>8. CASE Single
  BY <1>1, <1>2, <1>8 DEF Single, Login, DeleteMember, UpdateStatus
<1>9. CASE Restart \/ UNCHANGED vars
  BY <1>1, <1>9 DEF Restart, vars
<1> QED BY <1>1, <1>6, <1>7, <1>8, <1>9 DEF Next

LEMMA InviterRequests ==
  ASSUME TypeInv, InviterInv, [Next]_vars, NEW r \in Requests,
         req'[r].pc \in {"otp_count", "otp_used", "otp_activate"}
  PROVE  KindOf[req'[r].a] = "candidate"
<1>0. req \in [Requests -> Request]
  BY DEF TypeInv, TypeOK
<1>1. CASE req'[r] = req[r]
  BY <1>1 DEF InviterInv
<1>e. ASSUME NEW s \in Requests, NEW q, Enter(s, q),
             q.pc \notin {"otp_count", "otp_used", "otp_activate"}
      PROVE  KindOf[req'[r].a] = "candidate"
  BY <1>0, <1>1, <1>e DEF Enter
<1>g. ASSUME NEW s \in Requests, NEW l, Goto(s, l),
             \/ l \notin {"otp_count", "otp_used", "otp_activate"}
             \/ req[s].pc \in {"otp_count", "otp_used"}
      PROVE  KindOf[req'[r].a] = "candidate"
  <2>1. CASE s = r
    <3>1. req'[r].pc = l /\ req'[r].a = req[r].a
      BY <1>0, <1>g, <2>1 DEF Goto, Request
    <3> QED BY <1>g, <2>1, <3>1 DEF InviterInv
  <2>2. CASE s # r
    BY <1>0, <1>1, <1>g, <2>2 DEF Goto
  <2> QED BY <2>1, <2>2
<1>f. ASSUME NEW s \in Requests, Finish(s) PROVE KindOf[req'[r].a] = "candidate"
  BY <1>0, <1>1, <1>f DEF Finish, Idle
<1>2. ASSUME NEW s \in Requests, Begin(s) PROVE KindOf[req'[r].a] = "candidate"
  <2>1. ASSUME NEW a \in Accounts, VerifyOTP(s, a) PROVE KindOf[req'[r].a] = "candidate"
    BY <1>0, <1>1, <2>1 DEF VerifyOTP, Enter, Idle
  <2>2. ASSUME NEW e \in Emails, \/ RegisterCandidate(s, e) \/ ForgotPassword(s, e)
                                 \/ ResetPassword(s, e)
        PROVE  KindOf[req'[r].a] = "candidate"
    <3>1. CASE req' = req
      BY <1>1, <3>1
    <3> QED BY <1>e, <2>2, <3>1 DEF RegisterCandidate, ForgotPassword, ResetPassword, Idle
  <2>3. ASSUME NEW a \in Accounts, ResendOTP(s, a) \/ ChangePassword(s, a)
        PROVE  KindOf[req'[r].a] = "candidate"
    BY <1>e, <2>3 DEF ResendOTP, ChangePassword, Idle
  <2>4. ASSUME NEW i \in Invitations, \/ AcceptInvitation(s, i) \/ ResendInvitation(s, i)
                                      \/ CancelInvitation(s, i)
        PROVE  KindOf[req'[r].a] = "candidate"
    BY <1>e, <2>4 DEF AcceptInvitation, ResendInvitation, CancelInvitation, ReadInvitation, Idle
  <2>5. ASSUME NEW b \in Accounts, NEW a \in Accounts, DeleteSuperAdmin(s, b, a)
        PROVE  KindOf[req'[r].a] = "candidate"
    BY <1>e, <2>5 DEF DeleteSuperAdmin, Idle
  <2> QED BY <1>2, <2>1, <2>2, <2>3, <2>4, <2>5 DEF Begin
<1>3. ASSUME NEW s \in Requests, Continue(s) PROVE KindOf[req'[r].a] = "candidate"
  <2>1. CASE CountAttempt(s) \/ DropCode(s)
    BY <1>g, <1>f, <2>1 DEF CountAttempt, DropCode, At
  <2>2. CASE FindAccount(s)
    <3>1. req[s] \in Request /\ req[s].pc = "reset_find"
      BY <1>0, <2>2 DEF FindAccount, At
    <3>2. [req[s] EXCEPT !.n = @ + 1].pc = "reset_find"
      BY <3>1 DEF Request
    <3>3. ASSUME NEW a PROVE [req[s] EXCEPT !.pc = "reset_write", !.a = a].pc = "reset_write"
      BY <3>1 DEF Request
    <3> QED BY <1>e, <1>f, <2>2, <3>2, <3>3 DEF FindAccount
  <2>3. CASE WriteReset(s)
    <3>1. [req[s] EXCEPT !.pc = "reset_find", !.a = None, !.n = @ + 1].pc = "reset_find"
      BY <1>0 DEF Request
    <3> QED BY <1>e, <1>f, <2>3, <3>1 DEF WriteReset
  <2>4. ASSUME NEW a \in Accounts, CreateCandidate(s, a) PROVE KindOf[req'[r].a] = "candidate"
    BY <1>g, <2>4 DEF CreateCandidate
  <2>5. ASSUME NEW a \in Accounts, CreateMember(s, a) PROVE KindOf[req'[r].a] = "candidate"
    BY <1>0, <1>1, <2>5 DEF CreateMember, Request
  <2> QED BY <1>f, <1>3, <2>1, <2>2, <2>3, <2>4, <2>5 DEF Continue, UpsertOTP,
      UpsertPasswordResetToken, UpdateInvitationToken, ActivateCandidate, WriteChange,
      MarkInvitationUsed, DeleteInvitation, DeleteSuperAdminRow, Abandon
<1>4. CASE Single \/ UNCHANGED vars
  BY <1>1, <1>4 DEF Single, Login, DeleteMember, UpdateStatus, CreateInvitation, vars
<1>5. CASE Restart
  BY <1>5 DEF Restart, Idle
<1> QED BY <1>2, <1>3, <1>4, <1>5 DEF Next

LEMMA InviterNext == TypeInv /\ InviterInv /\ [Next]_vars => InviterInv'
<1> SUFFICES ASSUME TypeInv, InviterInv, [Next]_vars PROVE InviterInv'
  OBVIOUS
<1>1. \A i \in Invitations : inv'[i].kind \in Privileged => ByOf(inv'[i].by)
  BY InviterInvitations
<1>2. \A r \in Requests : req'[r].pc \in {"otp_count", "otp_used", "otp_activate"}
        => KindOf[req'[r].a] = "candidate"
  BY InviterRequests
<1> QED BY <1>1, <1>2, InviterAccounts DEF InviterInv, ByOf

(* No chain of invitations makes an administrator, an authority or a super *)
(* admin that no super admin invited (service.go:410-422, 452-558).        *)
THEOREM PrivilegedCorrect == Spec => []PrivilegedBySuperAdmin
<1>1. InviterInv => PrivilegedBySuperAdmin
  BY DEF InviterInv
<1> QED BY <1>1, InviterInit, InviterNext, TypeInvariant, PTL DEF Spec

-----------------------------------------------------------------------------
(* Reset tokens.                                                           *)

(* ResetTokenInOnePlace place by place, and: what is in a place was issued. *)
TokenInv ==
  /\ \A e \in Emails : reset[e] # None =>
       /\ reset[e] \in issued
       /\ \A f \in Emails : reset[f] = reset[e] => f = e
       /\ \A s \in Requests : req[s].x # reset[e]
       /\ \A b \in Accounts : account[b].password # reset[e]
  /\ \A r \in Requests : req[r].x # None =>
       /\ req[r].x \in issued
       /\ \A s \in Requests : req[s].x = req[r].x => s = r
       /\ \A b \in Accounts : account[b].password # req[r].x
  /\ \A a \in Accounts : account[a].password # "own" =>
       /\ account[a].password \in issued
       /\ \A b \in Accounts : account[b].password = account[a].password => b = a

LEMMA TokenInit == Init => TokenInv
BY DEF Init, TokenInv, Idle, NoAccount

LEMMA TokenOnePlace == TypeInv /\ TokenInv => ResetTokenInOnePlace
BY DEF TypeInv, TypeOK, TokenInv, ResetTokenInOnePlace, Stored, Held, Used

(* Tokens leave places and reach none. *)
LEMMA TokensKept ==
  ASSUME TypeInv, TypeInv', TokenInv, issued \subseteq issued',
         \A e \in Emails : reset'[e] \in {reset[e], None},
         \A r \in Requests : req'[r].x \in {req[r].x, None},
         \A a \in Accounts : account'[a].password \in {account[a].password, "own"}
  PROVE  TokenInv'
<1>1. \A e \in Emails : reset'[e] # None => reset'[e] = reset[e] /\ reset[e] \in ResetTokens
  BY DEF TypeInv, TypeOK
<1>2. \A r \in Requests : req'[r].x # None => req'[r].x = req[r].x /\ req[r].x \in ResetTokens
  BY DEF TypeInv, TypeOK, Request
<1>3. \A a \in Accounts : account'[a].password # "own"
        => account'[a].password = account[a].password
  OBVIOUS
<1> QED BY <1>1, <1>2, <1>3 DEF TokenInv

LEMMA TokenStored ==
  ASSUME TypeInv, TypeInv', TokenInv, NEW r \in Requests, NEW k \in ResetTokens,
         UpsertPasswordResetToken(r, k)
  PROVE  TokenInv'
<1>1. /\ k \notin issued /\ issued' = issued \cup {k} /\ account' = account
      /\ \A e \in Emails : reset'[e] = reset[e] \/ (e = req[r].e /\ reset'[e] = k)
      /\ \A s \in Requests : req'[s].x \in {req[s].x, None}
  BY DEF UpsertPasswordResetToken, Fresh, Issue, Finish, Idle, TypeInv, TypeOK
<1>2. /\ \A e \in Emails : reset[e] # k
      /\ \A s \in Requests : req[s].x # k
      /\ \A b \in Accounts : account[b].password # k
  BY <1>1 DEF TokenInv
<1> QED BY <1>1, <1>2 DEF TokenInv

LEMMA TokenTaken ==
  ASSUME TypeInv, TypeInv', TokenInv, NEW r \in Requests, NEW e \in Emails, ResetPassword(r, e)
  PROVE  TokenInv'
<1>1. /\ issued' = issued /\ account' = account /\ reset[e] # None
      /\ reset'[e] = None /\ \A f \in Emails : f # e => reset'[f] = reset[f]
      /\ \A s \in Requests : req'[s].x \in {req[s].x, None} \/ (s = r /\ req'[s].x = reset[e])
  <2>1. reset \in [Emails -> ResetTokens \cup {None}] /\ req \in [Requests -> Request]
    BY DEF TypeInv, TypeOK
  <2>2. /\ issued' = issued /\ account' = account /\ reset[e] # None
        /\ reset'[e] = None /\ \A f \in Emails : f # e => reset'[f] = reset[f]
    BY <2>1 DEF ResetPassword
  <2> DEFINE q == [Idle EXCEPT !.pc = "reset_find", !.e = e, !.x = reset[e]]
  <2>3. q.x = reset[e]
    BY DEF Idle
  <2>4. req' = [req EXCEPT ![r] = q] \/ req' = req
    BY DEF ResetPassword, Enter
  <2> HIDE DEF q
  <2> QED BY <2>1, <2>2, <2>3, <2>4
<1>2. reset[e] \in ResetTokens
  BY <1>1 DEF TypeInv, TypeOK
<1>3. \A f \in Emails : reset'[f] # None => f # e /\ reset'[f] = reset[f]
  BY <1>1
<1>4. \A s \in Requests : req'[s].x # None => req'[s].x = req[s].x \/ (s = r /\ req'[s].x = reset[e])
  BY <1>1
<1> QED BY <1>1, <1>2, <1>3, <1>4 DEF TokenInv

LEMMA TokenWritten ==
  ASSUME TypeInv, TypeInv', TokenInv, NEW r \in Requests, At(r, "reset_write"),
         SetPassword(req[r].a, req[r].x), Finish(r), UNCHANGED <<reset, issued>>
  PROVE  TokenInv'
<1>0. /\ account \in [Accounts -> AccountRow] /\ req \in [Requests -> Request]
      /\ req[r].x \in ResetTokens
  BY DEF TypeInv, TypeOK, Knows, At, Request
<1>1. /\ req'[r].x = None /\ \A s \in Requests : s # r => req'[s].x = req[s].x
      /\ \A a \in Accounts : \/ account'[a].password = account[a].password
                             \/ a = req[r].a /\ account'[a].password = req[r].x
  <2>1. req'[r].x = None /\ \A s \in Requests : s # r => req'[s].x = req[s].x
    BY <1>0 DEF Finish, Idle
  <2>2. req[r].a \in Accounts
    BY DEF TypeInv, TypeOK, Knows, At, Request
  <2>3. PICK p \in {req[r].x, account[req[r].a].password} :
          account' = [account EXCEPT ![req[r].a] = [account[req[r].a] EXCEPT !.password = p]]
    BY <1>0, <2>2 DEF SetPassword, Exists
  <2>4. [account[req[r].a] EXCEPT !.password = p].password = p
    BY <1>0, <2>2 DEF AccountRow
  <2>5. account'[req[r].a].password = p
    BY <1>0, <2>2, <2>3, <2>4
  <2>6. \A a \in Accounts : a # req[r].a => account'[a] = account[a]
    BY <1>0, <2>3
  <2>7. ASSUME NEW a \in Accounts
        PROVE  \/ account'[a].password = account[a].password
               \/ a = req[r].a /\ account'[a].password = req[r].x
    <3>1. CASE a = req[r].a
      BY <2>3, <2>5, <3>1
    <3>2. CASE a # req[r].a
      BY <2>6, <3>2
    <3> QED BY <3>1, <3>2
  <2> QED BY <2>1, <2>7
<1>2. \A s \in Requests : req'[s].x # None => s # r /\ req'[s].x = req[s].x
  BY <1>1
<1> QED BY <1>0, <1>1, <1>2 DEF TokenInv

LEMMA TokenNext == TypeInv /\ TypeInv' /\ TokenInv /\ [Next]_vars => TokenInv'
<1> SUFFICES ASSUME TypeInv, TypeInv', TokenInv, [Next]_vars PROVE TokenInv'
  OBVIOUS
<1>0. account \in [Accounts -> AccountRow] /\ req \in [Requests -> Request]
  BY DEF TypeInv, TypeOK
<1> DEFINE Keep == \A s \in Requests : req'[s].x \in {req[s].x, None}
<1>e. ASSUME NEW r \in Requests, NEW q, Enter(r, q), q.x \in {req[r].x, None} PROVE Keep
  BY <1>0, <1>e DEF Enter
<1>g. ASSUME NEW r \in Requests, NEW l, Goto(r, l) PROVE Keep
  BY <1>0, <1>g DEF Goto, Request
<1>f. ASSUME NEW r \in Requests, Finish(r) PROVE Keep
  BY <1>0, <1>f DEF Finish, Idle
<1>u. ASSUME req' = req PROVE Keep
  BY <1>u
<1>k. ASSUME Keep, reset' = reset, issued \subseteq issued',
             \A a \in Accounts : account'[a].password \in {account[a].password, "own"}
      PROVE  TokenInv'
  BY <1>k, TokensKept
<1>s. ASSUME Keep, reset' = reset, issued \subseteq issued', account' = account
      PROVE  TokenInv'
  BY <1>s, <1>k
<1>i. ASSUME NEW a \in Accounts, NEW st, NEW b, Insert(a, st, b)
      PROVE  \A c \in Accounts : account'[c].password \in {account[c].password, "own"}
  BY <1>0, <1>i DEF Insert
<1>d. ASSUME NEW a \in Accounts, DeleteRow(a)
      PROVE  \A c \in Accounts : account'[c].password \in {account[c].password, "own"}
  BY <1>0, <1>d DEF DeleteRow, AccountRow
<1> HIDE DEF Keep
<1>1. ASSUME NEW r \in Requests, Begin(r) PROVE TokenInv'
  <2>1. ASSUME NEW e \in Emails, RegisterCandidate(r, e) \/ ForgotPassword(r, e) PROVE TokenInv'
    BY <1>e, <1>s, <2>1 DEF RegisterCandidate, ForgotPassword, Idle
  <2>2. ASSUME NEW a \in Accounts, ResendOTP(r, a) \/ VerifyOTP(r, a) \/ ChangePassword(r, a)
        PROVE  TokenInv'
    BY <1>e, <1>s, <2>2 DEF ResendOTP, VerifyOTP, ChangePassword, Idle
  <2>3. ASSUME NEW i \in Invitations, NEW l, ReadInvitation(r, i, l) \/ AcceptInvitation(r, i)
        PROVE  TokenInv'
    BY <1>e, <1>s, <2>3 DEF ReadInvitation, AcceptInvitation, Idle
  <2>4. ASSUME NEW s \in Accounts, NEW a \in Accounts, DeleteSuperAdmin(r, s, a) PROVE TokenInv'
    BY <1>e, <1>s, <2>4 DEF DeleteSuperAdmin, Idle
  <2> QED BY <1>1, <2>1, <2>2, <2>3, <2>4, TokenTaken
          DEF Begin, ResendInvitation, CancelInvitation
<1>2. ASSUME NEW r \in Requests, Continue(r) PROVE TokenInv'
  <2>0. req[r] \in Request /\ Knows(req[r])
    BY DEF TypeInv, TypeOK
  <2>1. ASSUME NEW a \in Accounts, CreateCandidate(r, a) PROVE TokenInv'
    BY <1>g, <1>i, <1>k, <2>1 DEF CreateCandidate
  <2>2. ASSUME NEW a \in Accounts, CreateMember(r, a) PROVE TokenInv'
    <3>1. Keep
      BY <1>0, <2>2 DEF CreateMember, Request, Keep
    <3> QED BY <1>i, <1>k, <2>2, <3>1 DEF CreateMember
  <2>3. CASE CountAttempt(r) \/ DropCode(r)
    BY <1>g, <1>f, <1>s, <2>3 DEF CountAttempt, DropCode
  <2>4. CASE ActivateCandidate(r)
    <3>1. \A a \in Accounts : account'[a].password = account[a].password
      BY <1>0, <2>4 DEF ActivateCandidate, AccountRow
    <3> QED BY <1>f, <1>k, <2>4, <3>1 DEF ActivateCandidate
  <2>5. CASE FindAccount(r)
    <3>1. /\ [req[r] EXCEPT !.n = @ + 1].x = req[r].x
          /\ \A a : [req[r] EXCEPT !.pc = "reset_write", !.a = a].x = req[r].x
      BY <2>0 DEF Request
    <3> QED BY <1>e, <1>f, <1>s, <2>5, <3>1 DEF FindAccount
  <2>6. CASE WriteReset(r)
    <3>1. [req[r] EXCEPT !.pc = "reset_find", !.a = None, !.n = @ + 1].x = req[r].x
      BY <2>0 DEF Request
    <3>2. CASE SetPassword(req[r].a, req[r].x) /\ Finish(r)
      BY <2>6, <3>2, TokenWritten DEF WriteReset
    <3>3. CASE account' = account
      BY <1>e, <1>f, <1>s, <2>6, <3>1, <3>3 DEF WriteReset
    <3> QED BY <2>6, <3>2, <3>3 DEF WriteReset
  <2>7. CASE WriteChange(r)
    <3>1. \A a \in Accounts : account'[a].password \in {account[a].password, "own"}
      BY <1>0, <2>7 DEF WriteChange, SetPassword, AccountRow
    <3> QED BY <1>f, <1>k, <2>7, <3>1 DEF WriteChange
  <2>8. CASE DeleteSuperAdminRow(r)
    <3>1. req[r].a \in Accounts
      BY <2>0, <2>8 DEF DeleteSuperAdminRow, At, Request, Knows
    <3> QED BY <1>d, <1>f, <1>k, <2>8, <3>1 DEF DeleteSuperAdminRow
  <2>9. ASSUME NEW c \in Codes, UpsertOTP(r, c) PROVE TokenInv'
    BY <1>f, <1>s, <2>9 DEF UpsertOTP, Issue
  <2>10. ASSUME NEW t \in InviteTokens, UpdateInvitationToken(r, t) PROVE TokenInv'
    BY <1>f, <1>s, <2>10 DEF UpdateInvitationToken, Issue
  <2>11. CASE MarkInvitationUsed(r) \/ DeleteInvitation(r) \/ Abandon(r)
    BY <1>f, <1>s, <2>11 DEF MarkInvitationUsed, DeleteInvitation, Abandon
  <2> QED BY <1>2, <2>1, <2>2, <2>3, <2>4, <2>5, <2>6, <2>7, <2>8, <2>9, <2>10, <2>11,
             TokenStored DEF Continue
<1>3. CASE Single
  <2>1. ASSUME NEW a \in Accounts, Login(a) PROVE TokenInv'
    BY <1>u, <1>s, <2>1 DEF Login
  <2>2. ASSUME NEW a \in Accounts, DeleteMember(a) PROVE TokenInv'
    BY <1>d, <1>u, <1>k, <2>2 DEF DeleteMember
  <2>3. ASSUME NEW a \in Accounts, NEW st \in UserStatus \cup OrgStatus, UpdateStatus(a, st)
        PROVE  TokenInv'
    <3>1. \A c \in Accounts : account'[c].password = account[c].password
      BY <1>0, <2>3 DEF UpdateStatus, AccountRow
    <3> QED BY <1>u, <1>k, <2>3, <3>1 DEF UpdateStatus
  <2>4. ASSUME NEW s \in Accounts, NEW i \in Invitations, NEW e \in Emails,
               NEW k \in InviteKinds, NEW t \in InviteTokens, CreateInvitation(s, i, e, k, t)
        PROVE  TokenInv'
    BY <1>u, <1>s, <2>4 DEF CreateInvitation, Issue
  <2> QED BY <1>3, <2>1, <2>2, <2>3, <2>4 DEF Single
<1>4. CASE Restart
  <2>1. Keep
    BY <1>4 DEF Restart, Idle, Keep
  <2>2. \A c \in Accounts : account'[c].password \in {account[c].password, "own"}
    BY <1>4, <1>i DEF Restart
  <2> QED BY <1>4, <1>k, <2>1, <2>2 DEF Restart
<1>5. CASE UNCHANGED vars
  BY <1>5, <1>u, <1>s DEF vars
<1> QED BY <1>1, <1>2, <1>3, <1>4, <1>5 DEF Next

(* A reset token works once: it never is for two addresses, in two         *)
(* requests or in the passwords of two accounts (repository.go:691-717,    *)
(* service.go:354-406).                                                    *)
THEOREM ResetTokenCorrect == Spec => []ResetTokenInOnePlace
<1>1. TypeInv /\ TokenInv /\ [Next]_vars => TokenInv'
  BY TokenNext, TypeNext
<1> QED BY <1>1, TokenInit, TokenOnePlace, TypeInvariant, PTL DEF Spec
=============================================================================
