---------------------------- MODULE OfficeProofs ----------------------------
(***************************************************************************)
(* Proofs about Appeals, for any number of tests, sessions, appeals,       *)
(* experts and requests, and any assignment of bookings; then about the    *)
(* office that MCOffice puts together, whose parts inherit what is proved  *)
(* of their modules.                                                       *)
(***************************************************************************)
EXTENDS MCOffice, FiniteSetTheorems, TLAPS

-----------------------------------------------------------------------------
(* What a request or an appeal names exists, and had its window.           *)
RequestsNamed ==
  \A r \in Requests : req[r].pc # "idle"
    => req[r].test \in opened /\ req[r].session \in Sessions

AppealsNamed ==
  \A a \in Appeals : appeal[a].status # "none"
    => appeal[a].test \in opened /\ appeal[a].session \in Sessions

OpenWasOpened == \A t \in Tests : WindowIsOpen(t) => t \in opened

Named == RequestsNamed /\ AppealsNamed /\ OpenWasOpened

IInv == TypeOK /\ Named

-----------------------------------------------------------------------------
LEMMA InitIInv == Init => IInv
BY DEF Init, IInv, TypeOK, Named, RequestsNamed, AppealsNamed, OpenWasOpened, WindowIsOpen,
       Grade, Appeal, NoAppeal, AppealStatus, Request, Idle

(* The actions on tests. *)
LEMMA TestKeeps ==
  ASSUME IInv, NEW t \in Tests,
         InsertTestResult(t) \/ CompleteTest(t) \/ UpdateTestAdmin(t) \/ WindowCloses(t)
  PROVE  IInv'
<1> USE DEF IInv
<1>1. CASE InsertTestResult(t)
  BY <1>1 DEF InsertTestResult, TypeOK, Named, RequestsNamed, AppealsNamed, OpenWasOpened,
              WindowIsOpen, Grade
<1>2. CASE CompleteTest(t)
  BY <1>2 DEF CompleteTest, TypeOK, Named, RequestsNamed, AppealsNamed, OpenWasOpened,
              WindowIsOpen
<1>3. CASE UpdateTestAdmin(t)
  <2>1. PICK w \in {"open", "closed"} :
          /\ window' = [window EXCEPT ![t] = w]
          /\ opened' = IF w = "open" THEN opened \cup {t} ELSE opened
    BY <1>3 DEF UpdateTestAdmin
  <2>2. opened \subseteq opened' /\ opened' \in SUBSET Tests
    BY <2>1 DEF TypeOK
  <2>3. TypeOK'
    BY <1>3, <2>1, <2>2 DEF UpdateTestAdmin, TypeOK
  <2>4. Named'
    BY <1>3, <2>1, <2>2 DEF UpdateTestAdmin, TypeOK, Named, RequestsNamed, AppealsNamed,
                            OpenWasOpened, WindowIsOpen
  <2> QED BY <2>3, <2>4
<1>4. CASE WindowCloses(t)
  BY <1>4 DEF WindowCloses, TypeOK, Named, RequestsNamed, AppealsNamed, OpenWasOpened,
              WindowIsOpen
<1> QED BY <1>1, <1>2, <1>3, <1>4

(* The actions of a request. *)
LEMMA RequestKeeps ==
  ASSUME IInv, NEW r \in Requests,
         \/ \E c \in Candidates, t \in Tests, s \in Sessions : CreateAppeal(r, c, t, s)
         \/ EnforceWindow(r)
         \/ \E a \in Appeals : InsertAppeal(r, a)
  PROVE  IInv'
<1> USE DEF IInv
<1>1. ASSUME NEW c \in Candidates, NEW t \in Tests, NEW s \in Sessions, CreateAppeal(r, c, t, s)
      PROVE  IInv'
  BY <1>1 DEF CreateAppeal, TypeOK, Request, Named, RequestsNamed, AppealsNamed, OpenWasOpened,
              WindowIsOpen
<1>2. CASE EnforceWindow(r)
  <2>1. req' \in [Requests -> Request]
    BY <1>2 DEF EnforceWindow, TypeOK, Request, Idle
  <2>2. RequestsNamed'
    BY <1>2 DEF EnforceWindow, TypeOK, Request, Idle, Named, RequestsNamed
  <2> QED
    BY <1>2, <2>1, <2>2 DEF EnforceWindow, TypeOK, Named, AppealsNamed, OpenWasOpened,
                            WindowIsOpen
<1>3. ASSUME NEW a \in Appeals, InsertAppeal(r, a)
      PROVE  IInv'
  <2>1. req[r] \in Request /\ req[r].pc # "idle"
    BY <1>3 DEF InsertAppeal, TypeOK
  <2>2. TypeOK'
    BY <1>3, <2>1 DEF InsertAppeal, TypeOK, Request, Idle, Appeal, AppealStatus
  <2>3. RequestsNamed'
    BY <1>3 DEF InsertAppeal, TypeOK, Idle, Named, RequestsNamed
  <2>4. AppealsNamed'
    BY <1>3, <2>1 DEF InsertAppeal, TypeOK, Named, RequestsNamed, AppealsNamed
  <2> QED
    BY <1>3, <2>2, <2>3, <2>4 DEF InsertAppeal, Named, OpenWasOpened, WindowIsOpen
<1> QED BY <1>1, <1>2, <1>3

(* What a decision does to the appeal and to the results. *)
LEMMA DecisionKeepsResults ==
  ASSUME TypeOK, NEW a \in Appeals, PassTest(a)
  PROVE  /\ result' \in [Tests -> Grade]
         /\ \A t \in Tests : result'[t] = "passed"
              => result[t] = "passed" \/ t \in TestsOfSession(a)
         /\ \A t \in Tests : result[t] = "passed" => result'[t] = "passed"
<1>1. CASE TestsOfSession(a) = {}
  BY <1>1 DEF PassTest, TypeOK
<1>2. CASE TestsOfSession(a) # {}
  <2>1. PICK t \in TestsOfSession(a) :
          result' = [result EXCEPT ![t] = IF result[t] = "none" THEN result[t] ELSE "passed"]
    BY <1>2 DEF PassTest
  <2>2. t \in Tests
    BY <2>1 DEF TestsOfSession
  <2> QED BY <2>1, <2>2 DEF TypeOK, Grade
<1> QED BY <1>1, <1>2

LEMMA DecisionKeeps ==
  ASSUME IInv, NEW who \in Experts \cup Admins, NEW a \in Appeals,
         NEW d \in {"accepted", "rejected"}, ResolveAppeal(who, a, d)
  PROVE  IInv'
<1> USE DEF IInv
<1>1. who \in Experts
  BY DEF ResolveAppeal, MayDecide, TypeOK
<1>2. appeal' \in [Appeals -> Appeal]
  <2>1. [appeal[a] EXCEPT !.status = d, !.expert = who] \in Appeal
    BY <1>1 DEF TypeOK, Appeal, AppealStatus
  <2>2. appeal' = [appeal EXCEPT ![a] = [appeal[a] EXCEPT !.status = d, !.expert = who]]
    BY DEF ResolveAppeal, TypeOK
  <2> QED BY <2>1, <2>2 DEF TypeOK
<1>3. result' \in [Tests -> Grade]
  BY DecisionKeepsResults DEF ResolveAppeal, TypeOK
<1>4. upheld' \in SUBSET Sessions
  BY DEF ResolveAppeal, TypeOK, Named, AppealsNamed
<1>5. TypeOK'
  BY <1>2, <1>3, <1>4 DEF ResolveAppeal, TypeOK
<1>6. Named'
  BY DEF ResolveAppeal, TypeOK, Appeal, Named, RequestsNamed, AppealsNamed, OpenWasOpened,
         WindowIsOpen
<1> QED BY <1>5, <1>6

LEMMA NextIInv == IInv /\ [Next]_vars => IInv'
<1> SUFFICES ASSUME IInv, [Next]_vars PROVE IInv'
  OBVIOUS
<1>1. ASSUME NEW x \in Experts, DeleteExpert(x) PROVE IInv'
  BY <1>1 DEF DeleteExpert, IInv, TypeOK, Named, RequestsNamed, AppealsNamed, OpenWasOpened,
              WindowIsOpen
<1>2. CASE UNCHANGED vars
  BY <1>2 DEF vars, IInv, TypeOK, Named, RequestsNamed, AppealsNamed, OpenWasOpened,
              WindowIsOpen
<1> QED BY <1>1, <1>2, TestKeeps, RequestKeeps, DecisionKeeps DEF Next

LEMMA Invariant == Spec => []IInv
BY InitIInv, NextIInv, PTL DEF Spec

(* The tables, the requests and the history stay well typed: what a        *)
(* decision reads of an appeal names a session (service.go:36).            *)
THEOREM TypeCorrect == Spec => []TypeOK
<1>1. IInv => TypeOK
  BY DEF IInv
<1> QED BY <1>1, Invariant, PTL

-----------------------------------------------------------------------------
(* Passes.                                                                 *)

LEMMA EarnedInit == Init => PassIsEarned
BY DEF Init, PassIsEarned

LEMMA EarnedNext == IInv /\ PassIsEarned /\ [Next]_vars => PassIsEarned'
<1> SUFFICES ASSUME IInv, PassIsEarned, [Next]_vars PROVE PassIsEarned'
  OBVIOUS
<1> USE DEF IInv
<1>1. ASSUME NEW t \in Tests, InsertTestResult(t) PROVE PassIsEarned'
  BY <1>1 DEF InsertTestResult, PassIsEarned, TypeOK
<1>2. ASSUME NEW who \in Experts \cup Admins, NEW a \in Appeals,
             NEW d \in {"accepted", "rejected"}, ResolveAppeal(who, a, d)
      PROVE  PassIsEarned'
  <2>1. graded' = graded /\ upheld \subseteq upheld'
    BY <1>2 DEF ResolveAppeal
  <2>2. CASE PassTest(a) /\ upheld' = upheld \cup {appeal[a].session}
    <3>1. \A t \in Tests : result'[t] = "passed" => result[t] = "passed" \/ t \in TestsOfSession(a)
      BY <2>2, DecisionKeepsResults
    <3>2. \A t \in TestsOfSession(a) : \E s \in upheld' : BookingOf[s] = BookingOf[t]
      BY <2>2 DEF TestsOfSession
    <3> QED BY <2>1, <3>1, <3>2 DEF PassIsEarned
  <2>3. CASE UNCHANGED <<result, upheld>>
    BY <2>1, <2>3 DEF PassIsEarned
  <2> QED BY <1>2, <2>2, <2>3 DEF ResolveAppeal
<1>3. CASE UNCHANGED <<result, graded, upheld>>
  BY <1>3 DEF PassIsEarned
<1>4. ASSUME NEW t \in Tests, CompleteTest(t) \/ UpdateTestAdmin(t) \/ WindowCloses(t)
      PROVE  UNCHANGED <<result, graded, upheld>>
  BY <1>4 DEF CompleteTest, UpdateTestAdmin, WindowCloses
<1>5. ASSUME NEW r \in Requests,
             \/ \E c \in Candidates, t \in Tests, s \in Sessions : CreateAppeal(r, c, t, s)
             \/ EnforceWindow(r)
             \/ \E a \in Appeals : InsertAppeal(r, a)
      PROVE  UNCHANGED <<result, graded, upheld>>
  BY <1>5 DEF CreateAppeal, EnforceWindow, InsertAppeal
<1>6. ASSUME NEW x \in Experts, DeleteExpert(x) PROVE UNCHANGED <<result, graded, upheld>>
  BY <1>6 DEF DeleteExpert
<1>7. CASE UNCHANGED vars
  BY <1>3, <1>7 DEF vars
<1> QED BY <1>1, <1>2, <1>3, <1>4, <1>5, <1>6, <1>7 DEF Next

(* A result says passed only if it was stored so or an appeal about a      *)
(* session of its booking was accepted (service.go:49-60).                 *)
THEOREM PassesAreEarned == Spec => []PassIsEarned
BY Invariant, EarnedInit, EarnedNext, PTL DEF Spec

LEMMA PassKept == IInv /\ Next => PassIsKept
<1> SUFFICES ASSUME IInv, Next PROVE PassIsKept
  OBVIOUS
<1> USE DEF IInv
<1>1. ASSUME NEW t \in Tests,
             InsertTestResult(t) \/ CompleteTest(t) \/ UpdateTestAdmin(t) \/ WindowCloses(t)
      PROVE  PassIsKept
  BY <1>1 DEF InsertTestResult, CompleteTest, UpdateTestAdmin, WindowCloses, PassIsKept, TypeOK
<1>2. ASSUME NEW r \in Requests,
             \/ \E c \in Candidates, t \in Tests, s \in Sessions : CreateAppeal(r, c, t, s)
             \/ EnforceWindow(r)
             \/ \E a \in Appeals : InsertAppeal(r, a)
      PROVE  PassIsKept
  BY <1>2 DEF CreateAppeal, EnforceWindow, InsertAppeal, PassIsKept
<1>3. ASSUME NEW who \in Experts \cup Admins, NEW a \in Appeals,
             NEW d \in {"accepted", "rejected"}, ResolveAppeal(who, a, d)
      PROVE  PassIsKept
  BY <1>3, DecisionKeepsResults DEF ResolveAppeal, PassIsKept
<1>4. ASSUME NEW x \in Experts, DeleteExpert(x) PROVE PassIsKept
  BY <1>4 DEF DeleteExpert, PassIsKept
<1> QED BY <1>1, <1>2, <1>3, <1>4 DEF Next

(* No step takes a pass back: neither a later rejection nor a second       *)
(* verdict (service.go:47, testing/repository.go:761).                     *)
THEOREM PassesStay == Spec => PassStays
<1>1. IInv /\ [Next]_vars => [PassIsKept]_vars
  BY PassKept
<1> QED BY <1>1, Invariant, PTL DEF Spec, PassStays

-----------------------------------------------------------------------------
(* Decisions.                                                              *)

LEMMA ResolverInit == Init => ResolverExists
BY DEF Init, ResolverExists, NoAppeal

LEMMA ResolverNext == IInv /\ ResolverExists /\ [Next]_vars => ResolverExists'
<1> SUFFICES ASSUME IInv, ResolverExists, [Next]_vars PROVE ResolverExists'
  OBVIOUS
<1> USE DEF IInv
<1>1. ASSUME NEW t \in Tests,
             InsertTestResult(t) \/ CompleteTest(t) \/ UpdateTestAdmin(t) \/ WindowCloses(t)
      PROVE  ResolverExists'
  BY <1>1 DEF InsertTestResult, CompleteTest, UpdateTestAdmin, WindowCloses, ResolverExists
<1>2. ASSUME NEW r \in Requests,
             \/ \E c \in Candidates, t \in Tests, s \in Sessions : CreateAppeal(r, c, t, s)
             \/ EnforceWindow(r)
      PROVE  ResolverExists'
  BY <1>2 DEF CreateAppeal, EnforceWindow, ResolverExists
<1>3. ASSUME NEW r \in Requests, NEW a \in Appeals, InsertAppeal(r, a)
      PROVE  ResolverExists'
  BY <1>3 DEF InsertAppeal, ResolverExists, TypeOK
<1>4. ASSUME NEW who \in Experts \cup Admins, NEW a \in Appeals,
             NEW d \in {"accepted", "rejected"}, ResolveAppeal(who, a, d)
      PROVE  ResolverExists'
  BY <1>4 DEF ResolveAppeal, MayDecide, ResolverExists, TypeOK, Appeal
<1>5. ASSUME NEW x \in Experts, DeleteExpert(x) PROVE ResolverExists'
  BY <1>5 DEF DeleteExpert, ResolverExists
<1>6. CASE UNCHANGED vars
  BY <1>6 DEF vars, ResolverExists
<1> QED BY <1>1, <1>2, <1>3, <1>4, <1>5, <1>6 DEF Next

(* Appeals are about tests whose window was open once, and who decided one *)
(* is an expert that has an account (handler.go:67, repository.go:44,      *)
(* identity/repository.go:147).                                            *)
THEOREM AppealsRefer == Spec => []AppealRefers
<1>1. IInv /\ ResolverExists => AppealRefers
  BY DEF IInv, Named, AppealsNamed, AppealHadWindow, AppealRefers
<1> QED BY <1>1, Invariant, ResolverInit, ResolverNext, PTL DEF Spec
-----------------------------------------------------------------------------
(* The office.  The parts of MCOffice are instances of the modules; here   *)
(* they are the same instances of the modules with the proofs, so that     *)
(* each theorem about any instance is one about its part.                  *)

PP == INSTANCE ProfilesProofs WITH
  Accounts <- {c1, x1, ad1, root, sa}, Invited <- {x1}, Root <- root, Paths <- {p1, p2, p3},
  Requests <- {r0}, Patches <- FALSE, Faults <- FALSE, req <- preq

QP == INSTANCE ProfilesProofs WITH
  Accounts <- {e1, i1, a1}, Invited <- {}, Root <- None, Paths <- {p1, p2, p3},
  Requests <- {r1, r2}, Patches <- FALSE, Faults <- FALSE, req <- preq

RP == INSTANCE ProfilesProofs WITH
  Accounts <- {c1, a1}, Invited <- {}, Root <- None, Paths <- {p1, p2, p3},
  Requests <- {r1, r2}, Patches <- TRUE, Faults <- TRUE, req <- preq

DP == INSTANCE ReportsProofs WITH
  Tests <- {t1}, Requests <- {r0, r1, r2}, Results <- {"as graded", "as appealed"},
  Faults <- TRUE, Breaks <- FALSE, req <- rreq

LP == INSTANCE ListingsProofs WITH
  Rows <- {w1, w2, w3}, Fixed <- {1}, Asked <- {1, 2}, MaxRank <- 3, MaxChanges <- 2,
  Faults <- TRUE, row <- rank,
  Plans <- {k1, k2, "seeded"}, Seeded <- "seeded", Levels <- {"b"}, Tests <- {t1, t2},
  Requests <- {p1, p2, p3}, req <- treq,
  Unit <- 10, PassThreshold <- 6000, Means <- GradedMeans, Posted <- PostedScores

LEMMA PartSteps ==
  ASSUME [OfficeNext]_officeVars
  PROVE  /\ part' = part
         /\ [Next]_vars
         /\ part = "P" => [P!Next]_(P!vars)
         /\ part = "Q" => [Q!Next]_(Q!vars)
         /\ part = "R" => [R!Next]_(R!vars)
         /\ part = "L" => [L!Next]_(L!vars)
         /\ part = "D" => [D!Next]_(D!vars)
         /\ part = "N" => [N!Next]_(N!vars)
         /\ part = "T" => [T!Next]_(T!vars)
<1>1. CASE OfficeNext
  BY <1>1 DEF OfficeNext, vars
<1>2. CASE UNCHANGED officeVars
  BY <1>2 DEF officeVars, vars, profiles, listings, reports, analysis, plans, P!vars, Q!vars,
              R!vars, L!vars, L!walk, L!change, D!vars, N!vars, T!vars
<1> QED BY <1>1, <1>2

LEMMA PartStarts ==
  ASSUME OfficeInit
  PROVE  /\ Init
         /\ part = "P" => P!Init
         /\ part = "Q" => Q!Init
         /\ part = "R" => R!Init
         /\ part = "L" => L!Init
         /\ part = "D" => D!Init
         /\ part = "N" => N!Init
         /\ part = "T" => T!Init
BY DEF OfficeInit

LEMMA SameP ==
  /\ P!Init => PP!Init
  /\ [P!Next]_(P!vars) => [PP!Next]_(PP!vars)
  /\ PP!TypeOK => P!TypeOK
  /\ PP!RowNamesFile => P!RowNamesFile
  /\ PP!NoOrphan => P!NoOrphan
BY DEF P!vars, PP!vars, P!Pictured, PP!Pictured, P!Status, PP!Status, P!Row, PP!Row,
       P!Exists, PP!Exists, P!PersonReads, PP!PersonReads, P!OrgReads, PP!OrgReads, P!Reads,
       PP!Reads, P!PC, PP!PC, P!Request, PP!Request, P!Idle, PP!Idle, P!At, PP!At, P!Goto,
       PP!Goto, P!Enter, PP!Enter, P!Finish, PP!Finish, P!SetImage, PP!SetImage,
       P!SetStatus, PP!SetStatus, P!Init, PP!Init, P!ReadOld, PP!ReadOld, P!SaveFile,
       PP!SaveFile, P!RefuseFile, PP!RefuseFile, P!RemoveFile, PP!RemoveFile, P!RemoveOld,
       PP!RemoveOld, P!UpdateImage, PP!UpdateImage, P!UndoSave, PP!UndoSave, P!RequestDies,
       PP!RequestDies, P!PatchImage, PP!PatchImage, P!PutStatus, PP!PutStatus, P!DeleteRow,
       PP!DeleteRow, P!Candidate, PP!Candidate, P!Expert, PP!Expert, P!Institute,
       PP!Institute, P!Authority, PP!Authority, P!Admin, PP!Admin, P!DeleteSuperAdmin,
       PP!DeleteSuperAdmin, P!DeleteSuperAdminRow, PP!DeleteSuperAdminRow, P!Begin,
       PP!Begin, P!Continue, PP!Continue, P!Next, PP!Next, P!TypeOK, PP!TypeOK, P!Replacing,
       PP!Replacing, P!RowNamesFile, PP!RowNamesFile, P!NoOrphan, PP!NoOrphan

LEMMA SameQ ==
  /\ Q!Init => QP!Init
  /\ [Q!Next]_(Q!vars) => [QP!Next]_(QP!vars)
  /\ QP!TypeOK => Q!TypeOK
  /\ QP!RowNamesFile => Q!RowNamesFile
BY DEF Q!vars, QP!vars, Q!Pictured, QP!Pictured, Q!Status, QP!Status, Q!Row, QP!Row,
       Q!Exists, QP!Exists, Q!PersonReads, QP!PersonReads, Q!OrgReads, QP!OrgReads, Q!Reads,
       QP!Reads, Q!PC, QP!PC, Q!Request, QP!Request, Q!Idle, QP!Idle, Q!At, QP!At, Q!Goto,
       QP!Goto, Q!Enter, QP!Enter, Q!Finish, QP!Finish, Q!SetImage, QP!SetImage,
       Q!SetStatus, QP!SetStatus, Q!Init, QP!Init, Q!ReadOld, QP!ReadOld, Q!SaveFile,
       QP!SaveFile, Q!RefuseFile, QP!RefuseFile, Q!RemoveFile, QP!RemoveFile, Q!RemoveOld,
       QP!RemoveOld, Q!UpdateImage, QP!UpdateImage, Q!UndoSave, QP!UndoSave, Q!RequestDies,
       QP!RequestDies, Q!PatchImage, QP!PatchImage, Q!PutStatus, QP!PutStatus, Q!DeleteRow,
       QP!DeleteRow, Q!Candidate, QP!Candidate, Q!Expert, QP!Expert, Q!Institute,
       QP!Institute, Q!Authority, QP!Authority, Q!Admin, QP!Admin, Q!DeleteSuperAdmin,
       QP!DeleteSuperAdmin, Q!DeleteSuperAdminRow, QP!DeleteSuperAdminRow, Q!Begin,
       QP!Begin, Q!Continue, QP!Continue, Q!Next, QP!Next, Q!TypeOK, QP!TypeOK, Q!Replacing,
       QP!Replacing, Q!RowNamesFile, QP!RowNamesFile

LEMMA SameR ==
  /\ R!Init => RP!Init
  /\ [R!Next]_(R!vars) => [RP!Next]_(RP!vars)
  /\ RP!TypeOK => R!TypeOK
  /\ RP!OwnFileRemoved => R!OwnFileRemoved
BY DEF R!vars, RP!vars, R!Pictured, RP!Pictured, R!Status, RP!Status, R!Row, RP!Row,
       R!Exists, RP!Exists, R!PersonReads, RP!PersonReads, R!OrgReads, RP!OrgReads, R!Reads,
       RP!Reads, R!PC, RP!PC, R!Request, RP!Request, R!Idle, RP!Idle, R!At, RP!At, R!Goto,
       RP!Goto, R!Enter, RP!Enter, R!Finish, RP!Finish, R!SetImage, RP!SetImage,
       R!SetStatus, RP!SetStatus, R!Init, RP!Init, R!ReadOld, RP!ReadOld, R!SaveFile,
       RP!SaveFile, R!RefuseFile, RP!RefuseFile, R!RemoveFile, RP!RemoveFile, R!RemoveOld,
       RP!RemoveOld, R!UpdateImage, RP!UpdateImage, R!UndoSave, RP!UndoSave, R!RequestDies,
       RP!RequestDies, R!PatchImage, RP!PatchImage, R!PutStatus, RP!PutStatus, R!DeleteRow,
       RP!DeleteRow, R!Candidate, RP!Candidate, R!Expert, RP!Expert, R!Institute,
       RP!Institute, R!Authority, RP!Authority, R!Admin, RP!Admin, R!DeleteSuperAdmin,
       RP!DeleteSuperAdmin, R!DeleteSuperAdminRow, RP!DeleteSuperAdminRow, R!Begin,
       RP!Begin, R!Continue, RP!Continue, R!Next, RP!Next, R!TypeOK, RP!TypeOK,
       R!Named, RP!Named, R!OwnFileRemoved, RP!OwnFileRemoved

LEMMA SameD ==
  /\ D!Init => DP!Init
  /\ [D!Next]_(D!vars) => [DP!Next]_(DP!vars)
  /\ DP!TypeOK => D!TypeOK
  /\ DP!WholeReport => D!WholeReport
BY DEF D!vars, DP!vars, D!File, DP!File, D!PC, DP!PC, D!Request, DP!Request, D!Idle,
       DP!Idle, D!At, DP!At, D!Goto, DP!Goto, D!Test, DP!Test, D!Return, DP!Return, D!Fails,
       DP!Fails, D!GoesOn, DP!GoesOn, D!Init, DP!Init, D!ResultChanges, DP!ResultChanges,
       D!GetTest, DP!GetTest, D!GetResult, DP!GetResult, D!GetCandidate, DP!GetCandidate,
       D!GenerateNarrative, DP!GenerateNarrative, D!RenderPDF, DP!RenderPDF,
       D!GenerateReport, DP!GenerateReport, D!Outcome, DP!Outcome, D!EndCall, DP!EndCall,
       D!Cached, DP!Cached, D!ReadFile, DP!ReadFile, D!OpenFile, DP!OpenFile, D!WritePart,
       DP!WritePart, D!WriteRest, DP!WriteRest, D!PostGenerate, DP!PostGenerate,
       D!GetReportPDF, DP!GetReportPDF, D!ServeFile, DP!ServeFile, D!Leaves, DP!Leaves,
       D!Crash, DP!Crash, D!Step, DP!Step, D!Next, DP!Next, D!TypeOK, DP!TypeOK,
       D!WholeReport, DP!WholeReport

LEMMA SameL ==
  /\ L!Init => LP!Init
  /\ [L!Next]_(L!vars) => [LP!Next]_(LP!vars)
  /\ LP!WalkIsBounded => L!WalkIsBounded
BY DEF L!walk, LP!walk, L!change, LP!change, L!vars, LP!vars, L!ListCandidates,
       LP!ListCandidates, L!ListExperts, LP!ListExperts, L!ListInstitutes,
       LP!ListInstitutes, L!ListActiveInstitutes, LP!ListActiveInstitutes,
       L!ListAuthorities, LP!ListAuthorities, L!ListAdmins, LP!ListAdmins,
       L!ListSuperAdmins, LP!ListSuperAdmins, L!ListInvitations, LP!ListInvitations,
       L!SuperAdminAuditEvents, LP!SuperAdminAuditEvents, L!ListAppeals, LP!ListAppeals,
       L!ListBookings, LP!ListBookings, L!ListSlots, LP!ListSlots, L!ListDevices,
       LP!ListDevices, L!ListTestPlans, LP!ListTestPlans, L!ListMyTests, LP!ListMyTests,
       L!ListTests, LP!ListTests, L!Sized, LP!Sized, L!listCandidates, LP!listCandidates,
       L!listExperts, LP!listExperts, L!listInstitutes, LP!listInstitutes,
       L!listActiveInstitutes, LP!listActiveInstitutes, L!listAuthorities,
       LP!listAuthorities, L!listAdmins, LP!listAdmins, L!listSuperAdmins,
       LP!listSuperAdmins, L!listInvitations, LP!listInvitations, L!superAdminAudits,
       LP!superAdminAudits, L!listAppeals, LP!listAppeals, L!listBookings, LP!listBookings,
       L!listSlots, LP!listSlots, L!listDevices, LP!listDevices, L!listTestPlans,
       LP!listTestPlans, L!getMyTests, LP!getMyTests, L!listTests, LP!listTests, L!Lists,
       LP!Lists, L!Listed, LP!Listed, L!Ahead, LP!Ahead, L!Class, LP!Class, L!Offset,
       LP!Offset, L!Inside, LP!Inside, L!Pages, LP!Pages, L!Count, LP!Count, L!Init,
       LP!Init, L!ReadRows, LP!ReadRows, L!ReadTotal, LP!ReadTotal, L!First, LP!First,
       L!Second, LP!Second, L!NextPage, LP!NextPage, L!Walking, LP!Walking, L!Place,
       LP!Place, L!Come, LP!Come, L!Leave, LP!Leave, L!Move, LP!Move, L!Next, LP!Next,
       L!Missed, LP!Missed, L!Repeated, LP!Repeated, L!WalkMisses, LP!WalkMisses,
       L!WalkRepeats, LP!WalkRepeats, L!WalkIsBounded, LP!WalkIsBounded, L!Cardinality,
       LP!Cardinality

LEMMA SameN ==
  /\ N!Init => LP!N!Init
  /\ [N!Next]_(N!vars) => [LP!N!Next]_(LP!N!vars)
  /\ LP!N!VerdictExplained => N!VerdictExplained
<1>1. N!Init => LP!N!Init
  BY DEF N!Init, LP!N!Init
<1>2. \A m : N!Passes(m) <=> LP!N!Passes(m)
  BY DEF N!Passes, LP!N!Passes
<1>3. [N!Next]_(N!vars) => [LP!N!Next]_(LP!N!vars)
  <2>1. N!Rounded(mean) = LP!N!Rounded(mean)
    BY DEF N!Rounded, LP!N!Rounded, N!Abs, LP!N!Abs
  <2>2. \A n, h, p, a : N!Store(n, h, p, a) <=> LP!N!Store(n, h, p, a)
    BY DEF N!Store, LP!N!Store
  <2>3. N!Passes(mean) = LP!N!Passes(mean)
    BY DEF N!Passes, LP!N!Passes
  <2>4. N!PostGraded => LP!N!PostGraded
    <3> SUFFICES ASSUME NEW n \in N!Rounded(mean),
                        N!Store(n, 6000, N!Passes(mean), "engine")
                 PROVE  LP!N!PostGraded
      BY DEF N!PostGraded
    <3>1. LP!N!Store(n, 6000, N!Passes(mean), "engine")
      BY <2>2
    <3>2. LP!N!Store(n, 6000, LP!N!Passes(mean), "engine")
      BY <2>3, <3>1 DEF LP!N!Store
    <3> QED BY <2>1, <3>2 DEF LP!N!PostGraded
  <2>5. N!PostOther => LP!N!PostOther
    BY <2>2 DEF N!PostOther, LP!N!PostOther
  <2>6. N!AcceptAppeal => LP!N!AcceptAppeal
    BY DEF N!AcceptAppeal, LP!N!AcceptAppeal
  <2> QED BY <2>4, <2>5, <2>6 DEF N!Next, LP!N!Next, N!vars, LP!N!vars
<1>4. LP!N!VerdictExplained => N!VerdictExplained
  <2>1. N!Praised <=> LP!N!Praised
    BY DEF N!Praised, LP!N!Praised, N!Strengths, LP!N!Strengths, N!Reaches, LP!N!Reaches,
           N!AnyCriticalFail, LP!N!AnyCriticalFail, N!CriticalCount, LP!N!CriticalCount
  <2>2. N!Blamed <=> LP!N!Blamed
    BY DEF N!Blamed, LP!N!Blamed, N!Weaknesses, LP!N!Weaknesses, N!Reaches, LP!N!Reaches,
           N!AnyCriticalFail, LP!N!AnyCriticalFail, N!CriticalCount, LP!N!CriticalCount
  <2>3. N!AlmostPasses <=> LP!N!AlmostPasses
    BY <1>2 DEF N!AlmostPasses, LP!N!AlmostPasses
  <2> QED BY <2>1, <2>2, <2>3 DEF N!VerdictExplained, LP!N!VerdictExplained
<1> QED BY <1>1, <1>3, <1>4

LEMMA SameT ==
  /\ T!Init => LP!T!Init
  /\ [T!Next]_(T!vars) => [LP!T!Next]_(LP!T!vars)
  /\ LP!T!TypeOK => T!TypeOK
  /\ LP!T!PlanIsKept => T!PlanIsKept
BY DEF T!vars, LP!T!vars, T!PlanStatus, LP!T!PlanStatus, T!Rows, LP!T!Rows, T!PastDraft,
       LP!T!PastDraft, T!Request, LP!T!Request, T!Idle, LP!T!Idle, T!Init, LP!T!Init,
       T!Goto, LP!T!Goto, T!Finish, LP!T!Finish, T!IsIdle, LP!T!IsIdle, T!CreateTestPlan,
       LP!T!CreateTestPlan, T!PublishTestPlan, LP!T!PublishTestPlan, T!RetireTestPlan,
       LP!T!RetireTestPlan, T!UpsertTestLevelMapping, LP!T!UpsertTestLevelMapping,
       T!ReadDraft, LP!T!ReadDraft, T!UpdateTestPlan, LP!T!UpdateTestPlan, T!DeleteTestPlan,
       LP!T!DeleteTestPlan, T!ActiveTestPlanForLevel, LP!T!ActiveTestPlanForLevel,
       T!CreateTest, LP!T!CreateTest, T!Abandon, LP!T!Abandon, T!Next, LP!T!Next, T!TypeOK,
       LP!T!TypeOK, T!LateEditsBounded, LP!T!LateEditsBounded, T!TestsArePlanned,
       LP!T!TestsArePlanned, T!PlanIsKept, LP!T!PlanIsKept, T!Cardinality, LP!T!Cardinality

(* What the theorems assume holds of the values of the office.             *)
LEMMA OfficeAssumptions ==
  /\ PP!Apart /\ PP!Smooth /\ PP!OneRequest
  /\ QP!Apart /\ QP!Smooth
  /\ RP!Apart
  /\ DP!Apart
  /\ LP!SizesApart
  /\ LP!PlansApart /\ LP!SomeRequests
<1>1. PP!Apart /\ PP!Smooth /\ PP!OneRequest /\ QP!Apart /\ QP!Smooth /\ RP!Apart
  BY OfficeValues DEF PP!Apart, PP!Smooth, PP!OneRequest, QP!Apart, QP!Smooth, RP!Apart
<1>2. DP!Apart
  BY OfficeValues DEF DP!Apart
<1>3. IsFiniteSet({w1, w2, w3}) /\ IsFiniteSet({p1, p2, p3})
  <2>1. ASSUME NEW x, NEW y, NEW z
        PROVE  IsFiniteSet({x, y, z})
    <3>1. IsFiniteSet({x}) /\ IsFiniteSet({y}) /\ IsFiniteSet({z})
      BY FS_Singleton
    <3>2. IsFiniteSet({x} \cup {y})
      BY <3>1, FS_Union
    <3>3. IsFiniteSet(({x} \cup {y}) \cup {z})
      BY <3>1, <3>2, FS_Union
    <3>4. {x, y, z} = ({x} \cup {y}) \cup {z}
      OBVIOUS
    <3> QED BY <3>3, <3>4
  <2> QED BY <2>1
<1>4. LP!SizesApart
  BY <1>3 DEF LP!SizesApart, LP!IsFiniteSet, IsFiniteSet
<1>5. LP!PlansApart /\ LP!SomeRequests
  BY <1>3, OfficeValues DEF LP!PlansApart, LP!SomeRequests, LP!IsFiniteSet, IsFiniteSet
<1> QED BY <1>1, <1>2, <1>4, <1>5

LEMMA OfficeScales == LP!Scales
BY OfficeResults DEF LP!Scales, LP!N!Result, N!Result, GradedMeans, PostedScores

(* Each part behaves as its module says, and no behaviour changes parts.   *)
In(p) == part = p

LEMMA PartP ==
  OfficeSpec => (PP!Spec /\ []In("P")) \/ []~In("P")
<1>1. OfficeInit /\ In("P") => PP!Init
  BY PartStarts, SameP DEF In
<1>2. In("P") /\ [OfficeNext]_officeVars => In("P")' /\ [PP!Next]_(PP!vars)
  BY PartSteps, SameP DEF In
<1>3. ~In("P") /\ [OfficeNext]_officeVars => (~In("P"))'
  BY PartSteps DEF In
<1> QED BY <1>1, <1>2, <1>3, PTL DEF OfficeSpec, PP!Spec

LEMMA PartQ ==
  OfficeSpec => (QP!Spec /\ []In("Q")) \/ []~In("Q")
<1>1. OfficeInit /\ In("Q") => QP!Init
  BY PartStarts, SameQ DEF In
<1>2. In("Q") /\ [OfficeNext]_officeVars => In("Q")' /\ [QP!Next]_(QP!vars)
  BY PartSteps, SameQ DEF In
<1>3. ~In("Q") /\ [OfficeNext]_officeVars => (~In("Q"))'
  BY PartSteps DEF In
<1> QED BY <1>1, <1>2, <1>3, PTL DEF OfficeSpec, QP!Spec

LEMMA PartR ==
  OfficeSpec => (RP!Spec /\ []In("R")) \/ []~In("R")
<1>1. OfficeInit /\ In("R") => RP!Init
  BY PartStarts, SameR DEF In
<1>2. In("R") /\ [OfficeNext]_officeVars => In("R")' /\ [RP!Next]_(RP!vars)
  BY PartSteps, SameR DEF In
<1>3. ~In("R") /\ [OfficeNext]_officeVars => (~In("R"))'
  BY PartSteps DEF In
<1> QED BY <1>1, <1>2, <1>3, PTL DEF OfficeSpec, RP!Spec

LEMMA PartD ==
  OfficeSpec => (DP!Spec /\ []In("D")) \/ []~In("D")
<1>1. OfficeInit /\ In("D") => DP!Init
  BY PartStarts, SameD DEF In
<1>2. In("D") /\ [OfficeNext]_officeVars => In("D")' /\ [DP!Next]_(DP!vars)
  BY PartSteps, SameD DEF In
<1>3. ~In("D") /\ [OfficeNext]_officeVars => (~In("D"))'
  BY PartSteps DEF In
<1> QED BY <1>1, <1>2, <1>3, PTL DEF OfficeSpec, DP!Spec

LEMMA PartL ==
  OfficeSpec => (LP!Spec /\ []In("L")) \/ []~In("L")
<1>1. OfficeInit /\ In("L") => LP!Init
  BY PartStarts, SameL DEF In
<1>2. In("L") /\ [OfficeNext]_officeVars => In("L")' /\ [LP!Next]_(LP!vars)
  BY PartSteps, SameL DEF In
<1>3. ~In("L") /\ [OfficeNext]_officeVars => (~In("L"))'
  BY PartSteps DEF In
<1> QED BY <1>1, <1>2, <1>3, PTL DEF OfficeSpec, LP!Spec

LEMMA PartN ==
  OfficeSpec => (LP!N!Spec /\ []In("N")) \/ []~In("N")
<1>1. OfficeInit /\ In("N") => LP!N!Init
  BY PartStarts, SameN DEF In
<1>2. In("N") /\ [OfficeNext]_officeVars => In("N")' /\ [LP!N!Next]_(LP!N!vars)
  BY PartSteps, SameN DEF In
<1>3. ~In("N") /\ [OfficeNext]_officeVars => (~In("N"))'
  BY PartSteps DEF In
<1> QED BY <1>1, <1>2, <1>3, PTL DEF OfficeSpec, LP!N!Spec

LEMMA PartT ==
  OfficeSpec => (LP!T!Spec /\ []In("T")) \/ []~In("T")
<1>1. OfficeInit /\ In("T") => LP!T!Init
  BY PartStarts, SameT DEF In
<1>2. In("T") /\ [OfficeNext]_officeVars => In("T")' /\ [LP!T!Next]_(LP!T!vars)
  BY PartSteps, SameT DEF In
<1>3. ~In("T") /\ [OfficeNext]_officeVars => (~In("T"))'
  BY PartSteps DEF In
<1> QED BY <1>1, <1>2, <1>3, PTL DEF OfficeSpec, LP!T!Spec

(* Rows, files, windows, results, reports, plans and what each request     *)
(* keeps between two statements stay well typed, whichever part moves.     *)
THEOREM OfficeTyped == OfficeSpec => []TypesOK
<1>1. OfficeSpec => Spec
  <2>1. OfficeInit => Init
    BY PartStarts
  <2>2. [OfficeNext]_officeVars => [Next]_vars
    BY PartSteps
  <2> QED BY <2>1, <2>2, PTL DEF OfficeSpec, Spec
<1>2. PP!Spec => []PP!TypeOK
  BY PP!TypeCorrect, OfficeAssumptions
<1>3. QP!Spec => []QP!TypeOK
  BY QP!TypeCorrect, OfficeAssumptions
<1>4. RP!Spec => []RP!TypeOK
  BY RP!TypeCorrect, OfficeAssumptions
<1>5. DP!Spec => []DP!TypeOK
  BY DP!TypeCorrect, OfficeAssumptions
<1>6. LP!T!Spec => []LP!T!TypeOK
  BY LP!PlansTyped, OfficeAssumptions
<1>7. ASSUME TypeOK, ~In("P") \/ PP!TypeOK, ~In("Q") \/ QP!TypeOK, ~In("R") \/ RP!TypeOK,
             ~In("D") \/ DP!TypeOK, ~In("T") \/ LP!T!TypeOK
      PROVE  TypesOK
  BY <1>7, SameP, SameQ, SameR, SameD, SameT DEF In, TypesOK
<1> QED BY <1>1, <1>2, <1>3, <1>4, <1>5, <1>6, <1>7, TypeCorrect, PartP, PartQ, PartR, PartD,
           PartT, PTL

(* A row names a file that is there, whether one upload runs or two cross, *)
(* as long as no statement fails (platform/media/media.go:122-131).        *)
THEOREM OfficeRowsNameFiles == OfficeSpec => []RowNamesFile
<1>1. PP!Spec => []PP!RowNamesFile
  BY PP!RowsNameFiles, OfficeAssumptions
<1>2. QP!Spec => []QP!RowNamesFile
  BY QP!RowsNameFiles, OfficeAssumptions
<1>3. (~In("P") \/ PP!RowNamesFile) /\ (~In("Q") \/ QP!RowNamesFile) => RowNamesFile
  BY SameP, SameQ DEF In, RowNamesFile
<1> QED BY <1>1, <1>2, <1>3, PartP, PartQ, PTL

(* One upload at a time leaves no file behind (identity/handler.go:1291).  *)
THEOREM OfficeNothingIsLeft == OfficeSpec => []NoOrphan
<1>1. PP!Spec => []PP!NoOrphan
  BY PP!NothingIsLeft, OfficeAssumptions
<1>2. ~In("P") \/ PP!NoOrphan => NoOrphan
  BY SameP DEF In, NoOrphan
<1> QED BY <1>1, <1>2, PartP, PTL

(* Uploads that cross or fail delete no file of another account, unless a  *)
(* client has sent the name of it (identity/handler.go:1151, 1297-1469).   *)
THEOREM OfficeFilesKept == OfficeSpec => UploadKeepsOthersFiles
<1>1. RP!Spec => [][RP!OwnFileRemoved]_(RP!vars)
  <2>1. RP!Spec => RP!UploadKeepsOthersFiles
    BY RP!OthersFilesKept, OfficeAssumptions
  <2> QED BY <2>1 DEF RP!UploadKeepsOthersFiles
<1>2. [RP!OwnFileRemoved]_(RP!vars) => [part = "R" => R!OwnFileRemoved]_officeVars
  <2>1. CASE RP!OwnFileRemoved
    BY <2>1, SameR
  <2>2. CASE UNCHANGED RP!vars
    BY <2>2 DEF RP!vars, R!OwnFileRemoved
  <2> QED BY <2>1, <2>2
<1>3. ~In("R") => [part = "R" => R!OwnFileRemoved]_officeVars
  BY DEF In
<1> QED BY <1>1, <1>2, <1>3, PartR, PTL DEF UploadKeepsOthersFiles

(* A walk misses at most as many rows as left and repeats at most as many  *)
(* as came (identity/repository.go:57, 410).                               *)
THEOREM OfficeWalksAreBounded == OfficeSpec => []WalkIsBounded
<1>1. LP!Spec => []LP!WalkIsBounded
  BY LP!WalksAreBounded, OfficeAssumptions
<1>2. ~In("L") \/ LP!WalkIsBounded => WalkIsBounded
  BY SameL DEF In, WalkIsBounded
<1> QED BY <1>1, <1>2, PartL, PTL

(* A plan past its draft is written by late requests only, and kept by its *)
(* tests (testing/handler.go:1251, 618).                                   *)
THEOREM OfficePlansAreKept == OfficeSpec => []PlanIsKept
<1>1. LP!T!Spec => []LP!T!PlanIsKept
  BY LP!PlansAreKept, OfficeAssumptions
<1>2. ~In("T") \/ LP!T!PlanIsKept => PlanIsKept
  BY SameT DEF In, PlanIsKept
<1> QED BY <1>1, <1>2, PartT, PTL

(* Whoever has a report made gets a whole one (reporting/service.go:51).   *)
THEOREM OfficeReportsAreWhole == OfficeSpec => []WholeReport
<1>1. DP!Spec => []DP!WholeReport
  BY DP!ReportsAreWhole, OfficeAssumptions
<1>2. ~In("D") \/ DP!WholeReport => WholeReport
  BY SameD DEF In, WholeReport
<1> QED BY <1>1, <1>2, PartD, PTL

(* The report's words explain the verdict it shows of the engine's         *)
(* grading, up to its rounding (test_controller.py:180-188,                *)
(* reporting/analytics.go:97-107).                                         *)
THEOREM OfficeVerdictsAreExplained == OfficeSpec => []VerdictExplained
<1>1. LP!N!Spec => []LP!N!VerdictExplained
  BY LP!VerdictsAreExplained, OfficeScales
<1>2. ~In("N") \/ LP!N!VerdictExplained => VerdictExplained
  BY SameN DEF In, VerdictExplained
<1> QED BY <1>1, <1>2, PartN, PTL
=============================================================================
