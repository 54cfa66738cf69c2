------------------------------ MODULE Appeals -------------------------------
(***************************************************************************)
(* Appeals against test results (internal/appeal) over the tables they     *)
(* touch: tests and test_results of the testing core, the legacy sessions  *)
(* and the experts.                                                        *)
(*                                                                         *)
(* A candidate appeals by three statements: the handler and the service    *)
(* both look at the appeal window before the INSERT, and the window may    *)
(* open or close between any two of them.  A decision is one transaction.  *)
(***************************************************************************)
EXTENDS Naturals

CONSTANTS
  Tests, Sessions,   \* identifiers of tests and of legacy sessions
  BookingOf,         \* the booking of each test and session
  Candidates,        \* the candidates
  Experts, Admins,   \* accounts that may be signed in to decide
  Appeals,           \* identifiers of appeals
  Requests,          \* POST /appeals that may be in progress
  None

VARIABLES
  window,   \* tests.appeal_window_closes_at, seen from the present
  result,   \* test_results.passed
  ending,   \* tests whose result is stored and that are being completed
  appeal,   \* the appeals
  hired,    \* the rows of experts
  req,      \* the appeals being filed
  graded,   \* history: the verdict first stored of each test
  opened,   \* history: tests whose window was once open
  upheld    \* history: sessions an appeal about which was once accepted

vars == <<window, result, ending, appeal, hired, req, graded, opened, upheld>>

-----------------------------------------------------------------------------
AppealStatus == {"none", "pending", "accepted", "rejected"}
Grade        == {"none", "passed", "failed"}

Appeal   == [status : AppealStatus, test : Tests \cup {None}, session : Sessions \cup {None},
             candidate : Candidates \cup {None}, expert : Experts \cup {None}]
NoAppeal == [status |-> "none", test |-> None, session |-> None, candidate |-> None,
             expert |-> None]

Request == [pc : {"idle", "service", "insert"}, test : Tests \cup {None},
            session : Sessions \cup {None}, candidate : Candidates \cup {None}]
Idle    == [pc |-> "idle", test |-> None, session |-> None, candidate |-> None]

Init ==
  /\ window = [t \in Tests |-> "null"]
  /\ result = [t \in Tests |-> "none"]
  /\ ending = {}
  /\ appeal = [a \in Appeals |-> NoAppeal]
  /\ hired  = Experts
  /\ req    = [r \in Requests |-> Idle]
  /\ graded = [t \in Tests |-> "none"]
  /\ opened = {} /\ upheld = {}

-----------------------------------------------------------------------------
(* The testing core.                                                       *)

(* A posted verdict, by resultWebhook: test_id is UNIQUE, so a second one  *)
(* is refused and completes nothing.                                       *)
InsertTestResult(t) ==
  /\ result[t] = "none"
  /\ \E g \in {"passed", "failed"} :
       result' = [result EXCEPT ![t] = g] /\ graded' = [graded EXCEPT ![t] = g]
  /\ ending' = ending \cup {t}
  /\ UNCHANGED <<window, appeal, hired, req, opened, upheld>>

(* The window opens for 72 hours; an error is logged only. *)
CompleteTest(t) ==
  /\ t \in ending
  /\ ending' = ending \ {t}
  /\ \/ window' = [window EXCEPT ![t] = "open"] /\ opened' = opened \cup {t}
     \/ UNCHANGED <<window, opened>>
  /\ UNCHANGED <<result, appeal, hired, req, graded, upheld>>

(* An administrator moves the end of the window; it cannot be unset. *)
UpdateTestAdmin(t) ==
  /\ \E w \in {"open", "closed"} :
       /\ window' = [window EXCEPT ![t] = w]
       /\ opened' = IF w = "open" THEN opened \cup {t} ELSE opened
  /\ UNCHANGED <<result, ending, appeal, hired, req, graded, upheld>>

WindowCloses(t) ==
  /\ window[t] = "open"
  /\ window' = [window EXCEPT ![t] = "closed"]
  /\ UNCHANGED <<result, ending, appeal, hired, req, graded, opened, upheld>>

-----------------------------------------------------------------------------
(* POST /appeals.                                                          *)

(* Mutation: a window that was never set does not close the way. *)
NotClosed(t) == window[t] # "closed"

(* GetAppealWindow scans into a time.Time: NULL is an error. *)
WindowIsOpen(t) == window[t] = "open"

(* The handler: nothing relates the session to the test or either to the   *)
(* candidate.                                                              *)
CreateAppeal(r, c, t, s) ==
  /\ req[r].pc = "idle"
  /\ WindowIsOpen(t)
  /\ req' = [req EXCEPT ![r] = [pc |-> "service", test |-> t, session |-> s, candidate |-> c]]
  /\ UNCHANGED <<window, result, ending, appeal, hired, graded, opened, upheld>>

(* The service looks once more. *)
EnforceWindow(r) ==
  /\ req[r].pc = "service"
  /\ \/ WindowIsOpen(req[r].test) /\ req' = [req EXCEPT ![r].pc = "insert"]
     \/ ~WindowIsOpen(req[r].test) /\ req' = [req EXCEPT ![r] = Idle]
  /\ UNCHANGED <<window, result, ending, appeal, hired, graded, opened, upheld>>

InsertAppeal(r, a) ==
  /\ req[r].pc = "insert"
  /\ appeal[a].status = "none"
  /\ appeal' = [appeal EXCEPT ![a] =
       [status |-> "pending", test |-> req[r].test, session |-> req[r].session,
        candidate |-> req[r].candidate, expert |-> None]]
  /\ req' = [req EXCEPT ![r] = Idle]
  /\ UNCHANGED <<window, result, ending, hired, graded, opened, upheld>>

-----------------------------------------------------------------------------
(* PATCH /appeals/{id}/resolve.                                            *)

(* Mutation: the result of the appealed test is meant. *)
TestNamed(a) == {t \in Tests : t = appeal[a].test}

(* tests joined with sessions over the booking, LIMIT 1 *)
TestsOfSession(a) == {t \in Tests : BookingOf[t] = BookingOf[appeal[a].session]}

(* Mutation: the transaction goes on after an update that failed. *)
DecideAnyway(who) == TRUE

(* expert_id refers to experts, so the update of whoever is none, admins   *)
(* among them, fails and the transaction with it.  The status before is    *)
(* not looked at: an appeal may be decided again.                          *)
MayDecide(who) == who \in hired

(* UPDATE test_results: a test without a row is left alone; nothing takes  *)
(* passed back when a later decision rejects.                              *)
PassTest(a) ==
  IF TestsOfSession(a) = {} THEN UNCHANGED result
  ELSE \E t \in TestsOfSession(a) :
         result' = [result EXCEPT ![t] = IF @ = "none" THEN @ ELSE "passed"]

(* Mutation: every decision writes its verdict over the result. *)
WriteVerdict(who, a, d) ==
  /\ MayDecide(who)
  /\ appeal[a].status # "none"
  /\ appeal' = [appeal EXCEPT ![a].status = d, ![a].expert = who]
  /\ \E t \in TestsOfSession(a) :
       result' = [result EXCEPT ![t] = IF @ = "none" THEN @
                                       ELSE IF d = "accepted" THEN "passed" ELSE "failed"]
  /\ upheld' = IF d = "accepted" THEN upheld \cup {appeal[a].session} ELSE upheld
  /\ UNCHANGED <<window, ending, hired, req, graded, opened>>

ResolveAppeal(who, a, d) ==
  /\ MayDecide(who)
  /\ appeal[a].status # "none"
  /\ appeal' = [appeal EXCEPT ![a].status = d, ![a].expert = who]
  /\ \/ d = "accepted" /\ PassTest(a) /\ upheld' = upheld \cup {appeal[a].session}
     \/ d = "rejected" /\ UNCHANGED <<result, upheld>>
  /\ UNCHANGED <<window, ending, hired, req, graded, opened>>

(* An expert that decided an appeal cannot be deleted; a deleted one stays *)
(* signed in as long as the token is valid.                                *)
DeleteExpert(x) ==
  /\ \A a \in Appeals : appeal[a].expert # x
  /\ hired' = hired \ {x}
  /\ UNCHANGED <<window, result, ending, appeal, req, graded, opened, upheld>>

Next ==
  \/ \E t \in Tests : InsertTestResult(t) \/ CompleteTest(t) \/ UpdateTestAdmin(t) \/ WindowCloses(t)
  \/ \E r \in Requests :
       \/ \E c \in Candidates, t \in Tests, s \in Sessions : CreateAppeal(r, c, t, s)
       \/ EnforceWindow(r)
       \/ \E a \in Appeals : InsertAppeal(r, a)
  \/ \E who \in Experts \cup Admins, a \in Appeals, d \in {"accepted", "rejected"} :
       ResolveAppeal(who, a, d)
  \/ \E x \in Experts : DeleteExpert(x)

Spec == Init /\ [][Next]_vars

-----------------------------------------------------------------------------
(* Properties.                                                             *)

TypeOK ==
  /\ window \in [Tests -> {"null", "open", "closed"}]
  /\ result \in [Tests -> Grade]
  /\ ending \in SUBSET Tests
  /\ appeal \in [Appeals -> Appeal]
  /\ hired  \in SUBSET Experts
  /\ req    \in [Requests -> Request]
  /\ graded \in [Tests -> Grade]
  /\ opened \in SUBSET Tests
  /\ upheld \in SUBSET Sessions

(* However appeals cross each other, the window and the grading, a result  *)
(* says passed only if it was stored so or an appeal about a session of    *)
(* the same booking was accepted once (service.go:49-60).                  *)
PassIsEarned ==
  \A t \in Tests : result[t] = "passed"
    => graded[t] = "passed" \/ \E s \in upheld : BookingOf[s] = BookingOf[t]

(* A pass is never taken back: neither by a later rejection of the appeal  *)
(* that brought it nor by a second verdict that is posted (service.go:47,  *)
(* testing/repository.go:761).                                             *)
PassIsKept == \A t \in Tests : result[t] = "passed" => result'[t] = "passed"
PassStays  == [][PassIsKept]_vars

(* What an appeal refers to: the test it is about and who decided it.      *)

(* There is an appeal only about a test whose window was once set in the   *)
(* future, by a result or by an administrator, who may do so for a test    *)
(* without one (handler.go:67, testing/handler.go:1629-1663).              *)
AppealHadWindow ==
  \A a \in Appeals : appeal[a].status # "none" => appeal[a].test \in opened

(* Who decided an appeal is an expert that still has an account, although  *)
(* decisions come from tokens that outlive it (repository.go:44,           *)
(* identity/repository.go:147).                                            *)
ResolverExists ==
  \A a \in Appeals :
    appeal[a].status \in {"accepted", "rejected"} => appeal[a].expert \in hired

(* Appeals are about tests whose window was once open, whether they were   *)
(* graded or not, and were decided by experts that exist, whatever closes  *)
(* or is deleted between two statements (handler.go:67,                    *)
(* repository.go:35-44).                                                   *)
AppealRefers == AppealHadWindow /\ ResolverExists
=============================================================================
