------------------------ MODULE TestLifecycleProofs ------------------------
(***************************************************************************)
(* Proofs about TestLifecycle, for any number of tests, devices,           *)
(* candidates and requests.                                                *)
(***************************************************************************)
EXTENDS TestLifecycle, TLAPS

-----------------------------------------------------------------------------
(* Type correctness.                                                       *)

LEMMA TypeInit == Init => TypeOK
BY LimitsAssumption
DEF Init, TypeOK, TestRow, DeviceRow, Request, NoTest, NoDevice, Idle, PC

(* Assignments to one field keep the types of the tables. *)
LEMMA StatusTyped ==
  ASSUME TypeOK, NEW t, NEW st \in TestStatus, SetStatus(t, st)
  PROVE  test' \in [Tests -> TestRow]
BY DEF SetStatus, TypeOK, TestRow

LEMMA GotoTyped ==
  ASSUME TypeOK, NEW r, NEW l \in PC, Goto(r, l)
  PROVE  req' \in [Requests -> Request]
BY DEF Goto, TypeOK, Request

LEMMA FinishTyped ==
  ASSUME TypeOK, NEW r, Finish(r)
  PROVE  req' \in [Requests -> Request]
BY DEF Finish, TypeOK, Request, Idle, PC

LEMMA TypeBegin ==
  ASSUME TypeOK, NEW r \in Requests, Begin(r)
  PROVE  TypeOK'
<1>1. ASSUME NEW t \in Tests, CreateTest(r, t) PROVE TypeOK'
  BY <1>1, StatusTyped DEF CreateTest, TypeOK, TestStatus
<1>2. ASSUME NEW t \in Tests, AcknowledgeGuidelines(r, t) PROVE TypeOK'
  BY <1>2 DEF AcknowledgeGuidelines, TypeOK, TestRow, TestStatus
<1>3. ASSUME NEW t \in Tests, StartTest(r, t) PROVE TypeOK'
  BY <1>3 DEF StartTest, TypeOK, TestRow, Request, Idle, PC
<1>4. ASSUME NEW t \in Tests, AdminAbortTest(r, t) PROVE TypeOK'
  BY <1>4 DEF AdminAbortTest, TypeOK, TestRow, Request, Idle, PC
<1>5. ASSUME NEW t \in Tests, CancelTest(r, t) PROVE TypeOK'
  BY <1>5 DEF CancelTest, TypeOK, TestRow, Request, Idle, PC
<1>6. ASSUME NEW t \in Tests, ResultWebhook(r, t) PROVE TypeOK'
  BY <1>6 DEF ResultWebhook, TypeOK, Request, Idle, PC
<1>7. ASSUME NEW d \in Devices, RegisterDevice(r, d) PROVE TypeOK'
  BY <1>7 DEF RegisterDevice, TypeOK, DeviceRow, DeviceStatus, AdminStatus
<1>8. ASSUME NEW d \in Devices, UpdateDevice(r, d) PROVE TypeOK'
  BY <1>8 DEF UpdateDevice, TypeOK, DeviceRow
<1>9. ASSUME NEW d \in Devices, NEW st \in AdminStatus, UpdateDeviceStatus(r, d, st)
      PROVE  TypeOK'
  BY <1>9 DEF UpdateDeviceStatus, TypeOK, DeviceRow, DeviceStatus
<1>10. ASSUME NEW d \in Devices, DeleteDevice(r, d) PROVE TypeOK'
  BY <1>10 DEF DeleteDevice, TypeOK, Request, Idle, PC
<1>11. ASSUME NEW c \in Candidates, NEW d \in Devices, DeviceCheckin(r, c, d)
       PROVE  TypeOK'
  BY <1>11 DEF DeviceCheckin, TypeOK, Request, Idle, PC
<1>12. ASSUME ExpiryTick(r) PROVE TypeOK'
  BY <1>12, GotoTyped DEF ExpiryTick, TypeOK, PC
<1> QED BY <1>1, <1>2, <1>3, <1>4, <1>5, <1>6, <1>7, <1>8, <1>9, <1>10, <1>11, <1>12
        DEF Begin

LEMMA TypeRequest ==
  ASSUME TypeOK, NEW r \in Requests, Step(r) \/ RequestDies(r)
  PROVE  TypeOK'
<1>1. CASE PendingTestForCandidate(r)
  <2>1. CASE Finish(r)
    BY <1>1, <2>1, FinishTyped DEF PendingTestForCandidate, TypeOK
  <2>2. CASE ~Finish(r)
    BY <1>1, <2>2 DEF PendingTestForCandidate, TypeOK, Request, PC
  <2> QED BY <2>1, <2>2
<1>2. CASE CheckinTx(r)
  <2>1. req' \in [Requests -> Request]
    BY <1>2, FinishTyped, GotoTyped DEF CheckinTx, PC
  <2>2. req[r].t \in Tests \cup {None} /\ req[r].d \in Devices \cup {None}
    BY DEF TypeOK, Request
  <2>3. test' \in [Tests -> TestRow]
    BY <1>2, <2>2 DEF CheckinTx, TypeOK, TestRow, TestStatus
  <2>4. device' \in [Devices -> DeviceRow]
    BY <1>2, <2>2 DEF CheckinTx, TypeOK, DeviceRow, DeviceStatus
  <2> QED BY <1>2, <2>1, <2>3, <2>4 DEF CheckinTx, TypeOK
<1>3. CASE AdvanceToGuidelines(r)
  BY <1>3, FinishTyped, StatusTyped DEF AdvanceToGuidelines, TypeOK, TestStatus
<1>4. CASE HealthCheck(r)
  BY <1>4, GotoTyped DEF HealthCheck, TypeOK, PC
<1>5. CASE StartEngine(r)
  BY <1>5, GotoTyped, FinishTyped DEF StartEngine, TypeOK, Request, PC
<1>6. CASE StartMark(r)
  BY <1>6, FinishTyped, StatusTyped DEF StartMark, TypeOK, TestStatus
<1>7. CASE AbortStop(r)
  BY <1>7, GotoTyped DEF AbortStop, TypeOK, PC
<1>8. CASE AbortTest(r)
  BY <1>8, GotoTyped, FinishTyped, StatusTyped DEF AbortTest, TypeOK, TestStatus, PC
<1>9. CASE ReleaseDevice(r)
  <2>1. device' \in [Devices -> DeviceRow]
    BY <1>9 DEF ReleaseDevice, TypeOK, DeviceRow, DeviceStatus, AdminStatus
  <2> QED BY <1>9, <2>1, FinishTyped DEF ReleaseDevice, TypeOK
<1>10. CASE AbortIgnored(r)
  BY <1>10, GotoTyped DEF AbortIgnored, TypeOK, PC
<1>11. CASE InsertSessions(r)
  <2>1. test' \in [Tests -> TestRow]
    BY <1>11, LimitsAssumption DEF InsertSessions, TypeOK, TestRow
  <2> QED BY <1>11, <2>1, GotoTyped DEF InsertSessions, TypeOK, PC
<1>12. CASE InsertTestResult(r)
  <2>1. test' \in [Tests -> TestRow]
    <3>1. CASE test' = test
      BY <3>1 DEF TypeOK
    <3>2. CASE test' = [test EXCEPT ![req[r].t].result = TRUE]
      BY <3>2 DEF TypeOK, TestRow
    <3> QED BY <1>12, <3>1, <3>2 DEF InsertTestResult
  <2> QED BY <1>12, <2>1, GotoTyped, FinishTyped DEF InsertTestResult, TypeOK, PC
<1>13. CASE CompleteTest(r)
  BY <1>13, FinishTyped, StatusTyped DEF CompleteTest, TypeOK, TestStatus
<1>14. CASE DeleteDeviceRow(r)
  <2>1. device' \in [Devices -> DeviceRow]
    BY <1>14 DEF DeleteDeviceRow, TypeOK, DeviceRow, NoDevice
  <2> QED BY <1>14, <2>1, FinishTyped DEF DeleteDeviceRow, TypeOK
<1>15. CASE ExpiryQueryRefused(r) \/ RequestDies(r)
  BY <1>15, FinishTyped DEF ExpiryQueryRefused, RequestDies, TypeOK
<1> QED BY <1>1, <1>2, <1>3, <1>4, <1>5, <1>6, <1>7, <1>8, <1>9, <1>10, <1>11, <1>12,
           <1>13, <1>14, <1>15 DEF Step

LEMMA TypeStep == TypeOK /\ [Next]_vars => TypeOK'
<1> SUFFICES ASSUME TypeOK, [Next]_vars PROVE TypeOK'
  OBVIOUS
<1>1. CASE Engine
  BY <1>1 DEF Engine, EngineFinish, EngineFails, PushLost, TypeOK
<1>2. CASE UNCHANGED vars
  BY <1>2 DEF vars, TypeOK
<1> QED BY <1>1, <1>2, TypeBegin, TypeRequest DEF Next

(* Every row of the tables and every request keeps its type. *)
THEOREM TypeCorrect == Spec => []TypeOK
BY TypeInit, TypeStep, PTL DEF Spec

-----------------------------------------------------------------------------
(* What a step may do to the row of a test.                                *)

(* A device and an acknowledgement stay, a result stays, a row stays, and  *)
(* only an INSERT makes a test pending.                                    *)
Grown(t) ==
  /\ test[t].device # None => test'[t].device = test[t].device
  /\ test[t].acked => test'[t].acked
  /\ test[t].result => test'[t].result
  /\ test[t].status # "none" => test'[t].status # "none"
  /\ test'[t].status = "pending" => test[t].status \in {"none", "pending"}

(* The requests that serve a test, by what they have found out about it.   *)
Starting == {"start_health", "start_engine", "start_mark"}
Grading  == {"result_sessions", "result_insert", "result_complete"}
Serving  == Starting \cup Grading \cup
            {"chk_tx", "chk_advance", "abort_stop", "abort_test", "abort_release"}

PendingIsFree == \A t \in Tests : test[t].status \in {"none", "pending"} =>
                                    test[t].device = None
AckIsKept     == \A t \in Tests : test[t].status = "acknowledged" => test[t].acked

RequestKnows(r) ==
  /\ req[r].pc \in Serving => req[r].t \in Tests /\ test[req[r].t].status # "none"
  /\ req[r].pc \in Starting => CheckedIn(req[r].t)
  /\ req[r].pc = "result_complete" => test[req[r].t].result

(* The inductive invariant: a test gets its device only while it is        *)
(* pending, every request that may still run a test has found it checked   *)
(* in, and every request that may still complete one has stored a result.  *)
LifeInv == /\ PendingIsFree
           /\ AckIsKept
           /\ RunOnlyIfCheckedIn
           /\ \A r \in Requests : RequestKnows(r)

RequestStep(r) == Begin(r) \/ Step(r) \/ RequestDies(r)

LEMMA LifeInit == Init => LifeInv
BY NoneAssumption
DEF Init, LifeInv, PendingIsFree, AckIsKept, RunOnlyIfCheckedIn, RequestKnows,
    NoTest, Idle, Serving, Starting, Grading

(* The statements that write a row of tests. *)
LEMMA TestWriters ==
  ASSUME TypeOK, LifeInv, NEW r \in Requests, RequestStep(r), test' # test
  PROVE  \/ \E t \in Tests : CreateTest(r, t) \/ AcknowledgeGuidelines(r, t)
         \/ CheckinTx(r) \/ AdvanceToGuidelines(r) \/ StartMark(r) \/ AbortTest(r)
         \/ InsertSessions(r) \/ InsertTestResult(r) \/ CompleteTest(r)
BY DEF RequestStep, Begin, Step, RequestDies, StartTest, AdminAbortTest, CancelTest,
       ResultWebhook, RegisterDevice, UpdateDevice, UpdateDeviceStatus, DeleteDevice,
       DeviceCheckin, ExpiryTick, PendingTestForCandidate, HealthCheck, StartEngine,
       AbortStop, ReleaseDevice, AbortIgnored, DeleteDeviceRow, ExpiryQueryRefused

LEMMA RowsGrow ==
  ASSUME TypeOK, LifeInv, NEW r \in Requests, RequestStep(r), NEW t \in Tests
  PROVE  Grown(t)
<1>r. test[t] \in TestRow
  BY DEF TypeOK
<1>1. CASE test' = test
  BY <1>1 DEF Grown
<1>2. ASSUME NEW u \in Tests, CreateTest(r, u) PROVE Grown(t)
  BY <1>r, <1>2 DEF CreateTest, SetStatus, Grown, TypeOK, TestRow
<1>3. ASSUME NEW u \in Tests, AcknowledgeGuidelines(r, u) PROVE Grown(t)
  BY <1>r, <1>3 DEF AcknowledgeGuidelines, Grown, TypeOK, TestRow
<1>4. CASE CheckinTx(r)
  BY <1>r, <1>4 DEF CheckinTx, Grown, TypeOK, TestRow, LifeInv, PendingIsFree
<1>5. CASE AdvanceToGuidelines(r)
  BY <1>r, <1>5 DEF AdvanceToGuidelines, SetStatus, Grown, TypeOK, TestRow
<1>6. CASE StartMark(r)
  BY <1>r, <1>6 DEF StartMark, SetStatus, Grown, TypeOK, TestRow
<1>7. CASE AbortTest(r)
  BY <1>r, <1>7 DEF AbortTest, SetStatus, Grown, TypeOK, TestRow
<1>8. CASE InsertSessions(r)
  BY <1>r, <1>8 DEF InsertSessions, Grown, TypeOK, TestRow
<1>9. CASE InsertTestResult(r)
  BY <1>r, <1>9 DEF InsertTestResult, Grown, TypeOK, TestRow
<1>10. CASE CompleteTest(r)
  BY <1>r, <1>10 DEF CompleteTest, SetStatus, Grown, TypeOK, TestRow
<1> QED BY <1>1, <1>2, <1>3, <1>4, <1>5, <1>6, <1>7, <1>8, <1>9, <1>10, TestWriters

(* A request that does not move keeps what it knows while rows grow. *)
LEMMA KnowsKept ==
  ASSUME TypeOK, LifeInv, \A t \in Tests : Grown(t),
         NEW q \in Requests, req'[q] = req[q]
  PROVE  RequestKnows(q)'
<1>1. RequestKnows(q)
  BY DEF LifeInv
<1>2. CASE req[q].pc \notin Serving
  BY <1>2 DEF RequestKnows, Serving, Starting, Grading
<1>3. CASE req[q].pc \in Serving
  <2>1. req[q].t \in Tests /\ Grown(req[q].t) /\ test[req[q].t].status # "none"
    BY <1>1, <1>3 DEF RequestKnows
  <2>2. test'[req[q].t].status # "none"
    BY <2>1 DEF Grown
  <2>3. req[q].pc \in Starting =>
          test'[req[q].t].acked /\ test'[req[q].t].device # None
    BY <1>1, <2>1 DEF RequestKnows, Grown, CheckedIn
  <2>4. req[q].pc = "result_complete" => test'[req[q].t].result
    BY <1>1, <2>1 DEF RequestKnows, Grown
  <2> QED BY <2>1, <2>2, <2>3, <2>4 DEF RequestKnows, CheckedIn
<1> QED BY <1>2, <1>3

(* What a test is known to be is still known after its row has grown. *)
LEMMA GrownCheckedIn ==
  ASSUME NEW t \in Tests, Grown(t), CheckedIn(t)
  PROVE  CheckedIn(t)'
BY DEF Grown, CheckedIn

(* A request that goes on with the same test. *)
LEMMA KnowsOn ==
  ASSUME TypeOK, LifeInv, \A t \in Tests : Grown(t), NEW r \in Requests,
         req[r].pc \in Serving, req'[r].t = req[r].t,
         req'[r].pc \in Starting => req[r].pc \in Starting,
         req'[r].pc = "result_complete" => test'[req[r].t].result
  PROVE  RequestKnows(r)'
<1>1. req[r].t \in Tests /\ Grown(req[r].t) /\ test[req[r].t].status # "none"
  BY DEF LifeInv, RequestKnows
<1>2. test'[req[r].t].status # "none"
  BY <1>1 DEF Grown
<1>3. req[r].pc \in Starting => CheckedIn(req[r].t)
  BY DEF LifeInv, RequestKnows
<1>4. req[r].pc \in Starting =>
        test'[req[r].t].acked /\ test'[req[r].t].device # None
  BY <1>1, <1>3 DEF Grown, CheckedIn
<1> QED BY <1>1, <1>2, <1>4 DEF RequestKnows, CheckedIn

LEMMA KnowsIdle ==
  ASSUME NEW r \in Requests, req'[r].pc \notin Serving
  PROVE  RequestKnows(r)'
BY DEF RequestKnows, Serving, Starting, Grading

LEMMA KnowsBegin ==
  ASSUME TypeOK, LifeInv, NEW r \in Requests, Begin(r)
  PROVE  RequestKnows(r)'
<1>r. req[r] \in Request /\ req \in [Requests -> Request]
  BY DEF TypeOK
<1>1. CASE req' = req
  <2>1. req[r].pc = "idle"
    BY <1>1, <1>r DEF Begin, CreateTest, AcknowledgeGuidelines, StartTest, AdminAbortTest,
          CancelTest, ResultWebhook, RegisterDevice, UpdateDevice, UpdateDeviceStatus,
          DeleteDevice, DeviceCheckin, ExpiryTick, Goto, Idle, At
  <2> QED BY <1>1, <2>1, KnowsIdle DEF Serving, Starting, Grading
<1>2. ASSUME NEW t \in Tests, StartTest(r, t) PROVE RequestKnows(r)'
  <2>1. CheckedIn(t) /\ test[t].status # "none"
    BY <1>2 DEF StartTest, LifeInv, AckIsKept, CheckedIn
  <2>2. req'[r].pc = "start_health" /\ req'[r].t = t /\ test' = test
    BY <1>2, <1>r DEF StartTest, Idle
  <2> QED BY <2>1, <2>2 DEF RequestKnows, CheckedIn, Serving, Starting, Grading
<1>3. ASSUME NEW t \in Tests, AdminAbortTest(r, t) \/ CancelTest(r, t)
      PROVE  RequestKnows(r)'
  <2>1. test[t].status # "none"
    BY <1>3 DEF AdminAbortTest, CancelTest, TestExists, TestStatus
  <2>2. req'[r].pc \in {"abort_stop", "abort_test"} /\ req'[r].t = t /\ test' = test
    BY <1>3, <1>r DEF AdminAbortTest, CancelTest, Idle
  <2> QED BY <2>1, <2>2 DEF RequestKnows, Serving, Starting, Grading
<1>4. ASSUME NEW t \in Tests, ResultWebhook(r, t) PROVE RequestKnows(r)'
  <2>1. test[t].status # "none"
    BY <1>4 DEF ResultWebhook, TestExists, TestStatus
  <2>2. req'[r].pc = "result_sessions" /\ req'[r].t = t /\ test' = test
    BY <1>4, <1>r DEF ResultWebhook, Idle
  <2> QED BY <2>1, <2>2 DEF RequestKnows, Serving, Starting, Grading
<1>5. CASE \/ ExpiryTick(r)
           \/ \E d \in Devices : DeleteDevice(r, d)
           \/ \E d \in Devices, c \in Candidates : DeviceCheckin(r, c, d)
  <2>1. req'[r].pc \in {"expiry", "del_device", "chk_test"}
    BY <1>5, <1>r DEF ExpiryTick, Goto, DeleteDevice, DeviceCheckin, Idle, Request
  <2> QED BY <2>1, KnowsIdle DEF Serving, Starting, Grading
<1> QED BY <1>1, <1>2, <1>3, <1>4, <1>5
        DEF Begin, CreateTest, AcknowledgeGuidelines, RegisterDevice, UpdateDevice,
            UpdateDeviceStatus

LEMMA KnowsGoesOn ==
  ASSUME TypeOK, LifeInv, \A t \in Tests : Grown(t), NEW r \in Requests,
         Step(r) \/ RequestDies(r)
  PROVE  RequestKnows(r)'
<1>r. req[r] \in Request /\ req \in [Requests -> Request]
  BY DEF TypeOK
<1>1. CASE Finish(r)
  <2>1. req'[r].pc = "idle"
    BY <1>1, <1>r DEF Finish, Idle
  <2> QED BY <2>1, KnowsIdle DEF Serving, Starting, Grading
<1>2. CASE PendingTestForCandidate(r) /\ ~Finish(r)
  <2>1. PICK t \in Tests : /\ test[t].status = "pending"
                           /\ req' = [req EXCEPT ![r].pc = "chk_tx", ![r].t = t]
    BY <1>2 DEF PendingTestForCandidate
  <2>2. req'[r].pc = "chk_tx" /\ req'[r].t = t /\ test' = test
    BY <1>2, <1>r, <2>1 DEF PendingTestForCandidate, Request
  <2> QED BY <2>1, <2>2 DEF RequestKnows, Serving, Starting, Grading
<1>3. ASSUME NEW l \in Serving, NEW m \in Serving, At(r, l), Goto(r, m),
             m \in Starting => l \in Starting,
             m = "result_complete" => test'[req[r].t].result
      PROVE  RequestKnows(r)'
  <2>1. req'[r].pc = m /\ req'[r].t = req[r].t
    BY <1>3, <1>r DEF Goto, Request
  <2> QED BY <1>3, <2>1, KnowsOn DEF At
<1>4. CASE CheckinTx(r) /\ ~Finish(r)
  BY <1>3, <1>4 DEF CheckinTx, Serving, Starting, Grading
<1>5. CASE HealthCheck(r) \/ (StartEngine(r) /\ ~Finish(r))
  BY <1>3, <1>5 DEF HealthCheck, StartEngine, Serving, Starting, Grading
<1>6. CASE AbortStop(r) \/ (AbortTest(r) /\ ~Finish(r)) \/ AbortIgnored(r)
  BY <1>3, <1>6 DEF AbortStop, AbortTest, AbortIgnored, Serving, Starting, Grading
<1>7. CASE InsertSessions(r)
  BY <1>3, <1>7 DEF InsertSessions, Serving, Starting, Grading
<1>8. CASE InsertTestResult(r) /\ ~Finish(r)
  <2>1. req[r].t \in Tests
    BY <1>8 DEF InsertTestResult, At, LifeInv, RequestKnows, Serving, Grading
  <2>2. test'[req[r].t].result
    BY <1>8, <2>1 DEF InsertTestResult, TypeOK, TestRow
  <2>3. At(r, "result_insert") /\ Goto(r, "result_complete")
    BY <1>8 DEF InsertTestResult
  <2> QED BY <1>3, <2>2, <2>3 DEF Serving, Starting, Grading
<1> QED BY <1>1, <1>2, <1>4, <1>5, <1>6, <1>7, <1>8
        DEF Step, RequestDies, AdvanceToGuidelines, StartMark, ReleaseDevice, CheckinTx,
            PendingTestForCandidate, StartEngine, AbortTest, InsertTestResult, CompleteTest,
            DeleteDeviceRow, ExpiryQueryRefused

LEMMA RequestApart ==
  ASSUME TypeOK, NEW r \in Requests, RequestStep(r), NEW q \in Requests, q # r
  PROVE  req'[q] = req[q]
BY DEF RequestStep, Begin, Step, RequestDies, CreateTest, AcknowledgeGuidelines, StartTest,
       AdminAbortTest, CancelTest, ResultWebhook, RegisterDevice, UpdateDevice,
       UpdateDeviceStatus, DeleteDevice, DeviceCheckin, ExpiryTick,
       PendingTestForCandidate, CheckinTx, AdvanceToGuidelines, HealthCheck, StartEngine,
       StartMark, AbortStop, AbortTest, ReleaseDevice, AbortIgnored, InsertSessions,
       InsertTestResult, CompleteTest, DeleteDeviceRow, ExpiryQueryRefused,
       Goto, Finish, TypeOK

(* The status a step may give a test, and what it rests on. *)
LEMMA StatusGiven ==
  ASSUME TypeOK, LifeInv, NEW r \in Requests, RequestStep(r), NEW t \in Tests,
         test'[t].status # test[t].status
  PROVE  /\ test'[t].status = "running" => req[r].t = t /\ At(r, "start_mark")
         /\ test'[t].status = "completed" => req[r].t = t /\ At(r, "result_complete")
         /\ test'[t].status = "acknowledged" => test'[t].acked
         /\ test'[t].status = "pending" => test'[t].device = None
         /\ test'[t].status # "none"
<1>r. test[t] \in TestRow
  BY DEF TypeOK
<1>2. ASSUME NEW u \in Tests, CreateTest(r, u)
      PROVE  test'[t].status = "pending" /\ test'[t].device = None
  BY <1>r, <1>2 DEF CreateTest, SetStatus, TypeOK, TestRow, LifeInv, PendingIsFree
<1>3. ASSUME NEW u \in Tests, AcknowledgeGuidelines(r, u)
      PROVE  test'[t].status = "acknowledged" /\ test'[t].acked
  BY <1>r, <1>3 DEF AcknowledgeGuidelines, TypeOK, TestRow
<1>4. CASE CheckinTx(r)
  BY <1>r, <1>4 DEF CheckinTx, TypeOK, TestRow
<1>5. CASE AdvanceToGuidelines(r)
  BY <1>r, <1>5 DEF AdvanceToGuidelines, SetStatus, TypeOK, TestRow
<1>6. CASE StartMark(r)
  BY <1>r, <1>6 DEF StartMark, SetStatus, TypeOK, TestRow
<1>7. CASE AbortTest(r)
  BY <1>r, <1>7 DEF AbortTest, SetStatus, TypeOK, TestRow
<1>8. CASE InsertSessions(r) \/ InsertTestResult(r)
  BY <1>r, <1>8 DEF InsertSessions, InsertTestResult, TypeOK, TestRow
<1>9. CASE CompleteTest(r)
  BY <1>r, <1>9 DEF CompleteTest, SetStatus, TypeOK, TestRow
<1> QED BY <1>2, <1>3, <1>4, <1>5, <1>6, <1>7, <1>8, <1>9, TestWriters

(* A test gets its device at a check-in, its result from resultWebhook. *)
LEMMA DeviceGiven ==
  ASSUME TypeOK, LifeInv, NEW r \in Requests, RequestStep(r), NEW t \in Tests,
         test'[t].device # test[t].device
  PROVE  test'[t].status = "ready"
<1>r. test[t] \in TestRow
  BY DEF TypeOK
<1>1. CASE CheckinTx(r)
  BY <1>r, <1>1 DEF CheckinTx, TypeOK, TestRow
<1>2. ASSUME NEW u \in Tests, CreateTest(r, u) \/ AcknowledgeGuidelines(r, u)
      PROVE  FALSE
  BY <1>r, <1>2 DEF CreateTest, AcknowledgeGuidelines, SetStatus, TypeOK, TestRow
<1>3. CASE AdvanceToGuidelines(r) \/ StartMark(r) \/ AbortTest(r) \/ CompleteTest(r)
  BY <1>r, <1>3 DEF AdvanceToGuidelines, StartMark, AbortTest, CompleteTest, SetStatus,
                    TypeOK, TestRow
<1>4. CASE InsertSessions(r) \/ InsertTestResult(r)
  BY <1>r, <1>4 DEF InsertSessions, InsertTestResult, TypeOK, TestRow
<1> QED BY <1>1, <1>2, <1>3, <1>4, TestWriters

LEMMA ResultGiven ==
  ASSUME TypeOK, LifeInv, NEW r \in Requests, RequestStep(r), NEW t \in Tests,
         test'[t].result # test[t].result
  PROVE  req[r].t = t /\ At(r, "result_insert")
<1>r. test[t] \in TestRow
  BY DEF TypeOK
<1>1. CASE InsertTestResult(r)
  BY <1>r, <1>1 DEF InsertTestResult, TypeOK, TestRow
<1>2. ASSUME NEW u \in Tests, CreateTest(r, u) \/ AcknowledgeGuidelines(r, u)
      PROVE  FALSE
  BY <1>r, <1>2 DEF CreateTest, AcknowledgeGuidelines, SetStatus, TypeOK, TestRow
<1>3. CASE AdvanceToGuidelines(r) \/ StartMark(r) \/ AbortTest(r) \/ CompleteTest(r)
  BY <1>r, <1>3 DEF AdvanceToGuidelines, StartMark, AbortTest, CompleteTest, SetStatus,
                    TypeOK, TestRow
<1>4. CASE InsertSessions(r) \/ CheckinTx(r)
  BY <1>r, <1>4 DEF InsertSessions, CheckinTx, TypeOK, TestRow
<1> QED BY <1>1, <1>2, <1>3, <1>4, TestWriters

LEMMA EngineGiven ==
  ASSUME TypeOK, LifeInv, NEW r \in Requests, RequestStep(r)
  PROVE  /\ pushed' \subseteq pushed
         /\ \/ engine' \in {engine, None}
            \/ At(r, "start_engine") /\ engine' = req[r].t
BY DEF RequestStep, Begin, Step, RequestDies, CreateTest, AcknowledgeGuidelines, StartTest,
       AdminAbortTest, CancelTest, ResultWebhook, RegisterDevice, UpdateDevice,
       UpdateDeviceStatus, DeleteDevice, DeviceCheckin, ExpiryTick,
       PendingTestForCandidate, CheckinTx, AdvanceToGuidelines, HealthCheck, StartEngine,
       StartMark, AbortStop, AbortTest, ReleaseDevice, AbortIgnored, InsertSessions,
       InsertTestResult, CompleteTest, DeleteDeviceRow, ExpiryQueryRefused

LEMMA RowsKnown ==
  ASSUME TypeOK, LifeInv, \A t \in Tests : Grown(t), NEW r \in Requests, RequestStep(r)
  PROVE  PendingIsFree' /\ AckIsKept' /\ RunOnlyIfCheckedIn'
<1>1. ASSUME NEW t \in Tests, test'[t].status \in {"none", "pending"}
      PROVE  test'[t].device = None
  <2>1. CASE test'[t].status # test[t].status
    BY <1>1, <2>1, StatusGiven
  <2>2. CASE test'[t].status = test[t].status
    <3>1. test[t].device = None
      BY <1>1, <2>2 DEF LifeInv, PendingIsFree
    <3>2. test'[t].device = test[t].device
      BY <1>1, DeviceGiven
    <3> QED BY <3>1, <3>2
  <2> QED BY <2>1, <2>2
<1>2. ASSUME NEW t \in Tests, test'[t].status = "acknowledged"
      PROVE  test'[t].acked
  <2>1. CASE test'[t].status # test[t].status
    BY <1>2, <2>1, StatusGiven
  <2>2. CASE test'[t].status = test[t].status
    BY <1>2, <2>2 DEF LifeInv, AckIsKept, Grown
  <2> QED BY <2>1, <2>2
<1>3. ASSUME NEW t \in Tests,
             engine' = t \/ t \in pushed' \/ test'[t].status = "running"
      PROVE  CheckedIn(t)'
  <2>1. CASE CheckedIn(t)
    BY <2>1, GrownCheckedIn
  <2>2. CASE ~CheckedIn(t)
    <3>1. engine # t /\ t \notin pushed /\ test[t].status # "running"
      BY <2>2 DEF LifeInv, RunOnlyIfCheckedIn
    <3>2. ~(req[r].t = t /\ req[r].pc \in Starting)
      BY <2>2 DEF LifeInv, RequestKnows
    <3>3. t # None
      BY NoneAssumption
    <3>4. engine' # t /\ t \notin pushed'
      BY <3>1, <3>2, <3>3, EngineGiven DEF At, Starting
    <3>5. test'[t].status # "running"
      BY <3>1, <3>2, StatusGiven DEF At, Starting
    <3> QED BY <1>3, <3>4, <3>5
  <2> QED BY <2>1, <2>2
<1>4. ASSUME NEW t \in Tests, test'[t].status = "completed"
      PROVE  test'[t].result
  <2>1. test[t].result
    <3>1. CASE test'[t].status # test[t].status
      BY <1>4, <3>1, StatusGiven DEF At, LifeInv, RequestKnows
    <3>2. CASE test'[t].status = test[t].status
      BY <1>4, <3>2 DEF LifeInv, RunOnlyIfCheckedIn
    <3> QED BY <3>1, <3>2
  <2> QED BY <2>1 DEF Grown
<1> QED BY <1>1, <1>2, <1>3, <1>4 DEF PendingIsFree, AckIsKept, RunOnlyIfCheckedIn

LEMMA LifeStep == TypeOK /\ LifeInv /\ [Next]_vars => LifeInv'
<1> SUFFICES ASSUME TypeOK, LifeInv, [Next]_vars PROVE LifeInv'
  OBVIOUS
<1>1. ASSUME NEW r \in Requests, RequestStep(r) PROVE LifeInv'
  <2>1. \A t \in Tests : Grown(t)
    BY <1>1, RowsGrow
  <2>2. PendingIsFree' /\ AckIsKept' /\ RunOnlyIfCheckedIn'
    BY <1>1, <2>1, RowsKnown
  <2>3. ASSUME NEW q \in Requests PROVE RequestKnows(q)'
    <3>1. CASE q = r
      BY <1>1, <2>1, <3>1, KnowsBegin, KnowsGoesOn DEF RequestStep
    <3>2. CASE q # r
      BY <1>1, <2>1, <3>2, RequestApart, KnowsKept
    <3> QED BY <3>1, <3>2
  <2> QED BY <2>2, <2>3 DEF LifeInv
<1>2. CASE Engine \/ UNCHANGED vars
  <2>1. UNCHANGED <<test, req>>
    BY <1>2 DEF Engine, EngineFinish, EngineFails, PushLost, vars
  <2>2. /\ engine' \in {engine, None}
        /\ pushed' \subseteq pushed \cup {engine}
    BY <1>2 DEF Engine, EngineFinish, EngineFails, PushLost, vars
  <2>3. RunOnlyIfCheckedIn'
    BY <2>1, <2>2, NoneAssumption DEF LifeInv, RunOnlyIfCheckedIn, CheckedIn
  <2>4. PendingIsFree' /\ AckIsKept'
    BY <2>1 DEF LifeInv, PendingIsFree, AckIsKept
  <2>5. ASSUME NEW q \in Requests PROVE RequestKnows(q)'
    BY <2>1 DEF LifeInv, RequestKnows, CheckedIn
  <2> QED BY <2>3, <2>4, <2>5 DEF LifeInv
<1> QED BY <1>1, <1>2 DEF Next, RequestStep

LEMMA LifeHolds == Spec => [](TypeOK /\ LifeInv)
<1>1. TypeOK /\ LifeInv /\ [Next]_vars => (TypeOK /\ LifeInv)'
  BY TypeStep, LifeStep
<1> QED BY <1>1, TypeInit, LifeInit, PTL DEF Spec

(* The engine runs and sends, and the testing module marks as running,     *)
(* only tests that were checked in and acknowledged; a completed test has  *)
(* a result.                                                               *)
THEOREM OnlyCheckedInTestsRun == Spec => []RunOnlyIfCheckedIn
<1>1. LifeInv => RunOnlyIfCheckedIn
  BY DEF LifeInv
<1> QED BY <1>1, LifeHolds, PTL

(* A test keeps the device it was checked in at. *)
THEOREM DeviceBindingKept == Spec => DeviceBindingIsFinal
<1>1. TypeOK /\ LifeInv /\ [Next]_vars =>
        [\A t \in Tests : test[t].device # None => test'[t].device = test[t].device]_vars
  <2> SUFFICES ASSUME TypeOK, LifeInv, [Next]_vars, NEW t \in Tests, test[t].device # None
               PROVE  test'[t].device = test[t].device
    OBVIOUS
  <2>1. ASSUME NEW r \in Requests, RequestStep(r) PROVE test'[t].device = test[t].device
    BY <2>1, RowsGrow DEF Grown
  <2>2. CASE Engine \/ UNCHANGED vars
    BY <2>2 DEF Engine, EngineFinish, EngineFails, PushLost, vars
  <2> QED BY <2>1, <2>2 DEF Next, RequestStep
<1> QED BY <1>1, LifeHolds, PTL DEF Spec, DeviceBindingIsFinal

-----------------------------------------------------------------------------
(* One request at a time.  Nothing but the order of the requests protects  *)
(* what a handler has read, so what follows supposes that at most one      *)
(* request is in progress.                                                 *)
OneRequest == \A r, q \in Requests : r = q

(* The device a step has not touched, or has not touched but for its JSON. *)
SameHold(d) == /\ device'[d].status = device[d].status
               /\ device'[d].test = device[d].test

(* The statements that put a device in use, or change one that is.         *)
LEMMA HoldWriters ==
  ASSUME TypeOK, NEW r \in Requests, RequestStep(r), NEW d \in Devices,
         device'[d].status = "in_use"
  PROVE  SameHold(d) \/ CheckinTx(r)
<1>r. device[d] \in DeviceRow
  BY DEF TypeOK
<1>1. CASE device' = device
  BY <1>1 DEF SameHold
<1>2. ASSUME NEW e \in Devices, NEW st \in AdminStatus,
             RegisterDevice(r, e) \/ UpdateDevice(r, e) \/ UpdateDeviceStatus(r, e, st)
      PROVE  SameHold(d)
  BY <1>r, <1>2 DEF RegisterDevice, UpdateDevice, UpdateDeviceStatus, SameHold, TypeOK,
                    DeviceRow, AdminStatus
<1>3. CASE ReleaseDevice(r) \/ DeleteDeviceRow(r)
  BY <1>r, <1>3 DEF ReleaseDevice, DeleteDeviceRow, NoDevice, SameHold, TypeOK, DeviceRow
<1>4. device' # device =>
        \/ \E e \in Devices : \/ RegisterDevice(r, e) \/ UpdateDevice(r, e)
                              \/ \E st \in AdminStatus : UpdateDeviceStatus(r, e, st)
        \/ ReleaseDevice(r) \/ DeleteDeviceRow(r) \/ CheckinTx(r)
  BY DEF RequestStep, Begin, Step, RequestDies, CreateTest, AcknowledgeGuidelines,
         StartTest, AdminAbortTest, CancelTest, ResultWebhook, DeleteDevice,
         DeviceCheckin, ExpiryTick, PendingTestForCandidate, AdvanceToGuidelines,
         HealthCheck, StartEngine, StartMark, AbortStop, AbortTest, AbortIgnored,
         InsertSessions, InsertTestResult, CompleteTest, ExpiryQueryRefused
<1>5. AdminStatus # {}
  BY DEF AdminStatus
<1> QED BY <1>1, <1>2, <1>3, <1>4, <1>5

(* A check-in has read the test it is about to take as pending.            *)
TakesPending == \A r \in Requests : At(r, "chk_tx") => test[req[r].t].status = "pending"

HoldInv == TakesPending /\ HeldTestKnowsDevice

LEMMA HoldInit == Init => HoldInv
BY DEF Init, HoldInv, TakesPending, HeldTestKnowsDevice, NoDevice, Idle, At

(* No step but the read of the pending test leads to the transaction.      *)
LEMMA ChkTxReached ==
  ASSUME TypeOK, NEW r \in Requests, RequestStep(r), At(r, "chk_tx")'
  PROVE  PendingTestForCandidate(r) /\ ~Finish(r)
<1>1. ASSUME Begin(r) PROVE FALSE
  <2>1. At(r, "idle")
    BY <1>1 DEF Begin, CreateTest, AcknowledgeGuidelines, StartTest, AdminAbortTest,
       CancelTest, ResultWebhook, RegisterDevice, UpdateDevice, UpdateDeviceStatus,
       DeleteDevice, DeviceCheckin, ExpiryTick
  <2>2. \/ req' = req
        \/ \E l \in PC \ {"chk_tx"} : req'[r].pc = l
    <3>1. ASSUME NEW t \in Tests, StartTest(r, t) \/ AdminAbortTest(r, t)
                                 \/ CancelTest(r, t) \/ ResultWebhook(r, t)
          PROVE  \E l \in PC \ {"chk_tx"} : req'[r].pc = l
      BY <3>1 DEF StartTest, AdminAbortTest, CancelTest, ResultWebhook, Idle, TypeOK, PC
    <3>2. ASSUME NEW d \in Devices,
                 DeleteDevice(r, d) \/ \E c \in Candidates : DeviceCheckin(r, c, d)
          PROVE  \E l \in PC \ {"chk_tx"} : req'[r].pc = l
      BY <3>2 DEF DeleteDevice, DeviceCheckin, Idle, TypeOK, PC
    <3>3. ASSUME ExpiryTick(r)
          PROVE  \E l \in PC \ {"chk_tx"} : req'[r].pc = l
      BY <3>3 DEF ExpiryTick, Goto, TypeOK, Request, PC
    <3> QED BY <1>1, <3>1, <3>2, <3>3
            DEF Begin, CreateTest, AcknowledgeGuidelines, RegisterDevice, UpdateDevice,
                UpdateDeviceStatus
  <2> QED BY <2>1, <2>2 DEF At
<1>2. Finish(r) => FALSE
  BY DEF Finish, At, Idle, TypeOK
<1>3. ASSUME NEW l \in PC, Goto(r, l), l # "chk_tx" PROVE FALSE
  BY <1>3 DEF Goto, At, TypeOK, Request
<1>4. RequestDies(r) => FALSE
  BY <1>2 DEF RequestDies
<1>5. Step(r) => PendingTestForCandidate(r)
  BY <1>2, <1>3 DEF Step, CheckinTx, AdvanceToGuidelines, HealthCheck, StartEngine,
         StartMark, AbortStop, AbortTest, ReleaseDevice, AbortIgnored, InsertSessions,
         InsertTestResult, CompleteTest, DeleteDeviceRow, ExpiryQueryRefused, PC
<1> QED BY <1>1, <1>2, <1>4, <1>5 DEF RequestStep

LEMMA TakesPendingStep ==
  ASSUME TypeOK, OneRequest, NEW r \in Requests, RequestStep(r)
  PROVE  TakesPending'
<1> SUFFICES ASSUME NEW q \in Requests, At(q, "chk_tx")'
             PROVE  test'[req'[q].t].status = "pending"
  BY DEF TakesPending, At
<1>1. q = r
  BY DEF OneRequest
<1>2. PendingTestForCandidate(r) /\ ~Finish(r)
  BY <1>1, ChkTxReached
<1>3. PICK t \in Tests : /\ test[t].status = "pending"
                         /\ req' = [req EXCEPT ![r].pc = "chk_tx", ![r].t = t]
  BY <1>2 DEF PendingTestForCandidate
<1>4. req'[r].t = t /\ test' = test
  BY <1>2, <1>3 DEF PendingTestForCandidate, TypeOK, Request
<1> QED BY <1>1, <1>3, <1>4

LEMMA HoldRequest ==
  ASSUME TypeOK, LifeInv, HoldInv, OneRequest, NEW r \in Requests, RequestStep(r)
  PROVE  HoldInv'
<1>1. TakesPending'
  BY TakesPendingStep
<1>2. ASSUME NEW d \in Devices, device'[d].status = "in_use", SameHold(d)
      PROVE  device'[d].test # None /\ test'[device'[d].test].device = d
  <2>1. device[d].test \in Tests /\ test[device[d].test].device = d
    BY <1>2 DEF SameHold, HoldInv, HeldTestKnowsDevice, TypeOK, DeviceRow
  <2>2. Grown(device[d].test)
    BY <2>1, RowsGrow
  <2>3. d # None
    BY NoneAssumption
  <2> QED BY <1>2, <2>1, <2>2, <2>3, NoneAssumption DEF SameHold, Grown
<1>3. ASSUME NEW d \in Devices, device'[d].status = "in_use", ~SameHold(d)
      PROVE  device'[d].test # None /\ test'[device'[d].test].device = d
  <2>1. CheckinTx(r)
    BY <1>3, HoldWriters
  <2>2. /\ req[r].t \in Tests /\ req[r].t # None
        /\ test[req[r].t].status = "pending"
    BY <2>1, NoneAssumption
    DEF CheckinTx, LifeInv, RequestKnows, Serving, At, HoldInv, TakesPending
  <2>3. device' = [device EXCEPT ![req[r].d].status = "in_use", ![req[r].d].test = req[r].t]
    BY <1>3, <2>1 DEF CheckinTx, SameHold
  <2>4. d = req[r].d
    BY <1>3, <2>3 DEF SameHold, TypeOK
  <2>5. device'[d].test = req[r].t
    BY <2>3, <2>4 DEF TypeOK, DeviceRow
  <2>6. test' = [test EXCEPT ![req[r].t].status = "ready", ![req[r].t].device = req[r].d]
    BY <1>3, <2>1, <2>2 DEF CheckinTx, SameHold
  <2> QED BY <2>2, <2>4, <2>5, <2>6 DEF TypeOK, TestRow
<1>4. HeldTestKnowsDevice'
  BY <1>2, <1>3 DEF HeldTestKnowsDevice
<1> QED BY <1>1, <1>4 DEF HoldInv

LEMMA HoldStep == TypeOK /\ LifeInv /\ HoldInv /\ OneRequest /\ [Next]_vars => HoldInv'
<1> SUFFICES ASSUME TypeOK, LifeInv, HoldInv, OneRequest, [Next]_vars PROVE HoldInv'
  OBVIOUS
<1>1. CASE Engine \/ UNCHANGED vars
  <2>1. UNCHANGED <<test, device, req>>
    BY <1>1 DEF Engine, EngineFinish, EngineFails, PushLost, vars
  <2> QED BY <2>1 DEF HoldInv, TakesPending, HeldTestKnowsDevice, At
<1> QED BY <1>1, HoldRequest DEF Next, RequestStep

LEMMA HoldHolds == ASSUME OneRequest PROVE Spec => [](TypeOK /\ LifeInv /\ HoldInv)
<1>1. TypeOK /\ LifeInv /\ HoldInv /\ [Next]_vars => (TypeOK /\ LifeInv /\ HoldInv)'
  BY OneRequest, TypeStep, LifeStep, HoldStep
<1> QED BY <1>1, TypeInit, LifeInit, HoldInit, PTL DEF Spec

(* "Atomic transaction: mark test ready + device in_use": served one by    *)
(* one, requests leave no device in use by a test that does not name it,   *)
(* whatever statement fails and whenever a request dies.                   *)
THEOREM HeldTestIsKnown ==
  ASSUME \A r, q \in Requests : r = q
  PROVE  Spec => []HeldTestKnowsDevice
<1>1. OneRequest
  BY DEF OneRequest
<1>2. Spec => [](TypeOK /\ LifeInv /\ HoldInv)
  BY <1>1, HoldHolds
<1>3. HoldInv => HeldTestKnowsDevice
  BY DEF HoldInv
<1> QED BY <1>2, <1>3, PTL

(* A request that will start, abort or release still knows the device of   *)
(* the test as the row has it.                                             *)
Holding == {"start_health", "abort_stop", "abort_test", "abort_release"}

KnowsDevice(r) == req[r].pc \in Holding => req[r].d = test[req[r].t].device

(* A device in use by an aborted test is about to be released.             *)
AbortedIsFreed ==
  \A d \in Devices :
    device[d].status = "in_use" =>
      \/ test[device[d].test].status # "aborted"
      \/ \E r \in Requests : At(r, "abort_release") /\ req[r].d = d

FreeInv == (\A r \in Requests : KnowsDevice(r)) /\ AbortedIsFreed

LEMMA FreeInit == Init => FreeInv
BY DEF Init, FreeInv, KnowsDevice, AbortedIsFreed, NoDevice, Idle, Holding

LEMMA DeviceKnownBegin ==
  ASSUME TypeOK, NEW r \in Requests, Begin(r)
  PROVE  KnowsDevice(r)'
<1>r. req \in [Requests -> Request]
  BY DEF TypeOK
<1>1. ASSUME NEW t \in Tests, StartTest(r, t) \/ AdminAbortTest(r, t) \/ CancelTest(r, t)
      PROVE  KnowsDevice(r)'
  <2>1. req'[r].t = t /\ req'[r].d = test[t].device /\ test' = test
    BY <1>1, <1>r DEF StartTest, AdminAbortTest, CancelTest, Idle
  <2> QED BY <2>1 DEF KnowsDevice
<1>2. CASE req' = req
  <2>1. req[r].pc = "idle"
    BY <1>2, <1>r DEF Begin, CreateTest, AcknowledgeGuidelines, StartTest, AdminAbortTest,
          CancelTest, ResultWebhook, RegisterDevice, UpdateDevice, UpdateDeviceStatus,
          DeleteDevice, DeviceCheckin, ExpiryTick, Goto, Idle, At
  <2> QED BY <1>2, <2>1 DEF KnowsDevice, Holding
<1>3. CASE \/ ExpiryTick(r)
           \/ \E t \in Tests : ResultWebhook(r, t)
           \/ \E d \in Devices : DeleteDevice(r, d)
           \/ \E d \in Devices, c \in Candidates : DeviceCheckin(r, c, d)
  <2>1. req'[r].pc \in {"expiry", "result_sessions", "del_device", "chk_test"}
    BY <1>3, <1>r DEF ExpiryTick, Goto, ResultWebhook, DeleteDevice, DeviceCheckin, Idle,
                      Request
  <2> QED BY <2>1 DEF KnowsDevice, Holding
<1> QED BY <1>1, <1>2, <1>3
        DEF Begin, CreateTest, AcknowledgeGuidelines, RegisterDevice, UpdateDevice,
            UpdateDeviceStatus

LEMMA DeviceKnownGoesOn ==
  ASSUME TypeOK, LifeInv, FreeInv, NEW r \in Requests, Step(r) \/ RequestDies(r)
  PROVE  KnowsDevice(r)'
<1>r. req \in [Requests -> Request] /\ KnowsDevice(r)
  BY DEF TypeOK, FreeInv
<1>1. CASE Finish(r)
  BY <1>1, <1>r DEF Finish, Idle, KnowsDevice, Holding
<1>2. ASSUME NEW l \in PC \ Holding, req'[r].pc = l PROVE KnowsDevice(r)'
  BY <1>2 DEF KnowsDevice
<1>3. ASSUME NEW l \in PC \ Holding, Goto(r, l) PROVE KnowsDevice(r)'
  BY <1>2, <1>3, <1>r DEF Goto, Request
<1>4. CASE PendingTestForCandidate(r) /\ ~Finish(r)
  <2>1. req'[r].pc = "chk_tx"
    BY <1>4, <1>r DEF PendingTestForCandidate, Request
  <2> QED BY <2>1 DEF KnowsDevice, Holding
<1>5. CASE HealthCheck(r) \/ AbortStop(r) \/ AbortIgnored(r)
  <2>1. test' = test /\ req'[r].t = req[r].t /\ req'[r].d = req[r].d
    BY <1>5, <1>r DEF HealthCheck, AbortStop, AbortIgnored, Goto, Request
  <2>2. req[r].pc \in Holding
    BY <1>5 DEF HealthCheck, AbortStop, AbortIgnored, At, Holding
  <2> QED BY <1>r, <2>1, <2>2 DEF KnowsDevice
<1>6. CASE AbortTest(r) /\ ~Finish(r)
  <2>1. req'[r].t = req[r].t /\ req'[r].d = req[r].d
    BY <1>6, <1>r DEF AbortTest, Goto, Request
  <2>2. req[r].d = test[req[r].t].device /\ req[r].t \in Tests
    BY <1>6, <1>r DEF AbortTest, At, KnowsDevice, Holding, LifeInv, RequestKnows, Serving
  <2>3. test'[req[r].t].device = test[req[r].t].device
    BY <1>6, <2>2 DEF AbortTest, SetStatus, TypeOK, TestRow
  <2> QED BY <2>1, <2>2, <2>3 DEF KnowsDevice
<1>7. CASE \/ CheckinTx(r) \/ StartEngine(r) \/ InsertSessions(r) \/ InsertTestResult(r)
  BY <1>1, <1>3, <1>7 DEF CheckinTx, StartEngine, InsertSessions, InsertTestResult, PC,
                          Holding
<1> QED BY <1>1, <1>4, <1>5, <1>6, <1>7
        DEF Step, RequestDies, AdvanceToGuidelines, StartMark, ReleaseDevice,
            PendingTestForCandidate, AbortTest, CompleteTest, DeleteDeviceRow,
            ExpiryQueryRefused

(* Only AbortTest makes a test aborted. *)
LEMMA AbortGiven ==
  ASSUME TypeOK, LifeInv, NEW r \in Requests, RequestStep(r), NEW t \in Tests,
         test'[t].status = "aborted", test[t].status # "aborted"
  PROVE  AbortTest(r) /\ req[r].t = t
<1>r. test[t] \in TestRow
  BY DEF TypeOK
<1>1. ASSUME NEW u \in Tests, CreateTest(r, u) \/ AcknowledgeGuidelines(r, u)
      PROVE  FALSE
  BY <1>r, <1>1 DEF CreateTest, AcknowledgeGuidelines, SetStatus, TypeOK, TestRow
<1>2. CASE AdvanceToGuidelines(r) \/ StartMark(r) \/ AbortTest(r) \/ CompleteTest(r)
  BY <1>r, <1>2 DEF AdvanceToGuidelines, StartMark, AbortTest, CompleteTest, SetStatus,
                    TypeOK, TestRow
<1>3. CASE InsertSessions(r) \/ InsertTestResult(r) \/ CheckinTx(r)
  BY <1>r, <1>3 DEF InsertSessions, InsertTestResult, CheckinTx, TypeOK, TestRow
<1> QED BY <1>1, <1>2, <1>3, TestWriters

(* A check-in makes the test ready, whichever device it put in use.        *)
LEMMA CheckinReadies ==
  ASSUME TypeOK, LifeInv, HoldInv, NEW r \in Requests, CheckinTx(r),
         NEW d \in Devices, device'[d].status = "in_use", ~SameHold(d)
  PROVE  test'[device'[d].test].status # "aborted"
<1>1. req[r].t \in Tests /\ test[req[r].t].status = "pending"
  BY DEF CheckinTx, LifeInv, RequestKnows, Serving, At, HoldInv, TakesPending
<1>2. device' = [device EXCEPT ![req[r].d].status = "in_use", ![req[r].d].test = req[r].t]
  BY DEF CheckinTx, SameHold
<1>3. d = req[r].d
  BY <1>2 DEF SameHold, TypeOK
<1>4. device'[d].test = req[r].t
  BY <1>2, <1>3 DEF TypeOK, DeviceRow
<1>5. test' = [test EXCEPT ![req[r].t].status = "ready", ![req[r].t].device = req[r].d]
  BY <1>1 DEF CheckinTx, SameHold
<1> QED BY <1>1, <1>4, <1>5 DEF TypeOK, TestRow

(* The abort that makes the test of a device in use aborted goes on to     *)
(* release that very device.                                               *)
LEMMA AbortWillRelease ==
  ASSUME TypeOK, LifeInv, HoldInv, FreeInv, NEW r \in Requests, AbortTest(r),
         NEW d \in Devices, device[d].status = "in_use", req[r].t = device[d].test
  PROVE  At(r, "abort_release")' /\ req'[r].d = d
<1>1. test[req[r].t].device = d /\ d # None
  BY NoneAssumption DEF HoldInv, HeldTestKnowsDevice
<1>2. req[r].d = d
  BY <1>1 DEF FreeInv, KnowsDevice, Holding, AbortTest, At
<1>3. Goto(r, "abort_release")
  BY <1>1, <1>2 DEF AbortTest
<1> QED BY <1>2, <1>3 DEF Goto, At, TypeOK, Request

LEMMA FreeRequest ==
  ASSUME TypeOK, LifeInv, HoldInv, FreeInv, OneRequest, ~Faults,
         NEW r \in Requests, RequestStep(r)
  PROVE  AbortedIsFreed'
<1> SUFFICES ASSUME NEW d \in Devices, device'[d].status = "in_use",
                    test'[device'[d].test].status = "aborted"
             PROVE  \E q \in Requests : At(q, "abort_release")' /\ req'[q].d = d
  BY DEF AbortedIsFreed, At
<1>1. SameHold(d)
  BY HoldWriters, CheckinReadies
<1>2. device[d].status = "in_use" /\ device[d].test = device'[d].test
  BY <1>1 DEF SameHold
<1>3. device[d].test \in Tests
  BY <1>2 DEF HoldInv, HeldTestKnowsDevice, TypeOK, DeviceRow
<1>4. CASE test[device[d].test].status # "aborted"
  BY <1>2, <1>3, <1>4, AbortGiven, AbortWillRelease
<1>5. CASE test[device[d].test].status = "aborted"
  <2>1. At(r, "abort_release") /\ req[r].d = d
    BY <1>2, <1>5 DEF FreeInv, AbortedIsFreed, OneRequest
  <2>2. ReleaseDevice(r)
    BY <2>1 DEF RequestStep, Begin, Step, RequestDies, CreateTest, AcknowledgeGuidelines,
       StartTest, AdminAbortTest, CancelTest, ResultWebhook, RegisterDevice, UpdateDevice,
       UpdateDeviceStatus, DeleteDevice, DeviceCheckin, ExpiryTick,
       PendingTestForCandidate, CheckinTx, AdvanceToGuidelines, HealthCheck, StartEngine,
       StartMark, AbortStop, AbortTest, AbortIgnored, InsertSessions, InsertTestResult,
       CompleteTest, DeleteDeviceRow, ExpiryQueryRefused, At
  <2>3. device'[d].status = "active"
    BY <2>1, <2>2 DEF ReleaseDevice, TypeOK, DeviceRow
  <2> QED BY <2>3
<1> QED BY <1>4, <1>5

LEMMA FreeStep ==
  TypeOK /\ LifeInv /\ HoldInv /\ FreeInv /\ OneRequest /\ ~Faults /\ [Next]_vars => FreeInv'
<1> SUFFICES ASSUME TypeOK, LifeInv, HoldInv, FreeInv, OneRequest, ~Faults, [Next]_vars
             PROVE  FreeInv'
  OBVIOUS
<1>1. CASE Engine \/ UNCHANGED vars
  <2>1. UNCHANGED <<test, device, req>>
    BY <1>1 DEF Engine, EngineFinish, EngineFails, PushLost, vars
  <2> QED BY <2>1 DEF FreeInv, KnowsDevice, AbortedIsFreed, At
<1>2. ASSUME NEW r \in Requests, RequestStep(r) PROVE FreeInv'
  <2>1. KnowsDevice(r)'
    BY <1>2, DeviceKnownBegin, DeviceKnownGoesOn DEF RequestStep
  <2>2. \A q \in Requests : q = r
    BY DEF OneRequest
  <2> QED BY <1>2, <2>1, <2>2, FreeRequest DEF FreeInv
<1> QED BY <1>1, <1>2 DEF Next, RequestStep

(* Served one by one, and as long as no statement fails, no request leaves *)
(* a device in use by a test that was aborted.                             *)
THEOREM AbortsFreeDevice ==
  ASSUME \A r, q \in Requests : r = q, ~Faults
  PROVE  Spec => []AbortFreesDevice
<1>1. OneRequest
  BY DEF OneRequest
<1>2. Spec => [](TypeOK /\ LifeInv /\ HoldInv)
  BY <1>1, HoldHolds
<1>3. TypeOK /\ LifeInv /\ HoldInv /\ FreeInv /\ [Next]_vars => FreeInv'
  BY <1>1, FreeStep
<1>4. FreeInv => AbortFreesDevice
  BY DEF FreeInv, AbortedIsFreed, AbortFreesDevice, At
<1> QED BY <1>2, <1>3, <1>4, FreeInit, PTL DEF Spec

-----------------------------------------------------------------------------
(* TestLifecycle implements PendingTests.                                  *)

LEMMA BookedInit == Init => Booked!Init
BY DEF Init, Booked!Init, NoTest

(* A step that gives no test a new status. *)
LEMMA BookedStutter ==
  ASSUME \A t \in Tests : \/ test'[t].status = test[t].status
                          \/ /\ test[t].status \notin {"none", "pending"}
                             /\ test'[t].status \notin {"none", "pending"}
  PROVE  UNCHANGED Booked!vars
BY DEF Booked!vars

LEMMA BookedCreate ==
  ASSUME TypeOK, NEW r \in Requests, NEW u \in Tests, CreateTest(r, u)
  PROVE  Booked!Next
<1>1. test' = [test EXCEPT ![u].status = "pending"] /\ test[u].status = "none"
  BY DEF CreateTest, SetStatus
<1>2. CandidateOf[u] \in Candidates
  BY OwnersAssumption
<1>3. ~Booked!HasPending(CandidateOf[u])
  BY NoneAssumption, <1>2 DEF CreateTest, Booked!HasPending
<1>4. Booked!Create(u, CandidateOf[u])
  BY <1>1, <1>3 DEF Booked!Create, TypeOK, TestRow
<1> QED BY <1>2, <1>4 DEF Booked!Next

(* Any other write leaves the statuses alone or sets one, of a row that    *)
(* exists, to something else than pending.                                 *)
StatusSet(u, st) == /\ test[u].status # "none" /\ st \notin {"none", "pending"}
                    /\ \A t \in Tests : test'[t].status = IF t = u THEN st ELSE test[t].status

LEMMA StatusWritten ==
  ASSUME TypeOK, LifeInv, NEW r \in Requests, RequestStep(r), test' # test,
         ~\E t \in Tests : CreateTest(r, t)
  PROVE  \/ \A t \in Tests : test'[t].status = test[t].status
         \/ \E u \in Tests, st \in TestStatus : StatusSet(u, st)
<1>1. ASSUME NEW u \in Tests, NEW st \in TestStatus \ {"pending"},
             test[u].status # "none", SetStatus(u, st)
      PROVE  StatusSet(u, st)
  BY <1>1 DEF SetStatus, StatusSet, TypeOK, TestRow, TestStatus
<1>2. ASSUME NEW u \in Tests, AcknowledgeGuidelines(r, u)
      PROVE  \E v \in Tests, st \in TestStatus : StatusSet(v, st)
  <2>1. StatusSet(u, "acknowledged")
    BY <1>2 DEF AcknowledgeGuidelines, TestExists, StatusSet, TypeOK, TestRow, TestStatus
  <2> QED BY <2>1 DEF TestStatus
<1>3. req[r].pc \in Serving => req[r].t \in Tests /\ test[req[r].t].status # "none"
  BY DEF LifeInv, RequestKnows
<1>4. CASE CheckinTx(r)
  <2>1. req[r].t \in Tests /\ test[req[r].t].status # "none"
    BY <1>3, <1>4 DEF CheckinTx, At, Serving
  <2>2. test' = [test EXCEPT ![req[r].t].status = "ready", ![req[r].t].device = req[r].d]
    BY <1>4 DEF CheckinTx
  <2>3. StatusSet(req[r].t, "ready")
    BY <2>1, <2>2 DEF StatusSet, TypeOK, TestRow
  <2> QED BY <2>1, <2>3 DEF TestStatus
<1>5. CASE AdvanceToGuidelines(r)
  BY <1>1, <1>3, <1>5 DEF AdvanceToGuidelines, At, Serving, TestStatus
<1>6. CASE StartMark(r)
  BY <1>1, <1>3, <1>6 DEF StartMark, At, Serving, Starting, TestStatus
<1>7. CASE AbortTest(r)
  BY <1>1, <1>3, <1>7 DEF AbortTest, At, Serving, TestStatus
<1>8. CASE CompleteTest(r)
  BY <1>1, <1>3, <1>8 DEF CompleteTest, At, Serving, Grading, TestStatus
<1>9. CASE InsertSessions(r) \/ InsertTestResult(r)
  BY <1>9 DEF InsertSessions, InsertTestResult, TypeOK, TestRow
<1> QED BY <1>2, <1>4, <1>5, <1>6, <1>7, <1>8, <1>9, TestWriters

LEMMA BookedTake ==
  ASSUME TypeOK, NEW u \in Tests, NEW st \in TestStatus, StatusSet(u, st)
  PROVE  [Booked!Next]_Booked!vars
<1>1. CASE test[u].status = "pending"
  <2>1. Booked!Take(u)
    BY <1>1 DEF Booked!Take, StatusSet
  <2> QED BY <2>1 DEF Booked!Next
<1>2. CASE test[u].status # "pending"
  BY <1>2, BookedStutter DEF StatusSet
<1> QED BY <1>1, <1>2

LEMMA BookedStep == TypeOK /\ LifeInv /\ [Next]_vars => [Booked!Next]_Booked!vars
<1> SUFFICES ASSUME TypeOK, LifeInv, [Next]_vars PROVE [Booked!Next]_Booked!vars
  OBVIOUS
<1>1. CASE test' = test
  BY <1>1, BookedStutter
<1>2. ASSUME NEW r \in Requests, RequestStep(r), test' # test
      PROVE  [Booked!Next]_Booked!vars
  BY <1>2, BookedCreate, StatusWritten, BookedTake, BookedStutter
<1>3. CASE Engine \/ UNCHANGED vars
  BY <1>1, <1>3 DEF Engine, EngineFinish, EngineFails, PushLost, vars
<1> QED BY <1>1, <1>2, <1>3 DEF Next, RequestStep

(* TestLifecycle keeps what PendingTests promises: no test returns to      *)
(* pending, and a candidate has one pending test at most.                  *)
THEOREM TestsArePendingOnce == Spec => ImplementsPendingTests
BY BookedInit, BookedStep, LifeHolds, PTL DEF Spec, ImplementsPendingTests, Booked!Spec
-----------------------------------------------------------------------------
(* What fairness adds.  The provers know nothing of ENABLED: that a request *)
(* which has begun can take its next step is a hypothesis here.             *)

CanGoOn == \A r \in Requests : ~At(r, "idle") => ENABLED <<Step(r)>>_vars

Fair(r) == WF_vars(Step(r))

LEMMA FairRequests == Fairness <=> \A r \in Requests : Fair(r)
BY PTL DEF Fairness, Fair

(* The request serves the result of the test, and has come to statement l. *)
Grades(r, t, l) == At(r, l) /\ req[r].t = t
Completing(t)   == \E r \in Requests : Grades(r, t, "result_complete")

LEMMA GradingSteps ==
  ASSUME ~Faults, NEW r \in Requests, RequestStep(r)
  PROVE  /\ At(r, "result_sessions") => InsertSessions(r)
         /\ At(r, "result_insert") => InsertTestResult(r)
         /\ At(r, "result_complete") => CompleteTest(r)
<1>1. Begin(r) => At(r, "idle")
  BY DEF Begin, CreateTest, AcknowledgeGuidelines, StartTest, AdminAbortTest, CancelTest,
         ResultWebhook, RegisterDevice, UpdateDevice, UpdateDeviceStatus, DeleteDevice,
         DeviceCheckin, ExpiryTick
<1>2. Step(r) => \/ InsertSessions(r) /\ At(r, "result_sessions")
                 \/ InsertTestResult(r) /\ At(r, "result_insert")
                 \/ CompleteTest(r) /\ At(r, "result_complete")
                 \/ req[r].pc \notin Grading
  BY DEF Step, PendingTestForCandidate, CheckinTx, AdvanceToGuidelines, HealthCheck,
         StartEngine, StartMark, AbortStop, AbortTest, ReleaseDevice, AbortIgnored,
         InsertSessions, InsertTestResult, CompleteTest, DeleteDeviceRow,
         ExpiryQueryRefused, At, Grading
<1> QED BY <1>1, <1>2 DEF RequestStep, RequestDies, At, Grading

(* Whoever stores the result goes on to complete the test. *)
LEMMA StoringCompletes ==
  ASSUME TypeOK, LifeInv, ~Faults, NEW r \in Requests, RequestStep(r), NEW t \in Tests,
         ~test[t].result, test'[t].result
  PROVE  Grades(r, t, "result_complete")'
<1>1. Grades(r, t, "result_insert") /\ InsertTestResult(r)
  BY ResultGiven, GradingSteps DEF Grades
<1> QED BY <1>1 DEF Grades, InsertTestResult, Goto, At, TypeOK, Request

LEMMA SessionsStep ==
  ASSUME TypeOK, LifeInv, ~Faults, [Next]_vars, NEW r \in Requests, NEW t \in Tests,
         Grades(r, t, "result_sessions"), ~test[t].result
  PROVE  /\ \/ ~test'[t].result /\ (Grades(r, t, "result_sessions") \/ Grades(r, t, "result_insert"))'
            \/ Completing(t)'
         /\ <<Step(r)>>_vars => (~test'[t].result /\ Grades(r, t, "result_insert")') \/ Completing(t)'
<1>1. ASSUME RequestStep(r)
      PROVE  ~test'[t].result /\ Grades(r, t, "result_insert")'
  <2>1. InsertSessions(r) /\ At(r, "result_sessions")
    BY <1>1, GradingSteps DEF Grades
  <2>2. test'[t].result = test[t].result
    BY <2>1, <1>1, ResultGiven DEF At
  <2> QED BY <2>1, <2>2 DEF InsertSessions, Grades, Goto, At, TypeOK, Request
<1>2. ASSUME NEW q \in Requests, RequestStep(q), q # r
      PROVE  \/ ~test'[t].result /\ Grades(r, t, "result_sessions")'
             \/ Completing(t)'
  <2>1. req'[r] = req[r]
    BY <1>2, RequestApart
  <2>2. test'[t].result => Completing(t)'
    BY <1>2, StoringCompletes DEF Completing
  <2> QED BY <2>1, <2>2 DEF Grades, At
<1>3. ASSUME Engine \/ UNCHANGED vars
      PROVE  ~test'[t].result /\ Grades(r, t, "result_sessions")'
  BY <1>3 DEF Engine, EngineFinish, EngineFails, PushLost, vars, Grades, At
<1> QED BY <1>1, <1>2, <1>3 DEF Next, RequestStep

LEMMA InsertStep ==
  ASSUME TypeOK, LifeInv, ~Faults, [Next]_vars, NEW r \in Requests, NEW t \in Tests,
         Grades(r, t, "result_insert"), ~test[t].result
  PROVE  /\ (~test'[t].result /\ Grades(r, t, "result_insert")') \/ Completing(t)'
         /\ <<Step(r)>>_vars => Completing(t)'
<1>1. ASSUME RequestStep(r)
      PROVE  Completing(t)'
  <2>1. InsertTestResult(r) /\ req[r].t = t
    BY <1>1, GradingSteps DEF Grades
  <2>2. Grades(r, t, "result_complete")'
    BY <2>1 DEF InsertTestResult, Grades, Goto, At, TypeOK, Request
  <2> QED BY <2>2 DEF Completing
<1>2. ASSUME NEW q \in Requests, RequestStep(q), q # r
      PROVE  (~test'[t].result /\ Grades(r, t, "result_insert")') \/ Completing(t)'
  <2>1. req'[r] = req[r]
    BY <1>2, RequestApart
  <2>2. test'[t].result => Completing(t)'
    BY <1>2, StoringCompletes DEF Completing
  <2> QED BY <2>1, <2>2 DEF Grades, At
<1>3. ASSUME Engine \/ UNCHANGED vars
      PROVE  ~test'[t].result /\ Grades(r, t, "result_insert")'
  BY <1>3 DEF Engine, EngineFinish, EngineFails, PushLost, vars, Grades, At
<1> QED BY <1>1, <1>2, <1>3 DEF Next, RequestStep

LEMMA CompleteStep ==
  ASSUME TypeOK, LifeInv, ~Faults, [Next]_vars, NEW r \in Requests, NEW t \in Tests,
         Grades(r, t, "result_complete")
  PROVE  /\ Grades(r, t, "result_complete")' \/ test'[t].status = "completed"
         /\ <<Step(r)>>_vars => test'[t].status = "completed"
<1>1. ASSUME RequestStep(r)
      PROVE  test'[t].status = "completed"
  <2>1. CompleteTest(r) /\ req[r].t = t
    BY <1>1, GradingSteps DEF Grades
  <2> QED BY <2>1 DEF CompleteTest, SetStatus, TypeOK, TestRow
<1>2. ASSUME NEW q \in Requests, RequestStep(q), q # r
      PROVE  Grades(r, t, "result_complete")'
  BY <1>2, RequestApart DEF Grades, At
<1>3. ASSUME Engine \/ UNCHANGED vars
      PROVE  Grades(r, t, "result_complete")'
  BY <1>3 DEF Engine, EngineFinish, EngineFails, PushLost, vars, Grades, At
<1> QED BY <1>1, <1>2, <1>3 DEF Next, RequestStep

(* A test whose result was stored is completed. *)
LEMMA CompletingCompletes ==
  ASSUME ~Faults, NEW t \in Tests
  PROVE  FairSpec /\ []CanGoOn => [](Completing(t) => <>(test[t].status = "completed"))
<1>1. ASSUME NEW r \in Requests
      PROVE  FairSpec /\ []CanGoOn =>
               [](Grades(r, t, "result_complete") => <>(test[t].status = "completed"))
  <2>1. TypeOK /\ LifeInv /\ [Next]_vars /\ Grades(r, t, "result_complete") =>
          Grades(r, t, "result_complete")' \/ (test[t].status = "completed")'
    BY CompleteStep
  <2>2. TypeOK /\ LifeInv /\ [Next]_vars /\ Grades(r, t, "result_complete") /\ <<Step(r)>>_vars =>
          (test[t].status = "completed")'
    BY CompleteStep
  <2>3. CanGoOn /\ Grades(r, t, "result_complete") => ENABLED <<Step(r)>>_vars
    BY DEF CanGoOn, Grades, At
  <2>4. Fairness => Fair(r)
    BY FairRequests
  <2> QED BY <2>1, <2>2, <2>3, <2>4, LifeHolds, PTL DEF FairSpec, Spec, Fair
<1>2. FairSpec /\ []CanGoOn =>
        [](\A r \in Requests : (Grades(r, t, "result_complete") => <>(test[t].status = "completed")))
  BY <1>1
<1>3. (\A r \in Requests : (Grades(r, t, "result_complete") => <>(test[t].status = "completed")))
        => (Completing(t) => <>(test[t].status = "completed"))
  BY DEF Completing
<1> QED BY <1>2, <1>3, PTL

(* An accepted result completes its test in the end, whatever crosses it,  *)
(* as long as no statement fails (handler.go:2161).                        *)
THEOREM AcceptedResultsComplete ==
  ASSUME ~Faults
  PROVE  FairSpec /\ []CanGoOn => AcceptedResultCompletes
<1> DEFINE Done(t) == test[t].status = "completed"
           Ask(t)  == ~test[t].result /\ (\E r \in Requests : At(r, "result_sessions") /\ req[r].t = t)
<1>1. ASSUME NEW t \in Tests
      PROVE  FairSpec /\ []CanGoOn => [](Ask(t) => <>Done(t))
  <2>1. ASSUME NEW r \in Requests
        PROVE  FairSpec /\ []CanGoOn =>
                 [](Grades(r, t, "result_sessions") /\ ~test[t].result => <>Done(t))
    <3> DEFINE P1 == Grades(r, t, "result_sessions") /\ ~test[t].result
               P2 == Grades(r, t, "result_insert") /\ ~test[t].result
    <3>1. TypeOK /\ LifeInv /\ [Next]_vars /\ P1 => P1' \/ P2' \/ Completing(t)'
      BY SessionsStep
    <3>2. TypeOK /\ LifeInv /\ [Next]_vars /\ P1 /\ <<Step(r)>>_vars => P2' \/ Completing(t)'
      BY SessionsStep
    <3>3. TypeOK /\ LifeInv /\ [Next]_vars /\ P2 => P2' \/ Completing(t)'
      BY InsertStep
    <3>4. TypeOK /\ LifeInv /\ [Next]_vars /\ P2 /\ <<Step(r)>>_vars => Completing(t)'
      BY InsertStep
    <3>5. CanGoOn /\ (P1 \/ P2) => ENABLED <<Step(r)>>_vars
      BY DEF CanGoOn, Grades, At
    <3>6. Fairness => Fair(r)
      BY FairRequests
    <3> HIDE DEF P1, P2
    <3>7. FairSpec /\ []CanGoOn => [](P1 => <>Done(t))
      BY <3>1, <3>2, <3>3, <3>4, <3>5, <3>6, LifeHolds, CompletingCompletes, PTL
         DEF FairSpec, Spec, Fair
    <3> QED BY <3>7 DEF P1
  <2>2. FairSpec /\ []CanGoOn =>
          [](\A r \in Requests : (Grades(r, t, "result_sessions") /\ ~test[t].result => <>Done(t)))
    BY <2>1
  <2>3. (\A r \in Requests : (Grades(r, t, "result_sessions") /\ ~test[t].result => <>Done(t)))
          => (Ask(t) => <>Done(t))
    BY DEF Grades
  <2> QED BY <2>2, <2>3, PTL
<1>2. ASSUME NEW t \in Tests
      PROVE  FairSpec /\ []CanGoOn => (Ask(t) ~> Done(t))
  BY <1>1, PTL
<1> QED BY <1>2 DEF AcceptedResultCompletes
=============================================================================
