--------------------------- MODULE TestLifecycle ---------------------------
(***************************************************************************)
(* The testing module of the core engine (internal/testing): the rows of   *)
(* tests and devices, the check-in of a candidate at a device, the start   *)
(* and the abort of a test, the result the scoring engine (services/adlts) *)
(* pushes back, and the expiry worker.                                     *)
(*                                                                         *)
(* As in Booking, a request is a process and one action is one statement   *)
(* or one remote call.  Only the check-in opens a transaction, over two    *)
(* UPDATEs; the reads before it and the UPDATE after it lie outside.       *)
(* Every handler, even of one statement, needs an idle request, so that    *)
(* one member of Requests means that requests are served one by one.       *)
(***************************************************************************)
EXTENDS Naturals, FiniteSets

CONSTANTS
  Tests,          \* identifiers of test rows
  Devices,        \* identifiers of device rows
  Candidates,     \* candidates
  CandidateOf,    \* the candidate who takes each test
  Requests,       \* requests that may be in progress at the same time
  MaxBatches,     \* bound: batches of session rows counted for a test
  Faults,         \* TRUE: statements and remote calls may fail, requests may die
  None            \* SQL NULL, or no test in the engine

ASSUME OwnersAssumption == CandidateOf \in [Tests -> Candidates]
ASSUME LimitsAssumption == MaxBatches \in Nat /\ Faults \in BOOLEAN
ASSUME NoneAssumption   == None \notin Tests \cup Devices \cup Candidates

VARIABLES
  test,      \* table tests, with test_sessions and test_results
  device,    \* table devices
  engine,    \* the test the scoring engine runs
  pushed,    \* tests whose result the scoring engine has sent
  req        \* the requests in progress

vars == <<test, device, engine, pushed, req>>

-----------------------------------------------------------------------------
(* The members of the enum test_status that some statement writes; "none"  *)
(* is a row not inserted yet.                                              *)
TestStatus == {"pending", "ready", "guidelines", "acknowledged", "running",
               "completed", "aborted"}

AdminStatus  == {"active", "inactive", "maintenance"}
DeviceStatus == AdminStatus \cup {"in_use"}

TestRow   == [status   : TestStatus \cup {"none"},
              device   : Devices \cup {None},
              acked    : BOOLEAN,              \* acknowledged_at IS NOT NULL
              sessions : 0 .. MaxBatches,      \* batches of test_sessions rows
              result   : BOOLEAN]              \* a row of test_results exists
DeviceRow == [status   : DeviceStatus \cup {"none"},
              test     : Tests \cup {None},    \* current_test_id
              levels   : {"array", "string"}]  \* JSON type of allowed_levels

NoTest   == [status |-> "none", device |-> None, acked |-> FALSE,
             sessions |-> 0, result |-> FALSE]
NoDevice == [status |-> "none", test |-> None, levels |-> "array"]

TestExists(t)   == test[t].status \in TestStatus
DeviceExists(d) == device[d].status \in DeviceStatus

PC == {"idle", "chk_test", "chk_tx", "chk_advance",
       "start_health", "start_engine", "start_mark",
       "abort_stop", "abort_test", "abort_release",
       "result_sessions", "result_insert", "result_complete",
       "del_device", "expiry"}

Request == [pc : PC,
            c  : Candidates \cup {None},
            t  : Tests \cup {None},
            d  : Devices \cup {None}]

Idle == [pc |-> "idle", c |-> None, t |-> None, d |-> None]

At(r, l)   == req[r].pc = l
Goto(r, l) == req' = [req EXCEPT ![r].pc = l]
Finish(r)  == req' = [req EXCEPT ![r] = Idle]

(* UpdateTestStatus: no condition on the status the row has. *)
SetStatus(t, st) == test' = [test EXCEPT ![t].status = st]

-----------------------------------------------------------------------------
Init ==
  /\ test   = [t \in Tests |-> NoTest]
  /\ device = [d \in Devices |-> NoDevice]
  /\ engine = None
  /\ pushed = {}
  /\ req    = [r \in Requests |-> Idle]

(* Mutation: no unique index on the pending tests of a candidate. *)
CreateTestUnindexed(r, t) ==
  /\ At(r, "idle")
  /\ test[t].status = "none"
  /\ SetStatus(t, "pending")
  /\ UNCHANGED <<device, engine, pushed, req>>

(* createTestInternal and createTestAdmin: one INSERT, which the index     *)
(* idx_tests_one_pending refuses to a candidate with a pending test.       *)
CreateTest(r, t) ==
  /\ At(r, "idle")
  /\ test[t].status = "none"
  /\ \A u \in Tests : test[u].status = "pending" => CandidateOf[u] # CandidateOf[t]
  /\ SetStatus(t, "pending")
  /\ UNCHANGED <<device, engine, pushed, req>>

(* registerDevice encodes the levels as a JSON array and CreateDevice      *)
(* encodes that text once more: the column holds one JSON string.          *)
RegisterDevice(r, d) ==
  /\ At(r, "idle")
  /\ ~DeviceExists(d)
  /\ device' = [device EXCEPT ![d] = [status |-> "active", test |-> None,
                                      levels |-> "string"]]
  /\ UNCHANGED <<test, engine, pushed, req>>

(* updateDevice encodes the levels once. *)
UpdateDevice(r, d) ==
  /\ At(r, "idle")
  /\ DeviceExists(d)
  /\ device' = [device EXCEPT ![d].levels = "array"]
  /\ UNCHANGED <<test, engine, pushed, req>>

UpdateDeviceStatus(r, d, st) ==
  /\ At(r, "idle")
  /\ DeviceExists(d)
  /\ device' = [device EXCEPT ![d].status = st]
  /\ UNCHANGED <<test, engine, pushed, req>>

DeleteDevice(r, d) ==
  /\ At(r, "idle")
  /\ DeviceExists(d)
  /\ device[d].status # "in_use"
  /\ req' = [req EXCEPT ![r] = [Idle EXCEPT !.pc = "del_device", !.d = d]]
  /\ UNCHANGED <<test, device, engine, pushed>>

(* tests.device_id references devices: a device a test was taken on stays. *)
DeleteDeviceRow(r) ==
  LET d == req[r].d
      refused == \E t \in Tests : test[t].device = d
  IN /\ At(r, "del_device")
     /\ device' = IF refused THEN device ELSE [device EXCEPT ![d] = NoDevice]
     /\ Finish(r)
     /\ UNCHANGED <<test, engine, pushed>>

-----------------------------------------------------------------------------
(* deviceCheckin.                                                          *)

(* The device is read: active, its levels a JSON array that has the level. *)
DeviceCheckin(r, c, d) ==
  /\ At(r, "idle")
  /\ device[d].status = "active"
  /\ device[d].levels = "array"
  /\ req' = [req EXCEPT ![r] = [Idle EXCEPT !.pc = "chk_test", !.c = c, !.d = d]]
  /\ UNCHANGED <<test, device, engine, pushed>>

(* PendingTestForCandidate; no test, the level or the booking window may   *)
(* refuse.                                                                 *)
PendingTestForCandidate(r) ==
  /\ At(r, "chk_test")
  /\ \/ \E t \in Tests :
          /\ test[t].status = "pending" /\ CandidateOf[t] = req[r].c
          /\ req' = [req EXCEPT ![r].pc = "chk_tx", ![r].t = t]
     \/ Finish(r)
  /\ UNCHANGED <<test, device, engine, pushed>>

(* Both UPDATEs commit unless the second one matches no active device or   *)
(* current_test_id would not be unique.                                    *)
CheckinCommits(t, d) ==
  /\ device[d].status = "active"
  /\ \A e \in Devices \ {d} : device[e].test # t

(* Mutation: the first UPDATE does not ask for a pending test. *)
CheckinAnyTest(r) ==
  LET t == req[r].t  d == req[r].d IN
  /\ At(r, "chk_tx")
  /\ \/ /\ CheckinCommits(t, d)
        /\ test' = [test EXCEPT ![t].status = "ready", ![t].device = d]
        /\ device' = [device EXCEPT ![d].status = "in_use", ![d].test = t]
        /\ Goto(r, "chk_advance")
     \/ /\ ~CheckinCommits(t, d)
        /\ Finish(r)
        /\ UNCHANGED <<test, device>>
  /\ UNCHANGED <<engine, pushed>>

(* Mutation: the caller's identifier is bound in place of the test's. *)
CheckinSwapsIDs(r) ==
  LET t == req[r].t  d == req[r].d IN
  /\ At(r, "chk_tx")
  /\ CheckinCommits(t, d)
  /\ test' = [test EXCEPT ![t].status = "ready", ![t].device = d]
  /\ device' = [device EXCEPT ![d].status = "in_use", ![d].test = req[r].c]
  /\ Goto(r, "chk_advance")
  /\ UNCHANGED <<engine, pushed>>

(* The first UPDATE leaves alone a test that is no longer pending, and     *)
(* the number of rows it matched is not looked at.                         *)
CheckinTx(r) ==
  LET t == req[r].t  d == req[r].d IN
  /\ At(r, "chk_tx")
  /\ \/ /\ CheckinCommits(t, d)
        /\ test' = IF test[t].status = "pending"
                     THEN [test EXCEPT ![t].status = "ready", ![t].device = d]
                     ELSE test
        /\ device' = [device EXCEPT ![d].status = "in_use", ![d].test = t]
        /\ Goto(r, "chk_advance")
     \/ /\ ~CheckinCommits(t, d)
        /\ Finish(r)
        /\ UNCHANGED <<test, device>>
  /\ UNCHANGED <<engine, pushed>>

AdvanceToGuidelines(r) ==
  /\ At(r, "chk_advance")
  /\ SetStatus(req[r].t, "guidelines")
  /\ Finish(r)
  /\ UNCHANGED <<device, engine, pushed>>

(* acknowledgeGuidelines reads nothing: any candidate, any test. *)
AcknowledgeGuidelines(r, t) ==
  /\ At(r, "idle")
  /\ TestExists(t)
  /\ test' = [test EXCEPT ![t].status = "acknowledged", ![t].acked = TRUE]
  /\ UNCHANGED <<device, engine, pushed, req>>

-----------------------------------------------------------------------------
(* startTest.                                                              *)

(* Mutation: the check for a device (NO_DEVICE) is dropped. *)
StartWithoutDevice(r, t) ==
  /\ At(r, "idle")
  /\ test[t].status = "acknowledged"
  /\ req' = [req EXCEPT ![r] = [Idle EXCEPT !.pc = "start_health", !.t = t,
                                            !.d = test[t].device]]
  /\ UNCHANGED <<test, device, engine, pushed>>

StartTest(r, t) ==
  /\ At(r, "idle")
  /\ test[t].status = "acknowledged"
  /\ test[t].device # None
  /\ req' = [req EXCEPT ![r] = [Idle EXCEPT !.pc = "start_health", !.t = t,
                                            !.d = test[t].device]]
  /\ UNCHANGED <<test, device, engine, pushed>>

(* Whether the device is healthy is not looked at, only whether the check  *)
(* returned an error: no stream URL, or its row could not be written.      *)
HealthCheck(r) ==
  /\ At(r, "start_health")
  /\ Goto(r, "start_engine") \/ Goto(r, "abort_test")
  /\ UNCHANGED <<test, device, engine, pushed>>

(* The calibration or the load of the maneuvers may fail; start_test is    *)
(* refused while the engine runs a test.                                   *)
StartEngine(r) ==
  /\ At(r, "start_engine")
  /\ \/ /\ engine = None
        /\ engine' = req[r].t
        /\ Goto(r, "start_mark") \/ (Faults /\ Finish(r))   \* the answer is lost
     \/ Finish(r) /\ UNCHANGED engine
  /\ UNCHANGED <<test, device, pushed>>

(* Repository.StartTest: UPDATE tests SET status='running' WHERE id. *)
StartMark(r) ==
  /\ At(r, "start_mark")
  /\ SetStatus(req[r].t, "running")
  /\ Finish(r)
  /\ UNCHANGED <<device, engine, pushed>>

-----------------------------------------------------------------------------
(* adminAbortTest, deleteTestAdmin, cancelTestByBooking.                   *)

AdminAbortTest(r, t) ==
  /\ At(r, "idle")
  /\ TestExists(t)
  /\ req' = [req EXCEPT ![r] = [Idle EXCEPT !.pc = "abort_stop", !.t = t,
                                            !.d = test[t].device]]
  /\ UNCHANGED <<test, device, engine, pushed>>

(* Only a test that was pending when read is cancelled. *)
CancelTest(r, t) ==
  /\ At(r, "idle")
  /\ test[t].status = "pending"
  /\ req' = [req EXCEPT ![r] = [Idle EXCEPT !.pc = "abort_test", !.t = t,
                                            !.d = test[t].device]]
  /\ UNCHANGED <<test, device, engine, pushed>>

(* POST /test/{id}/stop: the engine stops the test it runs, whichever the  *)
(* path names; an error is dropped.                                        *)
AbortStop(r) ==
  /\ At(r, "abort_stop")
  /\ engine' = None \/ (Faults /\ UNCHANGED engine)
  /\ Goto(r, "abort_test")
  /\ UNCHANGED <<test, device, pushed>>

(* Mutation: the handler returns before it has released the device. *)
AbortKeepsDevice(r) ==
  /\ At(r, "abort_test")
  /\ SetStatus(req[r].t, "aborted")
  /\ Finish(r)
  /\ UNCHANGED <<device, engine, pushed>>

AbortTest(r) ==
  /\ At(r, "abort_test")
  /\ SetStatus(req[r].t, "aborted")
  /\ \/ req[r].d # None /\ Goto(r, "abort_release")
     \/ req[r].d = None /\ Finish(r)
  /\ UNCHANGED <<device, engine, pushed>>

(* Mutation: current_test_id is cleared and the status is left in_use. *)
ReleaseForgetsStatus(r) ==
  /\ At(r, "abort_release")
  /\ device' = [device EXCEPT ![req[r].d].test = None]
  /\ Finish(r)
  /\ UNCHANGED <<test, engine, pushed>>

(* The device the test had when it was read, whatever it does now. *)
ReleaseDevice(r) ==
  /\ At(r, "abort_release")
  /\ device' = [device EXCEPT ![req[r].d].status = "active", ![req[r].d].test = None]
  /\ Finish(r)
  /\ UNCHANGED <<test, engine, pushed>>

-----------------------------------------------------------------------------
(* The scoring engine, and resultWebhook.                                  *)

(* The last maneuver is closed, or an operator forces completion. *)
EngineFinish ==
  /\ engine # None
  /\ pushed' = pushed \cup {engine}
  /\ engine' = None
  /\ UNCHANGED <<test, device, req>>

(* _run_test ends with an exception: the run is aborted without a result. *)
EngineFails ==
  /\ engine # None
  /\ engine' = None
  /\ UNCHANGED <<test, device, pushed, req>>

(* _push_result tries once and only logs a refusal or a network error.     *)
(* start_test keeps internal_api_key in a local variable (main.py:197), so *)
(* the engine of this commit sends no X-Internal-Token and its own pushes  *)
(* all end here; the webhook itself stays open to any holder of the token. *)
PushLost(t) ==
  /\ t \in pushed
  /\ pushed' = pushed \ {t}
  /\ UNCHANGED <<test, device, engine, req>>

(* Any holder of the token may post a result for any test that exists: the *)
(* handler reads the row and looks neither at its status nor at its device. *)
ResultWebhook(r, t) ==
  /\ At(r, "idle")
  /\ TestExists(t)
  /\ req' = [req EXCEPT ![r] = [Idle EXCEPT !.pc = "result_sessions", !.t = t]]
  /\ UNCHANGED <<test, device, engine, pushed>>

(* One test_sessions and one session_results row for each maneuver of the  *)
(* payload, under new identifiers; there may be none, and errors are       *)
(* logged and passed over.                                                 *)
InsertSessions(r) ==
  LET t == req[r].t IN
  /\ At(r, "result_sessions")
  /\ \/ test' = [test EXCEPT ![t].sessions = IF @ < MaxBatches THEN @ + 1 ELSE @]
     \/ UNCHANGED test
  /\ Goto(r, "result_insert")
  /\ UNCHANGED <<device, engine, pushed>>

(* test_results.test_id is unique: a second result ends with a 500. *)
InsertTestResult(r) ==
  LET t == req[r].t IN
  /\ At(r, "result_insert")
  /\ \/ /\ ~test[t].result
        /\ test' = [test EXCEPT ![t].result = TRUE]
        /\ Goto(r, "result_complete")
     \/ test[t].result /\ Finish(r) /\ UNCHANGED test
  /\ UNCHANGED <<device, engine, pushed>>

(* Mutation: the UPDATE asks for a running test. *)
CompleteOnlyRunning(r) ==
  /\ At(r, "result_complete")
  /\ test' = IF test[req[r].t].status = "running"
               THEN [test EXCEPT ![req[r].t].status = "completed"] ELSE test
  /\ Finish(r)
  /\ UNCHANGED <<device, engine, pushed>>

CompleteTest(r) ==
  /\ At(r, "result_complete")
  /\ SetStatus(req[r].t, "completed")
  /\ Finish(r)
  /\ UNCHANGED <<device, engine, pushed>>

-----------------------------------------------------------------------------
(* expireStaleTests selects status NOT IN ('completed', 'aborted',         *)
(* 'failed'); 'failed' is no member of the enum test_status, PostgreSQL    *)
(* refuses the query and the tick returns before it has aborted a test.    *)
ExpiryTick(r) ==
  /\ At(r, "idle")
  /\ Goto(r, "expiry")
  /\ UNCHANGED <<test, device, engine, pushed>>

ExpiryQueryRefused(r) ==
  /\ At(r, "expiry")
  /\ Finish(r)
  /\ UNCHANGED <<test, device, engine, pushed>>

(* A statement fails and the handler returns, the 30 s timeout cancels the *)
(* context of all its later statements, or the process stops.              *)
RequestDies(r) ==
  /\ Faults
  /\ ~At(r, "idle")
  /\ Finish(r)
  /\ UNCHANGED <<test, device, engine, pushed>>

(* AbortTest fails in adminAbortTest or startTest, and the error is        *)
(* dropped: the device is released all the same.                           *)
AbortIgnored(r) ==
  /\ Faults
  /\ At(r, "abort_test") /\ req[r].d # None
  /\ Goto(r, "abort_release")
  /\ UNCHANGED <<test, device, engine, pushed>>

(* The next statement of a request that has begun. *)
Step(r) ==
  \/ PendingTestForCandidate(r) \/ CheckinTx(r) \/ AdvanceToGuidelines(r)
  \/ HealthCheck(r) \/ StartEngine(r) \/ StartMark(r)
  \/ AbortStop(r) \/ AbortTest(r) \/ ReleaseDevice(r) \/ AbortIgnored(r)
  \/ InsertSessions(r) \/ InsertTestResult(r) \/ CompleteTest(r)
  \/ DeleteDeviceRow(r) \/ ExpiryQueryRefused(r)

Begin(r) ==
  \/ \E t \in Tests : \/ CreateTest(r, t) \/ AcknowledgeGuidelines(r, t)
                      \/ StartTest(r, t) \/ AdminAbortTest(r, t) \/ CancelTest(r, t)
                      \/ ResultWebhook(r, t)
  \/ \E d \in Devices :
       \/ RegisterDevice(r, d) \/ UpdateDevice(r, d) \/ DeleteDevice(r, d)
       \/ \E st \in AdminStatus : UpdateDeviceStatus(r, d, st)
       \/ \E c \in Candidates : DeviceCheckin(r, c, d)
  \/ ExpiryTick(r)

Engine == EngineFinish \/ EngineFails \/ \E t \in Tests : PushLost(t)

Next == Engine \/ \E r \in Requests : Begin(r) \/ Step(r) \/ RequestDies(r)

Spec == Init /\ [][Next]_vars

(* A handler that has begun goes on: Go runs its goroutine. *)
Fairness == \A r \in Requests : WF_vars(Step(r))

FairSpec == Spec /\ Fairness
-----------------------------------------------------------------------------
(* Properties.                                                             *)

(* Every row and every request has the columns the schema and the handlers *)
(* give it; a device exists as long as it is in use.                       *)
TypeOK ==
  /\ test   \in [Tests -> TestRow]
  /\ device \in [Devices -> DeviceRow]
  /\ engine \in Tests \cup {None}
  /\ pushed \in SUBSET Tests
  /\ req    \in [Requests -> Request]

(* The candidate acknowledged the guidelines and checked in at a device.   *)
CheckedIn(t) == test[t].acked /\ test[t].device # None

(* However check-ins, starts, aborts and results cross each other, the     *)
(* engine runs and sends, and the testing module marks as running, only    *)
(* tests whose candidate checked in at a device and acknowledged the       *)
(* guidelines (handler.go:2035-2078); and a completed test has a result,   *)
(* though resultWebhook may complete a test that nobody checked in.        *)
RunOnlyIfCheckedIn ==
  \A t \in Tests :
    /\ engine = t \/ t \in pushed \/ test[t].status = "running" => CheckedIn(t)
    /\ test[t].status = "completed" => test[t].result

(* A test keeps the device it was checked in at: two check-ins that race   *)
(* for one test on two devices never move it, nor does a late one.         *)
DeviceBindingIsFinal ==
  [][\A t \in Tests : test[t].device # None => test'[t].device = test[t].device]_vars

(* "Atomic transaction: mark test ready + device in_use" (deviceCheckin):  *)
(* a device in use is the device of the test it is in use by.  It is so    *)
(* when requests are served one by one; two requests at a time break it.   *)
HeldTestKnowsDevice ==
  \A d \in Devices :
    device[d].status = "in_use" =>
      /\ device[d].test # None
      /\ test[device[d].test].device = d

(* Served one by one, no request leaves a device in use by a test that was *)
(* aborted.                                                                *)
AbortFreesDevice ==
  (\A r \in Requests : At(r, "idle")) =>
    \A d \in Devices :
      device[d].status = "in_use" => test[device[d].test].status # "aborted"

(* A first result that resultWebhook accepted completes the test, even if  *)
(* a second result, an abort, a late start or an acknowledgement crosses   *)
(* it, as long as no statement fails.                                      *)
AcceptedResultCompletes ==
  \A t \in Tests :
    ~test[t].result /\ (\E r \in Requests : At(r, "result_sessions") /\ req[r].t = t)
      ~> test[t].status = "completed"

(* The tests as the booking module sees them. *)
Booked == INSTANCE PendingTests WITH
  status <- [t \in Tests |-> IF test[t].status \in {"none", "pending"}
                              THEN test[t].status ELSE "taken"],
  owner  <- [t \in Tests |-> IF test[t].status = "none" THEN None ELSE CandidateOf[t]]

(* The handlers keep what PendingTests promises the booking module: no     *)
(* statement returns a test to pending, and no candidate has two pending.  *)
ImplementsPendingTests == Booked!Spec

=============================================================================
