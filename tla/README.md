# ADLTS core engine: TLA+ models, model checking and proofs

This directory is a verification project for the ADLTS core engine, the back
end that books driving tests, takes payments for them, checks candidates in at
instrumented cars, runs and grades the tests. It holds TLA+ modules translated
from the source under `src/`, TLC configurations that check small instances of
them, and proofs checked by TLAPS for every value of the constants.
`PROJECT.json` maps each definition to the lines it stands for.

    tlc -config booking_seats.cfg MCBooking        # one of the runs below
    tlapm BookingProofs.tla                        # one of the proof modules

Contents: [the system](#the-system), [the modules](#the-modules),
[the runs](#the-runs), [fairness](#fairness), [the proofs](#the-proofs),
[disagreements found](#disagreements-found), [not modelled](#not-modelled),
[plan](#plan).

## The system

One Go process (`cmd/api`, wired in `internal/app`) serves an HTTP API over a
PostgreSQL database; a Python process (`services/adlts`) drives one car at a
time and scores it. Handlers run concurrently, one goroutine for each request.
With few exceptions no handler opens a transaction: **each repository call is
an autocommit statement**, so requests interleave between any two statements,
and what a handler read may be stale when it writes. A request ends early when
a statement fails, when the 30 s timeout (`app.go:123`) cancels its context, or
when the process stops.

| Component | State | Operations | Interacts with | What is hard | What makes it correct |
|---|---|---|---|---|---|
| Bookings (`internal/booking`) | `bookings` rows: status, payment status, slot, attempt counter | create, verify, schedule, reschedule, delete | slots, payments, tests | check-then-write without locks; status overwritten blindly | rejected stays rejected; a paid booking was paid for |
| Slots | `slots.booked_count`, `capacity` | create, take and return a seat | bookings | check, count and assignment are three statements with compensation | no overbooking; no seat lost |
| Payments and Chapa | `payments` rows; the transaction at the provider | initiate, retry, callback, webhook, verify | provider over HTTP, bookings, tests | duplicate and crossing notifications, lost answers, refunds, stale attempts | paid only if settled; settled is recorded; no attempt left half made |
| Test creation | a `tests` row made by `POST /internal/tests` | trigger, 409 on a pending test | bookings to testing | asked for again at each confirmation; crosses deletions | test only for a paid, existing booking; one pending for a candidate |
| Test lifecycle (`internal/testing`) | `tests` rows: status, device, acknowledgement; `test_sessions`, `test_results` | create, check-in, acknowledge, start, abort, cancel, result | devices, engine, booking | reads before and writes after the one transaction; minutes of network calls between check and write | only checked-in tests run; the first result taken completes its test |
| Devices | `devices` rows: status, `current_test_id` | register, edit, bind, release, delete | tests | bound in a transaction, released outside one | a device in use and its test know each other |
| Expiry worker | none, a ticker | abort stale tests | tests | a failing query | stale tests are aborted |
| Scoring engine (`services/adlts`) | process globals: the running flag, the controller, the webhook address | start, stop, complete, run loop, push | testing module over HTTP | one loop for each start, flags read across `await`, worker threads beside the loop | a result goes to its own test |
| Test plans | `test_plans`, `test_level_mappings`, `maneuver_configs` | create, edit, publish, retire, delete, map; maneuvers | tests | the status is read in one statement and relied on in the next | a published plan stays as it is and keeps its row |
| Stream, segmentation (`stream.go`) and Go scoring (`scoring.go`) | frame buffers, weighted totals | | lane detector | nothing that `cmd/api` or `internal/app` constructs reaches them | |
| Identity (`internal/identity`) | six account tables, one-time codes, reset tokens, invitations | register, verify, login, reset and change a password, invite, accept, resend, cancel, set a status, delete | mailer; everybody's tokens | check-then-write; several statements for one acceptance; dropped errors; stateless tokens | a code is tried a bounded number of times, a reset token works once, a used invitation stays closed, administrators come from super admins |
| Profiles and images (`identity`, `platform/media`) | rows of the account tables, files in `UPLOADS_DIR` | upload, patch, set a status, delete | the disk | four steps on two stores without a transaction | a row names a file that is there; nobody's upload deletes a file of somebody else |
| Paged listings | none | a page is two statements, rows and total | every table that is listed | rows come, go and move between two pages | what a walk misses or repeats is bounded by what changed |
| Appeals (`internal/appeal`) | `appeals`, `test_results.passed`, the window of a test | file, decide, move the window | testing, legacy sessions, experts | three statements against a moving window; decisions without a condition | a pass is earned and stays; an appeal refers to a test whose window was once open, and to an expert that exists |
| Reporting (`internal/reporting`) | `report.pdf` of each test, a singleflight group | generate, serve, analyse | testing and identity over HTTP, the disk | many requests share a call that may fail; a file is written in steps | whoever has a report made gets a whole one, and an answer |
| Recordings, mail, configuration | objects, messages | read, send | storage | I/O | |

## The modules

| Module | What it is |
|---|---|
| `Booking` | the booking module: bookings, slots, payments, the provider, creation of tests |
| `TestLifecycle` | the testing module: tests, devices, the engine seen from outside, results, expiry |
| `PendingTests` | the abstract specification both implement: a test is pending once, and a candidate has one pending test at a time |
| `AdltsEngine` | the scoring engine from inside: its event loop, run loops, worker threads and globals |
| `Identity` | the identity module: accounts, one-time codes, reset tokens, invitations |
| `Profiles` | the rows of the account tables with the images they name, and the files on disk |
| `Listings` | a walk over any of the sixteen paged listings, page by page |
| `Appeals` | appeals, the window and the result they are about, the experts that decide them |
| `Reports` | the report of a test: the file, the shared call, both routes, crashes |
| `Analysis` | the verdict of a test, from the engine's grading over the stored result to the words of the report |
| `Plans` | test plans, the levels mapped to them, the tests made from them |
| `MCBooking`, `MCTestLifecycle`, `MCAdltsEngine`, `MCIdentity` | small instances for TLC |
| `MCOffice` | `Appeals`, extended, and instances of `Profiles`, `Listings`, `Reports`, `Analysis` and `Plans`, side by side |
| `MCPromises` | `Reports`, extended, and instances of `Booking` and `TestLifecycle` under fairness, side by side |
| `BookingProofs`, `TestLifecycleProofs`, `AdltsEngineProofs`, `IdentityProofs`, `ProfilesProofs`, `ReportsProofs` | theorems about the module of that name and their TLAPS proofs |
| `ListingsProofs` | the same for `Listings`, `Plans` and `Analysis` |
| `OfficeProofs` | the same for `Appeals`, and for `MCOffice`, whose parts inherit the theorems of their modules |

### How code becomes actions

A request is a process. `req[r]` holds its program counter and the values the
handler keeps in local variables between two statements; an idle request may
begin any operation. **One action is one SQL statement, or one remote call,
with the decisions taken on its result.** Checks a handler makes on the row it
has just read are the guard of the action that reads it; the next statement
runs in a state other requests may have changed.

`Booking`:

* `VerifyBooking`/`VerifyWrite`, `ScheduleBooking`, `RescheduleBooking` with
  `SlotRead`, `RescheduleRelease`, `TakeSeat`, `AssignSlot`, `ReturnSeat`, and
  `DeleteBooking`, `DeleteRelease`, `DeleteRow` are `service.go:116-287`.
  The program counters `sched_*` and `resched_*` separate the two callers of a
  shared statement.
* `InitiatePayment`, `RetryPayment`, `RetryMark`, `RetryRead`,
  `PaymentAttempt`, `CreatePayment`, `MarkPaymentPending`, `UndoPayment`,
  `ProviderInitiate` are `service.go:301-390` and `533-555`.
* `HandleChapaWebhook`, `HandleChapaCallback`, `VerifyTransaction`,
  `WritePayment`, `ConfirmBooking`, `FailBooking`, `KeepBookingPending`,
  `TestCreationDetails`, `PostTest`, `StoreTestID` are `service.go:392-531`.
* `updateFields` writes the columns it is given and ignores how many rows it
  matched: `UpdateBookingFields` leaves a missing row alone without an error.
* The provider (`ChapaSettle`, `ChapaRefund`) is external. Each outcome is
  notified once; the return page may be loaded at any time, any number of times.
* Dates, prices, contact data, idempotent reads and list queries are left out.
  The windows a booking or a slot must lie in are a choice.

`TestLifecycle`:

* `CreateTest` (one INSERT, with the partial unique index),
  `DeviceCheckin`, `PendingTestForCandidate`, `CheckinTx` (the one transaction,
  two UPDATEs) and `AdvanceToGuidelines` are `handler.go:605-753`;
  `AcknowledgeGuidelines` is `838-853`.
* `StartTest`, `HealthCheck`, `StartEngine`, `StartMark` are `1950-2043`;
  `AdminAbortTest`, `CancelTest`, `AbortStop`, `AbortTest`, `ReleaseDevice` are
  `62-95`, `1665-1693` and `1893-1925`.
* `ResultWebhook`, `InsertSessions`, `InsertTestResult`, `CompleteTest` are
  `2086-2187`. The engine's side is one variable, the test it runs, and
  the set of results it has sent: `EngineFinish`, `EngineFails`, `PushLost`.
  In this commit the engine keeps no token for its pushes (`main.py:197`
  assigns a local variable), so its own pushes are refused. The webhook serves
  every caller that holds the token, and looks neither at what the engine has
  sent nor at the status of the test: `ResultWebhook` may begin for any test
  that exists, a pending, a running or an aborted one.
* Devices are registered with their levels encoded twice (`handler.go:130`,
  `repository.go:76`): such a device checks nobody in until it is edited. The
  field `levels` carries that.
* `ExpiryTick` and `ExpiryQueryRefused`: the query compares an enum with a
  value it does not have, PostgreSQL refuses it, the tick has no effect.

`AdltsEngine` (`services/adlts/main.py`, `test_controller.py`):

* The process has one asyncio event loop. `turn` is the coroutine that executes;
  it gives the turn back only where it awaits or ends. `start_test` is
  `StartTest` or `StartTestRaises` (the controller raises after the globals are
  overwritten) and `LaunchRun`.
* Each start creates one `_run_test`; nothing ties a loop to the test it was
  started for, so several can be alive. `LoopTop`, `FrameIgnored`,
  `ManeuverCloses`, `AppendScore`, `AllDone`/`NextManeuver`, `BuildResult`,
  `FinishTest`, `PushResult`, `ClearRun`, `LoopFails`, `FailClear` are
  `main.py:222-330` with the controller's `update` and `_finish_test`. The code
  yields after every tenth frame; the model may yield after any frame, which
  allows a superset of the schedules.
* `stop_test` and `complete_test` are plain functions, which FastAPI runs in
  worker threads: their statements interleave with the loop and with one another
  (`StopTest`, `StopAbort`, `StopClear`; `CompleteTest` to `CompletePush`).
* Scores are counted, their values (averages of floating point numbers) are
  left out. `posted` is the last result that reached the Go service, and the
  address it went to. `Restart` loses all of it.

`Identity` (`internal/identity`):

* An identifier stands for a row of one of the six account tables, with its
  table (`KindOf`) and its address (`EmailOf`), which no statement changes.
  `Insertable` is the UNIQUE address of a table; different tables may hold the
  same one.
* `RegisterCandidate`, `CreateCandidate`, `UpsertOTP`, `ResendOTP`,
  `VerifyOTP`, `CountAttempt`, `DropCode`, `ActivateCandidate` are
  `service.go:58-127`, `612-622` and `repository.go:653-687`. The DELETE of
  `DropCode` names the address only and its error is dropped; both outcomes are
  there. Six digits may repeat; here a new code differs from all before it, so
  that the history `tried` counts the comparisons of one code.
* `ForgotPassword` to `WriteReset`, `ChangePassword` and `WriteChange` are
  `service.go:295-406` and `repository.go:691-741`. `FindAccount` goes through
  the tables in the code's order and passes on when a lookup or an UPDATE fails.
* `CreateInvitation`, `AcceptInvitation`, `CreateMember`,
  `MarkInvitationUsed`, `ReadInvitation`, `UpdateInvitationToken` and
  `DeleteInvitation` are `service.go:410-608`. An invitation of the entity type
  `candidate` is refused when it is accepted, so the runs invite none. Test
  centres, which narrow what an administrator sees, are a choice.
* `UpdateStatus`, `DeleteMember`, `DeleteSuperAdmin` and `DeleteSuperAdminRow`
  are the administration in `handler.go`; `Restart` seeds the root super admin
  (`service.go:33-54`).
* Tokens are signed and stateless: `session` is the set of accounts somebody
  holds one of, and never shrinks. Whether a code, token or invitation has
  expired is a choice where the code looks. `Abandon` ends a request between two
  statements, for whatever reason; an answer lost after its statement took
  effect is not modelled apart.

`Profiles` (`identity/handler.go`, `identity/repository.go`, `platform/media`):

* An upload is `ReadOld`, `SaveFile` (the file grows from `part` to `whole`, or
  is refused), `RemoveOld`, `UpdateImage` and, when that fails, `UndoSave`:
  `handler.go:1275-1469` and `media.go`, one body for the four tables
  that have an image. `PatchImage` is a profile with a `photo_url` or `logo_url`
  that is stored as it was sent: none, or the name of any file, of whichever
  account; an authority's profile has no such field. The history `sent` keeps
  which other accounts have named a file, `made` for which one it was uploaded. `PutStatus`, `DeleteRow`, `DeleteSuperAdmin`
  and `DeleteSuperAdminRow` are the administration of all six tables.
* `PersonReads`: an invited expert has a NULL birth date, which `scanExpert`
  cannot take, so that row cannot be read.

`Listings`: a listing is a record of which statement comes first (rows or
total), what takes a row from its place, and how the size of a page is set; the
sixteen listings of the repositories are such records. `Pages` is ORDER BY,
LIMIT and OFFSET, where the rows of one rank may come in any order. A client
walks on while the total promises more. `ReadRows` and `ReadTotal` drop the
errors that the code drops and answer the others.

`Appeals` (`internal/appeal`): `CreateAppeal`, `EnforceWindow` and
`InsertAppeal` are the three statements of a filing; `ResolveAppeal` is the
transaction of a decision, which passes every test of the session's booking;
`InsertTestResult`, `CompleteTest`, `UpdateTestAdmin` and `WindowCloses` are
what the testing module and time do to a result and its window.

`Reports` (`internal/reporting`): `PostGenerate` enters the singleflight group
(`GenerateReport` makes the call or waits for the one under way, `EndCall`
hands its outcome to all that wait), `ReadFile` to `WriteRest` are `generate`
step by step, `GetReportPDF` and `ServeFile` are the other route, which looks at
the file only. A file is written from `empty` through `part` to whole. `Crash`
ends all requests and keeps the disk. Renderer, model and clients are steps that
succeed or fail.

`Analysis`: `PostGraded` is the engine's grading of the weighted mean and the
result it sends, rounded to hundredths (`test_controller.py:180-188`), as the
webhook stores it; `PostOther` is any other result a holder of the token posts,
whose score, threshold and verdict need not agree; `AcceptAppeal` turns the
verdict and leaves the score. `Strengths` and `Weaknesses` are the words of the
report for it (`analytics.go:81-118`). Scores are whole numbers of hundredths,
means are finer, texts are the conditions they stand for. Sessions do not
occur: nothing of them that would change these words reaches the report, see
the disagreements.

`Plans` (`testing/handler.go`): `ReadDraft` is the check of `updateTestPlan`
and `deleteTestPlan`, `UpdateTestPlan` and `DeleteTestPlan` the statements that
rely on it; `PublishTestPlan`, `RetireTestPlan`, `UpsertTestLevelMapping` are
one statement each; `ActiveTestPlanForLevel` and `CreateTest` make a test.

`Faults = TRUE` adds failing statements (where an error is compensated or
dropped, that path), lost answers, and requests that die between two statements.

## The runs

All bounds are constants of the configurations. A request count of 2 is what
all races of the code need: each of them is one request overtaking another.

| Run | Instance | Properties | Shows |
|---|---|---|---|
| `booking_seats` | 2 bookings, 2 slots of one seat, 2 requests, faults | `TypeOK`, `OverbookingBounded` | racing and failing requests overbook a slot by at most one for each further request |
| `booking_payments` | 1 booking, 2 payments, 2 attempts, 2 requests, faults | `PaidIsSettled` | whatever webhooks, callbacks, retries and refunds cross, a paid booking has a transaction of its own that settled |
| `booking_sequential` | 2 bookings, 2 slots, 2 payments, 2 tests, 1 request | `NoSeatLost`, `AttemptRowsBounded`, `TestOnlyIfSettled`, `RejectedIsFinal`, `ImplementsPendingTests` | served one by one, requests lose no seat, number attempts apart, undo no rejection, and create tests only for paid bookings, one pending at a time |
| `booking_paid_fails` | 1 booking, 2 payments, 1 request | `PaidNeverFails`, violated | an old failure overwrites a newer success |
| `lifecycle_races` | 1 test, 2 devices, 2 requests, faults | `TypeOK`, `RunOnlyIfCheckedIn`, `DeviceBindingIsFinal` | only checked-in, acknowledged tests run, on the device they took first, and a completed test has a result, although a result is taken for any test |
| `lifecycle_sequential` | 2 tests of one candidate, 2 devices, 1 request | `HeldTestKnowsDevice`, `AbortFreesDevice`, `ImplementsPendingTests` | served one by one, devices and tests agree and an abort frees its device |
| `engine_threads` | 1 test, 2 loops, 1 worker thread, 2 maneuvers, fair | `TypeOK`, `FlagHasLoop`, `ScoresBounded`, `PushFreesEngine`, `StoppedLoopsEnd` | however loops, stops and completions share the globals, a set flag has a loop that will end the test, and a finished or stopped loop frees the engine |
| `engine_stuck` | the same | `InProgressIsTrue`, violated | the previous test's loop clears the next test's flag; every start is refused from then on |
| `identity_codes` | 2 candidates and the root with one address, 2 codes, 2 reset tokens, 2 comparisons a code, 2 requests | `TypeOK`, `CodeTriesBounded`, `ResetTokenInOnePlace` | racing verifications and resendings try no code too often; a reset token is stored, held or set, and once |
| `identity_invitations` | 2 super admins with one address, a third and an admin with another, 2 invitations, 2 tokens, 2 requests | `PrivilegedBySuperAdmin`, `UsedInvitationIsClosed` | acceptances, resendings, cancellations, deletions and restarts in any order open no used invitation and make no administrator without a super admin |
| `office` | eight parts, see below | `TypesOK`, `RowNamesFile`, `NoOrphan`, `UploadKeepsOthersFiles`, `WalkIsBounded`, `PassIsEarned`, `PassStays`, `AppealRefers`, `WholeReport`, `VerdictExplained`, `PlanIsKept` | what profiles, listings, appeals, reports, verdicts and plans keep while requests cross, fail and are abandoned |
| `promises` | three parts: 1 booking with 2 payments, 1 test with 1 device, 1 report with 2 results, faults, broken writes and crashes; 2 requests each, fair | `AttemptIsOpenedOrFailed`, `AcceptedResultCompletes`, `RequestAnswered`, `ReportStays` | no attempt is left half made, an accepted first result completes its test, who asks for a report is answered, whatever crosses or fails, and a report once whole is never written over |

**Runs of several parts.** `MCOffice` and `MCPromises` hold specifications that
share no state. The initial state picks one, `part`, and a behaviour moves that
one only: the states are the sum of those of the parts, never their product, and
each property names the parts it is meant for. One specification of each module
is extended instead of instantiated (`Appeals`, `Reports`), so that the runs check
the very properties the theorems state. In `MCOffice` the variables of the other
parts are `None`, those of `Appeals` as they begin; in `MCPromises` the others stay
as they begin, where no fair action of theirs is enabled, so the fairness stated
is that of the part that moves. One
permutation of model values may serve two parts (`w1` to `w3` of the listings
are `p1` to `p3`, the files, in the configuration), because the parts never meet.

| Part of `office` | Instance | Properties |
|---|---|---|
| `P` | `Profiles`: 5 accounts of four kinds, 3 files, 1 request, no faults | `RowNamesFile`, `NoOrphan` |
| `Q` | `Profiles`: 3 accounts, 3 files, 2 uploads that cross | `RowNamesFile` |
| `R` | `Profiles`: a candidate and an authority, 3 files, 2 uploads, faults, image names sent | `UploadKeepsOthersFiles` |
| `L` | `Listings`: 3 rows, 3 ranks, pages of 1 or 2, 2 changes in a walk, faults | `WalkIsBounded` |
| `A` | `Appeals`: 2 tests, 1 session, 2 appeals, 1 filing in progress, 2 experts and an administrator | `PassIsEarned`, `PassStays`, `AppealRefers` |
| `D` | `Reports`: 1 test, 3 requests, 2 results, failing services | `WholeReport` |
| `N` | `Analysis`: 7 means in thousandths, four of them around the threshold of 60.00; posted scores and thresholds of 59.99 and 60.00 | `VerdictExplained` |
| `T` | `Plans`: 3 plans, 1 level, 2 tests, 3 requests | `PlanIsKept` |

These are small for a reason each. Every statement of `Profiles` names one
account, so two suffice for one to be harmed by the other, and three files for
an old one and two new ones. The means of `N` lie on both sides of the half
hundredth below the threshold, on it, and far off. A walk of three pages has a page before, at and
behind each change, and two changes let a row come while another leaves;
`MaxRank` lets all three rows be apart or tie, `MaxChanges` bounds the changes.
Decisions are single transactions, and a filing is disturbed by nothing another
filing writes, so one at a time is enough. Three requests are a call, one that
waits for it and one that comes when it ends. Three requests for plans let two
late edits meet one publication, which is what `LateEditsBounded` allows.

Identifiers are never reused, so the booking instances stop when their
identifiers are used up: they switch deadlock checking off; the walks, reports and
analyses of `office` come to an end too. The lifecycle
instances check deadlock, because a device can always be edited.
`MaxPaymentAttempts` is 3 in the code (`service.go`) and 1 or 2 in the runs,
`MaxAttempts`, the comparisons of a one-time code, is 5 in the code and 2 in the
run; `InviteKinds` names the entity types a run invites.
`MaxBatches` bounds how many batches of session rows are counted for a test; where
it is 0, as in `promises`, they are not counted.
Candidates: all bookings, and all tests, belong to one candidate, so that they
compete for the one pending test. All slots belong to one test centre.
Requests, bookings, slots, payments, tests, devices, codes, tokens and
invitations are interchangeable; the safety runs use that symmetry, the liveness runs do not.

## Fairness

* `WF_vars(Step(r))`: a handler that has begun goes on. Go schedules its
  goroutine, every statement and remote call it waits for returns or times out.
  A request never has to begin.
* `SF_vars(\E r : HandleChapaWebhook(r, p))`: the provider delivers a webhook
  it has to send. It is strong because a server that is busy now and then does
  not make the provider give up.
* `SF_vars(LoopStep(l))`: asyncio serves its ready coroutines in the order in
  which they became ready, so one that is ready again and again is served, while
  its turn may be taken in between (hence strong). `WF_vars(ThreadStep(h))`: the
  operating system schedules a worker thread that has begun.
* `WF_vars(Step(r))` in `Reports`: the goroutine of a request runs on, and each
  call it makes has a time limit (`testingcore_client.go:26-32`). That a client
  stays, that a result appears and that the process keeps running is not assumed:
  `RequestAnswered` counts a request as over when its client has left or the
  process stopped.

`Identity`, `Profiles`, `Appeals`, `Listings` and `Plans` state no liveness:
every request may be abandoned, and no walk has to end while rows keep coming.

## The proofs

TLAPS proves, for every finite number of requests, threads and maneuvers and
any sets of rows, tests and loops:

| Theorem | States |
|---|---|
| `BookingProofs!TypeCorrect` | `Spec => []TypeOK` |
| `BookingProofs!OverbookingIsBounded` | `Spec => []OverbookingBounded` |
| `BookingProofs!AttemptsAreNumbered` | `Spec => []AttemptRowsBounded` |
| `BookingProofs!PaidOnlyIfSettled` | `Spec => []PaidIsSettled` |
| `BookingProofs!TestsOnlyIfSettled` | `Spec => []TestOnlyIfSettled` |
| `BookingProofs!RequestsPendingTests` | `Spec => Taken!Spec`, the booking module implements `PendingTests` |
| `BookingProofs!RejectionIsFinal` | `Spec => RejectedIsFinal`, one request at a time |
| `BookingProofs!SeatsAreNotLost` | `Spec => []NoSeatLost`, one request at a time, `~Faults` |
| `BookingProofs!NoAttemptIsAbandoned` | `Spec => []HalfMadeAreMinded`, `~Faults` |
| `BookingProofs!AttemptsAreOpenedOrFailed` | `FairSpec /\ []CanGoOn => AttemptIsOpenedOrFailed`, `~Faults` |
| `BookingProofs!OnlyAnotherAttemptFails` | `Spec => PaidFailsByAnother`, `~Faults` |
| `TestLifecycleProofs!TypeCorrect` | `Spec => []TypeOK` |
| `TestLifecycleProofs!OnlyCheckedInTestsRun` | `Spec => []RunOnlyIfCheckedIn` |
| `TestLifecycleProofs!DeviceBindingKept` | `Spec => DeviceBindingIsFinal` |
| `TestLifecycleProofs!TestsArePendingOnce` | `Spec => Booked!Spec`, the testing module implements `PendingTests` |
| `TestLifecycleProofs!HeldTestIsKnown` | `Spec => []HeldTestKnowsDevice`, one request at a time |
| `TestLifecycleProofs!AbortsFreeDevice` | `Spec => []AbortFreesDevice`, one request at a time, `~Faults` |
| `TestLifecycleProofs!AcceptedResultsComplete` | `FairSpec /\ []CanGoOn => AcceptedResultCompletes`, `~Faults` |
| `AdltsEngineProofs!TypeCorrect` | `Spec => []TypeOK` |
| `AdltsEngineProofs!FlagTheorem` | `Spec => []FlagHasLoop` |
| `AdltsEngineProofs!ScoresTheorem` | `Spec => []ScoresBounded` |
| `AdltsEngineProofs!InProgressAlone` | `Spec => []InProgressIsTrue`, no worker thread |
| `AdltsEngineProofs!ResultsGoHome` | `Spec => []PostedHome`, no worker thread |
| `AdltsEngineProofs!FinishedTestsFreeEngine` | `FairSpec /\ []CanGoOn => PushFreesEngine` |
| `AdltsEngineProofs!EachStoppedLoopEnds` | `FairSpec /\ []CanGoOn => StoppedLoopEnds` |
| `IdentityProofs!TypeCorrect` | `Spec => []TypeOK` |
| `IdentityProofs!CodeTriesCorrect` | `Spec => []CodeTriesBounded` |
| `IdentityProofs!ResetTokenCorrect` | `Spec => []ResetTokenInOnePlace` |
| `IdentityProofs!UsedInvitationStaysClosed` | `Spec => UsedInvitationIsClosed` |
| `IdentityProofs!PrivilegedCorrect` | `Spec => []PrivilegedBySuperAdmin` |
| `OfficeProofs!TypeCorrect` | `Spec => []TypeOK` |
| `OfficeProofs!PassesAreEarned` | `Spec => []PassIsEarned` |
| `OfficeProofs!PassesStay` | `Spec => PassStays` |
| `OfficeProofs!AppealsRefer` | `Spec => []AppealRefers` |
| `ProfilesProofs!TypeCorrect` | `Spec => []TypeOK` |
| `ProfilesProofs!OthersFilesKept` | `Spec => UploadKeepsOthersFiles` |
| `ProfilesProofs!RowsNameFiles` | `Spec => []RowNamesFile`, `~Faults /\ ~Patches` |
| `ProfilesProofs!NothingIsLeft` | `Spec => []NoOrphan`, one request at a time, `~Faults /\ ~Patches` |
| `ReportsProofs!TypeCorrect` | `Spec => []TypeOK` |
| `ReportsProofs!ReportsStay` | `Spec => ReportStays` |
| `ReportsProofs!ReportsAreWhole` | `Spec => []WholeReport`, where no write breaks off |
| `ReportsProofs!NobodyWaitsInVain` | `Spec => []Joined` |
| `ReportsProofs!RequestsAnswered` | `Spec /\ Fairness /\ []CanGoOn => RequestAnswered` |
| `ListingsProofs!WalksAreBounded` | `Spec => []WalkIsBounded` |
| `ListingsProofs!PlansTyped` | `T!Spec => []T!TypeOK`, of `Plans` |
| `ListingsProofs!PlansAreKept` | `T!Spec => []T!PlanIsKept`, of `Plans` |
| `ListingsProofs!VerdictsAreExplained` | `N!Spec => []N!VerdictExplained`, of `Analysis` |
| `OfficeProofs!OfficeTyped` | `OfficeSpec => []TypesOK` |
| `OfficeProofs!OfficeRowsNameFiles` | `OfficeSpec => []RowNamesFile` |
| `OfficeProofs!OfficeNothingIsLeft` | `OfficeSpec => []NoOrphan` |
| `OfficeProofs!OfficeFilesKept` | `OfficeSpec => UploadKeepsOthersFiles` |
| `OfficeProofs!OfficeWalksAreBounded` | `OfficeSpec => []WalkIsBounded` |
| `OfficeProofs!OfficePlansAreKept` | `OfficeSpec => []PlanIsKept` |
| `OfficeProofs!OfficeReportsAreWhole` | `OfficeSpec => []WholeReport` |
| `OfficeProofs!OfficeVerdictsAreExplained` | `OfficeSpec => []VerdictExplained` |

They assume only the named assumptions of the modules: finitely many requests,
one at least; finitely many worker threads, one maneuver at least; an owner for each booking or test; positive capacities and
limits; the root is a super admin; `None` is no identifier. Where a module has
no such assumptions, its theorems state what they need:

* `Apart` and `PlansApart`: `None` is no file, account, request, plan or
  result, and a result is none of the values a file may have without one.
* `SizesApart`: a table is finite, and a page has one row at least.
* `SomeRequests`: plans have finitely many requests, and one at least.
* `Scales`: means and the threshold are natural numbers, a hundredth has one unit
  of the mean at least, posted scores are integers, and no result is `None`.
* `CanGoOn`, of the theorems about liveness: a request, or a loop of the engine,
  that has begun and does not wait for another one can take its next step. The
  provers know nothing of ENABLED, so this is a hypothesis, and it is a narrow
  one: where a program counter stands, one statement is next, and each has an
  outcome whatever the rows say. TLC evaluates ENABLED, and finds the hypothesis
  true in every reachable state of the instances of `engine_threads` and
  `promises`; no run repeats that. What it leaves to prove is
  everything that is about others: that no other step takes back, hinders or
  overtakes what is promised.

Some theorems are about a case, as are the properties they state: one request at
a time (`\A r, q \in Requests : r = q`), no failing statement (`~Faults`), no
broken write and no stop of the process (`~Breaks`), no worker thread, and so
neither a stop nor a completion (`Threads = {}`), or, in `Smooth`, neither
failures nor names of images sent. What happens outside these cases is among the
disagreements below.

**Overbooking.** The bound alone is not inductive: between the check and the
increment a request holds a promise the count does not show. `SeatInv` counts
them: for each slot, `booked` plus the requests that have passed the check
and have not counted yet is at most the capacity plus the number of requests
less one. A check adds a promise only when the count is below the capacity, so
at most all the others hold one; an increment turns a promise into a seat.
The proof rests on cardinalities of finite sets of requests.

**Attempts.** `NumberInv` counts, for each booking and number, the rows with
that number and the requests about to insert one. A request that computes a
number computes the largest plus one, which no row has; from then on only the
other requests may add rows with it.

**Payments and tests.** `MoneyInv` conjoins what each step relies on:
`RowsOwned` (an inserted payment row belongs to a booking and keeps it),
`SuccessIsSettled` (a row marked success has a settled transaction),
`RequestKnows` (what a request at each program counter may assume of the
payment and the booking it keeps: a request about to confirm has seen
its transaction settled), `OpeningApart` (the attempts that initiations are
about to open are distinct and not open yet, so that opening one resets no
other), and the two properties. Refunds are why the property speaks of money
that was taken: `Settled` is stable.

`MindedInv` says of an attempt that is recorded and not open at the provider
that some request is about to open it or to mark it failed (`HalfMadeAreMinded`),
and that a row is set back to pending only when its transaction is open
(`KeepsOpened`). `FailingInv` says what a request that is about to fail a booking
knows: its transaction was refused or refunded (`Refusing`), or was not opened
and is in its hands alone (`Unopened`, `UnopenedApart`). So a paid booking whose
transaction stands is failed only for the sake of another attempt, which is the
way `booking_paid_fails` shows: no other order of requests fails one.

**One request at a time.** What a handler has read holds until its last
statement only because no other request runs in between. `SerialInv` says so
program counter by program counter (`StillKnows`: a verification holds a booking
that is still pending, a request that schedules one that is verified, a request
that charges one that is not rejected), and adds that a booking has no slot
before it is scheduled and no payment row before it is verified. No step then
writes over a rejection, whatever fails. For the seats, `SeatsKept` counts what
is between two statements: `booked`, and the seat the request gave back ahead of
its row, are at most the bookings on the slot and the seat it took ahead of its
row. Only with `~Faults`: a request that dies between the two loses the seat.

**Test lifecycle.** `LifeInv` conjoins `PendingIsFree` (a pending or missing
test has no device), `AckIsKept` (a test at
`acknowledged` or beyond was acknowledged), `RequestKnows` (a start holds a
test that is checked in, a request about to complete a test one that has a
result) and `RunOnlyIfCheckedIn`. Aborts and blind status
writes do not disturb it because the device and the acknowledgement of a
test are never cleared. The binding follows step by step: the only write of
`device_id` is guarded by `status = 'pending'`, and a pending test has none.

With one request at a time, `HeldTestKnowsDevice` needs `TakesPending`: a
check-in in its transaction has read a test that is still pending, so both its
UPDATEs match a row. No `~Faults` is needed: a device that a failed
statement leaves in use still has its test. `AbortFreesDevice` does need it;
`FreeInv` says that a device in use by an aborted test has the abort right before
its release, and that the abort still knows the device of the test.

**Engine.** `FlagHasLoop` is inductive with the types: a loop ends only when it
has seen the flag clear or clears it. The types need two more facts: `TurnInv`
(the loop that has the turn is the one between two awaits) and `IndexInv` (a
loop between its check of the maneuver index and its increment still sees an
index below the end, since only the coroutine that has the turn writes the
index). `ScoresBounded` is strengthened to `CountInv`, which counts promises: a
score, or a loop or thread about to append one, is within the bound; while the
test runs each score beyond the last maneuver has a thread about to finish the
test, and the loops stay one short of all unless one of them is closing.

Without stops and completions, `AloneInv` says that one loop at most is alive
(`OneLoop`), that the flag is set from its first turn on (`FlagIsSet`), and that
the test is over before it posts or clears (`TestOver`); `HomeInv` that its
address and its result are those of the controller's test (`OwnResult`). Both
are false with a worker thread: what `engine_stuck` shows and what
`main.py:431` does take one.

**Identity.** The types need `Knows`: what a request at each program counter
has read. `CodeInv` says that a stored code was issued, is stored for one
address only, and was tried no more often than its row counts; a resent code is
fresh and starts at zero, and a late DELETE only removes rows. `TokenInv` spells
`ResetTokenInOnePlace` out place by place and adds that whatever is in a
place was issued, so a fresh token is in none; every other step moves a token
on or loses it. `InviterInv` adds that each invitation to a privileged type
carries a super admin, also when it is cancelled or its inviter is deleted,
and that verifications act on candidates only, whose blind UPDATE revives no
deleted administrator. `UsedInvitationIsClosed` follows statement by statement.

**Appeals.** `Named` is what a filing in progress and a stored appeal refer to: a
filing that has found the window open is about a test in `opened`, and so is an
appeal. `PassIsEarned` needs nothing else, `PassStays` follows from the one
INSERT of a result, which wants the row missing, and from decisions that only
ever write a pass. For `ResolverExists` a deletion must meet the foreign key.

**Profiles.** `Own` says that the image a row names and the old file of an
upload were each made for the account in question or named by its client
(`Named`, in `RowsNameOwn` and `OldIsOwn`), that the new file of an upload was
made for its account (`NewIsOwn`), and that a request that is not idle has an
account (`Known`). It holds through failures, and through any name that is sent,
since a name is recorded as it enters the row. A step that removes a file
removes the `old` or `new` one of its request: files of others are safe exactly
where clients send no names of theirs.

`RowNamesFile` needs `Files`: in a run that is `Smooth`, the file an upload has
saved is whole, and no row and no other request knows its name (`NewIsApart`);
the image of a row is there, or an upload for it has just deleted it
(`ImageIsThere`). It holds for any number of uploads that cross. For `NoOrphan`,
`Tidy` adds that with one request at a time the old image it read is still the
image of the row (`OldIsCurrent`), and gone before the UPDATE (`OldIsGone`).

**Reports.** `Calls` ties the group to the requests: the maker of a call, and
nobody else, is between `ReadFile` and `return` for its test (`OneCall`), so no
file is read while it is written, and nothing is written over a file
(`MakesNew`: who renders has found none). `WholeReport` adds `WInv`: what was
returned or sent is a result or an error, and a file half written is being
written by the maker of the call. Without `~Breaks` the latter is false, and so is
the property: see the disagreements.

`Joined` says that a call of the group has a request that makes it, for its
test, and that whoever waits has such a call. It holds through failures and
restarts, and is what `RequestAnswered` rests on.

**Plans.** The bound of `LateEditsBounded` is not inductive by itself. `LateInv`
counts, for each plan past its draft, its late edits together with the requests
that still hold it as a draft (`Writers`): at most all but the one that
published it. A late edit uses up a writer, and nobody becomes a writer of a plan
past its draft. For the tests, `InsertsPast` says that a creation holds a plan
past its draft, which no statement takes back to it.

**Listings.** What a walk owes is counted by positions: a row that keeps a place
of its own (`Alone`) has `Ahead(x)` before it. The border is the offset up to
which pages were given. Rows that were given and now stand behind the border
(`Pushed`) may be given again: `TwiceInv` bounds them and the repeated ones
by `came`. Rows that were not given and stand before it (`Pulled`) are missed:
`PulledInv` bounds them by `left`. A row that comes or leaves moves the others
by one place, so at most one of them crosses the border. `TotalInv` and
`EndInv` say what that means for a total counted first and for the end. All of it
is about cardinalities of finite sets; no page has to be computed, and so no
induction over pages is needed.

**Analysis.** `AnalysisInv` says what is stored of the engine's grading: no
critical failure, the engine's threshold, a score within half a hundredth of the
mean, and the verdict on the mean unless an appeal was accepted.
`RoundingKeepsVerdict` is the arithmetic: a mean that reaches the threshold is
not rounded below it, and one that does not reach it is rounded up to it only from
within half a hundredth (`AlmostPasses`). It is nonlinear in the unit and the
score, which is why the factors are named and hidden before the comparison.

**The office.** `MCOffice` sets parts side by side that share nothing.
`OfficeProofs` instantiates the modules with the proofs in the same way and
shows that each part is the same formula there (`SameP` to `SameT`), that no
behaviour changes parts (`PartSteps`), and that the values of the office meet
the assumptions (`OfficeAssumptions`, `OfficeScales`, from `OfficeValues` and
`OfficeResults`, which TLC evaluates). Each property of the run is then an instance of a theorem.

**Liveness.** Weak and strong fairness and ENABLED are atoms to the provers, so a
theorem about liveness is a chain of leads-to steps, from one program counter to
the next, under one quantifier: for each request or loop, `[](P => <>G)` from
"a step of another one leaves `P`, or reaches `G`", "its own step reaches `G`" and
"it can take one" (`CanGoOn`).
* Attempts: who minds an attempt moves on from `pay_mark` to `pay_call` to its
  end (`MindedMoves`), with `MindedInv` to say that somebody does.
* Results: the request that accepted a result goes from the sessions to the
  result to the completion (`GradingSteps`), whatever crosses it.
* Reports: who waits for a call is led by the steps of who makes it, statement
  by statement, since a call ends for all that wait for it at once (`InCall`).
* Engine: fairness is strong because the turn comes and goes. `TurnGivenBack`
  shows that a coroutine that executes comes closer to its next await with each
  step; a loop that is ready then finds the turn free again and again.
  `StoppedLoopEnds` is `StoppedLoopsEnd` for one loop at a time: that all of them
  have ended at once needs an induction over the loops with a temporal formula.

**Refinement.** Both modules map their tests to the abstract status `none`,
`pending`, `taken`. Each action is a creation, a taking, or a stutter: the
proofs go through the actions with the type invariant (and, for the booking
module, the ownership of test rows) at hand. The steps of `PendingTests` that
the booking module takes for its environment are the ones the testing
module is proved to make.

Only model-checked: `StoppedLoopsEnd` in full, where the theorem is about one
loop at a time; that `CanGoOn` holds, which speaks of ENABLED; and the
violations.

## Disagreements found

Each has a run whose counterexample shows it; `PROJECT.json` quotes the line
of the repository it contradicts.

* `booking_paid_fails`: `failPayment` (`service.go:454`) overwrites a confirmed
  booking. The lifecycle in `domain/booking.go:18-22` leads nowhere from
  `confirmed` to `payment_failed`. `OnlyAnotherAttemptFails` shows that the
  request is always one about another attempt than the one that paid.
* `engine_stuck`: a loop or a stop clears `_running_test` without asking whose
  test set it (`main.py:314`, `326`, `408`). The controller of the next test is
  left running with no loop: `start_test` answers "A test is already in
  progress." (`test_controller.py:63`), `stop_test` that none is running.
  `InProgressAlone` shows that it takes a stop or a completion.

Met while modelling and described here without a run, since each follows from
one statement, or from the absence of one: `handleChapaWebhook` answers 200
because "errors are handled internally" (`handler.go:266`), but a failed
verification is not repeated and the settled payment stays pending; the "atomic
transaction" of the check-in (`testing/handler.go:722`) does not look at the
rows its first UPDATE matched, so a check-in that crosses a cancellation puts
the device in use for nobody (`HeldTestKnowsDevice` with two requests); a slot is overbooked by racing
schedules, where `OverbookingBounded` gives the exact extent; a refused
deletion has already returned the seat; a confirmation that is repeated after
the first test left pending creates a second test; the sessions of a result
that arrives twice are inserted twice; a result posted for a test that is
pending, aborted or was never checked in is stored and completes it, since
`resultWebhook` looks at no status (`testing/handler.go:2086-2187`); a completed test keeps its device; the
stop of an abort ends whatever run the engine has; a start writes its test's
status without the `WHERE` clause `README.md:330-339` describes as optimistic
concurrency control (`repository.go:616`); `complete_test` reads the webhook
address after it freed the engine (`main.py:431`), so a start in between
redirects the result; a loop that survives a stop and a start scores the next
test and posts its result to its own address; devices carry a string where
a JSON array is documented; the expiry query is refused at each tick; the
engine does not keep the webhook's token; a late DELETE of a used code removes
the newer one of the same address, or fails and leaves the old one usable again
(`repository.go:686`); a verification activates a candidate suspended meanwhile;
an acceptance that has read its invitation outlives the cancellation; a reset
sets the password of the first table that has the address; the root super
admin can be deleted when the read that protects it fails (`handler.go:915`),
and the next start seeds it again.

Profiles and images: `media.Replace` "atomically swaps" (`media.go:118`), but
the old file is deleted before the row is updated, and when the UPDATE fails the
new one is deleted as well: the row then names a file that is not there, which
is why `RowNamesFile` asks for statements that succeed. Two uploads for one
account leave the file of the first without a row (`NoOrphan` is checked for one
at a time). A `photo_url` or `logo_url` that is patched is stored without a look
at it (`identity/handler.go:1151`, `1171`, `1185`): it may name a file that is
not there, or one of another account, and the next upload then deletes that
file (`handler.go:1298`, `media.go:126`), which leaves the other account's row
without it. An
invited expert cannot be read at all (`scanExpert`), so no listing that
reaches the row, no profile and no upload work for it.

Listings: the nine that send the rows first drop the error of the COUNT and of `rows.Err`, so a walk
that broke off looks complete; rows that tie in the ordering column may be given
twice or never. `WalkIsBounded` says what remains true. `ListDevices` sends its
COUNT, whose connection is given back only when it is scanned, before it asks
for a second connection (`testing/repository.go:117`): twenty-five at once
(`db.go:21`) wait for each other until the time limit, and the early return then
loses the first connections to the pool for good.

Appeals: "Experts and Admins can resolve appeals" (`appeal/routes.go:19`), but
`appeals.expert_id` refers to `experts`, so a decision of an administrator is
always refused; an appeal of a test without a window is answered as an error of
the server; an administrator may open the window of a test that was never graded
(`testing/handler.go:1629-1663`), which is then appealed like any other; the legacy `sessions` an appeal needs are written by the
seed only.

Reports: a file that was half written when the process stopped is the report
from then on, since only an empty or missing one is made again; `getReportPDF`
may serve a file that another request is writing; a report is not made again
when an accepted appeal changes its result. What a report says of maneuvers is
empty: `TestSession` and `ManeuverEvent` have no JSON names
(`domain/testing.go:283-357`), so the snake-case ones of
`reporting/types.go:46-74` find no name, type, offset or critical failure; the
webhook stores sessions without score and type, and no events. The weakest
maneuver that `analytics_test.go` expects and the most common mistake are blank.
A mean of 59.996 fails, is sent as 60.0, and the report of the failure praises a
passing score and names no weakness (`test_controller.py:180`, `188`): this is what
`AlmostPasses` excepts. After an accepted appeal the report of a pass goes on to
say that the score is below the threshold.

Plans: "only draft plans can be updated" (`handler.go:1252`), but a publication
between the check and the UPDATE or DELETE is not noticed: `LateEditsBounded`
gives the extent, and with it a mapped and active plan can be deleted as long as
no test was made from it. A retired plan can be published again. Every creation
of a maneuver is refused, because its INSERT leaves out `qr_code_value`
(`repository.go:939`, `002a_testing_core.sql:134`), and answered as a conflict:
a plan that is not seeded never gets a maneuver, so `startTest` answers
"no maneuvers configured". Reordering a dense order is refused for every order
but the one it has, since each UPDATE is checked against UNIQUE
(`repository.go:972`). `DeleteManeuverConfig` does not renumber the siblings its
comment names (`repository.go:966`). Two edits of one maneuver that cross write
whole rows, so the second takes the fields of the first back.

## Not modelled

* `ArchiveBooking`, `SetFinishing` and the repository's `CheckinTest` and
  `DeviceCheckin`: no caller reaches them.
* `rescheduleTestByBooking`: writes time columns only.
* Tests an administrator creates without a booking are in `TestLifecycle`
  (`CreateTest`) and not in `Booking`.
* Validation of bodies, authentication, dates and prices: outcomes are choices.
* Maneuvers: see the disagreements. Edits and deletions are single statements,
  a reordering is one transaction, a start only counts the rows, and none can be
  created through the API.
* Stream ingestion, segmentation, the Go orchestrator and its scoring: nothing
  that `cmd/api` or `internal/app` constructs reaches them in this commit, so
  `FinalizeTest` has no caller. `Appeals` and `Analysis` take results as the
  webhook stores them.
* Recordings: one read of a row and a stream of objects that another process
  wrote.
* Image processing, floating point scores, text generation, rendering, mail,
  object storage, configuration, seed data: data processing and I/O.
* The connections of the pool: see `ListDevices` above.
* In `Identity` and `Profiles`: fields no statement relates to anything;
  refreshing a token, which looks at no row.

## Plan

Order of work, most important behaviour first.

1. `Booking` with seats, payments and creation of tests; `PendingTests`; proofs
   of its safety. *Done.*
2. `TestLifecycle` with check-in, start, abort and results; its refinement of
   `PendingTests`; proofs. *Done.*
3. `AdltsEngine`: the Python engine with one loop for each start, the
   controller, stop and complete in worker threads, and the push of results;
   proofs of its safety. *Done.*
4. `Identity`: one-time codes, reset tokens, invitations with racing
   acceptance, cancellation and resending; proofs of its safety. *Done.*
5. `Profiles`, `Appeals` and `Reports`, with proofs of their safety; `Listings`,
   `Analysis` and `Plans`. *Done.*
6. Proofs of the properties for requests served one by one, of `RowNamesFile`,
   `NoOrphan`, `PlanIsKept`, `WalkIsBounded` and the verdict; the
   office as an instance of them; liveness from `CanGoOn`; what the two violations
   take. *Done.*
7. `Exam`: `Booking`, `TestLifecycle` and `AdltsEngine` composed over shared
   tests. Today they meet in `PendingTests` only, which the first two implement;
   the product of the three needs a coarser booking to stay small.
