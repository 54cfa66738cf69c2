---------------------------- MODULE AdltsEngine ----------------------------
(***************************************************************************)
(* The scoring engine (services/adlts): the globals of main.py, the one    *)
(* TestController, and everything that runs beside one another on them.    *)
(*                                                                         *)
(* The process has one asyncio event loop.  start_test and the loops       *)
(* _run_test are coroutines: `turn` is the one that executes, and it gives *)
(* the turn back only where it awaits or ends.  stop_test and              *)
(* complete_test are plain functions, which FastAPI runs in worker threads *)
(* that interleave with everything, statement by statement.                *)
(***************************************************************************)
EXTENDS Naturals, FiniteSets

CONSTANTS
  Tests,         \* identifiers of tests; each is also the webhook address
                 \* the Go service builds from it (callAdltsStartTest)
  Runs,          \* bound: executions of _run_test alive at the same time
  Threads,       \* bound: stop and complete requests served at the same time
  NumManeuvers,  \* length of MANEUVER_SEQUENCE
  None           \* no test, no address, no coroutine

ASSUME NumManeuversAssumption == NumManeuvers \in Nat \ {0}
ASSUME ThreadsAssumption      == IsFiniteSet(Threads)
ASSUME NoneAssumption         == None \notin Tests \cup Runs

VARIABLES
  flag,      \* _running_test
  url,       \* _go_webhook_url
  ctl,       \* _test_controller
  turn,      \* the coroutine that executes, a member of Runs or None
  loop,      \* the executions of _run_test, with their local variables
  thr,       \* the worker threads, with their local variables
  posted     \* the last result posted to the Go service, and where to

vars == <<flag, url, ctl, turn, loop, thr, posted>>

-----------------------------------------------------------------------------
Result   == [test : Tests \cup {None}, scores : Nat]
NoResult == [test |-> None, scores |-> 0]
NoPost   == [test |-> None, scores |-> 0, to |-> None]

(* maneuver_index and the length of _scores; their contents are averages   *)
(* of floating point numbers.                                              *)
Controller == [state  : {"idle", "running", "finished"},
               test   : Tests \cup {None},
               index  : 0 .. NumManeuvers,
               scores : Nat]

LoopPC == {"none", "launch", "top", "update", "append", "advance",
           "build", "persist", "push", "clear", "fail"}

(* url is the parameter go_webhook_url, fixed at the start. *)
Loop == [pc : LoopPC, url : Tests \cup {None}, result : Result]

ThreadPC == {"idle", "stop_abort", "stop_clear", "cmp_state", "cmp_append",
             "cmp_build", "cmp_persist", "cmp_clear", "cmp_push"}

Thread == [pc : ThreadPC, result : Result]

NoLoop     == [pc |-> "none", url |-> None, result |-> NoResult]
IdleThread == [pc |-> "idle", result |-> NoResult]

LoopGoto(l, p)   == loop' = [loop EXCEPT ![l].pc = p]
ThreadGoto(h, p) == thr' = [thr EXCEPT ![h].pc = p]

(* what _finish_test reads before it writes the file *)
BuiltResult == [test |-> ctl.test, scores |-> ctl.scores]

Post(r, to) == posted' = [test |-> r.test, scores |-> r.scores, to |-> to]

Init ==
  /\ flag = FALSE
  /\ url  = None
  /\ ctl  = [state |-> "idle", test |-> None, index |-> 0, scores |-> 0]
  /\ turn = None
  /\ loop = [l \in Runs |-> NoLoop]
  /\ thr  = [h \in Threads |-> IdleThread]
  /\ posted = NoPost

-----------------------------------------------------------------------------
(* Starting.                                                               *)

(* Mutation: the list of scores is not emptied. *)
StartTestKeepsScores(l, t) ==
  /\ turn = None
  /\ ~flag
  /\ ctl.state # "running"
  /\ loop[l].pc = "none"
  /\ url'  = t
  /\ ctl'  = [ctl EXCEPT !.state = "running", !.test = t, !.index = 0]
  /\ turn' = l
  /\ loop' = [loop EXCEPT ![l] = [NoLoop EXCEPT !.pc = "launch", !.url = t]]
  /\ UNCHANGED <<flag, thr, posted>>

(* start_test: a coroutine without an await, but the worker threads see    *)
(* the controller running before _running_test is set.                     *)
StartTest(l, t) ==
  /\ turn = None
  /\ ~flag
  /\ ctl.state # "running"
  /\ loop[l].pc = "none"
  /\ url'  = t
  /\ ctl'  = [state |-> "running", test |-> t, index |-> 0, scores |-> 0]
  /\ turn' = l
  /\ loop' = [loop EXCEPT ![l] = [NoLoop EXCEPT !.pc = "launch", !.url = t]]
  /\ UNCHANGED <<flag, thr, posted>>

(* TestController.start_test raises "A test is already in progress."; the  *)
(* globals above the call are already overwritten.                         *)
StartTestRaises(t) ==
  /\ turn = None
  /\ ~flag
  /\ ctl.state = "running"
  /\ url' = t
  /\ UNCHANGED <<flag, ctl, turn, loop, thr, posted>>

LaunchRun(l) ==
  /\ loop[l].pc = "launch"
  /\ flag' = TRUE
  /\ turn' = None
  /\ LoopGoto(l, "top")
  /\ UNCHANGED <<url, ctl, thr, posted>>

-----------------------------------------------------------------------------
(* _run_test.  A loop gives its turn back after every tenth frame; which   *)
(* frames those are is a choice, and to keep the turn is to take it again. *)

(* Mutation: `while True`; the loop ends only with its test. *)
LoopTopUnflagged(l) ==
  /\ loop[l].pc = "top"
  /\ turn = None
  /\ turn' = l
  /\ LoopGoto(l, "update")
  /\ UNCHANGED <<flag, url, ctl, thr, posted>>

LoopTop(l) ==
  /\ loop[l].pc = "top"
  /\ turn = None
  /\ \/ /\ flag
        /\ turn' = l
        /\ LoopGoto(l, "update")
     \/ /\ ~flag
        /\ turn' = None
        /\ loop' = [loop EXCEPT ![l] = NoLoop]
  /\ UNCHANGED <<flag, url, ctl, thr, posted>>

(* No frame, no QR code, the code of another maneuver, a controller that   *)
(* is not running, or one that has no maneuver left: update returns None.  *)
FrameIgnored(l) ==
  /\ loop[l].pc = "update"
  /\ turn' = None
  /\ LoopGoto(l, "top")
  /\ UNCHANGED <<flag, url, ctl, thr, posted>>

(* The code of the current maneuver. *)
ManeuverCloses(l) ==
  /\ loop[l].pc = "update"
  /\ ctl.state = "running"
  /\ ctl.index < NumManeuvers
  /\ LoopGoto(l, "append")
  /\ UNCHANGED <<flag, url, ctl, turn, thr, posted>>

AppendScore(l) ==
  /\ loop[l].pc = "append"
  /\ ctl' = [ctl EXCEPT !.scores = @ + 1]
  /\ LoopGoto(l, "advance")
  /\ UNCHANGED <<flag, url, turn, thr, posted>>

(* all maneuvers have a score: the test is finished *)
AllDone(l) ==
  /\ loop[l].pc = "advance"
  /\ ctl.scores >= NumManeuvers
  /\ LoopGoto(l, "build")
  /\ UNCHANGED <<flag, url, ctl, turn, thr, posted>>

NextManeuver(l) ==
  /\ loop[l].pc = "advance"
  /\ ctl.scores < NumManeuvers
  /\ ctl' = [ctl EXCEPT !.index = @ + 1]
  /\ IF ctl.index + 1 < NumManeuvers
       THEN LoopGoto(l, "top") /\ turn' = None
       ELSE LoopGoto(l, "build") /\ UNCHANGED turn
  /\ UNCHANGED <<flag, url, thr, posted>>

(* _finish_test: the result is read off the controller, written to a file, *)
(* and only then the state changes.                                        *)
BuildResult(l) ==
  /\ loop[l].pc = "build"
  /\ loop' = [loop EXCEPT ![l] = [@ EXCEPT !.pc = "persist", !.result = BuiltResult]]
  /\ UNCHANGED <<flag, url, ctl, turn, thr, posted>>

FinishTest(l) ==
  /\ loop[l].pc = "persist"
  /\ ctl'  = [ctl EXCEPT !.state = "finished"]
  /\ turn' = None
  /\ LoopGoto(l, "push")
  /\ UNCHANGED <<flag, url, thr, posted>>

(* await _push_result: the request reaches the Go service or not, and any  *)
(* failure is logged and dropped.                                          *)
PushResult(l) ==
  /\ loop[l].pc = "push"
  /\ LoopGoto(l, "clear")
  /\ Post(loop[l].result, loop[l].url) \/ UNCHANGED posted
  /\ UNCHANGED <<flag, url, ctl, turn, thr>>

(* Mutation: the flag is left to stop_test. *)
ClearRunLeavesFlag(l) ==
  /\ loop[l].pc = "clear"
  /\ turn = None
  /\ LoopGoto(l, "top")
  /\ UNCHANGED <<flag, url, ctl, turn, thr, posted>>

(* back from the await *)
ClearRun(l) ==
  /\ loop[l].pc = "clear"
  /\ turn = None
  /\ flag' = FALSE
  /\ loop' = [loop EXCEPT ![l] = NoLoop]
  /\ UNCHANGED <<url, ctl, turn, thr, posted>>

(* except Exception: the controller is aborted, then the flag cleared. *)
LoopFails(l) ==
  /\ loop[l].pc = "update"
  /\ ctl' = [ctl EXCEPT !.state = "idle"]
  /\ LoopGoto(l, "fail")
  /\ UNCHANGED <<flag, url, turn, thr, posted>>

(* Mutation: the exception ends the loop, nothing else. *)
FailWithoutClear(l) ==
  /\ loop[l].pc = "fail"
  /\ turn' = None
  /\ loop' = [loop EXCEPT ![l] = NoLoop]
  /\ UNCHANGED <<flag, url, ctl, thr, posted>>

FailClear(l) ==
  /\ loop[l].pc = "fail"
  /\ flag' = FALSE
  /\ turn' = None
  /\ loop' = [loop EXCEPT ![l] = NoLoop]
  /\ UNCHANGED <<url, ctl, thr, posted>>

-----------------------------------------------------------------------------
(* Worker threads: stop_test and complete_test.                            *)

StopTest(h) ==
  /\ thr[h].pc = "idle"
  /\ flag
  /\ ThreadGoto(h, "stop_abort")
  /\ UNCHANGED <<flag, url, ctl, turn, loop, posted>>

(* Mutation: abort leaves the controller in TestState.FAILED. *)
StopAbortFails(h) ==
  /\ thr[h].pc = "stop_abort"
  /\ ctl' = [ctl EXCEPT !.state = "failed"]
  /\ ThreadGoto(h, "stop_clear")
  /\ UNCHANGED <<flag, url, turn, loop, posted>>

StopAbort(h) ==
  /\ thr[h].pc = "stop_abort"
  /\ ctl' = [ctl EXCEPT !.state = "idle"]
  /\ ThreadGoto(h, "stop_clear")
  /\ UNCHANGED <<flag, url, turn, loop, posted>>

StopClear(h) ==
  /\ thr[h].pc = "stop_clear"
  /\ flag' = FALSE
  /\ ThreadGoto(h, "idle")
  /\ UNCHANGED <<url, ctl, turn, loop, posted>>

CompleteTest(h) ==
  /\ thr[h].pc = "idle"
  /\ flag
  /\ ThreadGoto(h, "cmp_state")
  /\ UNCHANGED <<flag, url, ctl, turn, loop, posted>>

CompleteChecks(h) ==
  /\ thr[h].pc = "cmp_state"
  /\ \/ ctl.state # "running" /\ ThreadGoto(h, "idle")
     \/ ctl.state = "running" /\ ctl.index < NumManeuvers /\ ThreadGoto(h, "cmp_append")
     \/ ctl.state = "running" /\ ctl.index = NumManeuvers /\ ThreadGoto(h, "cmp_build")
  /\ UNCHANGED <<flag, url, ctl, turn, loop, posted>>

CompleteAppend(h) ==
  /\ thr[h].pc = "cmp_append"
  /\ ctl' = [ctl EXCEPT !.scores = @ + 1]
  /\ ThreadGoto(h, "cmp_build")
  /\ UNCHANGED <<flag, url, turn, loop, posted>>

CompleteBuild(h) ==
  /\ thr[h].pc = "cmp_build"
  /\ thr' = [thr EXCEPT ![h] = [pc |-> "cmp_persist", result |-> BuiltResult]]
  /\ UNCHANGED <<flag, url, ctl, turn, loop, posted>>

CompleteFinish(h) ==
  /\ thr[h].pc = "cmp_persist"
  /\ ctl' = [ctl EXCEPT !.state = "finished"]
  /\ ThreadGoto(h, "cmp_clear")
  /\ UNCHANGED <<flag, url, turn, loop, posted>>

CompleteClear(h) ==
  /\ thr[h].pc = "cmp_clear"
  /\ flag' = FALSE
  /\ ThreadGoto(h, "cmp_push")
  /\ UNCHANGED <<url, ctl, turn, loop, posted>>

(* The address is the global one, read after the engine was freed. *)
CompletePush(h) ==
  /\ thr[h].pc = "cmp_push"
  /\ thr' = [thr EXCEPT ![h] = IdleThread]
  /\ Post(thr[h].result, url) \/ UNCHANGED posted
  /\ UNCHANGED <<flag, url, ctl, turn, loop>>

-----------------------------------------------------------------------------
(* The process restarts: nothing of its state outlives it. *)
Restart ==
  /\ flag' = FALSE
  /\ url'  = None
  /\ ctl'  = [state |-> "idle", test |-> None, index |-> 0, scores |-> 0]
  /\ turn' = None
  /\ loop' = [l \in Runs |-> NoLoop]
  /\ thr'  = [h \in Threads |-> IdleThread]
  /\ UNCHANGED posted

LoopStep(l) ==
  \/ LaunchRun(l) \/ LoopTop(l)
  \/ FrameIgnored(l) \/ ManeuverCloses(l) \/ AppendScore(l)
  \/ AllDone(l) \/ NextManeuver(l) \/ BuildResult(l) \/ FinishTest(l)
  \/ PushResult(l) \/ ClearRun(l) \/ LoopFails(l) \/ FailClear(l)

ThreadStep(h) ==
  \/ StopAbort(h) \/ StopClear(h)
  \/ CompleteChecks(h) \/ CompleteAppend(h) \/ CompleteBuild(h)
  \/ CompleteFinish(h) \/ CompleteClear(h) \/ CompletePush(h)

Request ==
  \/ \E t \in Tests : StartTestRaises(t) \/ \E l \in Runs : StartTest(l, t)
  \/ \E h \in Threads : StopTest(h) \/ CompleteTest(h)

Next ==
  \/ Request
  \/ \E l \in Runs : LoopStep(l)
  \/ \E h \in Threads : ThreadStep(h)
  \/ Restart

Spec == Init /\ [][Next]_vars

(* The event loop serves its ready coroutines in turn, so that one which   *)
(* is ready again and again is served; the threads that have begun are     *)
(* scheduled by the operating system.                                      *)
Fairness ==
  /\ \A l \in Runs : SF_vars(LoopStep(l))
  /\ \A h \in Threads : WF_vars(ThreadStep(h))

FairSpec == Spec /\ Fairness

-----------------------------------------------------------------------------
(* Properties.                                                             *)

TypeOK ==
  /\ flag \in BOOLEAN
  /\ url \in Tests \cup {None}
  /\ ctl \in Controller
  /\ turn \in Runs \cup {None}
  /\ loop \in [Runs -> Loop]
  /\ thr \in [Threads -> Thread]
  /\ posted \in [test : Tests \cup {None}, scores : Nat, to : Tests \cup {None}]

(* While _running_test is set, which refuses every start (main.py:193),    *)
(* some _run_test is alive that will end the test: whatever starts, stops, *)
(* completions and failures cross, no loop ends and leaves the flag set.   *)
FlagHasLoop == flag => \E l \in Runs : loop[l].pc # "none"

(* A result carries a score for each maneuver and at most one more for     *)
(* each complete_test served at the same time (main.py:422-425 appends     *)
(* after a check another thread also passed).                              *)
ScoresBounded ==
  /\ ctl.scores <= NumManeuvers + Cardinality(Threads)
  /\ posted.scores <= NumManeuvers + Cardinality(Threads)

(* start_test is refused with "A test is already in progress."             *)
(* (test_controller.py:63) only while some loop runs a test.               *)
InProgressIsTrue ==
  ctl.state = "running" => \E l \in Runs : loop[l].pc # "none"

(* A loop that finished its test frees the engine for the next start       *)
(* (main.py:310-315), whether its result could be posted or not and        *)
(* whatever ran while it awaited the answer.                               *)
PushFreesEngine == \A l \in Runs : loop[l].pc = "push" ~> ~flag

(* After _running_test is cleared, every loop ends unless another test is  *)
(* started, however the loops and the threads share the process.           *)
StoppedLoopsEnd == ~flag ~> (flag \/ \A l \in Runs : loop[l].pc = "none")
=============================================================================
