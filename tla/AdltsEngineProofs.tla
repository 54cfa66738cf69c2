------------------------- MODULE AdltsEngineProofs -------------------------
(***************************************************************************)
(* Proofs about AdltsEngine, for any number of tests, loops, threads and   *)
(* maneuvers.                                                              *)
(***************************************************************************)
EXTENDS AdltsEngine, FiniteSetTheorems, TLAPS

-----------------------------------------------------------------------------
(* Type correctness rests on the event loop: a coroutine between two       *)
(* awaits is the one that has the turn, so no other start or loop moves    *)
(* the maneuver index under it.                                            *)

Executing == {"launch", "update", "append", "advance", "build", "persist", "fail"}

TurnInv  == \A l \in Runs : loop[l].pc \in Executing <=> turn = l
IndexInv == \A l \in Runs :
              loop[l].pc \in {"append", "advance"} => ctl.index < NumManeuvers

TypeInv == TypeOK /\ TurnInv /\ IndexInv

USE NumManeuversAssumption, NoneAssumption

(* What the module level of main.py assigns, at the first start and at     *)
(* every other one.                                                        *)
LEMMA InitialGlobals ==
  /\ FALSE \in BOOLEAN
  /\ [state |-> "idle", test |-> None, index |-> 0, scores |-> 0] \in Controller
  /\ NoLoop \in Loop /\ NoLoop.pc = "none"
  /\ IdleThread \in Thread
BY DEF Controller, Loop, LoopPC, Thread, ThreadPC, Result, NoResult, NoLoop, IdleThread

LEMMA TypeInit == Init => TypeInv
<1>1. NoPost \in [test : Tests \cup {None}, scores : Nat, to : Tests \cup {None}]
  BY DEF NoPost
<1> QED BY <1>1, InitialGlobals DEF Init, TypeInv, TypeOK, TurnInv, IndexInv, Executing

LEMMA TypeLoop ==
  ASSUME TypeInv, NEW l \in Runs, LoopStep(l)
  PROVE  TypeInv'
<1> USE DEF TypeInv, TypeOK, TurnInv, IndexInv, Executing, Controller, Loop, LoopPC
<1>1. CASE LaunchRun(l)
  BY <1>1 DEF LaunchRun, LoopGoto
<1>2. CASE LoopTop(l)
  BY <1>2 DEF LoopTop, LoopGoto, NoLoop, Result, NoResult
<1>3. CASE FrameIgnored(l)
  BY <1>3 DEF FrameIgnored, LoopGoto
<1>4. CASE ManeuverCloses(l)
  BY <1>4 DEF ManeuverCloses, LoopGoto
<1>5. CASE AppendScore(l)
  BY <1>5 DEF AppendScore, LoopGoto
<1>6. CASE AllDone(l)
  BY <1>6 DEF AllDone, LoopGoto
<1>7. CASE NextManeuver(l)
  <2>1. CASE ctl.index + 1 < NumManeuvers
    BY <1>7, <2>1 DEF NextManeuver, LoopGoto
  <2>2. CASE ~(ctl.index + 1 < NumManeuvers)
    BY <1>7, <2>2 DEF NextManeuver, LoopGoto
  <2> QED BY <2>1, <2>2
<1>8. CASE BuildResult(l)
  BY <1>8 DEF BuildResult, BuiltResult, Result
<1>9. CASE FinishTest(l)
  BY <1>9 DEF FinishTest, LoopGoto
<1>10. CASE PushResult(l)
  BY <1>10 DEF PushResult, LoopGoto, Post, Result
<1>11. CASE ClearRun(l)
  BY <1>11 DEF ClearRun, NoLoop, Result, NoResult
<1>12. CASE LoopFails(l)
  BY <1>12 DEF LoopFails, LoopGoto
<1>13. CASE FailClear(l)
  BY <1>13 DEF FailClear, NoLoop, Result, NoResult
<1> QED BY <1>1, <1>2, <1>3, <1>4, <1>5, <1>6, <1>7, <1>8, <1>9, <1>10, <1>11, <1>12, <1>13
        DEF LoopStep

LEMMA TypeThread ==
  ASSUME TypeInv, NEW h \in Threads, ThreadStep(h)
  PROVE  TypeInv'
<1> USE DEF TypeInv, TypeOK, TurnInv, IndexInv, Controller, Thread, ThreadPC
<1>1. CASE StopAbort(h)
  BY <1>1 DEF StopAbort, ThreadGoto
<1>2. CASE StopClear(h)
  <2>1. flag' \in BOOLEAN
    BY <1>2 DEF StopClear
  <2> QED BY <1>2, <2>1 DEF StopClear, ThreadGoto
<1>3. CASE CompleteChecks(h)
  BY <1>3 DEF CompleteChecks, ThreadGoto
<1>4. CASE CompleteAppend(h)
  BY <1>4 DEF CompleteAppend, ThreadGoto
<1>5. CASE CompleteBuild(h)
  BY <1>5 DEF CompleteBuild, BuiltResult, Result
<1>6. CASE CompleteFinish(h)
  BY <1>6 DEF CompleteFinish, ThreadGoto
<1>7. CASE CompleteClear(h)
  <2>1. flag' \in BOOLEAN
    BY <1>7 DEF CompleteClear
  <2> QED BY <1>7, <2>1 DEF CompleteClear, ThreadGoto
<1>8. CASE CompletePush(h)
  BY <1>8 DEF CompletePush, Post, IdleThread, Result, NoResult
<1> QED BY <1>1, <1>2, <1>3, <1>4, <1>5, <1>6, <1>7, <1>8 DEF ThreadStep

LEMMA TypeRequest ==
  ASSUME TypeInv, Request
  PROVE  TypeInv'
<1> USE DEF TypeInv, TypeOK, TurnInv, IndexInv
<1>1. ASSUME NEW t \in Tests, StartTestRaises(t) PROVE TypeInv'
  BY <1>1 DEF StartTestRaises
<1>2. ASSUME NEW t \in Tests, NEW l \in Runs, StartTest(l, t) PROVE TypeInv'
  <2>1. ctl' \in Controller
    BY <1>2 DEF StartTest, Controller
  <2>2. loop' \in [Runs -> Loop] /\ turn' \in Runs \cup {None}
    BY <1>2 DEF StartTest, Loop, LoopPC, NoLoop, Result, NoResult
  <2>3. TurnInv' /\ IndexInv'
    BY <1>2 DEF StartTest, Executing, NoLoop
  <2> QED BY <1>2, <2>1, <2>2, <2>3 DEF StartTest
<1>3. ASSUME NEW h \in Threads, StopTest(h) PROVE TypeInv'
  BY <1>3 DEF StopTest, ThreadGoto, Thread, ThreadPC
<1>4. ASSUME NEW h \in Threads, CompleteTest(h) PROVE TypeInv'
  BY <1>4 DEF CompleteTest, ThreadGoto, Thread, ThreadPC
<1> QED BY <1>1, <1>2, <1>3, <1>4 DEF Request

LEMMA TypeNext == TypeInv /\ [Next]_vars => TypeInv'
<1> SUFFICES ASSUME TypeInv, [Next]_vars PROVE TypeInv'
  OBVIOUS
<1>1. CASE Restart
  BY <1>1, InitialGlobals DEF Restart, TypeInv, TypeOK, TurnInv, IndexInv, Executing
<1>2. CASE UNCHANGED vars
  BY <1>2 DEF vars, TypeInv, TypeOK, TurnInv, IndexInv
<1> QED BY <1>1, <1>2, TypeLoop, TypeThread, TypeRequest DEF Next

(* The globals, the controller, the loops and the threads keep their types *)
(* whatever runs beside what; in particular the maneuver index stays       *)
(* within MANEUVER_SEQUENCE (test_controller.py:130-138).                  *)
THEOREM TypeInvariant == Spec => []TypeInv
<1> QED BY TypeInit, TypeNext, PTL DEF Spec

(* The typed state of AdltsEngine.                                         *)
THEOREM TypeCorrect == Spec => []TypeOK
<1>1. TypeInv => TypeOK
  BY DEF TypeInv
<1> QED BY <1>1, TypeInvariant, PTL

-----------------------------------------------------------------------------
(* The flag.                                                               *)

LEMMA FlagNext ==
  ASSUME TypeInv, FlagHasLoop, [Next]_vars
  PROVE  FlagHasLoop'
<1> USE DEF FlagHasLoop, LoopGoto, ThreadGoto
<1>0. loop \in [Runs -> Loop]
  BY DEF TypeInv, TypeOK
<1>1. ASSUME NEW l \in Runs, LoopStep(l) PROVE FlagHasLoop'
  <2>1. CASE LaunchRun(l)
    BY <1>0, <2>1 DEF LaunchRun, Loop
  <2>2. CASE LoopTop(l)
    BY <1>0, <2>2 DEF LoopTop, Loop
  <2>3. CASE FrameIgnored(l) \/ ManeuverCloses(l) \/ AppendScore(l) \/ AllDone(l)
    BY <1>0, <2>3 DEF FrameIgnored, ManeuverCloses, AppendScore, AllDone, Loop
  <2>4. CASE NextManeuver(l)
    BY <1>0, <2>4 DEF NextManeuver, Loop
  <2>5. CASE FinishTest(l) \/ PushResult(l) \/ LoopFails(l)
    <3>1. loop'[l].pc # "none"
      BY <1>0, <2>5 DEF FinishTest, PushResult, LoopFails, Loop
    <3> QED BY <3>1
  <2>7. CASE BuildResult(l)
    <3>1. loop'[l].pc = "persist"
      BY <1>0, <2>7 DEF BuildResult, Loop
    <3> QED BY <3>1
  <2>6. CASE ClearRun(l) \/ FailClear(l)
    BY <2>6 DEF ClearRun, FailClear
  <2> QED BY <1>1, <2>1, <2>2, <2>3, <2>4, <2>5, <2>6, <2>7 DEF LoopStep
<1>2. ASSUME NEW h \in Threads, ThreadStep(h) PROVE FlagHasLoop'
  BY <1>2 DEF ThreadStep, StopAbort, StopClear, CompleteChecks, CompleteAppend,
              CompleteBuild, CompleteFinish, CompleteClear, CompletePush
<1>3. CASE Request
  BY <1>3 DEF Request, StartTest, StartTestRaises, StopTest, CompleteTest
<1>4. CASE Restart \/ UNCHANGED vars
  BY <1>4 DEF Restart, vars
<1> QED BY <1>1, <1>2, <1>3, <1>4 DEF Next

(* Whatever starts, stops, completions, failures and restarts cross, a set *)
(* running flag belongs to a loop that can still clear it.                 *)
THEOREM FlagTheorem == Spec => []FlagHasLoop
<1>1. Init => FlagHasLoop
  BY DEF Init, FlagHasLoop
<1>2. TypeInv /\ FlagHasLoop /\ [Next]_vars => FlagHasLoop'
  BY FlagNext
<1> QED BY <1>1, <1>2, TypeInvariant, PTL DEF Spec

-----------------------------------------------------------------------------
(* The number of scores.  A thread that is about to append has passed the  *)
(* checks of complete_test; one that has appended is about to finish the   *)
(* test, after which nobody passes them.                                   *)

Appending == {h \in Threads : thr[h].pc = "cmp_append"}
Finishing == {h \in Threads : thr[h].pc \in {"cmp_build", "cmp_persist"}}

LoopIn(ps) == \E l \in Runs : loop[l].pc \in ps
Closing    == {"advance", "build", "persist"}

Cap == NumManeuvers + Cardinality(Threads)

(* scores taken, and those that are certain to be appended *)
PendingBound == ctl.scores + Cardinality(Appending)
                  + (IF LoopIn({"append"}) THEN 1 ELSE 0) <= Cap

(* while a test runs, each score too many has a thread about to finish it, *)
(* and the loops have appended fewer than all unless one is closing        *)
RunningBound ==
  ctl.state = "running" =>
    /\ ctl.scores <= NumManeuvers + Cardinality(Finishing)
    /\ ~LoopIn(Closing) => ctl.scores + 1 <= NumManeuvers + Cardinality(Finishing)

ResultsBound ==
  /\ posted.scores <= Cap
  /\ \A l \in Runs : loop[l].result.scores <= Cap
  /\ \A h \in Threads : thr[h].result.scores <= Cap

CountInv == PendingBound /\ RunningBound /\ ResultsBound

LEMMA ThreadCounts ==
  /\ Cardinality(Threads) \in Nat /\ Cap \in Nat
  /\ IsFiniteSet(Appending) /\ Cardinality(Appending) \in Nat
  /\ IsFiniteSet(Finishing) /\ Cardinality(Finishing) \in Nat
  /\ Cardinality(Appending) + Cardinality(Finishing) <= Cardinality(Threads)
<1>1. Appending \in SUBSET Threads /\ Finishing \in SUBSET Threads
  BY DEF Appending, Finishing
<1>2. Appending \cap Finishing = {}
  BY DEF Appending, Finishing
<1>3. /\ IsFiniteSet(Appending) /\ Cardinality(Appending) \in Nat
      /\ IsFiniteSet(Finishing) /\ Cardinality(Finishing) \in Nat
      /\ Cardinality(Threads) \in Nat
  BY <1>1, ThreadsAssumption, FS_Subset, FS_CardinalityType
<1>4. Cardinality(Appending \cup Finishing) = Cardinality(Appending) + Cardinality(Finishing)
  <2>1. Cardinality(Appending \cap Finishing) = 0
    BY <1>2, FS_EmptySet
  <2>2. Cardinality(Appending \cup Finishing) =
          Cardinality(Appending) + Cardinality(Finishing) - Cardinality(Appending \cap Finishing)
    BY <1>3, FS_Union
  <2> QED BY <1>3, <2>1, <2>2
<1>5. Appending \cup Finishing \in SUBSET Threads
  BY <1>1
<1>6. Cardinality(Appending \cup Finishing) <= Cardinality(Threads)
  BY <1>5, ThreadsAssumption, FS_Subset
<1> QED BY <1>3, <1>4, <1>6 DEF Cap

LEMMA CountInit == Init => CountInv
<1> SUFFICES ASSUME Init PROVE CountInv
  OBVIOUS
<1>1. Appending = {} /\ ~LoopIn({"append"})
  BY DEF Init, Appending, LoopIn, NoLoop, IdleThread
<1>2. Cardinality(Appending) = 0
  BY <1>1, FS_EmptySet
<1> QED BY <1>1, <1>2, ThreadCounts
        DEF Init, CountInv, PendingBound, RunningBound, ResultsBound, NoLoop, IdleThread,
            NoResult, NoPost

(* The loop that executes is the only one between its update and its await. *)
LEMMA OnlyOneExecutes ==
  ASSUME TypeInv, NEW l \in Runs, loop[l].pc \in Executing
  PROVE  /\ \A k \in Runs \ {l} : loop[k].pc \notin Executing
         /\ LoopIn({"append"}) <=> loop[l].pc = "append"
         /\ LoopIn(Closing) <=> loop[l].pc \in Closing
BY DEF TypeInv, TurnInv, LoopIn, Executing, Closing

LEMMA CountLoop ==
  ASSUME TypeInv, CountInv, NEW l \in Runs, LoopStep(l)
  PROVE  CountInv'
<1> USE ThreadCounts
<1>0. TypeInv'
  BY TypeLoop
<1>1. loop \in [Runs -> Loop] /\ ctl \in Controller /\ thr \in [Threads -> Thread]
  BY DEF TypeInv, TypeOK
<1>2. /\ Appending' = Appending /\ Finishing' = Finishing
      /\ Cap' = Cap /\ thr' = thr
  BY DEF LoopStep, LaunchRun, LoopTop, FrameIgnored, ManeuverCloses, AppendScore, AllDone,
         NextManeuver, BuildResult, FinishTest, PushResult, ClearRun, LoopFails, FailClear,
         Appending, Finishing, Cap
<1>3. CASE ManeuverCloses(l)
  <2>1. ~LoopIn({"append"}) /\ ~LoopIn(Closing)
    BY <1>3, OnlyOneExecutes DEF ManeuverCloses, Executing, Closing
  <2>2. ~LoopIn(Closing)'
    BY <1>1, <1>3, <2>1 DEF ManeuverCloses, LoopGoto, LoopIn, Closing, Loop
  <2>3. ResultsBound'
    BY <1>1, <1>2, <1>3 DEF ManeuverCloses, LoopGoto, CountInv, ResultsBound, Loop
  <2>4. ctl.state = "running" /\ ctl' = ctl
    BY <1>3 DEF ManeuverCloses
  <2>5. ctl.scores + 1 <= NumManeuvers + Cardinality(Finishing) /\ ctl.scores \in Nat
    BY <1>1, <2>1, <2>4 DEF CountInv, RunningBound, Controller
  <2>6. PendingBound'
    BY <1>2, <2>4, <2>5 DEF PendingBound, Cap
  <2>7. RunningBound'
    BY <1>2, <2>4, <2>5 DEF RunningBound
  <2> QED BY <2>3, <2>6, <2>7 DEF CountInv
<1>4. CASE AppendScore(l)
  <2>1. LoopIn({"append"}) /\ ~LoopIn(Closing)
    BY <1>4, OnlyOneExecutes DEF AppendScore, Executing, Closing
  <2>2. loop'[l].pc = "advance"
    BY <1>1, <1>4 DEF AppendScore, LoopGoto, Loop
  <2>3. ~LoopIn({"append"})' /\ LoopIn(Closing)'
    BY <1>0, <2>2 DEF TypeInv, TurnInv, Executing, LoopIn, Closing
  <2>4. ResultsBound'
    BY <1>1, <1>2, <1>4 DEF AppendScore, LoopGoto, CountInv, ResultsBound, Loop
  <2>5. ctl'.scores = ctl.scores + 1 /\ ctl'.state = ctl.state /\ ctl.scores \in Nat
    BY <1>1, <1>4 DEF AppendScore, Controller
  <2>6. PendingBound'
    BY <1>2, <2>1, <2>3, <2>5 DEF PendingBound, CountInv
  <2>7. RunningBound'
    BY <1>2, <2>1, <2>3, <2>5 DEF RunningBound, CountInv
  <2> QED BY <2>4, <2>6, <2>7 DEF CountInv
<1>5. CASE NextManeuver(l)
  <2>1. ~LoopIn({"append"})
    BY <1>5, OnlyOneExecutes DEF NextManeuver, Executing
  <2>2. loop'[l].pc # "append" /\ \A k \in Runs \ {l} : loop'[k] = loop[k]
    BY <1>1, <1>5 DEF NextManeuver, LoopGoto, Loop
  <2>3. ~LoopIn({"append"})'
    BY <2>1, <2>2 DEF LoopIn
  <2>4. ResultsBound'
    BY <1>1, <1>2, <1>5 DEF NextManeuver, LoopGoto, CountInv, ResultsBound, Loop
  <2>5. ctl'.scores = ctl.scores /\ ctl.scores < NumManeuvers /\ ctl.scores \in Nat
    BY <1>1, <1>5 DEF NextManeuver, Controller
  <2>6. PendingBound'
    BY <1>2, <2>1, <2>3, <2>5 DEF PendingBound, CountInv
  <2>7. RunningBound'
    BY <1>2, <2>5 DEF RunningBound
  <2> QED BY <2>4, <2>6, <2>7 DEF CountInv
<1>6. CASE BuildResult(l)
  <2>1. ~LoopIn({"append"}) /\ LoopIn(Closing)
    BY <1>6, OnlyOneExecutes DEF BuildResult, Executing, Closing
  <2>2. loop'[l].pc = "persist"
    BY <1>1, <1>6 DEF BuildResult, Loop
  <2>3. ~LoopIn({"append"})' /\ LoopIn(Closing)'
    BY <1>0, <2>2 DEF TypeInv, TurnInv, Executing, LoopIn, Closing
  <2>4. ctl' = ctl /\ ctl.scores \in Nat /\ ctl.scores <= Cap
    BY <1>1, <1>6, <2>1 DEF BuildResult, Controller, CountInv, PendingBound
  <2>5. ResultsBound'
    BY <1>1, <1>2, <1>6, <2>4 DEF BuildResult, BuiltResult, CountInv, ResultsBound, Loop
  <2>6. PendingBound' /\ RunningBound'
    BY <1>2, <2>1, <2>3, <2>4 DEF PendingBound, RunningBound, CountInv
  <2> QED BY <2>5, <2>6 DEF CountInv
<1>7. CASE AllDone(l)
  <2>1. ~LoopIn({"append"}) /\ LoopIn(Closing)
    BY <1>7, OnlyOneExecutes DEF AllDone, Executing, Closing
  <2>2. loop'[l].pc = "build"
    BY <1>1, <1>7 DEF AllDone, LoopGoto, Loop
  <2>3. ~LoopIn({"append"})' /\ LoopIn(Closing)'
    BY <1>0, <2>2 DEF TypeInv, TurnInv, Executing, LoopIn, Closing
  <2>4. ResultsBound'
    BY <1>1, <1>2, <1>7 DEF AllDone, LoopGoto, CountInv, ResultsBound, Loop
  <2>5. PendingBound' /\ RunningBound'
    BY <1>2, <1>7, <2>1, <2>3 DEF AllDone, PendingBound, RunningBound, CountInv
  <2> QED BY <2>4, <2>5 DEF CountInv
<1>8. CASE FinishTest(l) \/ LoopFails(l)
  <2>1. ~LoopIn({"append"})
    BY <1>8, OnlyOneExecutes DEF FinishTest, LoopFails, Executing
  <2>2. loop'[l].pc # "append" /\ \A k \in Runs \ {l} : loop'[k] = loop[k]
    BY <1>1, <1>8 DEF FinishTest, LoopFails, LoopGoto, Loop
  <2>3. ~LoopIn({"append"})'
    BY <2>1, <2>2 DEF LoopIn
  <2>4. ctl'.scores = ctl.scores /\ ctl'.state # "running"
    BY <1>1, <1>8 DEF FinishTest, LoopFails, Controller
  <2>5. ResultsBound'
    BY <1>1, <1>2, <1>8 DEF FinishTest, LoopFails, LoopGoto, CountInv, ResultsBound, Loop
  <2>6. PendingBound' /\ RunningBound'
    BY <1>2, <2>1, <2>3, <2>4 DEF PendingBound, RunningBound, CountInv
  <2> QED BY <2>5, <2>6 DEF CountInv
<1>9. CASE PushResult(l)
  <2>1. LoopIn({"append"})' = LoopIn({"append"}) /\ LoopIn(Closing)' = LoopIn(Closing)
    BY <1>1, <1>9 DEF PushResult, LoopGoto, LoopIn, Closing, Loop
  <2>2. ResultsBound'
    BY <1>1, <1>2, <1>9 DEF PushResult, LoopGoto, Post, CountInv, ResultsBound, Loop
  <2>3. PendingBound' /\ RunningBound'
    BY <1>2, <1>9, <2>1 DEF PushResult, PendingBound, RunningBound, CountInv
  <2> QED BY <2>2, <2>3 DEF CountInv
<1>10. CASE LaunchRun(l) \/ FrameIgnored(l)
  <2>1. LoopIn({"append"})' = LoopIn({"append"}) /\ LoopIn(Closing)' = LoopIn(Closing)
    BY <1>1, <1>10 DEF LaunchRun, FrameIgnored, LoopGoto, LoopIn, Closing, Loop
  <2>2. ResultsBound'
    BY <1>1, <1>2, <1>10 DEF LaunchRun, FrameIgnored, LoopGoto, CountInv, ResultsBound, Loop
  <2>3. PendingBound' /\ RunningBound'
    BY <1>2, <1>10, <2>1
       DEF LaunchRun, FrameIgnored, PendingBound, RunningBound, CountInv
  <2> QED BY <2>2, <2>3 DEF CountInv
<1>11. CASE LoopTop(l) \/ ClearRun(l) \/ FailClear(l)
  <2>1. LoopIn({"append"})' = LoopIn({"append"}) /\ LoopIn(Closing)' = LoopIn(Closing)
    BY <1>1, <1>11 DEF LoopTop, ClearRun, FailClear, LoopGoto, LoopIn, Closing, Loop, NoLoop
  <2>2. ResultsBound'
    BY <1>1, <1>2, <1>11 DEF LoopTop, ClearRun, FailClear, LoopGoto, NoLoop, NoResult,
                             CountInv, ResultsBound, Loop
  <2>3. PendingBound' /\ RunningBound'
    BY <1>2, <1>11, <2>1
       DEF LoopTop, ClearRun, FailClear, PendingBound, RunningBound, CountInv
  <2> QED BY <2>2, <2>3 DEF CountInv
<1> QED BY <1>3, <1>4, <1>5, <1>6, <1>7, <1>8, <1>9, <1>10, <1>11 DEF LoopStep

LEMMA CountThread ==
  ASSUME TypeInv, CountInv, NEW h \in Threads, ThreadStep(h)
  PROVE  CountInv'
<1> USE ThreadCounts
<1>1. loop \in [Runs -> Loop] /\ ctl \in Controller /\ thr \in [Threads -> Thread]
  BY DEF TypeInv, TypeOK
<1>2. loop' = loop /\ Cap' = Cap
  BY DEF ThreadStep, StopAbort, StopClear, CompleteChecks, CompleteAppend,
         CompleteBuild, CompleteFinish, CompleteClear, CompletePush, Cap
<1>3. LoopIn({"append"})' = LoopIn({"append"}) /\ LoopIn(Closing)' = LoopIn(Closing)
  BY <1>2 DEF LoopIn
<1>4. ctl.scores <= Cap /\ ctl.scores \in Nat
  BY <1>1 DEF CountInv, PendingBound, Controller
<1>5. (/\ Cardinality(Appending) \in Nat /\ Cardinality(Finishing) \in Nat
       /\ Cardinality(Appending) + Cardinality(Finishing) <= Cardinality(Threads))'
  <2>1. /\ Cardinality(Appending) \in Nat /\ Cardinality(Finishing) \in Nat
        /\ Cardinality(Appending) + Cardinality(Finishing) <= Cardinality(Threads)
    BY ThreadCounts
  <2> QED BY <2>1, PTL
<1>6. CASE StopAbort(h) \/ StopClear(h) \/ CompleteClear(h) \/ CompletePush(h)
  <2>1. Appending' = Appending /\ Finishing' = Finishing
    BY <1>1, <1>6 DEF StopAbort, StopClear, CompleteClear, CompletePush, ThreadGoto,
                      IdleThread, Appending, Finishing, Thread
  <2>2. ctl'.scores = ctl.scores /\ (ctl' = ctl \/ ctl'.state # "running")
    BY <1>1, <1>6 DEF StopAbort, StopClear, CompleteClear, CompletePush, Controller
  <2>3. ResultsBound'
    BY <1>1, <1>2, <1>6 DEF StopAbort, StopClear, CompleteClear, CompletePush, ThreadGoto,
                            Post, IdleThread, NoResult, CountInv, ResultsBound, Thread
  <2> QED BY <1>2, <1>3, <2>1, <2>2, <2>3 DEF CountInv, PendingBound, RunningBound
<1>7. CASE CompleteChecks(h)
  <2>0. ResultsBound' /\ ctl' = ctl
    BY <1>1, <1>2, <1>7 DEF CompleteChecks, ThreadGoto, CountInv, ResultsBound, Thread
  <2>1. CASE ctl.state # "running"
    <3>0. thr[h].pc = "cmp_state" /\ thr' = [thr EXCEPT ![h].pc = "idle"]
      BY <1>7, <2>1 DEF CompleteChecks, ThreadGoto
    <3>1. Appending' = Appending /\ Finishing' = Finishing
      BY <1>1, <3>0 DEF Appending, Finishing, Thread
    <3> QED BY <1>2, <1>3, <2>0, <3>1 DEF CountInv, PendingBound, RunningBound
  <2>2. CASE ctl.state = "running" /\ ctl.index < NumManeuvers
    <3>1. Finishing' = Finishing
      BY <1>1, <1>7, <2>2 DEF CompleteChecks, ThreadGoto, Finishing, Thread
    <3>2. PendingBound'
      <4>1. CASE LoopIn({"append"})
        <5>1. ~LoopIn(Closing)
          BY <4>1, OnlyOneExecutes DEF LoopIn, Executing, Closing
        <5>2. ctl.scores + 1 <= NumManeuvers + Cardinality(Finishing)
          BY <2>2, <5>1 DEF CountInv, RunningBound
        <5> QED BY <1>2, <1>3, <1>4, <1>5, <2>0, <3>1, <4>1, <5>2 DEF PendingBound, Cap
      <4>2. CASE ~LoopIn({"append"})
        <5>1. ctl.scores <= NumManeuvers + Cardinality(Finishing)
          BY <2>2 DEF CountInv, RunningBound
        <5> QED BY <1>2, <1>3, <1>4, <1>5, <2>0, <3>1, <4>2, <5>1 DEF PendingBound, Cap
      <4> QED BY <4>1, <4>2
    <3> QED BY <1>3, <2>0, <3>1, <3>2 DEF CountInv, RunningBound
  <2>3. CASE ctl.state = "running" /\ ctl.index = NumManeuvers
    <3>1. Appending' = Appending /\ Finishing' = Finishing \cup {h} /\ h \notin Finishing
      BY <1>1, <1>7, <2>3 DEF CompleteChecks, ThreadGoto, Appending, Finishing, Thread
    <3>2. Cardinality(Finishing') = Cardinality(Finishing) + 1
      BY <3>1, FS_AddElement
    <3> QED BY <1>2, <1>3, <1>4, <2>0, <3>1, <3>2 DEF CountInv, PendingBound, RunningBound
  <2> QED BY <1>7, <2>1, <2>2, <2>3 DEF CompleteChecks
<1>8. CASE CompleteAppend(h)
  <2>1. /\ Appending' = Appending \ {h} /\ h \in Appending
        /\ Finishing' = Finishing \cup {h} /\ h \notin Finishing
    BY <1>1, <1>8 DEF CompleteAppend, ThreadGoto, Appending, Finishing, Thread
  <2>2. /\ Cardinality(Appending') = Cardinality(Appending) - 1
        /\ Cardinality(Finishing') = Cardinality(Finishing) + 1
    BY <2>1, FS_AddElement, FS_RemoveElement
  <2>3. ctl'.scores = ctl.scores + 1 /\ ctl'.state = ctl.state
    BY <1>1, <1>8 DEF CompleteAppend, Controller
  <2>4. ResultsBound'
    BY <1>1, <1>2, <1>8 DEF CompleteAppend, ThreadGoto, CountInv, ResultsBound, Thread
  <2>5. PendingBound'
    BY <1>2, <1>3, <1>4, <2>2, <2>3 DEF CountInv, PendingBound
  <2>6. RunningBound'
    BY <1>3, <1>4, <2>2, <2>3 DEF CountInv, RunningBound
  <2> QED BY <2>4, <2>5, <2>6 DEF CountInv
<1>9. CASE CompleteBuild(h)
  <2>1. Appending' = Appending /\ Finishing' = Finishing /\ ctl' = ctl
    BY <1>1, <1>9 DEF CompleteBuild, Appending, Finishing, Thread
  <2>2. ResultsBound'
    BY <1>1, <1>2, <1>4, <1>9 DEF CompleteBuild, BuiltResult, CountInv, ResultsBound, Thread
  <2> QED BY <1>2, <1>3, <2>1, <2>2 DEF CountInv, PendingBound, RunningBound
<1>10. CASE CompleteFinish(h)
  <2>1. Appending' = Appending
    BY <1>1, <1>10 DEF CompleteFinish, ThreadGoto, Appending, Thread
  <2>2. ctl'.scores = ctl.scores /\ ctl'.state # "running"
    BY <1>1, <1>10 DEF CompleteFinish, Controller
  <2>3. ResultsBound'
    BY <1>1, <1>2, <1>10 DEF CompleteFinish, ThreadGoto, CountInv, ResultsBound, Thread
  <2> QED BY <1>2, <1>3, <2>1, <2>2, <2>3 DEF CountInv, PendingBound, RunningBound
<1> QED BY <1>6, <1>7, <1>8, <1>9, <1>10 DEF ThreadStep

LEMMA CountNext == TypeInv /\ CountInv /\ [Next]_vars => CountInv'
<1> SUFFICES ASSUME TypeInv, CountInv, [Next]_vars PROVE CountInv'
  OBVIOUS
<1> USE ThreadCounts
<1>1. loop \in [Runs -> Loop] /\ ctl \in Controller /\ thr \in [Threads -> Thread]
  BY DEF TypeInv, TypeOK
<1>2. ASSUME NEW t \in Tests, NEW l \in Runs, StartTest(l, t) PROVE CountInv'
  <2>1. \A k \in Runs : loop[k].pc \notin Executing /\ loop'[k].pc # "append"
    BY <1>1, <1>2 DEF StartTest, TypeInv, TurnInv, Executing, NoLoop
  <2>2. ~LoopIn({"append"})' /\ Appending' = Appending /\ Cap' = Cap
    BY <1>2, <2>1 DEF StartTest, LoopIn, Appending, Cap
  <2>3. ctl'.scores = 0
    BY <1>2 DEF StartTest
  <2>4. ResultsBound'
    BY <1>1, <1>2, <2>2 DEF StartTest, NoLoop, NoResult, CountInv, ResultsBound
  <2>5. PendingBound'
    BY <2>2, <2>3 DEF PendingBound, Cap
  <2>6. RunningBound'
    BY <1>2, <2>3 DEF StartTest, RunningBound, Finishing
  <2> QED BY <2>4, <2>5, <2>6 DEF CountInv
<1>3. ASSUME NEW t \in Tests, StartTestRaises(t) PROVE CountInv'
  BY <1>3 DEF StartTestRaises, CountInv, PendingBound, RunningBound, ResultsBound,
              LoopIn, Appending, Finishing, Cap
<1>4. ASSUME NEW h \in Threads, StopTest(h) \/ CompleteTest(h) PROVE CountInv'
  <2>1. Appending' = Appending /\ Finishing' = Finishing
    BY <1>1, <1>4 DEF StopTest, CompleteTest, ThreadGoto, Appending, Finishing, Thread
  <2>2. ResultsBound'
    BY <1>1, <1>4 DEF StopTest, CompleteTest, ThreadGoto, CountInv, ResultsBound, Thread, Cap
  <2> QED BY <1>4, <2>1, <2>2
          DEF StopTest, CompleteTest, CountInv, PendingBound, RunningBound, LoopIn, Cap
<1>5. CASE Restart
  <2>1. ~LoopIn({"append"})' /\ Appending' = {} /\ Cap' = Cap
    BY <1>5 DEF Restart, LoopIn, Appending, NoLoop, IdleThread, Cap
  <2>2. Cardinality(Appending') = 0
    BY <2>1, FS_EmptySet
  <2> QED BY <1>5, <2>1, <2>2
          DEF Restart, CountInv, PendingBound, RunningBound, ResultsBound, NoLoop,
              IdleThread, NoResult
<1>6. CASE UNCHANGED vars
  BY <1>6 DEF vars, CountInv, PendingBound, RunningBound, ResultsBound, LoopIn,
              Appending, Finishing, Cap
<1> QED BY <1>2, <1>3, <1>4, <1>5, <1>6, CountLoop, CountThread DEF Next, Request

(* However many completions race the last maneuvers of a test, a result    *)
(* has at most one score more than there are maneuvers for each of them    *)
(* (main.py:422-425).                                                      *)
THEOREM ScoresTheorem == Spec => []ScoresBounded
<1>1. TypeInv /\ CountInv => ScoresBounded
  BY ThreadCounts DEF TypeInv, TypeOK, Controller, CountInv, PendingBound, ResultsBound,
                      ScoresBounded, Cap
<1> QED BY <1>1, CountInit, CountNext, TypeInvariant, PTL DEF Spec
-----------------------------------------------------------------------------
(* Without stops and completions.  One loop at most is alive, the flag is  *)
(* its own once it is launched, and the test is over before it ends.       *)

Alive(l) == loop[l].pc # "none"

OneLoop   == \A k, l \in Runs : Alive(k) /\ Alive(l) => k = l
FlagIsSet == \A l \in Runs : loop[l].pc \notin {"none", "launch"} => flag
TestOver  == \A l \in Runs : loop[l].pc \in {"push", "clear", "fail"} => ctl.state # "running"

AloneInv == OneLoop /\ FlagIsSet /\ TestOver /\ InProgressIsTrue

LEMMA AloneLoop ==
  ASSUME TypeInv, AloneInv, NEW l \in Runs, LoopStep(l)
  PROVE  AloneInv'
<1>1. loop \in [Runs -> Loop] /\ ctl \in Controller
  BY DEF TypeInv, TypeOK
<1>2. \A k \in Runs \ {l} : ~Alive(k) /\ loop'[k] = loop[k]
  <2>1. Alive(l)
    BY DEF LoopStep, LaunchRun, LoopTop, FrameIgnored, ManeuverCloses, AppendScore, AllDone,
           NextManeuver, BuildResult, FinishTest, PushResult, ClearRun, LoopFails, FailClear, Alive
  <2>2. \A k \in Runs \ {l} : loop'[k] = loop[k]
    BY <1>1 DEF LoopStep, LaunchRun, LoopTop, FrameIgnored, ManeuverCloses, AppendScore, AllDone,
           NextManeuver, BuildResult, FinishTest, PushResult, ClearRun, LoopFails, FailClear, LoopGoto
  <2> QED BY <2>1, <2>2 DEF AloneInv, OneLoop
<1>3. SUFFICES /\ loop'[l].pc \notin {"none", "launch"} => flag'
               /\ loop'[l].pc \in {"push", "clear", "fail"} => ctl'.state # "running"
               /\ ctl'.state = "running" => loop'[l].pc # "none"
  BY <1>2 DEF AloneInv, OneLoop, FlagIsSet, TestOver, InProgressIsTrue, Alive
<1>4. /\ loop[l].pc \notin {"none", "launch"} => flag
      /\ loop[l].pc \in {"push", "clear", "fail"} => ctl.state # "running"
  BY DEF AloneInv, FlagIsSet, TestOver
<1>5. CASE LaunchRun(l) \/ LoopTop(l) \/ FrameIgnored(l) \/ ManeuverCloses(l) \/ AllDone(l)
  BY <1>1, <1>4, <1>5 DEF LaunchRun, LoopTop, FrameIgnored, ManeuverCloses, AllDone, LoopGoto, Loop
<1>6. CASE AppendScore(l) \/ FinishTest(l) \/ LoopFails(l)
  BY <1>1, <1>4, <1>6 DEF AppendScore, FinishTest, LoopFails, LoopGoto, Loop, Controller
<1>7. CASE NextManeuver(l)
  <2>1. LoopGoto(l, "top") \/ LoopGoto(l, "build")
    BY <1>7 DEF NextManeuver
  <2>2. loop'[l].pc \in {"top", "build"}
    BY <1>1, <2>1 DEF LoopGoto, Loop
  <2> QED BY <1>4, <1>7, <2>2 DEF NextManeuver
<1>8. CASE BuildResult(l)
  <2>1. loop'[l].pc = "persist" /\ flag' = flag
    BY <1>1, <1>8 DEF BuildResult
  <2> QED BY <1>4, <1>8, <2>1 DEF BuildResult
<1>9. CASE PushResult(l) \/ ClearRun(l) \/ FailClear(l)
  BY <1>1, <1>4, <1>9 DEF PushResult, ClearRun, FailClear, LoopGoto, NoLoop, Loop
<1> QED BY <1>5, <1>6, <1>7, <1>8, <1>9 DEF LoopStep

LEMMA AloneNext ==
  ASSUME Threads = {}, TypeInv, AloneInv, [Next]_vars
  PROVE  AloneInv'
<1> USE DEF AloneInv, OneLoop, FlagIsSet, TestOver, InProgressIsTrue, Alive
<1>1. ASSUME NEW t \in Tests, NEW l \in Runs, StartTest(l, t) PROVE AloneInv'
  <2>1. \A k \in Runs : loop[k].pc = "none"
    BY <1>1 DEF StartTest, TypeInv, TurnInv, Executing
  <2> QED BY <1>1, <2>1 DEF StartTest, TypeInv, TypeOK
<1>2. ASSUME NEW t \in Tests, StartTestRaises(t) PROVE AloneInv'
  BY <1>2 DEF StartTestRaises
<1>3. CASE Restart
  BY <1>3 DEF Restart, NoLoop
<1>4. CASE UNCHANGED vars
  BY <1>4 DEF vars
<1> QED BY <1>1, <1>2, <1>3, <1>4, AloneLoop DEF Next, Request

(* Where nobody stops or completes a test, a start is refused with "A test *)
(* is already in progress." (test_controller.py:63) only while a loop runs *)
(* one: it takes a worker thread to leave the engine stuck.                *)
THEOREM InProgressAlone == ASSUME Threads = {} PROVE Spec => []InProgressIsTrue
<1>1. Init => AloneInv
  BY DEF Init, AloneInv, OneLoop, FlagIsSet, TestOver, InProgressIsTrue, Alive, NoLoop
<1>2. TypeInv /\ AloneInv /\ [Next]_vars => AloneInv'
  BY AloneNext
<1>3. AloneInv => InProgressIsTrue
  BY DEF AloneInv
<1> QED BY <1>1, <1>2, <1>3, TypeInvariant, PTL DEF Spec

(* What such a loop posts: the result of its own test. *)
OwnResult == \A l \in Runs :
  /\ Alive(l) => loop[l].url = ctl.test
  /\ loop[l].pc \in {"persist", "push"} => loop[l].result.test = ctl.test
PostedHome == posted.test = posted.to

HomeInv == OwnResult /\ PostedHome

LEMMA HomeLoop ==
  ASSUME TypeInv, AloneInv, HomeInv, NEW l \in Runs, LoopStep(l)
  PROVE  HomeInv'
<1>1. loop \in [Runs -> Loop] /\ ctl \in Controller
  BY DEF TypeInv, TypeOK
<1>2. Alive(l) /\ \A k \in Runs \ {l} : ~Alive(k) /\ loop'[k] = loop[k]
  <2>1. Alive(l)
    BY DEF LoopStep, LaunchRun, LoopTop, FrameIgnored, ManeuverCloses, AppendScore, AllDone,
           NextManeuver, BuildResult, FinishTest, PushResult, ClearRun, LoopFails, FailClear, Alive
  <2>2. \A k \in Runs \ {l} : loop'[k] = loop[k]
    BY <1>1 DEF LoopStep, LaunchRun, LoopTop, FrameIgnored, ManeuverCloses, AppendScore, AllDone,
           NextManeuver, BuildResult, FinishTest, PushResult, ClearRun, LoopFails, FailClear, LoopGoto
  <2> QED BY <2>1, <2>2 DEF AloneInv, OneLoop
<1>3. /\ loop[l].url = ctl.test /\ posted.test = posted.to
      /\ loop[l].pc \in {"persist", "push"} => loop[l].result.test = ctl.test
  BY <1>2 DEF HomeInv, OwnResult, PostedHome
<1>4. SUFFICES /\ loop'[l].pc # "none" => loop'[l].url = ctl'.test
               /\ loop'[l].pc \in {"persist", "push"} => loop'[l].result.test = ctl'.test
               /\ posted'.test = posted'.to
  BY <1>2 DEF HomeInv, OwnResult, PostedHome, Alive
<1>5. ASSUME NEW p \in LoopPC, LoopGoto(l, p)
      PROVE  loop'[l].pc = p /\ loop'[l].url = loop[l].url /\ loop'[l].result = loop[l].result
  BY <1>1, <1>5 DEF LoopGoto, Loop
<1>6. CASE BuildResult(l)
  <2>1. loop'[l] = [loop[l] EXCEPT !.pc = "persist", !.result = BuiltResult]
    BY <1>1, <1>6 DEF BuildResult
  <2>2. loop'[l].url = loop[l].url /\ loop'[l].result = BuiltResult
    BY <1>1, <2>1 DEF Loop
  <2> QED BY <1>3, <1>6, <2>2 DEF BuildResult, BuiltResult
<1>7. CASE PushResult(l)
  BY <1>3, <1>5, <1>7 DEF PushResult, Post, LoopPC
<1>8. CASE AppendScore(l) \/ FinishTest(l) \/ LoopFails(l)
  <2>1. ctl'.test = ctl.test /\ posted' = posted
    BY <1>1, <1>8 DEF AppendScore, FinishTest, LoopFails, Controller
  <2>2. \E p \in LoopPC : LoopGoto(l, p) /\ (p \in {"persist", "push"} => loop[l].pc = "persist")
    BY <1>8 DEF AppendScore, FinishTest, LoopFails, LoopPC
  <2> QED BY <1>3, <1>5, <2>1, <2>2
<1>9. CASE NextManeuver(l)
  <2>1. ctl'.test = ctl.test /\ posted' = posted
    BY <1>1, <1>9 DEF NextManeuver, Controller
  <2>2. LoopGoto(l, "top") \/ LoopGoto(l, "build")
    BY <1>9 DEF NextManeuver
  <2> QED BY <1>3, <1>5, <2>1, <2>2 DEF LoopPC
<1>10. CASE LaunchRun(l) \/ FrameIgnored(l) \/ ManeuverCloses(l) \/ AllDone(l)
  BY <1>3, <1>5, <1>10 DEF LaunchRun, FrameIgnored, ManeuverCloses, AllDone, LoopPC
<1>11. CASE LoopTop(l) \/ ClearRun(l) \/ FailClear(l)
  <2>1. ctl' = ctl /\ posted' = posted
    BY <1>11 DEF LoopTop, ClearRun, FailClear
  <2>2. loop' = [loop EXCEPT ![l] = NoLoop] \/ LoopGoto(l, "update")
    BY <1>11 DEF LoopTop, ClearRun, FailClear
  <2> QED BY <1>1, <1>3, <1>5, <2>1, <2>2 DEF NoLoop, LoopPC
<1> QED BY <1>6, <1>7, <1>8, <1>9, <1>10, <1>11 DEF LoopStep

LEMMA HomeNext ==
  ASSUME Threads = {}, TypeInv, AloneInv, HomeInv, [Next]_vars
  PROVE  HomeInv'
<1> USE DEF HomeInv, OwnResult, PostedHome, Alive
<1>1. ASSUME NEW t \in Tests, NEW l \in Runs, StartTest(l, t) PROVE HomeInv'
  <2>1. \A k \in Runs : loop[k].pc = "none"
    BY <1>1 DEF StartTest, TypeInv, TurnInv, Executing, AloneInv, FlagIsSet
  <2>2. loop'[l].pc = "launch" /\ loop'[l].url = t
    BY <1>1 DEF StartTest, NoLoop, TypeInv, TypeOK
  <2> QED BY <1>1, <2>1, <2>2 DEF StartTest, TypeInv, TypeOK
<1>2. ASSUME NEW t \in Tests, StartTestRaises(t) PROVE HomeInv'
  BY <1>2 DEF StartTestRaises
<1>3. CASE Restart
  BY <1>3 DEF Restart, NoLoop
<1>4. CASE UNCHANGED vars
  BY <1>4 DEF vars
<1> QED BY <1>1, <1>2, <1>3, <1>4, HomeLoop DEF Next, Request

(* Where nobody stops or completes a test, a result is posted to the       *)
(* address of its own test (main.py:313): it takes complete_test, which    *)
(* reads the global address (main.py:453), to send it elsewhere.           *)
THEOREM ResultsGoHome == ASSUME Threads = {} PROVE Spec => []PostedHome
<1>1. Init => AloneInv /\ HomeInv
  BY DEF Init, AloneInv, OneLoop, FlagIsSet, TestOver, InProgressIsTrue, HomeInv, OwnResult,
         PostedHome, Alive, NoLoop, NoPost
<1>2. TypeInv /\ AloneInv /\ HomeInv /\ [Next]_vars => (AloneInv /\ HomeInv)'
  BY AloneNext, HomeNext
<1>3. HomeInv => PostedHome
  BY DEF HomeInv
<1> QED BY <1>1, <1>2, <1>3, TypeInvariant, PTL DEF Spec

-----------------------------------------------------------------------------
(* What fairness adds.  The provers know nothing of ENABLED: that a loop   *)
(* which has the turn, which awaits an answer, or whose turn it may be can *)
(* go on, is a hypothesis here.                                            *)

Fair(l) == SF_vars(LoopStep(l))
Can(l)  == ENABLED <<LoopStep(l)>>_vars

CanGoOn ==
  \A l \in Runs :
    (turn = l \/ loop[l].pc = "push" \/ (turn = None /\ loop[l].pc \in {"top", "clear"}))
      => Can(l)

LEMMA FairLoops == Fairness => \A l \in Runs : Fair(l)
BY PTL DEF Fairness, Fair

Does(l, p) == turn = l /\ loop[l].pc = p
Last       == {"launch", "persist", "fail"}

(* A coroutine that executes gives its turn back, or comes closer to it.   *)
LEMMA TurnStep ==
  ASSUME TypeInv, NEW l \in Runs, turn = l, LoopStep(l)
  PROVE  \/ turn' = None
         \/ Does(l, "update") /\ (Does(l, "append") \/ Does(l, "fail"))'
         \/ Does(l, "append") /\ Does(l, "advance")'
         \/ Does(l, "advance") /\ Does(l, "build")'
         \/ Does(l, "build") /\ Does(l, "persist")'
<1>1. loop \in [Runs -> Loop] /\ loop[l].pc \in Executing
  BY DEF TypeInv, TypeOK, TurnInv
<1> USE DEF Does, LoopGoto
<1>2. CASE ManeuverCloses(l) \/ AppendScore(l) \/ AllDone(l) \/ LoopFails(l)
  BY <1>1, <1>2 DEF ManeuverCloses, AppendScore, AllDone, LoopFails, Loop
<1>3. CASE BuildResult(l)
  <2>1. loop'[l].pc = "persist"
    BY <1>1, <1>3 DEF BuildResult
  <2> QED BY <1>3, <2>1 DEF BuildResult
<1>4. CASE NextManeuver(l)
  BY <1>1, <1>4 DEF NextManeuver, Loop
<1>5. CASE LaunchRun(l) \/ FrameIgnored(l) \/ FinishTest(l) \/ FailClear(l)
  BY <1>5 DEF LaunchRun, FrameIgnored, FinishTest, FailClear
<1>6. ~(LoopTop(l) \/ PushResult(l) \/ ClearRun(l))
  BY <1>1 DEF LoopTop, PushResult, ClearRun, Executing
<1> QED BY <1>2, <1>3, <1>4, <1>5, <1>6 DEF LoopStep

(* Nobody else moves a loop, but a start that revives it and a restart.    *)
LEMMA OthersLeave ==
  ASSUME TypeInv, [Next]_vars, NEW l \in Runs, ~LoopStep(l)
  PROVE  \/ Restart
         \/ loop[l].pc = "none"
         \/ loop'[l] = loop[l] /\ (turn = l => turn' = l)
<1>1. loop \in [Runs -> Loop] /\ (turn = l => \A k \in Runs \ {l} : loop[k].pc \notin Executing)
  BY DEF TypeInv, TypeOK, TurnInv
<1>2. ASSUME NEW k \in Runs \ {l}, LoopStep(k)
      PROVE  loop'[l] = loop[l] /\ (turn = l => turn' = l)
  <2>1. loop'[l] = loop[l]
    BY <1>1, <1>2 DEF LoopStep, LaunchRun, LoopTop, FrameIgnored, ManeuverCloses, AppendScore,
           AllDone, NextManeuver, BuildResult, FinishTest, PushResult, ClearRun, LoopFails,
           FailClear, LoopGoto
  <2>2. turn = l => turn' = l
    BY <1>1, <1>2 DEF LoopStep, LaunchRun, LoopTop, FrameIgnored, ManeuverCloses, AppendScore,
           AllDone, NextManeuver, BuildResult, FinishTest, PushResult, ClearRun, LoopFails,
           FailClear, Executing
  <2> QED BY <2>1, <2>2
<1>3. ASSUME NEW h \in Threads, ThreadStep(h)
      PROVE  loop' = loop /\ turn' = turn
  BY <1>3 DEF ThreadStep, StopAbort, StopClear, CompleteChecks, CompleteAppend,
              CompleteBuild, CompleteFinish, CompleteClear, CompletePush
<1>4. CASE Request
  <2>1. ASSUME NEW k \in Runs, NEW t \in Tests, StartTest(k, t)
        PROVE  loop[l].pc = "none" \/ (loop'[l] = loop[l] /\ turn # l)
    BY <1>1, <2>1 DEF StartTest
  <2> QED BY <1>4, <2>1 DEF Request, StartTestRaises, StopTest, CompleteTest
<1> QED BY <1>2, <1>3, <1>4 DEF Next, vars

LEMMA TurnGivenBack ==
  FairSpec /\ []CanGoOn => [](turn # None => <>(turn = None))
<1>1. ASSUME NEW l \in Runs
      PROVE  FairSpec /\ []CanGoOn => [](turn = l => <>(turn = None))
  <2> DEFINE E1 == turn = l /\ loop[l].pc \in Last
             E2 == Does(l, "build")
             E3 == Does(l, "advance")
             E4 == Does(l, "append")
             E5 == Does(l, "update")
             Back == turn = None
  <2>1. TypeInv /\ turn = l => E1 \/ E2 \/ E3 \/ E4 \/ E5
    BY DEF TypeInv, TurnInv, Executing, Last, Does
  <2>2. ASSUME TypeInv, [Next]_vars, turn = l
        PROVE  \/ LoopStep(l)
               \/ Back'
               \/ (E1 /\ E1') \/ (E2 /\ E2') \/ (E3 /\ E3') \/ (E4 /\ E4') \/ (E5 /\ E5')
    <3>1. loop[l].pc # "none"
      BY <2>2 DEF TypeInv, TurnInv, Executing
    <3> QED BY <2>1, <2>2, <3>1, OthersLeave DEF Restart, Does
  <2>3. ASSUME TypeInv, turn = l, LoopStep(l)
        PROVE  Back' \/ (E5 /\ (E4' \/ E1')) \/ (E4 /\ E3') \/ (E3 /\ E2') \/ (E2 /\ E1')
    BY <2>3, TurnStep DEF Does, Last
  <2>4. /\ E1 => turn = l /\ ~E2 /\ ~E3 /\ ~E4 /\ ~E5
        /\ E2 => turn = l /\ ~E3 /\ ~E4 /\ ~E5
        /\ E3 => turn = l /\ ~E4 /\ ~E5
        /\ E4 => turn = l /\ ~E5
        /\ E5 => turn = l
    BY DEF Does, Last
  <2>5. CanGoOn /\ turn = l => Can(l)
    BY DEF CanGoOn
  <2>6. Fairness => Fair(l)
    BY FairLoops
  <2> HIDE DEF E1, E2, E3, E4, E5, Back
  <2>7. FairSpec /\ []CanGoOn => [](E1 => <>Back)
    BY <2>2, <2>3, <2>4, <2>5, <2>6, TypeInvariant, PTL DEF FairSpec, Spec, Fair, Can
  <2>8. FairSpec /\ []CanGoOn => [](E2 => <>Back)
    BY <2>2, <2>3, <2>4, <2>5, <2>6, <2>7, TypeInvariant, PTL DEF FairSpec, Spec, Fair, Can
  <2>9. FairSpec /\ []CanGoOn => [](E3 => <>Back)
    BY <2>2, <2>3, <2>4, <2>5, <2>6, <2>8, TypeInvariant, PTL DEF FairSpec, Spec, Fair, Can
  <2>10. FairSpec /\ []CanGoOn => [](E4 => <>Back)
    BY <2>2, <2>3, <2>4, <2>5, <2>6, <2>9, TypeInvariant, PTL DEF FairSpec, Spec, Fair, Can
  <2>11. FairSpec /\ []CanGoOn => [](E5 => <>Back)
    BY <2>2, <2>3, <2>4, <2>5, <2>6, <2>7, <2>10, TypeInvariant, PTL DEF FairSpec, Spec, Fair, Can
  <2>12. FairSpec /\ []CanGoOn => [](turn = l => <>Back)
    BY <2>1, <2>7, <2>8, <2>9, <2>10, <2>11, TypeInvariant, PTL DEF FairSpec
  <2> QED BY <2>12 DEF Back
<1>2. FairSpec /\ []CanGoOn => [](\A l \in Runs : (turn = l => <>(turn = None)))
  BY <1>1
<1>3. TypeInv => turn \in Runs \cup {None}
  BY DEF TypeInv, TypeOK
<1>4. (\A l \in Runs : (turn = l => <>(turn = None))) /\ turn \in Runs \cup {None}
        => (turn # None => <>(turn = None))
  OBVIOUS
<1> QED BY <1>2, <1>3, <1>4, TypeInvariant, PTL DEF FairSpec

LEMMA EndingSteps ==
  ASSUME TypeInv, [Next]_vars, NEW l \in Runs
  PROVE  /\ loop[l].pc = "push" =>
              /\ loop'[l].pc \in {"push", "clear"} \/ (~flag' /\ loop'[l].pc = "none")
              /\ <<LoopStep(l)>>_vars => loop'[l].pc = "clear"
         /\ loop[l].pc = "clear" =>
              /\ loop'[l].pc = "clear" \/ (~flag' /\ loop'[l].pc = "none")
              /\ <<LoopStep(l)>>_vars => ~flag' /\ loop'[l].pc = "none"
<1>1. loop \in [Runs -> Loop]
  BY DEF TypeInv, TypeOK
<1>2. ASSUME loop[l].pc = "push", LoopStep(l) PROVE loop'[l].pc = "clear"
  <2>1. PushResult(l)
    BY <1>2 DEF LoopStep, LaunchRun, LoopTop, FrameIgnored, ManeuverCloses, AppendScore, AllDone,
           NextManeuver, BuildResult, FinishTest, PushResult, ClearRun, LoopFails, FailClear
  <2> QED BY <1>1, <2>1 DEF PushResult, LoopGoto, Loop
<1>3. ASSUME loop[l].pc = "clear", LoopStep(l) PROVE ~flag' /\ loop'[l].pc = "none"
  <2>1. ClearRun(l)
    BY <1>3 DEF LoopStep, LaunchRun, LoopTop, FrameIgnored, ManeuverCloses, AppendScore, AllDone,
           NextManeuver, BuildResult, FinishTest, PushResult, ClearRun, LoopFails, FailClear
  <2> QED BY <1>1, <2>1 DEF ClearRun, NoLoop
<1>4. Restart => ~flag' /\ loop'[l].pc = "none"
  BY DEF Restart, NoLoop
<1> QED BY <1>2, <1>3, <1>4, OthersLeave

LEMMA EndingEnds ==
  ASSUME NEW l \in Runs
  PROVE  FairSpec /\ []CanGoOn =>
           [](loop[l].pc \in {"push", "clear"} => <>(~flag /\ loop[l].pc = "none"))
<1> DEFINE P == loop[l].pc = "push"
           C == loop[l].pc = "clear"
           E == ~flag /\ loop[l].pc = "none"
           Back == turn = None
<1>1. /\ TypeInv /\ [Next]_vars /\ P => P' \/ C' \/ E'
      /\ TypeInv /\ [Next]_vars /\ P /\ <<LoopStep(l)>>_vars => C'
      /\ TypeInv /\ [Next]_vars /\ C => C' \/ E'
      /\ TypeInv /\ [Next]_vars /\ C /\ <<LoopStep(l)>>_vars => E'
  BY EndingSteps
<1>2. CanGoOn /\ (P \/ (C /\ Back)) => Can(l)
  BY DEF CanGoOn
<1>3. Fairness => Fair(l)
  BY FairLoops
<1>4. FairSpec /\ []CanGoOn => [](turn # None => <>Back)
  BY TurnGivenBack
<1>5. turn # None <=> ~Back
  OBVIOUS
<1>6. loop[l].pc \in {"push", "clear"} <=> P \/ C
  OBVIOUS
<1> HIDE DEF P, C, E, Back
<1>7. FairSpec /\ []CanGoOn => [](C => <>E)
  BY <1>1, <1>2, <1>3, <1>4, <1>5, TypeInvariant, PTL DEF FairSpec, Spec, Fair, Can
<1>8. FairSpec /\ []CanGoOn => [](P => <>E)
  BY <1>1, <1>2, <1>3, <1>7, TypeInvariant, PTL DEF FairSpec, Spec, Fair, Can
<1>9. FairSpec /\ []CanGoOn => [](loop[l].pc \in {"push", "clear"} => <>E)
  BY <1>6, <1>7, <1>8, PTL
<1> QED BY <1>9 DEF E

(* A loop that finished its test frees the engine for the next start,      *)
(* whether its result could be posted or not and whatever ran while it     *)
(* awaited the answer (main.py:310-315).                                   *)
THEOREM FinishedTestsFreeEngine == FairSpec /\ []CanGoOn => PushFreesEngine
<1>1. ASSUME NEW l \in Runs
      PROVE  FairSpec /\ []CanGoOn => (loop[l].pc = "push" ~> ~flag)
  <2>1. loop[l].pc = "push" => loop[l].pc \in {"push", "clear"}
    OBVIOUS
  <2> QED BY <2>1, EndingEnds, PTL
<1> QED BY <1>1 DEF PushFreesEngine
LEMMA TopSteps ==
  ASSUME TypeInv, [Next]_vars, NEW l \in Runs, loop[l].pc = "top", ~flag
  PROVE  /\ loop'[l].pc \in {"top", "none"}
         /\ <<LoopStep(l)>>_vars => loop'[l].pc = "none"
<1>1. ASSUME LoopStep(l) PROVE loop'[l].pc = "none"
  <2>1. LoopTop(l)
    BY <1>1 DEF LoopStep, LaunchRun, LoopTop, FrameIgnored, ManeuverCloses, AppendScore, AllDone,
           NextManeuver, BuildResult, FinishTest, PushResult, ClearRun, LoopFails, FailClear
  <2> QED BY <2>1 DEF LoopTop, NoLoop, TypeInv, TypeOK
<1>2. Restart => loop'[l].pc = "none"
  BY DEF Restart, NoLoop
<1> QED BY <1>1, <1>2, OthersLeave

(* Once _running_test is cleared, each loop ends, unless another test is   *)
(* started: the part of StoppedLoopsEnd that needs no induction over the   *)
(* loops (main.py:264).                                                    *)
StoppedLoopEnds == \A l \in Runs : ~flag ~> (flag \/ loop[l].pc = "none")

THEOREM EachStoppedLoopEnds == FairSpec /\ []CanGoOn => StoppedLoopEnds
<1>1. ASSUME NEW l \in Runs
      PROVE  FairSpec /\ []CanGoOn => (~flag ~> (flag \/ loop[l].pc = "none"))
  <2> DEFINE T == loop[l].pc = "top"
             E == loop[l].pc \in {"push", "clear"}
             N == loop[l].pc = "none"
             Back == turn = None
  <2>1. /\ TypeInv /\ [Next]_vars /\ T /\ ~flag => T' \/ N'
        /\ TypeInv /\ [Next]_vars /\ T /\ ~flag /\ <<LoopStep(l)>>_vars => N'
    BY TopSteps
  <2>2. TypeInv /\ Back => T \/ E \/ N
    BY DEF TypeInv, TypeOK, TurnInv, Loop, LoopPC, Executing
  <2>3. CanGoOn /\ T /\ Back => Can(l)
    BY DEF CanGoOn
  <2>4. Fairness => Fair(l)
    BY FairLoops
  <2>5. turn # None <=> ~Back
    OBVIOUS
  <2>6. FairSpec /\ []CanGoOn => [](turn # None => <>Back)
    BY TurnGivenBack
  <2>7. FairSpec /\ []CanGoOn => [](E => <>(~flag /\ N))
    BY EndingEnds
  <2> HIDE DEF T, E, N, Back
  <2>8. FairSpec /\ []CanGoOn => [](T => <>(flag \/ N))
    BY <2>1, <2>3, <2>4, <2>5, <2>6, TypeInvariant, PTL DEF FairSpec, Spec, Fair, Can
  <2>9. FairSpec /\ []CanGoOn => (~flag ~> (flag \/ N))
    BY <2>2, <2>5, <2>6, <2>7, <2>8, TypeInvariant, PTL DEF FairSpec
  <2> QED BY <2>9 DEF N
<1> QED BY <1>1 DEF StoppedLoopEnds
=============================================================================
