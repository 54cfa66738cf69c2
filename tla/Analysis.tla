------------------------------ MODULE Analysis ------------------------------
(***************************************************************************)
(* What a report says of a test's verdict, from the engine's grading over  *)
(* the stored result to AnalyticsEngine.Analyze                            *)
(* (services/adlts/test_controller.py, internal/testing/handler.go,        *)
(* internal/reporting/analytics.go).                                       *)
(*                                                                         *)
(* Scores and thresholds are in hundredths, as NUMERIC(5,2) keeps them;    *)
(* the engine's weighted mean is finer.  Sessions add nothing: the webhook *)
(* stores them without score and type, no critical failure and no event is *)
(* ever stored, and names, offsets and types would be lost on the way, the *)
(* JSON of a session having other keys than the report decodes.  So the    *)
(* report names no weakest maneuver and no mistake.                        *)
(***************************************************************************)
EXTENDS Integers

CONSTANTS
  Unit,          \* units of the engine's mean in a hundredth
  PassThreshold, \* PASS_THRESHOLD of the engine
  Means,         \* weighted means a test may end with, in units
  Posted,        \* scores and thresholds that may be posted by others
  None

VARIABLES
  mean,   \* the weighted mean the engine graded the test with
  stored, \* the row of test_results
  author, \* history: whose grading was posted
  raised  \* history: an appeal turned the verdict

vars == <<mean, stored, author, raised>>

-----------------------------------------------------------------------------
Result == [score : Int, threshold : Int, passed : BOOLEAN, critical : BOOLEAN]

Init ==
  /\ mean \in Means
  /\ stored = None /\ author = "nobody" /\ raised = FALSE

Passes(m) == m >= PassThreshold * Unit

(* round(m, 2): to the nearest hundredth, a tie to either side, as the     *)
(* binary fraction happens to lie.                                         *)
Abs(n) == IF n < 0 THEN -n ELSE n

(* Mutation: the score is sent as a whole number. *)
RoundedToPoint(m) ==
  {100 * n : n \in {k \in {m \div (100 * Unit), m \div (100 * Unit) + 1} :
                      2 * Abs(100 * k * Unit - m) <= 100 * Unit}}

Rounded(m) == {n \in {m \div Unit, m \div Unit + 1} : 2 * Abs(n * Unit - m) <= Unit}

(* resultWebhook stores what it is sent and knows of no critical failure;  *)
(* test_id is UNIQUE, so that a second result is refused.                  *)
Store(score, threshold, passed, a) ==
  /\ stored = None
  /\ stored' = [score |-> score, threshold |-> threshold, passed |-> passed,
                critical |-> FALSE]
  /\ author' = a
  /\ UNCHANGED <<mean, raised>>

(* The engine grades the mean and sends it rounded.  Its own push carries  *)
(* no token and is refused; someone with a token sends the result on.      *)
PostGraded == \E n \in Rounded(mean) : Store(n, PassThreshold, Passes(mean), "engine")

(* Whoever holds a token may post another result. *)
PostOther == \E n, h \in Posted, p \in BOOLEAN : Store(n, h, p, "other")

(* An appeal is accepted: the score stays as it is. *)
AcceptAppeal ==
  /\ stored # None
  /\ stored' = [stored EXCEPT !.passed = TRUE]
  /\ raised' = TRUE
  /\ UNCHANGED <<mean, author>>

Next == PostGraded \/ PostOther \/ AcceptAppeal

Spec == Init /\ [][Next]_vars

-----------------------------------------------------------------------------
(* The summary of a report.                                                *)

(* criticalCount after the loop over the sessions. *)
CriticalCount   == 0
AnyCriticalFail == CriticalCount > 0 \/ stored.critical

Reaches == stored.score >= stored.threshold

Strengths ==
  {"centered"} \cup {t \in {"high score", "no critical", "passing"} :
     \/ t = "high score"  /\ stored.score >= 8500
     \/ t = "no critical" /\ CriticalCount = 0
     \/ t = "passing"     /\ Reaches /\ ~AnyCriticalFail}

Weaknesses ==
  {t \in {"below threshold", "critical"} :
     \/ t = "below threshold" /\ ~Reaches
     \/ t = "critical"        /\ AnyCriticalFail}

-----------------------------------------------------------------------------
(* Properties.                                                             *)

Praised == "passing" \in Strengths
Blamed  == Weaknesses # {}

(* The mean is so close below the threshold that it may be sent as reached. *)
AlmostPasses == ~Passes(mean) /\ 2 * (PassThreshold * Unit - mean) <= Unit

(* Of a test with the engine's grading, the report explains the verdict it *)
(* shows, though the grading is of the mean and the words are of the       *)
(* rounded score: a pass is praised and blamed for nothing unless an       *)
(* appeal turned it, a failure is blamed and not praised unless the mean   *)
(* almost passes (test_controller.py:180-188, analytics.go:97-107).        *)
VerdictExplained ==
  author = "engine" =>
    IF stored.passed THEN raised \/ (Praised /\ ~Blamed)
                     ELSE AlmostPasses \/ (Blamed /\ ~Praised)
=============================================================================
