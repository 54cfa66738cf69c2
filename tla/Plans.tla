------------------------------- MODULE Plans --------------------------------
(***************************************************************************)
(* Test plans, the level each is mapped to, and the tests made from them   *)
(* (internal/testing).  Editing and deleting look at the status of the     *)
(* plan in one statement and write in the next; publishing and retiring    *)
(* are single UPDATEs that look at nothing.                                *)
(***************************************************************************)
EXTENDS Naturals, FiniteSets

CONSTANTS
  Plans,      \* identifiers of plans, never used twice
  Seeded,     \* the plan of the migrations, active and mapped from the start
  Levels,     \* test levels of the one test center
  Tests,      \* identifiers of tests
  Requests,   \* requests that may be in progress
  None

VARIABLES
  plan,      \* test_plans.status
  mapping,   \* test_level_mappings
  test,      \* tests.test_plan_id
  req,       \* requests between two statements, with the plan they have read
  late       \* history: edits and deletions of a plan past its draft

vars == <<plan, mapping, test, req, late>>

-----------------------------------------------------------------------------
PlanStatus == {"none", "draft", "active", "retired", "deleted"}
Rows       == {p \in Plans : plan[p] \in {"draft", "active", "retired"}}
PastDraft  == {p \in Plans : plan[p] \in {"active", "retired"}}

Request == [pc : {"idle", "update", "delete", "insert"}, plan : Plans \cup {None}]
Idle    == [pc |-> "idle", plan |-> None]

Init ==
  /\ plan    = [p \in Plans |-> IF p = Seeded THEN "active" ELSE "none"]
  /\ mapping = [l \in Levels |-> Seeded]
  /\ test    = [t \in Tests |-> None]
  /\ req     = [r \in Requests |-> Idle]
  /\ late    = [p \in Plans |-> 0]

Goto(r, label, p) == req' = [req EXCEPT ![r] = [pc |-> label, plan |-> p]]
Finish(r)         == req' = [req EXCEPT ![r] = Idle]
IsIdle(r)         == req[r].pc = "idle" /\ UNCHANGED req

-----------------------------------------------------------------------------
(* Requests of one statement. *)

CreateTestPlan(r, p) ==
  /\ IsIdle(r) /\ plan[p] = "none"
  /\ plan' = [plan EXCEPT ![p] = "draft"]
  /\ UNCHANGED <<mapping, test, late>>

(* No row is no error: the plan may be gone, or retired before. *)
PublishTestPlan(r, p) ==
  /\ IsIdle(r) /\ p \in Rows
  /\ plan' = [plan EXCEPT ![p] = "active"]
  /\ UNCHANGED <<mapping, test, late>>

RetireTestPlan(r, p) ==
  /\ IsIdle(r) /\ p \in Rows
  /\ plan' = [plan EXCEPT ![p] = "retired"]
  /\ UNCHANGED <<mapping, test, late>>

(* Any plan, a draft too; the foreign key wants its row. *)
UpsertTestLevelMapping(r, l, p) ==
  /\ IsIdle(r) /\ p \in Rows
  /\ mapping' = [mapping EXCEPT ![l] = p]
  /\ UNCHANGED <<plan, test, late>>

(* Mutation: the status is read and not looked at. *)
ReadAnyPlan(r, label, p) ==
  /\ req[r].pc = "idle" /\ p \in Rows
  /\ Goto(r, label, p)
  /\ UNCHANGED <<plan, mapping, test, late>>

(* Only a draft may be edited or deleted. *)
ReadDraft(r, label, p) ==
  /\ req[r].pc = "idle" /\ plan[p] = "draft"
  /\ Goto(r, label, p)
  /\ UNCHANGED <<plan, mapping, test, late>>

(* The UPDATE has no condition on the status. *)
UpdateTestPlan(r) ==
  LET p == req[r].plan IN
  /\ req[r].pc = "update"
  /\ late' = IF p \in PastDraft THEN [late EXCEPT ![p] = @ + 1] ELSE late
  /\ Finish(r)
  /\ UNCHANGED <<plan, mapping, test>>

(* Nor has the DELETE, which takes the mappings along (ON DELETE CASCADE)  *)
(* and is refused when a test was made from the plan (ON DELETE RESTRICT). *)
DeleteTestPlan(r) ==
  LET p == req[r].plan IN
  /\ req[r].pc = "delete"
  /\ \A t \in Tests : test[t] # p
  /\ p \in Rows
  /\ plan'    = [plan EXCEPT ![p] = "deleted"]
  /\ mapping' = [l \in Levels |-> IF mapping[l] = p THEN None ELSE mapping[l]]
  /\ late'    = IF p \in PastDraft THEN [late EXCEPT ![p] = @ + 1] ELSE late
  /\ Finish(r)
  /\ UNCHANGED test

-----------------------------------------------------------------------------
(* POST /internal/tests: the active plan of the level, then the INSERT. *)
ActiveTestPlanForLevel(r, l) ==
  /\ req[r].pc = "idle"
  /\ mapping[l] # None /\ plan[mapping[l]] = "active"
  /\ Goto(r, "insert", mapping[l])
  /\ UNCHANGED <<plan, mapping, test, late>>

(* The foreign key wants the row of the plan, whatever its status is now. *)
CreateTest(r, t) ==
  /\ req[r].pc = "insert" /\ req[r].plan \in Rows
  /\ test[t] = None
  /\ test' = [test EXCEPT ![t] = req[r].plan]
  /\ Finish(r)
  /\ UNCHANGED <<plan, mapping, late>>

(* A statement fails or is refused, or the request ends before it. *)
Abandon(r) ==
  /\ req[r].pc # "idle"
  /\ Finish(r)
  /\ UNCHANGED <<plan, mapping, test, late>>

Next == \E r \in Requests :
  \/ \E p \in Plans : \/ CreateTestPlan(r, p)
                      \/ PublishTestPlan(r, p)
                      \/ RetireTestPlan(r, p)
                      \/ \E l \in Levels : UpsertTestLevelMapping(r, l, p)
                      \/ ReadDraft(r, "update", p)
                      \/ ReadDraft(r, "delete", p)
  \/ UpdateTestPlan(r)
  \/ DeleteTestPlan(r)
  \/ \E l \in Levels : ActiveTestPlanForLevel(r, l)
  \/ \E t \in Tests : CreateTest(r, t)
  \/ Abandon(r)

Spec == Init /\ [][Next]_vars

-----------------------------------------------------------------------------
TypeOK ==
  /\ plan \in [Plans -> PlanStatus]
  /\ mapping \in [Levels -> Plans \cup {None}]
  /\ test \in [Tests -> Plans \cup {None}]
  /\ req \in [Requests -> Request]
  /\ late \in [Plans -> Nat]

(* "only draft plans can be updated" (handler.go:1251): past its draft a   *)
(* plan is written by those requests only that had read it as one, at most *)
(* one for each request but the one that published or retired it.          *)
LateEditsBounded == \A p \in Plans : late[p] <= Cardinality(Requests) - 1

(* A test is made from a plan past its draft, whose row it keeps even when *)
(* a deletion that saw the draft crosses the creation (handler.go:618,     *)
(* repository.go:1291).                                                    *)
TestsArePlanned == \A t \in Tests : test[t] # None => test[t] \in PastDraft

(* What a test relies on in its plan (handler.go:1251, 618). *)
PlanIsKept == LateEditsBounded /\ TestsArePlanned
=============================================================================
