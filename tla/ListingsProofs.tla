---------------------------- MODULE ListingsProofs ----------------------------
(***************************************************************************)
(* Proofs about Listings, for any table, size of pages and number of       *)
(* changes during a walk, and about two modules that share nothing with    *)
(* it: Plans, for any number of plans, levels, tests and requests, and     *)
(* Analysis, for any grading mean, threshold and fineness of the mean.     *)
(***************************************************************************)
EXTENDS Listings, Integers, FiniteSetTheorems, TLAPS

CONSTANTS Plans, Seeded, Levels, Tests, Requests, None
VARIABLES plan, mapping, test, req, late

T == INSTANCE Plans

CONSTANTS Unit, PassThreshold, Means, Posted
VARIABLES mean, stored, author, raised

N == INSTANCE Analysis

LEMMA SameCardinality == \A S : T!Cardinality(S) = Cardinality(S)
BY DEF T!Cardinality, Cardinality

(* No plan is called None, and there is a request to publish one with.     *)
PlansApart == None \notin Plans /\ Seeded \in Plans
SomeRequests == IsFiniteSet(Requests) /\ Requests # {}

-----------------------------------------------------------------------------
(* Plans.                                                                  *)

BeforeUse == {"none", "draft"}

(* The requests that may still write the plan as the draft they have read. *)
Writers(p) == {r \in Requests : req[r].pc \in {"update", "delete"} /\ req[r].plan = p}

(* Every edit of a plan past its draft has used up a request that had read *)
(* the draft, and one request, the one that published it, had not.         *)
LateInv ==
  \A p \in Plans :
    /\ plan[p] \in BeforeUse => late[p] = 0
    /\ plan[p] \notin BeforeUse => late[p] + Cardinality(Writers(p)) <= Cardinality(Requests) - 1

(* A request that is about to insert a test has seen its plan active.      *)
InsertsPast ==
  \A r \in Requests : req[r].pc = "insert" =>
    req[r].plan \in Plans /\ plan[req[r].plan] \notin BeforeUse

PlanInv == T!TypeOK /\ LateInv /\ InsertsPast /\ T!TestsArePlanned

LEMMA WritersFinite ==
  ASSUME SomeRequests
  PROVE  /\ Cardinality(Requests) \in Nat \ {0}
         /\ \A p : IsFiniteSet(Writers(p)) /\ Cardinality(Writers(p)) \in Nat
BY FS_Subset, FS_CardinalityType, FS_EmptySet DEF SomeRequests, Writers

(* One request that reads no draft leaves room for the others only.        *)
LEMMA WritersButOne ==
  ASSUME SomeRequests, NEW r \in Requests, req[r].pc = "idle"
  PROVE  \A p : Cardinality(Writers(p)) <= Cardinality(Requests) - 1
<1> SUFFICES ASSUME NEW p PROVE Cardinality(Writers(p)) <= Cardinality(Requests) - 1
  OBVIOUS
<1>1. Writers(p) \subseteq Requests \ {r} /\ IsFiniteSet(Requests \ {r})
  BY FS_RemoveElement DEF Writers, SomeRequests
<1>2. Cardinality(Requests \ {r}) = Cardinality(Requests) - 1
  BY FS_RemoveElement DEF SomeRequests
<1> QED BY <1>1, <1>2, FS_Subset

(* The writers of a plan after a step of one request.                      *)
LEMMA WritersChange ==
  ASSUME SomeRequests, T!TypeOK, NEW r \in Requests,
         \A x \in Requests : x # r => req'[x] = req[x]
  PROVE  \A p :
           /\ (req'[r].pc \in {"update", "delete"} => req'[r].plan # p)
                => Cardinality(Writers(p)') <= Cardinality(Writers(p))
           /\ /\ req'[r].pc \notin {"update", "delete"}
              /\ req[r].pc \in {"update", "delete"} /\ req[r].plan = p
              => Cardinality(Writers(p)') = Cardinality(Writers(p)) - 1
<1> SUFFICES ASSUME NEW p
             PROVE  /\ (req'[r].pc \in {"update", "delete"} => req'[r].plan # p)
                         => Cardinality(Writers(p)') <= Cardinality(Writers(p))
                    /\ /\ req'[r].pc \notin {"update", "delete"}
                       /\ req[r].pc \in {"update", "delete"} /\ req[r].plan = p
                       => Cardinality(Writers(p)') = Cardinality(Writers(p)) - 1
  OBVIOUS
<1>1. ASSUME req'[r].pc \in {"update", "delete"} => req'[r].plan # p
      PROVE  Cardinality(Writers(p)') <= Cardinality(Writers(p))
  <2>1. Writers(p)' \subseteq Writers(p)
    BY <1>1 DEF Writers
  <2> QED BY <2>1, WritersFinite, FS_Subset
<1>2. ASSUME req'[r].pc \notin {"update", "delete"},
             req[r].pc \in {"update", "delete"}, req[r].plan = p
      PROVE  Cardinality(Writers(p)') = Cardinality(Writers(p)) - 1
  <2>1. Writers(p)' = Writers(p) \ {r} /\ r \in Writers(p)
    BY <1>2 DEF Writers
  <2> QED BY <2>1, WritersFinite, FS_RemoveElement
<1> QED BY <1>1, <1>2

LEMMA InitPlanInv == ASSUME PlansApart, SomeRequests, T!Init PROVE PlanInv
<1>1. \A p : Writers(p) = {}
  BY DEF T!Init, T!Idle, Writers
<1>2. LateInv
  BY <1>1, WritersFinite, FS_EmptySet DEF T!Init, LateInv, BeforeUse
<1> QED BY <1>2 DEF PlansApart, T!Init, PlanInv, InsertsPast, T!TestsArePlanned, T!TypeOK, T!Idle,
                    T!Request, T!PlanStatus

(* Requests of one statement, made while the others are in progress.       *)
LEMMA AtOnceKeeps ==
  ASSUME PlansApart, SomeRequests, PlanInv, NEW r \in Requests, NEW p \in Plans,
         \/ T!CreateTestPlan(r, p) \/ T!PublishTestPlan(r, p) \/ T!RetireTestPlan(r, p)
         \/ \E l \in Levels : T!UpsertTestLevelMapping(r, l, p)
  PROVE  PlanInv'
<1>1. /\ UNCHANGED <<req, test, late>> /\ req[r].pc = "idle"
      /\ \A q : Writers(q)' = Writers(q)
  BY DEF T!CreateTestPlan, T!PublishTestPlan, T!RetireTestPlan, T!UpsertTestLevelMapping,
         T!IsIdle, Writers
<1>2. T!TypeOK'
  BY DEF PlanInv, T!CreateTestPlan, T!PublishTestPlan, T!RetireTestPlan,
         T!UpsertTestLevelMapping, T!IsIdle, T!TypeOK, T!PlanStatus
<1>3. \A q \in Plans : \/ plan'[q] = plan[q]
                       \/ plan[q] = "none" /\ plan'[q] = "draft"
                       \/ plan[q] \in {"draft", "active", "retired"}
                          /\ plan'[q] \in {"active", "retired"}
  BY DEF PlanInv, T!CreateTestPlan, T!PublishTestPlan, T!RetireTestPlan,
         T!UpsertTestLevelMapping, T!TypeOK, T!Rows
<1>4. LateInv'
  <2> SUFFICES ASSUME NEW q \in Plans
               PROVE  /\ plan'[q] \in BeforeUse => late[q] = 0
                      /\ plan'[q] \notin BeforeUse =>
                           late[q] + Cardinality(Writers(q)) <= Cardinality(Requests) - 1
    BY <1>1 DEF LateInv
  <2>1. Cardinality(Writers(q)) <= Cardinality(Requests) - 1
    BY <1>1, WritersButOne
  <2>2. Cardinality(Writers(q)) \in Nat /\ Cardinality(Requests) \in Nat
    BY WritersFinite
  <2> QED BY <1>3, <2>1, <2>2 DEF PlanInv, LateInv, BeforeUse
<1>5. InsertsPast' /\ T!TestsArePlanned'
  BY <1>1, <1>3 DEF PlanInv, InsertsPast, T!TestsArePlanned, T!PastDraft, T!TypeOK, BeforeUse
<1> QED BY <1>2, <1>4, <1>5 DEF PlanInv

LEMMA ReadDraftKeeps ==
  ASSUME PlansApart, SomeRequests, PlanInv, NEW r \in Requests, NEW p \in Plans,
         NEW label \in {"update", "delete"}, T!ReadDraft(r, label, p)
  PROVE  PlanInv'
<1>1. /\ UNCHANGED <<plan, mapping, test, late>> /\ plan[p] = "draft"
      /\ req' = [req EXCEPT ![r] = [pc |-> label, plan |-> p]]
  BY DEF T!ReadDraft, T!Goto
<1>2. T!TypeOK'
  BY <1>1 DEF PlanInv, T!TypeOK, T!Request
<1>3. /\ \A x \in Requests : x # r => req'[x] = req[x]
      /\ req'[r].plan = p /\ req'[r].pc = label
  BY <1>1 DEF PlanInv, T!TypeOK
<1>4. LateInv'
  <2> SUFFICES ASSUME NEW q \in Plans, plan[q] \notin BeforeUse
               PROVE  late[q] + Cardinality(Writers(q)') <= Cardinality(Requests) - 1
    BY <1>1 DEF PlanInv, LateInv
  <2>1. Cardinality(Writers(q)') <= Cardinality(Writers(q))
    BY <1>1, <1>3, WritersChange DEF PlanInv, BeforeUse
  <2>2. Cardinality(Writers(q)) \in Nat /\ Cardinality(Writers(q)') \in Nat
        /\ Cardinality(Requests) \in Nat /\ late[q] \in Nat
    BY <1>2, WritersFinite, FS_Subset, FS_CardinalityType
       DEF PlanInv, T!TypeOK, SomeRequests, Writers
  <2> QED BY <2>1, <2>2 DEF PlanInv, LateInv
<1>5. InsertsPast' /\ T!TestsArePlanned'
  BY <1>1, <1>3 DEF PlanInv, InsertsPast, T!TestsArePlanned, T!PastDraft
<1> QED BY <1>2, <1>4, <1>5 DEF PlanInv

(* The late writes: each one costs a writer.                               *)
LEMMA LateWriteKeeps ==
  ASSUME PlansApart, SomeRequests, PlanInv, NEW r \in Requests,
         T!UpdateTestPlan(r) \/ T!DeleteTestPlan(r)
  PROVE  PlanInv'
<1> DEFINE p == req[r].plan
<1>1. /\ UNCHANGED test /\ req[r].pc \in {"update", "delete"}
      /\ req' = [req EXCEPT ![r] = [pc |-> "idle", plan |-> None]]
      /\ late' = IF p \in T!PastDraft THEN [late EXCEPT ![p] = @ + 1] ELSE late
  BY DEF T!UpdateTestPlan, T!DeleteTestPlan, T!Finish, T!Idle
<1>2. \/ UNCHANGED <<plan, mapping>>
      \/ /\ p \in T!Rows /\ plan' = [plan EXCEPT ![p] = "deleted"]
         /\ mapping' = [l \in Levels |-> IF mapping[l] = p THEN None ELSE mapping[l]]
         /\ \A t \in Tests : test[t] # p
  BY DEF T!UpdateTestPlan, T!DeleteTestPlan
<1>3. /\ \A x \in Requests : x # r => req'[x] = req[x]
      /\ req'[r].pc = "idle"
  BY <1>1 DEF PlanInv, T!TypeOK
<1>4. T!TypeOK'
  BY <1>1, <1>2 DEF PlanInv, T!TypeOK, T!Request, T!PlanStatus, T!Rows, T!PastDraft
<1>5. LateInv'
  <2> SUFFICES ASSUME NEW q \in Plans
               PROVE  /\ plan'[q] \in BeforeUse => late'[q] = 0
                      /\ plan'[q] \notin BeforeUse =>
                           late'[q] + Cardinality(Writers(q)') <= Cardinality(Requests) - 1
    BY DEF LateInv
  <2>1. Cardinality(Writers(q)') <= Cardinality(Writers(q))
    BY <1>3, WritersChange DEF PlanInv
  <2>2. q = p => Cardinality(Writers(q)') = Cardinality(Writers(q)) - 1
    BY <1>1, <1>3, WritersChange DEF PlanInv
  <2>3. Cardinality(Writers(q)) \in Nat /\ Cardinality(Writers(q)') \in Nat
        /\ Cardinality(Requests) \in Nat /\ late[q] \in Nat
    BY WritersFinite, FS_Subset, FS_CardinalityType DEF PlanInv, T!TypeOK, SomeRequests, Writers
  <2>4. q = p => Cardinality(Writers(q)) <= Cardinality(Requests)
    BY FS_Subset, FS_CardinalityType DEF SomeRequests, Writers
  <2>5. CASE q # p
    <3>1. late'[q] = late[q] /\ plan'[q] = plan[q]
      BY <1>1, <1>2, <2>5 DEF PlanInv, T!TypeOK, T!Rows
    <3> QED BY <2>1, <2>3, <3>1 DEF PlanInv, LateInv
  <2>6. CASE q = p
    <3>1. plan'[q] = plan[q] \/ plan'[q] = "deleted"
      BY <1>2, <2>6 DEF PlanInv, T!TypeOK
    <3>2. plan[q] \in BeforeUse => late'[q] = 0
      BY <1>1, <2>6 DEF PlanInv, LateInv, BeforeUse, T!PastDraft, T!TypeOK
    <3>3. late'[q] <= late[q] + 1 /\ late'[q] \in Nat
      BY <1>1, <2>3, <2>6 DEF PlanInv, T!TypeOK
    <3>4. CASE plan[q] \in BeforeUse
      BY <3>2, <3>4, <2>2, <2>3, <2>4, <2>6
    <3>5. CASE plan[q] \notin BeforeUse
      BY <3>1, <3>3, <3>5, <2>2, <2>3, <2>6 DEF PlanInv, LateInv, BeforeUse
    <3> QED BY <3>4, <3>5
  <2> QED BY <2>5, <2>6
<1>6. \A q \in Plans : plan'[q] = plan[q] \/ (q = p /\ plan'[q] = "deleted")
  BY <1>2 DEF PlanInv, T!TypeOK
<1>7. InsertsPast'
  BY <1>3, <1>6 DEF PlanInv, InsertsPast, BeforeUse
<1>8. T!TestsArePlanned'
  BY <1>1, <1>2, <1>6 DEF PlanInv, T!TestsArePlanned, T!PastDraft
<1> QED BY <1>4, <1>5, <1>7, <1>8 DEF PlanInv

(* The creation of a test, and requests that end.                          *)
LEMMA CreationKeeps ==
  ASSUME PlansApart, SomeRequests, PlanInv, NEW r \in Requests,
         \/ \E l \in Levels : T!ActiveTestPlanForLevel(r, l)
         \/ \E t \in Tests : T!CreateTest(r, t)
         \/ T!Abandon(r)
  PROVE  PlanInv'
<1>1. /\ UNCHANGED <<plan, mapping, late>>
      /\ \/ /\ req' = [req EXCEPT ![r] = [pc |-> "idle", plan |-> None]]
            /\ \/ UNCHANGED test
               \/ /\ req[r].pc = "insert" /\ req[r].plan \in T!Rows
                  /\ \E t \in Tests : test' = [test EXCEPT ![t] = req[r].plan]
         \/ /\ UNCHANGED test
            /\ \E p \in Plans : /\ plan[p] = "active"
                                /\ req' = [req EXCEPT ![r] = [pc |-> "insert", plan |-> p]]
  BY DEF PlanInv, T!TypeOK, T!ActiveTestPlanForLevel, T!CreateTest, T!Abandon, T!Finish, T!Idle,
         T!Goto
<1>2. T!TypeOK'
  BY <1>1 DEF PlanInv, T!TypeOK, T!Request, T!Rows
<1>3. /\ \A x \in Requests : x # r => req'[x] = req[x]
      /\ \/ req'[r].pc = "idle"
         \/ req'[r].pc = "insert" /\ req'[r].plan \in Plans /\ plan[req'[r].plan] = "active"
  BY <1>1 DEF PlanInv, T!TypeOK
<1>4. LateInv'
  <2> SUFFICES ASSUME NEW q \in Plans, plan[q] \notin BeforeUse
               PROVE  late[q] + Cardinality(Writers(q)') <= Cardinality(Requests) - 1
    BY <1>1 DEF PlanInv, LateInv
  <2>1. Cardinality(Writers(q)') <= Cardinality(Writers(q))
    BY <1>3, WritersChange DEF PlanInv
  <2>2. Cardinality(Writers(q)) \in Nat /\ Cardinality(Writers(q)') \in Nat
        /\ Cardinality(Requests) \in Nat /\ late[q] \in Nat
    BY WritersFinite, FS_Subset, FS_CardinalityType DEF PlanInv, T!TypeOK, SomeRequests, Writers
  <2> QED BY <2>1, <2>2 DEF PlanInv, LateInv
<1>5. InsertsPast'
  BY <1>1, <1>3 DEF PlanInv, InsertsPast, BeforeUse
<1>6. T!TestsArePlanned'
  <2>1. CASE UNCHANGED test
    BY <1>1, <2>1 DEF PlanInv, T!TestsArePlanned, T!PastDraft
  <2>2. ASSUME NEW t \in Tests, req[r].pc = "insert", req[r].plan \in T!Rows,
               test' = [test EXCEPT ![t] = req[r].plan]
        PROVE  T!TestsArePlanned'
    BY <1>1, <2>2 DEF PlanInv, T!TestsArePlanned, T!PastDraft, T!Rows, InsertsPast, BeforeUse,
                      T!TypeOK
  <2> QED BY <1>1, <2>1, <2>2
<1> QED BY <1>2, <1>4, <1>5, <1>6 DEF PlanInv

LEMMA NextPlanInv ==
  ASSUME PlansApart, SomeRequests, PlanInv, [T!Next]_(T!vars)
  PROVE  PlanInv'
<1>1. CASE UNCHANGED T!vars
  <2>1. UNCHANGED <<plan, mapping, test, req, late>>
    BY <1>1 DEF T!vars
  <2> QED BY <2>1 DEF PlanInv, T!TypeOK, LateInv, Writers, InsertsPast, T!TestsArePlanned,
                      T!PastDraft
<1>2. CASE T!Next
  BY <1>2, AtOnceKeeps, ReadDraftKeeps, LateWriteKeeps, CreationKeeps DEF T!Next
<1> QED BY <1>1, <1>2

LEMMA PlanInvariant == ASSUME PlansApart, SomeRequests PROVE T!Spec => []PlanInv
<1>1. T!Init => PlanInv
  BY InitPlanInv
<1>2. PlanInv /\ [T!Next]_(T!vars) => PlanInv'
  BY NextPlanInv
<1> QED BY <1>1, <1>2, PTL DEF T!Spec

(* Plans, mappings, tests and what a request keeps between its statements  *)
(* stay well typed (testing/handler.go:1251).                              *)
THEOREM PlansTyped == ASSUME PlansApart, SomeRequests PROVE T!Spec => []T!TypeOK
<1>1. PlanInv => T!TypeOK
  BY DEF PlanInv
<1> QED BY <1>1, PlanInvariant, PTL

(* An edit or deletion of a plan that was published in between is not      *)
(* prevented, but each costs a request that read the draft, and a test has *)
(* a plan past its draft for good: the row it refers to is not deleted     *)
(* (testing/handler.go:1251, 618, repository.go:1291).                     *)
THEOREM PlansAreKept == ASSUME PlansApart, SomeRequests PROVE T!Spec => []T!PlanIsKept
<1>1. PlanInv => T!PlanIsKept
  <2> SUFFICES ASSUME PlanInv, NEW p \in Plans PROVE late[p] <= Cardinality(Requests) - 1
    BY SameCardinality DEF T!PlanIsKept, T!LateEditsBounded, PlanInv
  <2>1. Cardinality(Writers(p)) \in Nat /\ Cardinality(Requests) \in Nat \ {0} /\ late[p] \in Nat
    BY WritersFinite DEF PlanInv, T!TypeOK
  <2> QED BY <2>1 DEF PlanInv, LateInv
<1> QED BY <1>1, PlanInvariant, PTL

-----------------------------------------------------------------------------
(* Listings: the types.                                                    *)

SizesApart == /\ IsFiniteSet(Rows) /\ MaxRank \in Nat
              /\ Fixed \subseteq Nat \ {0} /\ Asked \subseteq Nat \ {0}

ListOK == list.first \in {"rows", "total"} /\ list.size \in Nat \ {0}

WalkOK ==
  /\ ListOK
  /\ row \in [Rows -> Nat]
  /\ page \in Nat \ {0} /\ total \in Nat
  /\ pc \in {"first", "second", "answered", "done", "failed"}
  /\ given \in [Rows -> Nat]
  /\ stayed \subseteq Rows
  /\ left \in Nat /\ came \in Nat

(* Who stayed is alone of its rank.                                        *)
Alone == \A x \in stayed : row[x] > 0 /\ \A y \in Rows : row[y] = row[x] => y = x

(* Every listing is one of these statements with a size of its handler.    *)
FixedSize ==
  {ListCandidates, ListExperts, ListInstitutes, ListAuthorities, ListAdmins, ListSuperAdmins,
   ListInvitations, ListBookings, ListSlots, ListDevices, ListTestPlans}
AskedSize ==
  {ListActiveInstitutes, SuperAdminAuditEvents, ListAppeals, ListMyTests, ListTests}

LEMMA ListsSized ==
  ASSUME NEW l \in Lists
  PROVE  \/ \E st \in FixedSize : l \in Sized(st, Fixed)
         \/ \E st \in AskedSize : l \in Sized(st, Asked)
<1>1. \/ l \in Sized(ListCandidates, Fixed) \/ l \in Sized(ListExperts, Fixed)
      \/ l \in Sized(ListInstitutes, Fixed) \/ l \in Sized(ListAuthorities, Fixed)
      \/ l \in Sized(ListAdmins, Fixed) \/ l \in Sized(ListSuperAdmins, Fixed)
      \/ l \in Sized(ListInvitations, Fixed) \/ l \in Sized(ListBookings, Fixed)
      \/ l \in Sized(ListSlots, Fixed) \/ l \in Sized(ListDevices, Fixed)
      \/ l \in Sized(ListTestPlans, Fixed) \/ l \in Sized(ListActiveInstitutes, Asked)
      \/ l \in Sized(SuperAdminAuditEvents, Asked) \/ l \in Sized(ListAppeals, Asked)
      \/ l \in Sized(ListMyTests, Asked) \/ l \in Sized(ListTests, Asked)
  BY DEF Lists, listCandidates, listExperts, listInstitutes, listActiveInstitutes,
         listAuthorities, listAdmins, listSuperAdmins, listInvitations, superAdminAudits,
         listAppeals, listBookings, listSlots, listDevices, listTestPlans, getMyTests, listTests
<1> QED BY <1>1 DEF FixedSize, AskedSize

LEMMA ListsOK ==
  ASSUME SizesApart
  PROVE  \A l \in Lists : l.first \in {"rows", "total"} /\ l.size \in Nat \ {0}
<1>1. \A st \in FixedSize \cup AskedSize : st.first \in {"rows", "total"}
  BY DEF FixedSize, AskedSize, ListCandidates, ListExperts, ListInstitutes, ListAuthorities,
         ListAdmins, ListSuperAdmins, ListInvitations, ListBookings, ListSlots, ListDevices,
         ListTestPlans, ListActiveInstitutes, SuperAdminAuditEvents, ListAppeals, ListMyTests,
         ListTests
<1> SUFFICES ASSUME NEW l \in Lists
             PROVE  l.first \in {"rows", "total"} /\ l.size \in Nat \ {0}
  OBVIOUS
<1>2. PICK st \in FixedSize \cup AskedSize, sizes \in {Fixed, Asked} : l \in Sized(st, sizes)
  BY ListsSized
<1>3. PICK n \in sizes : l = [first |-> st.first, leaves |-> st.leaves, size |-> n]
  BY <1>2 DEF Sized
<1> QED BY <1>1, <1>3 DEF SizesApart

-----------------------------------------------------------------------------
(* Places in the order.                                                    *)

Pos(x) == Cardinality(Ahead(x))

(* The set B has at most one element that A has not.                       *)
LEMMA OneMore ==
  ASSUME NEW A, NEW B, IsFiniteSet(A), \A u, v \in B \ A : u = v
  PROVE  IsFiniteSet(B) /\ Cardinality(B) <= Cardinality(A) + 1
<1>1. CASE B \subseteq A
  BY <1>1, FS_Subset, FS_CardinalityType
<1>2. CASE ~(B \subseteq A)
  <2>1. PICK u \in B \ A : TRUE
    BY <1>2
  <2>2. B \subseteq A \cup {u}
    BY <2>1
  <2>3. IsFiniteSet(A \cup {u}) /\ Cardinality(A \cup {u}) = Cardinality(A) + 1
    BY <2>1, FS_AddElement
  <2> QED BY <2>2, <2>3, FS_Subset
<1> QED BY <1>1, <1>2

LEMMA ListedFinite ==
  ASSUME SizesApart
  PROVE  /\ IsFiniteSet(Listed) /\ Count \in Nat
         /\ \A x : IsFiniteSet(Ahead(x)) /\ Pos(x) \in Nat
<1>1. Listed \subseteq Rows
  BY DEF Listed
<1>2. IsFiniteSet(Listed)
  BY <1>1, FS_Subset DEF SizesApart
<1>3. \A x : Ahead(x) \subseteq Listed
  BY DEF Ahead
<1> QED BY <1>2, <1>3, FS_Subset, FS_CardinalityType DEF Count, Pos

(* Rows of different ranks are at different places.                        *)
LEMMA PosLess ==
  ASSUME SizesApart, WalkOK, NEW x \in Listed, NEW y \in Listed, row[x] > row[y]
  PROVE  Pos(x) < Pos(y)
<1>1. Ahead(x) \cup {x} \subseteq Ahead(y) /\ x \notin Ahead(x)
  BY DEF Ahead, Listed, WalkOK
<1>2. Cardinality(Ahead(x) \cup {x}) = Pos(x) + 1
  BY <1>1, ListedFinite, FS_AddElement DEF Pos
<1>3. Cardinality(Ahead(x) \cup {x}) <= Pos(y)
  BY <1>1, ListedFinite, FS_Subset DEF Pos
<1> QED BY <1>2, <1>3, ListedFinite

LEMMA PosApart ==
  ASSUME SizesApart, WalkOK, Alone, NEW x \in stayed, NEW y \in stayed, Pos(x) = Pos(y)
  PROVE  x = y
<1>1. x \in Listed /\ y \in Listed /\ row[x] \in Nat /\ row[y] \in Nat
  BY DEF Alone, Listed, WalkOK
<1>2. ~(row[x] > row[y]) /\ ~(row[y] > row[x])
  BY <1>1, PosLess, ListedFinite
<1> QED BY <1>1, <1>2 DEF Alone, Listed

LEMMA PosBelowCount ==
  ASSUME SizesApart, WalkOK, Alone, NEW x \in stayed
  PROVE  Pos(x) < Count
<1>1. x \in Listed /\ Ahead(x) \cup {x} \subseteq Listed /\ x \notin Ahead(x)
  BY DEF Alone, Listed, Ahead, WalkOK
<1>2. Cardinality(Ahead(x) \cup {x}) = Pos(x) + 1
  BY <1>1, ListedFinite, FS_AddElement DEF Pos
<1>3. Cardinality(Ahead(x) \cup {x}) <= Count
  BY <1>1, ListedFinite, FS_Subset DEF Count
<1> QED BY <1>2, <1>3, ListedFinite

(* A page holds the rows that are alone and whose place is on it.          *)
LEMMA OnPage ==
  ASSUME SizesApart, WalkOK, Alone, NEW S \in Pages(page), NEW x \in stayed
  PROVE  x \in S <=> Offset(page) <= Pos(x) /\ Pos(x) < Offset(page) + list.size
<1> DEFINE o == Offset(page)
<1>1. o \in Nat /\ Pos(x) \in Nat /\ list.size \in Nat \ {0}
  BY ListedFinite DEF Offset, WalkOK, ListOK
<1>2. x \in Listed /\ Class(x) = {x}
  BY DEF Alone, Listed, Class, WalkOK
<1>3. Cardinality(S \cap {x}) = Inside(x, page)
  BY <1>2 DEF Pages
<1>4. Cardinality({x}) = 1 /\ Cardinality({Pos(x)}) = 1
  BY FS_Singleton
<1>5. Inside(x, page) = Cardinality((o .. o + list.size - 1) \cap (Pos(x) .. Pos(x)))
  <2>1. Cardinality(Class(x)) = 1 /\ Pos(x) + 1 - 1 = Pos(x)
    BY <1>1, <1>2, <1>4
  <2> QED BY <2>1 DEF Inside, Pos
<1> HIDE DEF o
<1>6. CASE o <= Pos(x) /\ Pos(x) < o + list.size
  <2>1. (o .. o + list.size - 1) \cap (Pos(x) .. Pos(x)) = {Pos(x)}
    BY <1>1, <1>6
  <2>2. Cardinality(S \cap {x}) = 1
    BY <2>1, <1>3, <1>4, <1>5
  <2>3. S \cap {x} # {}
    BY <2>2, FS_EmptySet
  <2> QED BY <2>3, <1>6 DEF o
<1>7. CASE ~(o <= Pos(x) /\ Pos(x) < o + list.size)
  <2>1. (o .. o + list.size - 1) \cap (Pos(x) .. Pos(x)) = {}
    BY <1>1, <1>7
  <2>2. Cardinality(S \cap {x}) = 0
    BY <2>1, <1>3, <1>5, FS_EmptySet
  <2>3. x \notin S
    <3> SUFFICES ASSUME x \in S PROVE FALSE
      OBVIOUS
    <3>1. S \cap {x} = {x}
      OBVIOUS
    <3> QED BY <3>1, <2>2, <1>4
  <2> QED BY <2>3, <1>7 DEF o
<1> QED BY <1>6, <1>7

-----------------------------------------------------------------------------
(* The walk.                                                               *)

(* How many places of the order have been read.                            *)
Passed == IF pc \in {"answered", "done"} \/ (pc = "second" /\ list.first = "rows")
          THEN Offset(page) + list.size ELSE Offset(page)

(* Rows that were given and now stand where the walk is still to come, and *)
(* rows that were not and stand where it has been.                         *)
Pushed == {x \in stayed : given[x] > 0 /\ Pos(x) >= Passed}
Pulled == {x \in stayed : given[x] = 0 /\ Pos(x) < Passed}
Twice  == Repeated \cup Pushed

TwiceInv  == Cardinality(Twice) <= came
PulledInv == ~dropped => Cardinality(Pulled) <= left

(* The total that is counted first falls behind by the rows that came.     *)
TotalInv  == pc = "second" /\ list.first = "total" => Count <= total + came

Ended == pc \in {"answered", "done"} /\ total <= Offset(page) + list.size
Lost  == left + (IF list.first = "total" THEN came ELSE 0)

EndInv == /\ Ended /\ ~dropped => Cardinality(Missed) <= Lost
          /\ pc = "done" => Ended

WalkInv == WalkOK /\ Alone /\ TwiceInv /\ PulledInv /\ TotalInv /\ EndInv

LEMMA PassedNat == ASSUME WalkOK PROVE Offset(page) \in Nat /\ Passed \in Nat
BY DEF WalkOK, ListOK, Offset, Passed

LEMMA StayedFinite ==
  ASSUME SizesApart, WalkOK
  PROVE  /\ IsFiniteSet(stayed)
         /\ \A A \in SUBSET stayed : IsFiniteSet(A) /\ Cardinality(A) \in Nat
         /\ Twice \subseteq stayed /\ Pulled \subseteq stayed /\ Missed \subseteq stayed
<1>1. IsFiniteSet(stayed)
  BY FS_Subset DEF SizesApart, WalkOK
<1> QED BY <1>1, FS_Subset, FS_CardinalityType DEF Twice, Pushed, Repeated, Pulled, Missed

LEMMA InitWalkInv == ASSUME SizesApart, Init PROVE WalkInv
<1>1. WalkOK
  <2>1. ListOK
    BY ListsOK DEF Init, ListOK
  <2>2. row \in [Rows -> Nat]
    BY DEF Init, SizesApart
  <2>3. stayed \subseteq Rows
    BY DEF Init, Listed
  <2>4. given \in [Rows -> Nat]
    BY DEF Init
  <2> QED BY <2>1, <2>2, <2>3, <2>4 DEF Init, WalkOK
<1>2. Alone
  BY DEF Init, Alone, Listed, Class
<1>3. Passed = 0
  BY <1>1 DEF Init, Passed, Offset, WalkOK, ListOK
<1>4. Twice = {} /\ Pulled = {}
  BY <1>3, ListedFinite DEF Init, Twice, Repeated, Pushed, Pulled, Listed
<1>5. TwiceInv /\ PulledInv
  BY <1>4, FS_EmptySet DEF Init, TwiceInv, PulledInv
<1>6. TotalInv /\ EndInv
  BY DEF Init, TotalInv, EndInv, Ended
<1> QED BY <1>1, <1>2, <1>5, <1>6 DEF WalkInv

-----------------------------------------------------------------------------
(* The statements of the walk.                                             *)

LEMMA SamePlaces ==
  ASSUME row' = row
  PROVE  Count' = Count /\ \A x : Pos(x)' = Pos(x)
BY DEF Count, Pos, Ahead, Listed

(* Those who stayed are at different places: as many as fit below the count *)
(* of rows stand at a place or behind it.                                  *)
LEMMA BeyondBounded ==
  ASSUME SizesApart, WalkOK, Alone, NEW e \in Nat, NEW c \in Nat, Count <= e + c
  PROVE  Cardinality({x \in stayed : Pos(x) >= e}) <= c
<1> DEFINE B == {x \in stayed : Pos(x) >= e}
           f == [x \in B |-> Pos(x)]
<1>1. \A x \in B : Pos(x) \in e .. e + c - 1
  BY PosBelowCount, ListedFinite
<1>2. f \in Injection(B, e .. e + c - 1)
  <2>1. f \in [B -> e .. e + c - 1]
    BY <1>1
  <2>2. \A x, y \in B : f[x] = f[y] => x = y
    BY PosApart
  <2> HIDE DEF f, B
  <2> QED BY <2>1, <2>2 DEF Injection, IsInjective
<1>3. IsFiniteSet(e .. e + c - 1) /\ Cardinality(e .. e + c - 1) = c
  BY FS_Interval
<1> HIDE DEF f
<1> QED BY <1>2, <1>3, FS_Injection

LEMMA UnionBounded ==
  ASSUME NEW A, NEW B, NEW C, IsFiniteSet(A), IsFiniteSet(B), C \subseteq A \cup B,
         NEW m \in Nat, NEW n \in Nat, Cardinality(A) <= m, Cardinality(B) <= n
  PROVE  Cardinality(C) <= m + n
<1>1. Cardinality(A) \in Nat /\ Cardinality(B) \in Nat /\ Cardinality(A \cap B) \in Nat
  BY FS_CardinalityType, FS_Subset
<1>2. /\ IsFiniteSet(A \cup B)
      /\ Cardinality(A \cup B) = Cardinality(A) + Cardinality(B) - Cardinality(A \cap B)
  BY FS_Union, Zenon
<1>3. Cardinality(A \cup B) <= m + n
  BY <1>1, <1>2
<1>4. Cardinality(C) <= Cardinality(A \cup B) /\ Cardinality(C) \in Nat
  BY <1>2, FS_Subset, FS_CardinalityType
<1> QED BY <1>1, <1>2, <1>3, <1>4

LEMMA ReadRowsKeeps ==
  ASSUME SizesApart, WalkInv,
         \/ pc = "first" /\ list.first = "rows" /\ ReadRows("second")
         \/ pc = "second" /\ list.first = "total" /\ ReadRows("answered")
  PROVE  WalkInv'
<1> USE DEF WalkInv
<1>1. UNCHANGED <<list, page, total, row, stayed, left, came>>
  BY DEF ReadRows, change
<1>2. \/ pc = "first" /\ list.first = "rows" /\ pc' = "second"
      \/ pc = "second" /\ list.first = "total" /\ pc' = "answered"
  BY DEF ReadRows
<1>3. Count' = Count /\ \A x : Pos(x)' = Pos(x)
  BY <1>1, SamePlaces
<1>4. Passed = Offset(page) /\ Passed' = Offset(page) + list.size
  BY <1>1, <1>2 DEF Passed, Offset
<1>5. PICK S \in Pages(page) :
        /\ given' \in [Rows -> Nat]
        /\ \A x \in Rows : given'[x] = given[x] \/ (x \in S /\ given'[x] = given[x] + 1)
        /\ ~dropped' => ~dropped /\ \A x \in S : x \in Rows => given'[x] = given[x] + 1
  <2>1. PICK S \in Pages(page) :
          \/ /\ given' = [x \in Rows |-> IF x \in S THEN given[x] + 1 ELSE given[x]]
             /\ UNCHANGED dropped
          \/ /\ \E U \in SUBSET S \ {S} :
                  given' = [x \in Rows |-> IF x \in U THEN given[x] + 1 ELSE given[x]]
             /\ dropped' = TRUE
    BY DEF ReadRows
  <2> QED BY <2>1 DEF WalkOK
<1>6. WalkOK' /\ Alone'
  BY <1>1, <1>2, <1>5 DEF WalkOK, ListOK, Alone
<1>7. \A x \in stayed : /\ x \in Rows /\ given[x] \in Nat /\ Pos(x) \in Nat
                        /\ x \in S <=> Passed <= Pos(x) /\ Pos(x) < Passed'
  BY <1>4, ListedFinite, OnPage DEF WalkOK
<1>8. Passed \in Nat /\ Passed' \in Nat /\ Passed <= Passed'
  BY <1>4, PassedNat DEF WalkOK, ListOK
<1>9. Twice' \subseteq Twice
  <2> SUFFICES ASSUME NEW x \in stayed, given'[x] > 1 \/ (given'[x] > 0 /\ Pos(x) >= Passed')
               PROVE  given[x] > 1 \/ (given[x] > 0 /\ Pos(x) >= Passed)
    BY <1>1, <1>3 DEF Twice, Repeated, Pushed
  <2> QED BY <1>5, <1>7, <1>8
<1>10. ~dropped' => Pulled' \subseteq Pulled
  <2> SUFFICES ASSUME ~dropped', NEW x \in stayed, given'[x] = 0, Pos(x) < Passed'
               PROVE  given[x] = 0 /\ Pos(x) < Passed
    BY <1>1, <1>3 DEF Pulled
  <2> QED BY <1>5, <1>7, <1>8
<1>11. TwiceInv'
  BY <1>1, <1>9, StayedFinite, FS_Subset DEF TwiceInv, WalkOK
<1>12. PulledInv'
  <2> SUFFICES ASSUME ~dropped' PROVE Cardinality(Pulled') <= left
    BY <1>1 DEF PulledInv
  <2>1. Pulled' \subseteq Pulled /\ Cardinality(Pulled) <= left
    BY <1>5, <1>10 DEF PulledInv
  <2> QED BY <2>1, StayedFinite, FS_Subset, FS_CardinalityType DEF WalkOK
<1>13. TotalInv'
  BY <1>1, <1>2 DEF TotalInv
<1>14. EndInv'
  <2> SUFFICES ASSUME Ended', ~dropped' PROVE (Cardinality(Missed) <= Lost)'
    BY <1>2 DEF EndInv
  <2>1. /\ list.first = "total" /\ pc = "second" /\ Lost' = left + came
        /\ total <= Offset(page) + list.size
    BY <1>1, <1>2 DEF Ended, Lost, Offset
  <2>2. Count <= total + came
    BY <2>1 DEF TotalInv
  <2> DEFINE e == Offset(page) + list.size
             B == {x \in stayed : Pos(x) >= e}
  <2>3. e \in Nat /\ left \in Nat /\ came \in Nat /\ Count <= e + came
    BY <1>4, <1>8, <2>1, <2>2, ListedFinite DEF WalkOK
  <2>4. Cardinality(B) <= came
    BY <2>3, BeyondBounded
  <2>5. Missed' \subseteq Pulled' \cup B
    BY <1>1, <1>3, <1>4, <1>7, <2>3 DEF Missed, Pulled
  <2>6. IsFiniteSet(B) /\ IsFiniteSet(Pulled') /\ Cardinality(Pulled') <= left
    BY <1>1, <1>12, StayedFinite DEF PulledInv, Pulled
  <2> HIDE DEF B, e
  <2>7. Cardinality(Missed') <= left + came
    BY <2>3, <2>4, <2>5, <2>6, UnionBounded
  <2> QED BY <2>1, <2>7
<1> QED BY <1>6, <1>11, <1>12, <1>13, <1>14

(* A step of the walk that gives no rows, and passes no place.             *)
LEMMA NothingGiven ==
  ASSUME SizesApart, WalkInv, UNCHANGED <<row, stayed, given, left, came>>, Passed' = Passed,
         dropped' = TRUE \/ UNCHANGED dropped
  PROVE  TwiceInv' /\ PulledInv' /\ Alone' /\ Missed' = Missed
<1>1. \A x : Pos(x)' = Pos(x)
  BY SamePlaces
<1>2. Twice' = Twice /\ Pulled' = Pulled /\ Missed' = Missed
  BY <1>1 DEF Twice, Repeated, Pushed, Pulled, Missed
<1> QED BY <1>2 DEF WalkInv, TwiceInv, PulledInv, Alone

LEMMA ReadTotalKeeps ==
  ASSUME SizesApart, WalkInv,
         \/ pc = "first" /\ list.first = "total" /\ ReadTotal("second")
         \/ pc = "second" /\ list.first = "rows" /\ ReadTotal("answered")
  PROVE  WalkInv'
<1> USE DEF WalkInv
<1>1. UNCHANGED <<list, page, given, row, stayed, left, came>>
  BY DEF ReadTotal, change
<1>2. \/ pc = "first" /\ list.first = "total" /\ pc' \in {"second", "failed"}
      \/ pc = "second" /\ list.first = "rows" /\ pc' = "answered"
  BY DEF ReadTotal
<1>3. \/ total' = Count /\ UNCHANGED dropped
      \/ dropped' = TRUE /\ list.first = "rows" /\ total' = 0
      \/ pc' = "failed" /\ UNCHANGED <<total, dropped>>
  BY DEF ReadTotal
<1>4. Passed' = Passed
  BY <1>1, <1>2 DEF Passed, Offset
<1>5. Count' = Count /\ Count \in Nat
  BY <1>1, SamePlaces, ListedFinite
<1>6. WalkOK'
  BY <1>1, <1>2, <1>3, <1>5 DEF WalkOK, ListOK
<1>7. TwiceInv' /\ PulledInv' /\ Alone' /\ Missed' = Missed
  BY <1>1, <1>3, <1>4, NothingGiven
<1>8. TotalInv'
  BY <1>1, <1>2, <1>3, <1>5 DEF TotalInv, WalkOK
<1>9. EndInv'
  <2> SUFFICES ASSUME Ended', ~dropped' PROVE Cardinality(Missed) <= Lost'
    BY <1>2, <1>7 DEF EndInv
  <2>1. /\ list.first = "rows" /\ pc = "second" /\ total' = Count /\ ~dropped
        /\ Count <= Offset(page) + list.size
    BY <1>1, <1>2, <1>3 DEF Ended, Offset
  <2>2. Passed = Offset(page) + list.size /\ Lost' = left
    BY <1>1, <2>1 DEF Passed, Lost, WalkOK
  <2>3. Missed \subseteq Pulled
    BY <2>1, <2>2, PosBelowCount, ListedFinite, PassedNat DEF Missed, Pulled
  <2>4. Cardinality(Pulled) <= left /\ left \in Nat
    BY <2>1 DEF PulledInv, WalkOK
  <2> QED BY <2>2, <2>3, <2>4, StayedFinite, FS_Subset
<1> QED BY <1>6, <1>7, <1>8, <1>9

LEMMA NextPageKeeps ==
  ASSUME SizesApart, WalkInv, NextPage
  PROVE  WalkInv'
<1> USE DEF WalkInv
<1>1. UNCHANGED <<list, total, given, dropped, row, stayed, left, came>> /\ pc = "answered"
  BY DEF NextPage, change
<1>2. page * list.size = Offset(page) + list.size
  BY DEF Offset, WalkOK, ListOK
<1>3. \/ page' = page + 1 /\ pc' = "first"
      \/ page' = page /\ pc' = "done" /\ Offset(page) + list.size >= total
  BY <1>2 DEF NextPage
<1>4. Passed' = Passed
  <2>1. CASE page' = page + 1 /\ pc' = "first"
    <3>1. page' - 1 = page
      BY <2>1 DEF WalkOK
    <3>2. Passed' = Offset(page)' /\ Passed = Offset(page) + list.size
      BY <1>1, <2>1 DEF Passed
    <3>3. Offset(page)' = page * list.size
      BY <1>1, <3>1 DEF Offset
    <3> QED BY <1>2, <3>2, <3>3
  <2>2. CASE page' = page /\ pc' = "done"
    BY <1>1, <2>2 DEF Passed, Offset
  <2> QED BY <1>3, <2>1, <2>2
<1>5. TwiceInv' /\ PulledInv' /\ Alone' /\ Missed' = Missed
  BY <1>1, <1>4, NothingGiven
<1>6. WalkOK' /\ TotalInv'
  BY <1>1, <1>3 DEF WalkOK, ListOK, TotalInv
<1>7. EndInv'
  <2>1. CASE pc' = "first"
    BY <2>1 DEF EndInv, Ended
  <2>2. CASE page' = page /\ pc' = "done" /\ Offset(page) + list.size >= total
    <3>1. Ended /\ Ended' /\ Lost' = Lost
      BY <1>1, <2>2, PassedNat DEF Ended, Lost, Offset, WalkOK, ListOK
    <3> QED BY <1>1, <1>5, <3>1 DEF EndInv
  <2> QED BY <1>3, <2>1, <2>2
<1> QED BY <1>5, <1>6, <1>7

-----------------------------------------------------------------------------
(* Rows that come, leave and move.                                         *)

(* A row that stays moves back by one place when another comes in front of *)
(* it, and up by one when another leaves from there.                       *)
LEMMA PlaceMoves ==
  ASSUME SizesApart, WalkOK, Alone, NEW x \in Rows, NEW n \in Nat, Place(x, n)
  PROVE  \A y \in stayed' :
           /\ y \in stayed /\ y # x /\ row'[y] = row[y]
           /\ \/ Pos(y)' = Pos(y)
              \/ n > 0 /\ Pos(y)' = Pos(y) + 1
              \/ row[x] > 0 /\ Pos(y)' = Pos(y) - 1
<1> SUFFICES ASSUME NEW y \in stayed'
             PROVE  /\ y \in stayed /\ y # x /\ row'[y] = row[y]
                    /\ \/ Pos(y)' = Pos(y)
                       \/ n > 0 /\ Pos(y)' = Pos(y) + 1
                       \/ row[x] > 0 /\ Pos(y)' = Pos(y) - 1
  OBVIOUS
<1>1. /\ row' = [row EXCEPT ![x] = n] /\ y \in stayed /\ y # x /\ row[y] # n
      /\ y \in Rows /\ row[y] \in Nat /\ row[y] > 0 /\ row[x] \in Nat /\ row[x] # row[y]
  BY DEF Place, WalkOK, Alone
<1>2. row'[y] = row[y] /\ row'[x] = n /\ \A z \in Rows : z # x => row'[z] = row[z]
  BY <1>1 DEF WalkOK
<1>3. IsFiniteSet(Ahead(y)) /\ Pos(y) \in Nat
  BY ListedFinite
<1>4. CASE (row[x] < row[y] /\ n < row[y]) \/ (row[x] > row[y] /\ n > row[y])
  <2>1. Ahead(y)' = Ahead(y)
    BY <1>1, <1>2, <1>4 DEF Ahead, Listed, WalkOK
  <2> QED BY <1>1, <1>2, <2>1 DEF Pos
<1>5. CASE row[x] < row[y] /\ n > row[y]
  <2>1. Ahead(y)' = Ahead(y) \cup {x} /\ x \notin Ahead(y)
    BY <1>1, <1>2, <1>5 DEF Ahead, Listed, WalkOK
  <2>2. Pos(y)' = Pos(y) + 1
    BY <1>3, <2>1, FS_AddElement DEF Pos
  <2>3. n > 0
    BY <1>1, <1>5
  <2> QED BY <1>1, <1>2, <2>2, <2>3
<1>6. CASE row[x] > row[y] /\ n < row[y]
  <2>1. Ahead(y)' = Ahead(y) \ {x} /\ x \in Ahead(y)
    BY <1>1, <1>2, <1>6 DEF Ahead, Listed, WalkOK
  <2>2. Pos(y)' = Pos(y) - 1
    BY <1>3, <2>1, FS_RemoveElement DEF Pos
  <2>3. row[x] > 0
    BY <1>1, <1>6
  <2> QED BY <1>1, <1>2, <2>2, <2>3
<1>7. \/ (row[x] < row[y] /\ n < row[y]) \/ (row[x] > row[y] /\ n > row[y])
      \/ (row[x] < row[y] /\ n > row[y]) \/ (row[x] > row[y] /\ n < row[y])
  BY <1>1
<1> QED BY <1>4, <1>5, <1>6, <1>7

LEMMA Sums ==
  /\ \A a, b, c, d \in Nat : a <= b + c /\ c <= d => a <= b + d
  /\ \A a, b, c, d \in Nat : a <= b /\ c <= d => a + c <= b + d
  /\ \A a, b \in Nat : a + b \in Nat
OBVIOUS

LEMMA ChangeKeeps ==
  ASSUME SizesApart, WalkInv, NEW x \in Rows, NEW n \in Nat, Place(x, n),
         Walking, UNCHANGED walk,
         left' = left \/ left' = left + 1, came' = came \/ came' = came + 1,
         row[x] > 0 => left' = left + 1, n > 0 => came' = came + 1
  PROVE  WalkInv'
<1> USE DEF WalkInv
<1>1. UNCHANGED <<list, page, total, pc, given, dropped>>
      /\ pc \in {"first", "second", "answered"}
  BY DEF walk, Walking
<1>2. \A y \in stayed' :
        /\ y \in stayed /\ y # x /\ row'[y] = row[y]
        /\ \/ Pos(y)' = Pos(y)
           \/ n > 0 /\ Pos(y)' = Pos(y) + 1
           \/ row[x] > 0 /\ Pos(y)' = Pos(y) - 1
  BY PlaceMoves
<1>3. row' = [row EXCEPT ![x] = n] /\ row[x] \in Nat
      /\ \A y \in stayed' : row[y] # n /\ y \in Rows
  BY DEF Place, WalkOK
<1>4. left \in Nat /\ came \in Nat /\ left' \in Nat /\ came' \in Nat
  BY DEF WalkOK
<1>13. left <= left' /\ came <= came'
  BY <1>4
<1>5. WalkOK'
  BY <1>1, <1>2, <1>3, <1>4 DEF WalkOK, ListOK
<1>6. Alone'
  BY <1>2, <1>3 DEF Alone, WalkOK
<1>7. Passed' = Passed /\ Passed \in Nat
  BY <1>1, PassedNat DEF Passed, Offset
<1>8. \A y \in stayed : Pos(y) \in Nat
  BY ListedFinite
<1>9. TwiceInv'
  <2>1. \A u \in Twice' \ Twice : u \in stayed /\ n > 0 /\ Pos(u) + 1 = Passed
    <3> SUFFICES ASSUME NEW u \in stayed', given[u] > 1 \/ (given[u] > 0 /\ Pos(u)' >= Passed),
                        ~(given[u] > 1 \/ (given[u] > 0 /\ Pos(u) >= Passed))
                 PROVE  u \in stayed /\ n > 0 /\ Pos(u) + 1 = Passed
      BY <1>1, <1>2, <1>7 DEF Twice, Repeated, Pushed
    <3> QED BY <1>2, <1>7, <1>8
  <2>2. CASE n > 0
    <3>1. \A u, v \in Twice' \ Twice : u = v
      BY <2>1, <1>7, <1>8, PosApart
    <3>2. Cardinality(Twice') <= Cardinality(Twice) + 1
      BY <3>1, StayedFinite, OneMore
    <3>3. Cardinality(Twice) \in Nat /\ Twice' \subseteq stayed
      BY <1>1, <1>2, StayedFinite DEF Twice, Repeated, Pushed
    <3> QED BY <2>2, <3>2, <3>3, <1>4, StayedFinite DEF TwiceInv
  <2>3. CASE ~(n > 0)
    <3>1. Twice' \subseteq Twice
      BY <2>1, <2>3
    <3>2. Cardinality(Twice') <= Cardinality(Twice) /\ Cardinality(Twice) \in Nat
          /\ Cardinality(Twice') \in Nat
      BY <3>1, StayedFinite, FS_Subset
    <3> QED BY <3>2, <1>4 DEF TwiceInv
  <2> QED BY <2>2, <2>3
<1>10. PulledInv'
  <2> SUFFICES ASSUME ~dropped PROVE Cardinality(Pulled') <= left'
    BY <1>1 DEF PulledInv
  <2>1. \A u \in Pulled' \ Pulled : u \in stayed /\ row[x] > 0 /\ Pos(u) = Passed
    <3> SUFFICES ASSUME NEW u \in stayed', given[u] = 0, Pos(u)' < Passed, ~(Pos(u) < Passed)
                 PROVE  u \in stayed /\ row[x] > 0 /\ Pos(u) = Passed
      BY <1>1, <1>2, <1>7 DEF Pulled
    <3> QED BY <1>2, <1>7, <1>8
  <2>2. CASE row[x] > 0
    <3>1. \A u, v \in Pulled' \ Pulled : u = v
      BY <2>1, PosApart
    <3>2. Cardinality(Pulled') <= Cardinality(Pulled) + 1
      BY <3>1, StayedFinite, OneMore
    <3>3. Cardinality(Pulled) \in Nat /\ Cardinality(Pulled') \in Nat
      <4>1. Pulled' \subseteq stayed
        BY <1>2 DEF Pulled
      <4> QED BY <4>1, StayedFinite
    <3> QED BY <2>2, <3>2, <3>3, <1>4 DEF PulledInv
  <2>3. CASE ~(row[x] > 0)
    <3>1. Pulled' \subseteq Pulled
      BY <2>1, <2>3
    <3>2. Cardinality(Pulled') <= Cardinality(Pulled) /\ Cardinality(Pulled) \in Nat
          /\ Cardinality(Pulled') \in Nat
      BY <3>1, StayedFinite, FS_Subset
    <3> QED BY <3>2, <1>4 DEF PulledInv
  <2> QED BY <2>2, <2>3
<1>11. TotalInv'
  <2> SUFFICES ASSUME pc = "second", list.first = "total" PROVE Count' <= total + came'
    BY <1>1 DEF TotalInv
  <2>1. Count <= total + came /\ Count \in Nat /\ total \in Nat
    BY ListedFinite DEF TotalInv, WalkOK
  <2>2. CASE n > 0
    <3>1. Listed' \subseteq Listed \cup {x}
      BY <1>3 DEF Listed, WalkOK
    <3>2. Count' <= Count + 1 /\ Count' \in Nat
      <4>1. \A u, v \in Listed' \ Listed : u = v
        BY <3>1
      <4> QED BY <4>1, ListedFinite, OneMore, FS_CardinalityType DEF Count
    <3> QED BY <2>1, <2>2, <3>2, <1>4
  <2>3. CASE ~(n > 0)
    <3>1. Listed' \subseteq Listed
      BY <2>3, <1>3 DEF Listed, WalkOK
    <3>2. Count' <= Count /\ Count' \in Nat
      BY <3>1, ListedFinite, FS_Subset, FS_CardinalityType DEF Count
    <3>3. Count' <= total + came
      BY <2>1, <3>2, <1>4
    <3> QED BY <2>1, <3>2, <3>3, <1>4, <1>13, Sums, Zenon
  <2> QED BY <2>2, <2>3
<1>12. EndInv'
  <2> SUFFICES ASSUME Ended, ~dropped PROVE Cardinality(Missed') <= Lost'
    BY <1>1 DEF EndInv, Ended, Offset
  <2>1. Missed' \subseteq Missed
    BY <1>1, <1>2 DEF Missed
  <2>2. Cardinality(Missed') <= Cardinality(Missed) /\ Cardinality(Missed) \in Nat
        /\ Cardinality(Missed') \in Nat
    BY <2>1, StayedFinite, FS_Subset
  <2>3. Cardinality(Missed) <= Lost
    BY DEF EndInv
  <2>4. Lost \in Nat /\ Lost' \in Nat /\ Lost <= Lost'
    <3>1. CASE list.first = "total"
      <4>1. Lost = left + came /\ Lost' = left' + came'
        BY <1>1, <3>1, Zenon DEF Lost
      <4>2. left + came \in Nat /\ left' + came' \in Nat /\ left + came <= left' + came'
        BY <1>4, <1>13, Sums, Zenon
      <4> QED BY <4>1, <4>2
    <3>2. CASE list.first # "total"
      <4>1. Lost = left + 0 /\ Lost' = left' + 0
        BY <1>1, <3>2, Zenon DEF Lost
      <4>2. left + 0 \in Nat /\ left' + 0 \in Nat /\ left + 0 <= left' + 0
        BY <1>4, <1>13, Sums, 0 \in Nat, 0 <= 0, Zenon
      <4> QED BY <4>1, <4>2
    <3> QED BY <3>1, <3>2
  <2> QED BY <2>2, <2>3, <2>4
<1> QED BY <1>5, <1>6, <1>9, <1>10, <1>11, <1>12

LEMMA NextWalkInv == ASSUME SizesApart, WalkInv, [Next]_vars PROVE WalkInv'
<1>1. CASE UNCHANGED vars
  <2>1. UNCHANGED <<list, page, total, pc, given, dropped, row, stayed, left, came>>
    BY <1>1 DEF vars, walk, change
  <2> QED BY <2>1 DEF WalkInv, WalkOK, ListOK, Alone, TwiceInv, PulledInv, TotalInv, EndInv, Ended,
                      Lost, Twice, Pushed, Repeated, Pulled, Missed, Passed, Offset, Pos, Ahead,
                      Listed, Count
<1>2. CASE First
  BY <1>2, ReadRowsKeeps, ReadTotalKeeps DEF First
<1>3. CASE Second
  BY <1>3, ReadRowsKeeps, ReadTotalKeeps DEF Second
<1>4. CASE NextPage
  BY <1>4, NextPageKeeps
<1>5. ASSUME NEW x \in Rows, Come(x) PROVE WalkInv'
  <2>1. PICK n \in 1 .. MaxRank : Place(x, n)
    BY <1>5 DEF Come
  <2>2. n \in Nat /\ n > 0 /\ row[x] = 0 /\ UNCHANGED <<walk, left>> /\ came' = came + 1 /\ Walking
    BY <1>5 DEF Come, SizesApart
  <2> QED BY <2>1, <2>2, ChangeKeeps
<1>6. ASSUME NEW x \in Rows, Leave(x) PROVE WalkInv'
  <2>1. Place(x, 0) /\ UNCHANGED <<walk, came>> /\ left' = left + 1 /\ Walking
    BY <1>6 DEF Leave
  <2> QED BY <2>1, ChangeKeeps
<1>7. ASSUME NEW x \in Rows, Move(x) PROVE WalkInv'
  <2>1. PICK n \in 1 .. MaxRank : Place(x, n)
    BY <1>7 DEF Move
  <2>2. n \in Nat /\ UNCHANGED walk /\ left' = left + 1 /\ came' = came + 1 /\ Walking
    BY <1>7 DEF Move, SizesApart
  <2> QED BY <2>1, <2>2, ChangeKeeps
<1> QED BY <1>1, <1>2, <1>3, <1>4, <1>5, <1>6, <1>7 DEF Next

(* A client that walks over a listing to its end misses, of the rows that  *)
(* stayed at a place of their own, at most as many as left their place     *)
(* meanwhile, and where the total is counted first as came; it is given    *)
(* twice at most as many as came, whatever the order of changes, pages and *)
(* statements (platform/page, identity/repository.go:57, 221, 610).        *)
THEOREM WalksAreBounded == ASSUME SizesApart PROVE Spec => []WalkIsBounded
<1>1. Init => WalkInv
  BY InitWalkInv
<1>2. WalkInv /\ [Next]_vars => WalkInv'
  BY NextWalkInv
<1>3. WalkInv => WalkIsBounded
  <2> SUFFICES ASSUME WalkInv PROVE WalkIsBounded
    OBVIOUS
  <2>1. WalkMisses
    BY DEF WalkInv, EndInv, Lost, WalkMisses
  <2>2. Repeated \subseteq Twice /\ WalkOK
    BY DEF WalkInv, Twice
  <2>3. Cardinality(Repeated) <= Cardinality(Twice)
    BY <2>2, StayedFinite, FS_Subset
  <2>4. Cardinality(Repeated) \in Nat /\ Cardinality(Twice) \in Nat /\ came \in Nat
    BY <2>2, StayedFinite DEF WalkOK
  <2>5. WalkRepeats
    BY <2>3, <2>4 DEF WalkInv, TwiceInv, WalkRepeats
  <2> QED BY <2>1, <2>5 DEF WalkIsBounded
<1> QED BY <1>1, <1>2, <1>3, PTL DEF Spec

-----------------------------------------------------------------------------
(* What a report says of a verdict.                                        *)

(* A hundredth has some units; means are not negative.                     *)
Scales ==
  /\ Unit \in Nat \ {0} /\ PassThreshold \in Nat
  /\ Means \subseteq Nat /\ Posted \subseteq Int
  /\ None \notin N!Result

(* What the engine's grading is kept as, and what an appeal changes of it. *)
AnalysisInv ==
  /\ mean \in Nat
  /\ IF stored = None THEN ~raised ELSE stored \in N!Result
  /\ author = "engine" =>
       /\ stored \in N!Result /\ ~stored.critical
       /\ stored.threshold = PassThreshold
       /\ 2 * N!Abs(stored.score * Unit - mean) <= Unit
       /\ stored.passed <=> N!Passes(mean) \/ raised

LEMMA InitAnalysis == ASSUME Scales, N!Init PROVE AnalysisInv
BY DEF Scales, N!Init, AnalysisInv

LEMMA RoundedIsNear ==
  ASSUME Scales, mean \in Nat, NEW n \in N!Rounded(mean)
  PROVE  n \in Nat /\ 2 * N!Abs(n * Unit - mean) <= Unit
BY DEF Scales, N!Rounded

LEMMA NextAnalysis == ASSUME Scales, AnalysisInv, N!Next PROVE AnalysisInv'
<1>1. CASE N!PostGraded
  <2>1. PICK n \in N!Rounded(mean) : N!Store(n, PassThreshold, N!Passes(mean), "engine")
    BY <1>1 DEF N!PostGraded
  <2>2. n \in Nat /\ 2 * N!Abs(n * Unit - mean) <= Unit
    BY RoundedIsNear DEF AnalysisInv
  <2>3. /\ stored' = [score |-> n, threshold |-> PassThreshold, passed |-> N!Passes(mean),
                      critical |-> FALSE]
        /\ mean' = mean /\ raised' = raised /\ ~raised
    BY <2>1 DEF N!Store, AnalysisInv
  <2>4. stored' \in N!Result
    BY <2>2, <2>3 DEF Scales, N!Result, N!Passes
  <2> QED BY <2>2, <2>3, <2>4 DEF Scales, AnalysisInv, N!Passes, N!Abs
<1>2. CASE N!PostOther
  <2>1. PICK n \in Posted, h \in Posted, p \in BOOLEAN : N!Store(n, h, p, "other")
    BY <1>2 DEF N!PostOther
  <2>2. stored' \in N!Result
    BY <2>1 DEF Scales, N!Store, N!Result
  <2> QED BY <2>1, <2>2 DEF Scales, AnalysisInv, N!Store
<1>3. CASE N!AcceptAppeal
  <2>1. /\ stored' = [stored EXCEPT !.passed = TRUE] /\ stored \in N!Result
        /\ raised' = TRUE /\ mean' = mean /\ author' = author
    BY <1>3 DEF AnalysisInv, N!AcceptAppeal
  <2>2. stored' \in N!Result
    BY <2>1 DEF N!Result
  <2> QED BY <2>1, <2>2 DEF Scales, AnalysisInv, N!Result, N!Passes, N!Abs
<1> QED BY <1>1, <1>2, <1>3 DEF N!Next

(* Rounding a mean to a score does not take it over the threshold or below *)
(* it, unless it is within half a hundredth below.                         *)
LEMMA RoundingKeepsVerdict ==
  ASSUME Scales, AnalysisInv, author = "engine"
  PROVE  /\ N!Passes(mean) => N!Reaches
         /\ ~N!Passes(mean) => N!AlmostPasses \/ ~N!Reaches
<1> DEFINE s == stored.score
           h == PassThreshold
<1>1. s \in Int /\ h \in Nat /\ Unit \in Nat \ {0} /\ mean \in Nat
  BY DEF Scales, AnalysisInv, N!Result
<1>2. /\ 2 * (s * Unit - mean) <= Unit
      /\ 2 * (mean - s * Unit) <= Unit
  BY <1>1 DEF AnalysisInv, N!Abs
<1>3. N!Reaches <=> s >= h
  BY DEF N!Reaches, AnalysisInv
<1> HIDE DEF s, h
<1>4. ASSUME mean >= h * Unit, s < h
      PROVE  FALSE
  <2>1. (h - s - 1) * Unit >= 0
    BY <1>1, <1>4
  <2>2. h * Unit >= s * Unit + Unit
    BY <1>1, <2>1
  <2> QED BY <1>1, <1>2, <1>4, <2>2
<1>5. ASSUME mean < h * Unit, s >= h
      PROVE  2 * (h * Unit - mean) <= Unit
  <2>1. (s - h) * Unit >= 0
    BY <1>1, <1>5
  <2>2. s * Unit >= h * Unit
    BY <1>1, <2>1
  <2> QED BY <1>1, <1>2, <2>2
<1> QED BY <1>1, <1>3, <1>4, <1>5 DEF N!Passes, N!AlmostPasses, h

(* Of a test with the engine's grading, a report explains the verdict it   *)
(* shows, though the engine grades the mean and the report goes by the     *)
(* rounded score, unless an appeal turned the verdict or the mean lies     *)
(* within half a hundredth below the threshold                             *)
(* (test_controller.py:180-188, reporting/analytics.go:97-107).            *)
THEOREM VerdictsAreExplained == ASSUME Scales PROVE N!Spec => []N!VerdictExplained
<1>1. N!Init => AnalysisInv
  BY InitAnalysis
<1>2. AnalysisInv /\ [N!Next]_(N!vars) => AnalysisInv'
  <2>1. CASE UNCHANGED N!vars
    BY <2>1 DEF N!vars, AnalysisInv, N!Passes
  <2> QED BY <2>1, NextAnalysis
<1>3. AnalysisInv => N!VerdictExplained
  <2> SUFFICES ASSUME AnalysisInv, author = "engine"
               PROVE  /\ stored.passed => raised \/ (N!Praised /\ ~N!Blamed)
                      /\ ~stored.passed => N!AlmostPasses \/ (N!Blamed /\ ~N!Praised)
    BY DEF N!VerdictExplained
  <2>1. ~N!AnyCriticalFail
    BY DEF AnalysisInv, N!AnyCriticalFail, N!CriticalCount
  <2>2. N!Praised <=> N!Reaches
    BY <2>1 DEF N!Praised, N!Strengths
  <2>3. N!Blamed <=> ~N!Reaches
    <3>1. ~N!Reaches => "below threshold" \in N!Weaknesses
      BY Zenon DEF N!Weaknesses
    <3>2. \A x \in N!Weaknesses : ~N!Reaches
      BY <2>1 DEF N!Weaknesses
    <3> QED BY <3>1, <3>2 DEF N!Blamed
  <2>4. stored.passed <=> N!Passes(mean) \/ raised
    BY DEF AnalysisInv
  <2> QED BY <2>2, <2>3, <2>4, RoundingKeepsVerdict
<1> QED BY <1>1, <1>2, <1>3, PTL DEF N!Spec
=============================================================================
