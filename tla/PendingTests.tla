---------------------------- MODULE PendingTests ----------------------------
(***************************************************************************)
(* What the booking module and the testing module promise each other about *)
(* tests: a test is created pending, at most one for a candidate at a      *)
(* time, and leaves pending once and for all.  Booking relies on it when   *)
(* it has a test created, TestLifecycle provides it; both are shown to     *)
(* implement this specification.  All tests belong to one test centre.     *)
(***************************************************************************)
CONSTANTS Tests, Candidates, None

VARIABLES
  status,    \* "none", "pending", or "taken": any later status
  owner      \* the candidate of each test, None before it is created

vars == <<status, owner>>

Init ==
  /\ status = [t \in Tests |-> "none"]
  /\ owner  = [t \in Tests |-> None]

HasPending(c) == \E t \in Tests : status[t] = "pending" /\ owner[t] = c

Create(t, c) ==
  /\ status[t] = "none"
  /\ ~HasPending(c)
  /\ status' = [status EXCEPT ![t] = "pending"]
  /\ owner'  = [owner EXCEPT ![t] = c]

Take(t) ==
  /\ status[t] = "pending"
  /\ status' = [status EXCEPT ![t] = "taken"]
  /\ UNCHANGED owner

Next == \E t \in Tests : Take(t) \/ \E c \in Candidates : Create(t, c)

Spec == Init /\ [][Next]_vars
=============================================================================
