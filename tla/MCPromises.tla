----------------------------- MODULE MCPromises -----------------------------
(* What booking, testing and reporting promise to do some time, for TLC.   *)
(* They share no state; one behaviour moves one of them, the one that      *)
(* PromisesInit picks, and the others stay as they begin, where no fair    *)
(* action of theirs is enabled.  Reports, one report with everything that  *)
(* can fail, is extended, so that its properties are checked as they are   *)
(* proved.                                                                 *)
EXTENDS Reports

CONSTANTS c1, b1, p1, p2, t1, d1, r1, r2

VARIABLES part,
  booking, slot, payment, test, chapa, webhook, breq,
  taken, device, engine, pushed, lreq

bookings    == <<booking, slot, payment, test, chapa, webhook, breq>>
tests       == <<taken, device, engine, pushed, lreq>>
promiseVars == <<part, bookings, tests, vars>>

-----------------------------------------------------------------------------
(* One booking, two attempts to pay. *)
B == INSTANCE Booking WITH
  Bookings <- {b1}, Slots <- {}, Payments <- {p1, p2}, Tests <- {}, Requests <- {r1, r2},
  MaxPaymentAttempts <- 1, Faults <- FALSE, Capacities <- {1}, Candidates <- {c1},
  CandidateOf <- [b \in {b1} |-> c1], req <- breq

(* One test, one device; the batches of session rows are not counted. *)
L == INSTANCE TestLifecycle WITH
  Tests <- {t1}, Devices <- {d1}, Requests <- {r1, r2}, MaxBatches <- 0, Faults <- FALSE,
  Candidates <- {c1}, CandidateOf <- [t \in {t1} |-> c1], test <- taken, req <- lreq

PromisesInit == part \in {"B", "L", "V"} /\ B!Init /\ L!Init /\ Init

PromisesNext ==
  /\ UNCHANGED part
  /\ \/ part = "B" /\ B!Next /\ UNCHANGED <<tests, vars>>
     \/ part = "L" /\ L!Next /\ UNCHANGED <<bookings, vars>>
     \/ part = "V" /\ Next /\ UNCHANGED <<bookings, tests>>

(* The part does not change along a behaviour, so this is the fairness of  *)
(* the module that moves.                                                  *)
PartStep(r) ==
  /\ UNCHANGED part
  /\ \/ part = "B" /\ B!Step(r) /\ UNCHANGED <<tests, vars>>
     \/ part = "L" /\ L!Step(r) /\ UNCHANGED <<bookings, vars>>
     \/ part = "V" /\ Step(r) /\ UNCHANGED <<bookings, tests>>

Delivery(p) ==
  /\ part = "B" /\ (\E r \in {r1, r2} : B!HandleChapaWebhook(r, p))
  /\ UNCHANGED <<part, tests, vars>>

PromisesSpec ==
  /\ PromisesInit /\ [][PromisesNext]_promiseVars
  /\ \A r \in {r1, r2} : WF_promiseVars(PartStep(r))
  /\ \A p \in {p1, p2} : SF_promiseVars(Delivery(p))

-----------------------------------------------------------------------------
(* Each payment row is opened at the provider or failed (service.go:355). *)
AttemptIsOpenedOrFailed == B!AttemptIsOpenedOrFailed

(* A result the webhook accepted completes the test (handler.go:2161). *)
AcceptedResultCompletes == L!AcceptedResultCompletes
=============================================================================
