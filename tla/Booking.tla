------------------------------ MODULE Booking ------------------------------
(***************************************************************************)
(* The booking module of the ADLTS core engine (internal/booking): the     *)
(* booking rows, the slots with their booked_count, the payment attempts,  *)
(* the Chapa provider behind them and the request that creates a test once *)
(* a payment is confirmed.                                                 *)
(*                                                                         *)
(* Every repository call of the service is an autocommit statement of its  *)
(* own: no handler opens a transaction.  A request is therefore a process  *)
(* that goes from statement to statement, keeping in req[r] what it read   *)
(* earlier, and one action of this module is one statement (or one call to *)
(* a remote service) together with the decisions taken on its result.      *)
(* Requests of all actors interleave between any two statements.           *)
(***************************************************************************)
EXTENDS Naturals, FiniteSets

CONSTANTS
  Bookings,            \* identifiers of booking rows
  Slots,               \* identifiers of slot rows
  Payments,            \* identifiers of payment rows; also their tx_ref
  Tests,               \* identifiers of tests in the testing module
  Requests,            \* requests that may be in progress at the same time
  Candidates,          \* candidates
  CandidateOf,         \* the candidate that owns each booking
  Capacities,          \* capacities a slot may be created with
  MaxPaymentAttempts,  \* maxPaymentAttempts of the service (3)
  Faults,              \* TRUE: statements may fail and requests may die
  None                 \* SQL NULL

ASSUME RequestsAssumption == IsFiniteSet(Requests) /\ Requests # {}
ASSUME OwnersAssumption   == CandidateOf \in [Bookings -> Candidates]
ASSUME LimitsAssumption   == /\ Capacities \subseteq Nat \ {0}
                             /\ MaxPaymentAttempts \in Nat \ {0}
                             /\ Faults \in BOOLEAN
ASSUME NoneAssumption     == None \notin Bookings \cup Slots \cup Payments \cup Tests

VARIABLES
  booking,   \* table bookings
  slot,      \* table slots; capacity 0 stands for a row not created yet
  payment,   \* table payments
  test,      \* table tests, as the booking module sees it
  chapa,     \* status of each transaction at the provider
  webhook,   \* transactions whose webhook call has still to be delivered
  req        \* the requests in progress

vars == <<booking, slot, payment, test, chapa, webhook, req>>

-----------------------------------------------------------------------------
(* Rows.  "none" is a row not inserted yet, "gone" one that was deleted.   *)

BookingStatus == {"pending_verification", "verified", "rejected", "scheduled",
                  "payment_pending", "payment_failed", "confirmed"}
PayStatus     == {"unpaid", "pending", "failed", "paid"}
PaymentStatus == {"pending", "failed", "success"}
ChapaStatus   == {"none", "pending", "failed", "success", "refunded"}

BookingRow == [status   : BookingStatus \cup {"none", "gone"},
               pay      : PayStatus,
               slot     : Slots \cup {None},
               attempts : 0 .. MaxPaymentAttempts,
               ref      : Payments \cup {None},
               test     : Tests \cup {None}]
PaymentRow == [status   : PaymentStatus \cup {"none", "gone"},
               booking  : Bookings \cup {None},
               attempt  : 0 .. MaxPaymentAttempts]
TestRow    == [status   : {"none", "pending", "taken"},
               booking  : Bookings \cup {None}]

NoBooking == [status |-> "none", pay |-> "unpaid", slot |-> None,
              attempts |-> 0, ref |-> None, test |-> None]
NoPayment == [status |-> "none", booking |-> None, attempt |-> 0]
NoTest    == [status |-> "none", booking |-> None]

BookingExists(b) == booking[b].status \in BookingStatus
PaymentExists(p) == payment[p].status \in PaymentStatus
SlotExists(s)    == slot[s].capacity > 0

(* UPDATE ... WHERE id: a row that no longer exists is left alone, without *)
(* an error (updateFields and UpdatePaymentFields ignore the row count).   *)
UpdateBookingFields(b, row) ==
  booking' = IF BookingExists(b) THEN [booking EXCEPT ![b] = row] ELSE booking

SetPaymentStatus(p, st) ==
  payment' = IF PaymentExists(p) THEN [payment EXCEPT ![p].status = st] ELSE payment

IncrementSlotBookedCount(s) ==
  slot' = [slot EXCEPT ![s].booked = @ + 1]

(* Mutation: a decrement without GREATEST. *)
DecrementUnclamped(s) ==
  slot' = [slot EXCEPT ![s].booked = @ - 1]

DecrementSlotBookedCount(s) ==      \* GREATEST(booked_count - 1, 0)
  slot' = [slot EXCEPT ![s].booked = IF @ > 0 THEN @ - 1 ELSE 0]

(* The attempt numbers stored for a booking. *)
Attempts(b) == {payment[p].attempt : p \in {q \in Payments :
                                     PaymentExists(q) /\ payment[q].booking = b}}

-----------------------------------------------------------------------------
(* Requests: where each one is, and what it has read.                      *)

PC == {"idle", "verify",
       "sched_slot", "sched_inc", "sched_upd", "sched_undo",
       "resched_slot", "resched_dec", "resched_inc", "resched_upd", "resched_undo",
       "del_dec", "del_row",
       "pay_read", "pay_attempt", "pay_create", "pay_mark", "pay_undo", "pay_call",
       "pay_fail_payment", "pay_fail_booking", "retry_mark",
       "tx_verify", "conf_payment", "conf_booking", "fail_payment", "fail_booking",
       "keep_payment", "keep_booking",
       "trig_details", "trig_post", "trig_store"}

Request == [pc   : PC,
            b    : Bookings \cup {None},           \* the booking served
            s    : Slots \cup {None},              \* the slot asked for
            old  : Slots \cup {None},              \* the booking's slot when it was read
            p    : Payments \cup {None},           \* the payment served
            n    : 0 .. MaxPaymentAttempts,        \* the attempt number computed
            t    : Tests \cup {None},              \* the test created
            seen : {"none", "verified", "rejected"} \cup PaymentStatus]

Idle == [pc |-> "idle", b |-> None, s |-> None, old |-> None, p |-> None,
         n |-> 0, t |-> None, seen |-> "none"]

At(r, l)   == req[r].pc = l
Goto(r, l) == req' = [req EXCEPT ![r].pc = l]
Finish(r)  == req' = [req EXCEPT ![r] = Idle]

-----------------------------------------------------------------------------
Init ==
  /\ booking = [b \in Bookings |-> NoBooking]
  /\ slot    = [s \in Slots |-> [capacity |-> 0, booked |-> 0]]
  /\ payment = [p \in Payments |-> NoPayment]
  /\ test    = [t \in Tests |-> NoTest]
  /\ chapa   = [p \in Payments |-> "none"]
  /\ webhook = {}
  /\ req     = [r \in Requests |-> Idle]

(* CreateBooking: one INSERT, already pending verification. *)
CreateBooking(b) ==
  /\ booking[b].status = "none"
  /\ booking' = [booking EXCEPT ![b] = [NoBooking EXCEPT !.status = "pending_verification"]]
  /\ UNCHANGED <<slot, payment, test, chapa, webhook, req>>

(* CreateSlot: one INSERT; a capacity below 1 was normalised to 1. *)
CreateSlot(s, c) ==
  /\ ~SlotExists(s)
  /\ slot' = [slot EXCEPT ![s] = [capacity |-> c, booked |-> 0]]
  /\ UNCHANGED <<booking, payment, test, chapa, webhook, req>>

(* Mutation: a rejected booking may be reviewed again. *)
VerifyRejectedAgain(r, b, verdict) ==
  /\ At(r, "idle")
  /\ booking[b].status \in {"pending_verification", "rejected"}
  /\ req' = [req EXCEPT ![r] = [Idle EXCEPT !.pc = "verify", !.b = b, !.seen = verdict]]
  /\ UNCHANGED <<booking, slot, payment, test, chapa, webhook>>

(* VerifyBooking: the status is read, then written without a condition.    *)
VerifyBooking(r, b, verdict) ==
  /\ At(r, "idle")
  /\ booking[b].status = "pending_verification"
  /\ req' = [req EXCEPT ![r] = [Idle EXCEPT !.pc = "verify", !.b = b, !.seen = verdict]]
  /\ UNCHANGED <<booking, slot, payment, test, chapa, webhook>>

VerifyWrite(r) ==
  /\ At(r, "verify")
  /\ UpdateBookingFields(req[r].b, [booking[req[r].b] EXCEPT !.status = req[r].seen])
  /\ Finish(r)
  /\ UNCHANGED <<slot, payment, test, chapa, webhook>>

-----------------------------------------------------------------------------
(* Seats: ScheduleBooking, RescheduleBooking, DeleteBooking.               *)

ScheduleBooking(r, b, s) ==
  /\ At(r, "idle")
  /\ booking[b].status = "verified"
  /\ SlotExists(s)
  /\ req' = [req EXCEPT ![r] = [Idle EXCEPT !.pc = "sched_slot", !.b = b, !.s = s]]
  /\ UNCHANGED <<booking, slot, payment, test, chapa, webhook>>

RescheduleBooking(r, b, s) ==
  /\ At(r, "idle")
  /\ booking[b].status \in {"scheduled", "confirmed"}
  /\ SlotExists(s)
  /\ req' = [req EXCEPT ![r] = [Idle EXCEPT !.pc = "resched_slot", !.b = b, !.s = s,
                                            !.old = booking[b].slot]]
  /\ UNCHANGED <<booking, slot, payment, test, chapa, webhook>>

(* Mutation: an off-by-one in the capacity check. *)
SlotHasRoomOffByOne(r) == slot[req[r].s].booked <= slot[req[r].s].capacity

(* SlotByID, and ErrSlotFull when it is full. *)
SlotHasRoom(r) == slot[req[r].s].booked < slot[req[r].s].capacity

SlotRead(r) ==
  /\ \/ At(r, "sched_slot")   /\ SlotHasRoom(r) /\ Goto(r, "sched_inc")
     \/ At(r, "resched_slot") /\ SlotHasRoom(r) /\ req[r].old # None /\ Goto(r, "resched_dec")
     \/ At(r, "resched_slot") /\ SlotHasRoom(r) /\ req[r].old = None /\ Goto(r, "resched_inc")
     \/ At(r, "sched_slot")   /\ ~SlotHasRoom(r) /\ Finish(r)
     \/ At(r, "resched_slot") /\ ~SlotHasRoom(r) /\ Finish(r)
  /\ UNCHANGED <<booking, slot, payment, test, chapa, webhook>>

(* Mutation: the seat of the old slot is not given back. *)
RescheduleKeepsSeat(r) ==
  /\ At(r, "resched_dec")
  /\ Goto(r, "resched_inc")
  /\ UNCHANGED <<booking, slot, payment, test, chapa, webhook>>

(* The seat of the slot the booking had when it was read is given back.    *)
RescheduleRelease(r) ==
  /\ At(r, "resched_dec")
  /\ DecrementSlotBookedCount(req[r].old)
  /\ Goto(r, "resched_inc")
  /\ UNCHANGED <<booking, payment, test, chapa, webhook>>

TakeSeat(r) ==
  /\ \/ At(r, "sched_inc")   /\ Goto(r, "sched_upd")
     \/ At(r, "resched_inc") /\ Goto(r, "resched_upd")
  /\ IncrementSlotBookedCount(req[r].s)
  /\ UNCHANGED <<booking, payment, test, chapa, webhook>>

(* Both set the slot and the status scheduled, whatever the status now is. *)
AssignSlot(r) ==
  /\ At(r, "sched_upd") \/ At(r, "resched_upd")
  /\ UpdateBookingFields(req[r].b, [booking[req[r].b] EXCEPT !.slot = req[r].s,
                                                             !.status = "scheduled"])
  /\ Finish(r)
  /\ UNCHANGED <<slot, payment, test, chapa, webhook>>

AssignSlotFails(r) ==
  /\ Faults
  /\ \/ At(r, "sched_upd")   /\ Goto(r, "sched_undo")
     \/ At(r, "resched_upd") /\ Goto(r, "resched_undo")
  /\ UNCHANGED <<booking, slot, payment, test, chapa, webhook>>

ReturnSeat(r) ==
  /\ At(r, "sched_undo") \/ At(r, "resched_undo")
  /\ DecrementSlotBookedCount(req[r].s)
  /\ Finish(r)
  /\ UNCHANGED <<booking, payment, test, chapa, webhook>>

(* Deleting needs an administrator: the status a candidate may delete,     *)
(* drafted, is never written.                                              *)
DeleteBooking(r, b) ==
  /\ At(r, "idle")
  /\ BookingExists(b)
  /\ req' = [req EXCEPT ![r] = [Idle EXCEPT
               !.pc = IF booking[b].slot # None THEN "del_dec" ELSE "del_row",
               !.b = b, !.old = booking[b].slot]]
  /\ UNCHANGED <<booking, slot, payment, test, chapa, webhook>>

DeleteRelease(r) ==
  /\ At(r, "del_dec")
  /\ DecrementSlotBookedCount(req[r].old)
  /\ Goto(r, "del_row")
  /\ UNCHANGED <<booking, payment, test, chapa, webhook>>

(* Mutation: the tests go with the booking (CASCADE for RESTRICT). *)
DeleteRowCascading(r) ==
  LET b == req[r].b
  IN /\ At(r, "del_row")
     /\ UpdateBookingFields(b, [NoBooking EXCEPT !.status = "gone"])
     /\ payment' = [p \in Payments |->
          IF PaymentExists(p) /\ payment[p].booking = b
            THEN [payment[p] EXCEPT !.status = "gone"] ELSE payment[p]]
     /\ Finish(r)
     /\ UNCHANGED <<slot, test, chapa, webhook>>

(* tests.booking_id is ON DELETE RESTRICT, payments.booking_id CASCADE.    *)
DeleteRow(r) ==
  LET b == req[r].b
      refused == \E t \in Tests : test[t].booking = b
  IN /\ At(r, "del_row")
     /\ IF refused
          THEN UNCHANGED <<booking, payment>>
          ELSE /\ UpdateBookingFields(b, [NoBooking EXCEPT !.status = "gone"])
               /\ payment' = [p \in Payments |->
                    IF PaymentExists(p) /\ payment[p].booking = b
                      THEN [payment[p] EXCEPT !.status = "gone"] ELSE payment[p]]
     /\ Finish(r)
     /\ UNCHANGED <<slot, test, chapa, webhook>>

-----------------------------------------------------------------------------
(* InitiatePayment and RetryPayment.                                       *)

(* The checks InitiatePayment makes on the booking it has just read. *)
MayPay(b) ==
  /\ booking[b].pay # "paid"
  /\ booking[b].status \in {"verified", "scheduled", "payment_failed"}

InitiatePayment(r, b) ==
  /\ At(r, "idle")
  /\ MayPay(b)
  /\ req' = [req EXCEPT ![r] = [Idle EXCEPT !.pc = "pay_attempt", !.b = b]]
  /\ UNCHANGED <<booking, slot, payment, test, chapa, webhook>>

RetryPayment(r, b) ==
  /\ At(r, "idle")
  /\ booking[b].status = "payment_failed"
  /\ booking[b].attempts < MaxPaymentAttempts
  /\ req' = [req EXCEPT ![r] = [Idle EXCEPT !.pc = "retry_mark", !.b = b]]
  /\ UNCHANGED <<booking, slot, payment, test, chapa, webhook>>

(* RetryPayment makes the booking scheduled, slot or not, then calls       *)
(* InitiatePayment, which reads the booking again.                         *)
RetryMark(r) ==
  /\ At(r, "retry_mark")
  /\ UpdateBookingFields(req[r].b, [booking[req[r].b] EXCEPT !.status = "scheduled"])
  /\ Goto(r, "pay_read")
  /\ UNCHANGED <<slot, payment, test, chapa, webhook>>

RetryRead(r) ==
  /\ At(r, "pay_read")
  /\ \/ MayPay(req[r].b) /\ Goto(r, "pay_attempt")
     \/ Finish(r)        \* a check or the validation of the body refuses
  /\ UNCHANGED <<booking, slot, payment, test, chapa, webhook>>

(* Mutation: the latest number is asked of the attempts still open.  *)
PaymentAttemptOpenOnly(r) ==
  LET open == {payment[p].attempt : p \in {q \in Payments :
                 payment[q].booking = req[r].b /\ payment[q].status # "failed"}}
  IN /\ At(r, "pay_attempt")
     /\ \E last \in {0} \cup open :
          /\ \A m \in open : m <= last
          /\ IF last + 1 > MaxPaymentAttempts
               THEN Finish(r)
               ELSE req' = [req EXCEPT ![r].pc = "pay_create", ![r].n = last + 1]
     /\ UNCHANGED <<booking, slot, payment, test, chapa, webhook>>

(* LatestPaymentAttemptNumber, COALESCE(MAX(attempt_number), 0), plus one. *)
PaymentAttempt(r) ==
  /\ At(r, "pay_attempt")
  /\ \E last \in {0} \cup Attempts(req[r].b) :
       /\ \A m \in Attempts(req[r].b) : m <= last
       /\ IF last + 1 > MaxPaymentAttempts
            THEN Finish(r)
            ELSE req' = [req EXCEPT ![r].pc = "pay_create", ![r].n = last + 1]
  /\ UNCHANGED <<booking, slot, payment, test, chapa, webhook>>

(* The INSERT fails on its foreign key when the booking is gone. *)
CreatePayment(r) ==
  /\ At(r, "pay_create")
  /\ IF BookingExists(req[r].b)
       THEN \E p \in Payments :
              /\ payment[p].status = "none"
              /\ payment' = [payment EXCEPT ![p] =
                   [status |-> "pending", booking |-> req[r].b, attempt |-> req[r].n]]
              /\ req' = [req EXCEPT ![r].pc = "pay_mark", ![r].p = p]
       ELSE Finish(r) /\ UNCHANGED payment
  /\ UNCHANGED <<booking, slot, test, chapa, webhook>>

MarkPaymentPending(r) ==
  /\ At(r, "pay_mark")
  /\ UpdateBookingFields(req[r].b, [booking[req[r].b] EXCEPT
       !.status = "payment_pending", !.pay = "pending", !.attempts = req[r].n])
  /\ Goto(r, "pay_call")
  /\ UNCHANGED <<slot, payment, test, chapa, webhook>>

MarkPaymentPendingFails(r) ==
  /\ Faults
  /\ At(r, "pay_mark")
  /\ Goto(r, "pay_undo")
  /\ UNCHANGED <<booking, slot, payment, test, chapa, webhook>>

UndoPayment(r) ==
  /\ At(r, "pay_undo")
  /\ SetPaymentStatus(req[r].p, "failed")
  /\ Finish(r)
  /\ UNCHANGED <<booking, slot, test, chapa, webhook>>

(* Mutation: the error of the provider is returned without compensation. *)
ProviderInitiateUncompensated(r) ==
  /\ At(r, "pay_call")
  /\ \/ chapa' = [chapa EXCEPT ![req[r].p] = "pending"]
     \/ UNCHANGED chapa
  /\ Finish(r)
  /\ UNCHANGED <<booking, slot, payment, test, webhook>>

(* provider.InitiatePayment: a checkout is opened, an error comes back, or *)
(* a checkout is opened and the answer is lost.                            *)
ProviderInitiate(r) ==
  /\ At(r, "pay_call")
  /\ \/ /\ chapa' = [chapa EXCEPT ![req[r].p] = "pending"]
        /\ Finish(r)
     \/ /\ Goto(r, "pay_fail_payment")
        /\ UNCHANGED chapa
     \/ /\ Faults
        /\ chapa' = [chapa EXCEPT ![req[r].p] = "pending"]
        /\ Goto(r, "pay_fail_payment")
  /\ UNCHANGED <<booking, slot, payment, test, webhook>>

-----------------------------------------------------------------------------
(* The provider (external): the customer pays or not, a settled            *)
(* transaction may be reversed, and each outcome is notified once.         *)

ChapaSettle(p) ==
  /\ chapa[p] = "pending"
  /\ \E st \in {"success", "failed"} : chapa' = [chapa EXCEPT ![p] = st]
  /\ webhook' = webhook \cup {p}
  /\ UNCHANGED <<booking, slot, payment, test, req>>

ChapaRefund(p) ==
  /\ chapa[p] = "success"
  /\ chapa' = [chapa EXCEPT ![p] = "refunded"]
  /\ webhook' = webhook \cup {p}
  /\ UNCHANGED <<booking, slot, payment, test, req>>

(* The money of transaction p was taken, perhaps refunded since. *)
Settled(p) == chapa[p] \in {"success", "refunded"}

-----------------------------------------------------------------------------
(* HandleChapaTransaction, from the webhook or from the browser callback.  *)

HandleChapaTransaction(r, p) ==
  /\ At(r, "idle")
  /\ PaymentExists(p)
  /\ req' = [req EXCEPT ![r] = [Idle EXCEPT
               !.pc = IF payment[p].status = "success" THEN "conf_booking" ELSE "tx_verify",
               !.b = payment[p].booking, !.p = p, !.seen = payment[p].status]]

HandleChapaWebhook(r, p) ==
  /\ p \in webhook
  /\ webhook' = webhook \ {p}
  /\ HandleChapaTransaction(r, p)
  /\ UNCHANGED <<booking, slot, payment, test, chapa>>

(* The return page may be loaded at any time and any number of times. *)
HandleChapaCallback(r, p) ==
  /\ HandleChapaTransaction(r, p)
  /\ UNCHANGED <<booking, slot, payment, test, chapa, webhook>>

(* Mutation: anything the provider does not report as failed is a success. *)
VerifyTransactionLax(r) ==
  /\ At(r, "tx_verify")
  /\ \/ chapa[req[r].p] \in {"success", "pending"} /\ Goto(r, "conf_payment")
     \/ chapa[req[r].p] \in {"failed", "refunded"} /\ Goto(r, "fail_payment")
  /\ UNCHANGED <<booking, slot, payment, test, chapa, webhook>>

(* normalizeChapaStatus: reversed and refunded count as failed. *)
VerifyTransaction(r) ==
  /\ At(r, "tx_verify")
  /\ \/ chapa[req[r].p] = "success" /\ Goto(r, "conf_payment")
     \/ chapa[req[r].p] \in {"failed", "refunded"} /\ Goto(r, "fail_payment")
     \/ /\ chapa[req[r].p] = "pending"
        /\ Goto(r, IF req[r].seen # "pending" THEN "keep_payment" ELSE "keep_booking")
  /\ UNCHANGED <<booking, slot, payment, test, chapa, webhook>>

(* The provider cannot be reached or its answer does not match. *)
VerifyTransactionFails(r) ==
  /\ At(r, "tx_verify")
  /\ Finish(r)
  /\ UNCHANGED <<booking, slot, payment, test, chapa, webhook>>

(* First statement of confirmPayment, failPayment, keepPaymentPending and  *)
(* of the error path of InitiatePayment: the payment row.                  *)
WritePayment(r) ==
  /\ \/ At(r, "conf_payment") /\ SetPaymentStatus(req[r].p, "success")
                              /\ Goto(r, "conf_booking")
     \/ At(r, "fail_payment") /\ SetPaymentStatus(req[r].p, "failed")
                              /\ Goto(r, "fail_booking")
     \/ At(r, "keep_payment") /\ SetPaymentStatus(req[r].p, "pending")
                              /\ Goto(r, "keep_booking")
     \/ At(r, "pay_fail_payment") /\ SetPaymentStatus(req[r].p, "failed")
                                  /\ Goto(r, "pay_fail_booking")
  /\ UNCHANGED <<booking, slot, test, chapa, webhook>>

ConfirmBooking(r) ==
  /\ At(r, "conf_booking")
  /\ UpdateBookingFields(req[r].b, [booking[req[r].b] EXCEPT
       !.status = "confirmed", !.pay = "paid", !.ref = req[r].p])
  /\ Goto(r, "trig_details")
  /\ UNCHANGED <<slot, payment, test, chapa, webhook>>

FailBooking(r) ==
  /\ At(r, "fail_booking") \/ At(r, "pay_fail_booking")
  /\ UpdateBookingFields(req[r].b, [booking[req[r].b] EXCEPT
       !.status = "payment_failed", !.pay = "failed"])
  /\ Finish(r)
  /\ UNCHANGED <<slot, payment, test, chapa, webhook>>

KeepBookingPending(r) ==
  /\ At(r, "keep_booking")
  /\ UpdateBookingFields(req[r].b, [booking[req[r].b] EXCEPT
       !.status = "payment_pending", !.pay = "pending"])
  /\ Finish(r)
  /\ UNCHANGED <<slot, payment, test, chapa, webhook>>

-----------------------------------------------------------------------------
(* triggerTestCreation.                                                    *)

(* TestCreationDetails needs a test centre, which only a slot supplies.    *)
TestCreationDetails(r) ==
  /\ At(r, "trig_details")
  /\ \/ /\ BookingExists(req[r].b)
        /\ booking[req[r].b].slot # None
        /\ Goto(r, "trig_post")
     \/ Finish(r)       \* no internal key, no centre on the slot, or no row
  /\ UNCHANGED <<booking, slot, payment, test, chapa, webhook>>

(* idx_tests_one_pending: one pending test per candidate and test centre;  *)
(* all the slots of the model belong to one centre.                        *)
CandidateHasPending(b) ==
  \E t \in Tests : /\ test[t].status = "pending"
                   /\ CandidateOf[test[t].booking] = CandidateOf[b]

(* Mutation: 409 is not answered to a candidate with a pending test. *)
PostTestUnchecked(r) ==
  LET b == req[r].b IN
  /\ At(r, "trig_post")
  /\ \/ /\ BookingExists(b)
        /\ \E t \in Tests :
             /\ test[t].status = "none"
             /\ test' = [test EXCEPT ![t] = [status |-> "pending", booking |-> b]]
             /\ req' = [req EXCEPT ![r].pc = "trig_store", ![r].t = t]
     \/ Finish(r) /\ UNCHANGED test
  /\ UNCHANGED <<booking, slot, payment, chapa, webhook>>

PostTest(r) ==
  LET b == req[r].b IN
  /\ At(r, "trig_post")
  /\ \/ /\ BookingExists(b) /\ ~CandidateHasPending(b)             \* 201
        /\ \E t \in Tests :
             /\ test[t].status = "none"
             /\ test' = [test EXCEPT ![t] = [status |-> "pending", booking |-> b]]
             /\ req' = [req EXCEPT ![r].pc = "trig_store", ![r].t = t]
     \/ Finish(r) /\ UNCHANGED test           \* 409, or an error: 422, network
  /\ UNCHANGED <<booking, slot, payment, chapa, webhook>>

StoreTestID(r) ==
  /\ At(r, "trig_store")
  /\ UpdateBookingFields(req[r].b, [booking[req[r].b] EXCEPT !.test = req[r].t])
  /\ Finish(r)
  /\ UNCHANGED <<slot, payment, test, chapa, webhook>>

(* The testing module (TestLifecycle) takes the test out of pending. *)
TestTaken(t) ==
  /\ test[t].status = "pending"
  /\ test' = [test EXCEPT ![t].status = "taken"]
  /\ UNCHANGED <<booking, slot, payment, chapa, webhook, req>>

-----------------------------------------------------------------------------
(* A statement fails where nothing compensates it, the 30 s timeout        *)
(* cancels the context, or the process stops: the request does no more.    *)
RequestDies(r) ==
  /\ Faults
  /\ ~At(r, "idle")
  /\ Finish(r)
  /\ UNCHANGED <<booking, slot, payment, test, chapa, webhook>>

(* "_ = s.repo...": the statement fails, the error is dropped and the next *)
(* statement runs.                                                         *)
ErrorIgnored(r) ==
  /\ Faults
  /\ \/ At(r, "resched_dec")      /\ Goto(r, "resched_inc")
     \/ At(r, "del_dec")          /\ Goto(r, "del_row")
     \/ At(r, "pay_fail_payment") /\ Goto(r, "pay_fail_booking")
  /\ UNCHANGED <<booking, slot, payment, test, chapa, webhook>>

SeatStep(r) == SlotRead(r) \/ RescheduleRelease(r) \/ TakeSeat(r) \/ AssignSlot(r)
               \/ AssignSlotFails(r) \/ ReturnSeat(r) \/ DeleteRelease(r) \/ DeleteRow(r)

PaymentStep(r) == RetryMark(r) \/ RetryRead(r) \/ PaymentAttempt(r) \/ CreatePayment(r)
                  \/ MarkPaymentPending(r) \/ MarkPaymentPendingFails(r)
                  \/ UndoPayment(r) \/ ProviderInitiate(r)

TransactionStep(r) == VerifyTransaction(r) \/ VerifyTransactionFails(r) \/ WritePayment(r)
                      \/ ConfirmBooking(r) \/ FailBooking(r) \/ KeepBookingPending(r)
                      \/ TestCreationDetails(r) \/ PostTest(r) \/ StoreTestID(r)

(* The next statement of a request that has begun. *)
Step(r) == VerifyWrite(r) \/ SeatStep(r) \/ PaymentStep(r) \/ TransactionStep(r)
           \/ ErrorIgnored(r)

Begin(r) ==
  \/ \E b \in Bookings :
       \/ \E v \in {"verified", "rejected"} : VerifyBooking(r, b, v)
       \/ \E s \in Slots : ScheduleBooking(r, b, s) \/ RescheduleBooking(r, b, s)
       \/ DeleteBooking(r, b) \/ InitiatePayment(r, b) \/ RetryPayment(r, b)
  \/ \E p \in Payments : HandleChapaWebhook(r, p) \/ HandleChapaCallback(r, p)

Environment ==
  \/ \E b \in Bookings : CreateBooking(b)
  \/ \E s \in Slots, c \in Capacities : CreateSlot(s, c)
  \/ \E p \in Payments : ChapaSettle(p) \/ ChapaRefund(p)
  \/ \E t \in Tests : TestTaken(t)

Next == Environment \/ \E r \in Requests : Begin(r) \/ Step(r) \/ RequestDies(r)

Spec == Init /\ [][Next]_vars

(* A handler that has begun goes on (Go runs its goroutine), and a webhook *)
(* the provider has to send is delivered.                                  *)
Fairness ==
  /\ \A r \in Requests : WF_vars(Step(r))
  /\ \A p \in Payments : SF_vars(\E r \in Requests : HandleChapaWebhook(r, p))

FairSpec == Spec /\ Fairness
-----------------------------------------------------------------------------
(* Properties.                                                             *)

(* Every row and every request in progress has the columns the schema and  *)
(* the handlers give it; in particular no attempt number exceeds           *)
(* maxPaymentAttempts.                                                     *)
TypeOK ==
  /\ booking \in [Bookings -> BookingRow]
  /\ slot    \in [Slots -> [capacity : {0} \cup Capacities, booked : Nat]]
  /\ payment \in [Payments -> PaymentRow]
  /\ test    \in [Tests -> TestRow]
  /\ chapa   \in [Payments -> ChapaStatus]
  /\ webhook \in SUBSET Payments
  /\ req     \in [Requests -> Request]

(* The capacity check and the increment are two statements, so requests    *)
(* racing through ScheduleBooking and RescheduleBooking may overbook a     *)
(* slot, but by at most one seat for each request beyond the first: with   *)
(* one request at a time the capacity is never exceeded.                   *)
OverbookingBounded ==
  \A s \in Slots : slot[s].booked <= slot[s].capacity + (Cardinality(Requests) - 1)

(* A booking is confirmed, or shown as paid, only on the strength of a     *)
(* transaction of this very booking that the provider settled, whatever    *)
(* webhooks, callbacks and retries are in progress around it.              *)
PaidIsSettled ==
  \A b \in Bookings :
    booking[b].status = "confirmed" \/ booking[b].pay = "paid" =>
      \E p \in Payments : /\ booking[b].ref = p
                          /\ payment[p].booking = b
                          /\ Settled(p)

(* triggerTestCreation runs only for a booking the provider was paid for,  *)
(* and that booking is still there: the row cannot be deleted any more.    *)
TestOnlyIfSettled ==
  \A t \in Tests :
    test[t].status # "none" =>
      /\ BookingExists(test[t].booking)
      /\ \E p \in Payments : payment[p].booking = test[t].booking /\ Settled(p)

(* LatestPaymentAttemptNumber and CreatePayment are two statements: racing *)
(* initiations may share an attempt number, but no more of them than there *)
(* are requests.  One at a time, the attempts are numbered apart.          *)
AttemptRowsBounded ==
  \A b \in Bookings, k \in 1 .. MaxPaymentAttempts :
    Cardinality({p \in Payments : /\ PaymentExists(p)
                                  /\ payment[p].booking = b
                                  /\ payment[p].attempt = k})
      <= Cardinality(Requests)

(* The bookings that hold a seat of slot s. *)
Holders(s) == {b \in Bookings : BookingExists(b) /\ booking[b].slot = s}

(* Requests served one after the other never lose a seat: between two of   *)
(* them no slot counts more seats taken than there are bookings on it.     *)
NoSeatLost ==
  (\A r \in Requests : At(r, "idle")) =>
    \A s \in Slots : slot[s].booked <= Cardinality(Holders(s))

(* Served one after the other, no request brings a rejected booking back.  *)
RejectedIsFinal ==
  [][\A b \in Bookings : booking[b].status = "rejected" =>
       booking'[b].status \in {"rejected", "gone"}]_vars

(* An attempt that was recorded is opened at the provider or marked failed *)
(* in the end, unless its booking is deleted: none is left half made by    *)
(* two initiations that cross each other.                                  *)
AttemptIsOpenedOrFailed ==
  \A p \in Payments :
    payment[p].status = "pending" ~> chapa[p] # "none" \/ payment[p].status # "pending"

(* The tests by the candidate of their booking. *)
Taken == INSTANCE PendingTests WITH
  status <- [t \in Tests |-> test[t].status],
  owner  <- [t \in Tests |-> IF test[t].status = "none" THEN None
                             ELSE CandidateOf[test[t].booking]]

(* What triggerTestCreation assumes of the testing module is no more than  *)
(* PendingTests: one pending test for a candidate, however many callbacks, *)
(* webhooks and bookings ask for one at the same time.                     *)
ImplementsPendingTests == Taken!Spec

-----------------------------------------------------------------------------
(* What the documentation says and the code does not do.                   *)

(* The lifecycle in domain/booking.go leaves confirmed only for archived,  *)
(* cancelled or rejected: a paid booking whose transaction still stands at *)
(* the provider would never be turned back to payment_failed.              *)
PaidNeverFails ==
  [][\A b \in Bookings :
       /\ booking[b].pay = "paid"
       /\ booking[b].ref # None /\ chapa[booking[b].ref] = "success"
       => booking'[b].status # "payment_failed"]_vars
=============================================================================
