---------------------------- MODULE BookingProofs ----------------------------
(***************************************************************************)
(* Proofs about Booking, for any number of requests, bookings, slots and   *)
(* payments: its types and the bound on overbooking; payments, and the     *)
(* refinement of PendingTests; what holds for requests served one by one.  *)
(***************************************************************************)
EXTENDS Booking, FiniteSetTheorems, TLAPS

-----------------------------------------------------------------------------
(* Type correctness.  TypeOK is not inductive as it stands: VerifyWrite    *)
(* writes the verdict kept in the request, which must be one of the two.   *)

Reviewing == \A r \in Requests : At(r, "verify") => req[r].seen \in {"verified", "rejected"}

TypeInv == TypeOK /\ Reviewing

(* Nothing is recorded before the first request. *)
LEMMA TypeInit == Init => TypeInv
BY LimitsAssumption
DEF Init, TypeInv, TypeOK, Reviewing, At, NoBooking, NoPayment, NoTest, Idle,
    BookingRow, PaymentRow, TestRow, Request, PC, BookingStatus, PayStatus,
    PaymentStatus, ChapaStatus

(* Creating a row, and what the provider and the testing module do. *)
LEMMA TypeEnvironment == TypeInv /\ Environment => TypeInv'
<1> SUFFICES ASSUME TypeInv, Environment PROVE TypeInv'
  OBVIOUS
<1> USE DEF TypeInv, TypeOK, Reviewing, At
<1>1. ASSUME NEW b \in Bookings, CreateBooking(b) PROVE TypeInv'
  BY <1>1, LimitsAssumption
  DEF CreateBooking, NoBooking, BookingRow, BookingStatus, PayStatus
<1>2. ASSUME NEW s \in Slots, NEW c \in Capacities, CreateSlot(s, c) PROVE TypeInv'
  BY <1>2 DEF CreateSlot
<1>3. ASSUME NEW p \in Payments, ChapaSettle(p) \/ ChapaRefund(p) PROVE TypeInv'
  BY <1>3 DEF ChapaSettle, ChapaRefund, ChapaStatus
<1>4. ASSUME NEW t \in Tests, TestTaken(t) PROVE TypeInv'
  BY <1>4 DEF TestTaken, TestRow
<1> QED BY <1>1, <1>2, <1>3, <1>4 DEF Environment

(* A request that begins keeps what it has read. *)
LEMMA TypeBegin == ASSUME NEW r \in Requests PROVE TypeInv /\ Begin(r) => TypeInv'
<1> SUFFICES ASSUME TypeInv, Begin(r) PROVE TypeInv'
  OBVIOUS
<1> USE DEF TypeInv, TypeOK, Reviewing, At
<1>1. ASSUME NEW rec \in Request, req' = [req EXCEPT ![r] = rec],
             UNCHANGED <<booking, slot, payment, test, chapa>>, webhook' \subseteq webhook,
             rec.pc = "verify" => rec.seen \in {"verified", "rejected"}
      PROVE TypeInv'
  BY <1>1
<1>2. Idle \in Request
  BY LimitsAssumption DEF Idle, Request, PC
<1>3. ASSUME NEW b \in Bookings, NEW v \in {"verified", "rejected"}, VerifyBooking(r, b, v)
      PROVE TypeInv'
  <2>1. [Idle EXCEPT !.pc = "verify", !.b = b, !.seen = v] \in Request
    BY <1>2 DEF Request, PC
  <2> QED BY <1>1, <1>2, <1>3, <2>1 DEF VerifyBooking, Idle
<1>4. ASSUME NEW b \in Bookings, NEW s \in Slots,
             ScheduleBooking(r, b, s) \/ RescheduleBooking(r, b, s)
      PROVE TypeInv'
  <2>1. /\ [Idle EXCEPT !.pc = "sched_slot", !.b = b, !.s = s] \in Request
        /\ [Idle EXCEPT !.pc = "resched_slot", !.b = b, !.s = s,
                        !.old = booking[b].slot] \in Request
    BY <1>2 DEF Request, PC, BookingRow
  <2> QED BY <1>1, <1>2, <1>4, <2>1 DEF ScheduleBooking, RescheduleBooking, Idle
<1>5. ASSUME NEW b \in Bookings, DeleteBooking(r, b) PROVE TypeInv'
  <2>1. ASSUME NEW l \in {"del_dec", "del_row"}
        PROVE [Idle EXCEPT !.pc = l, !.b = b, !.old = booking[b].slot] \in Request
    BY <1>2 DEF Request, PC, BookingRow
  <2> QED BY <1>1, <1>2, <1>5, <2>1 DEF DeleteBooking, Idle
<1>6. ASSUME NEW b \in Bookings, InitiatePayment(r, b) \/ RetryPayment(r, b) PROVE TypeInv'
  <2>1. ASSUME NEW l \in {"pay_attempt", "retry_mark"}
        PROVE [Idle EXCEPT !.pc = l, !.b = b] \in Request
    BY <1>2 DEF Request, PC
  <2> QED BY <1>1, <1>2, <1>6, <2>1 DEF InitiatePayment, RetryPayment, Idle
<1>7. ASSUME NEW p \in Payments, HandleChapaWebhook(r, p) \/ HandleChapaCallback(r, p)
      PROVE TypeInv'
  <2>1. PaymentExists(p)
    BY <1>7 DEF HandleChapaWebhook, HandleChapaCallback, HandleChapaTransaction
  <2>2. ASSUME NEW l \in {"conf_booking", "tx_verify"}
        PROVE [Idle EXCEPT !.pc = l, !.b = payment[p].booking, !.p = p,
                           !.seen = payment[p].status] \in Request
    BY <1>2, <2>1 DEF Request, PC, PaymentRow, PaymentExists
  <2> QED BY <1>1, <1>2, <1>7, <2>2
          DEF HandleChapaWebhook, HandleChapaCallback, HandleChapaTransaction, Idle
<1> QED BY <1>3, <1>4, <1>5, <1>6, <1>7 DEF Begin

(* The helpers that write a table give rows of that table. *)
LEMMA TypeBooking ==
  ASSUME TypeOK, NEW b, NEW row \in BookingRow, UpdateBookingFields(b, row)
  PROVE  booking' \in [Bookings -> BookingRow]
BY DEF TypeOK, UpdateBookingFields

LEMMA TypeSlot ==
  ASSUME TypeOK, NEW s,
         IncrementSlotBookedCount(s) \/ DecrementSlotBookedCount(s)
  PROVE  slot' \in [Slots -> [capacity : {0} \cup Capacities, booked : Nat]]
<1>1. CASE s \in Slots
  <2>1. slot[s] \in [capacity : {0} \cup Capacities, booked : Nat]
    BY <1>1 DEF TypeOK
  <2> QED BY <1>1, <2>1 DEF TypeOK, IncrementSlotBookedCount, DecrementSlotBookedCount
<1>2. CASE s \notin Slots
  BY <1>2 DEF TypeOK, IncrementSlotBookedCount, DecrementSlotBookedCount
<1> QED BY <1>1, <1>2

LEMMA TypePayment ==
  ASSUME TypeOK, NEW p, NEW st \in PaymentStatus, SetPaymentStatus(p, st)
  PROVE  payment' \in [Payments -> PaymentRow]
BY DEF TypeOK, SetPaymentStatus, PaymentRow

(* The requests after one of them went to another statement, or ended. *)
LEMMA TypeRequests ==
  ASSUME NEW r \in Requests, TypeInv,
         Finish(r) \/ \E l \in PC \ {"verify"} : Goto(r, l)
  PROVE  req' \in [Requests -> Request] /\ Reviewing'
<1>1. req \in [Requests -> Request] /\ Reviewing
  BY DEF TypeInv, TypeOK
<1>2. CASE Finish(r)
  <2>1. Idle \in Request /\ Idle.pc # "verify"
    BY LimitsAssumption DEF Idle, Request, PC
  <2> QED BY <1>1, <1>2, <2>1 DEF Finish, Reviewing, At
<1>3. ASSUME NEW l \in PC \ {"verify"}, Goto(r, l)
      PROVE  req' \in [Requests -> Request] /\ Reviewing'
  <2>1. req' = [req EXCEPT ![r] = [req[r] EXCEPT !.pc = l]]
    BY <1>3 DEF Goto
  <2>2. [req[r] EXCEPT !.pc = l] \in Request /\ [req[r] EXCEPT !.pc = l].pc = l
    BY <1>1 DEF Request
  <2> QED BY <1>1, <2>1, <2>2 DEF Reviewing, At
<1> QED BY <1>2, <1>3

LEMMA TypeRecord ==
  ASSUME NEW r \in Requests, TypeInv, NEW rec \in Request, rec.pc # "verify",
         req' = [req EXCEPT ![r] = rec]
  PROVE  req' \in [Requests -> Request] /\ Reviewing'
BY DEF TypeInv, TypeOK, Reviewing, At

LEMMA TypeMove ==
  ASSUME NEW r \in Requests, TypeInv,
         UNCHANGED <<booking, slot, payment, test, chapa, webhook>>,
         Finish(r) \/ \E l \in PC \ {"verify"} : Goto(r, l)
  PROVE  TypeInv'
BY TypeRequests DEF TypeInv, TypeOK

LEMMA TypeSeats == ASSUME NEW r \in Requests PROVE TypeInv /\ SeatStep(r) => TypeInv'
<1> SUFFICES ASSUME TypeInv, SeatStep(r) PROVE TypeInv'
  OBVIOUS
<1>t. TypeOK /\ req[r] \in Request
  BY DEF TypeInv, TypeOK
<1>1. CASE SlotRead(r)
  <2>1. Finish(r) \/ \E l \in PC \ {"verify"} : Goto(r, l)
    BY <1>1 DEF SlotRead, PC
  <2> QED BY <1>1, <2>1, TypeMove DEF SlotRead
<1>2. CASE RescheduleRelease(r)
  <2>1. Finish(r) \/ \E l \in PC \ {"verify"} : Goto(r, l)
    BY <1>2 DEF RescheduleRelease, PC
  <2> QED BY <1>2, <1>t, <2>1, TypeRequests, TypeSlot DEF RescheduleRelease, TypeInv, TypeOK
<1>3. CASE TakeSeat(r)
  <2>1. Finish(r) \/ \E l \in PC \ {"verify"} : Goto(r, l)
    BY <1>3 DEF TakeSeat, PC
  <2> QED BY <1>3, <1>t, <2>1, TypeRequests, TypeSlot DEF TakeSeat, TypeInv, TypeOK
<1>4. CASE AssignSlot(r)
  <2>1. ASSUME req[r].b \in Bookings
        PROVE [booking[req[r].b] EXCEPT !.slot = req[r].s, !.status = "scheduled"]
                \in BookingRow
    <3>1. booking[req[r].b] \in BookingRow /\ req[r].s \in Slots \cup {None}
      BY <1>t, <2>1 DEF TypeOK, Request
    <3> QED BY <3>1 DEF BookingRow, BookingStatus
  <2>2. booking' \in [Bookings -> BookingRow]
    BY <1>4, <1>t, <2>1 DEF AssignSlot, UpdateBookingFields, TypeOK
  <2> QED BY <1>4, <2>2, TypeRequests DEF AssignSlot, TypeInv, TypeOK
<1>5. CASE AssignSlotFails(r)
  <2>1. Finish(r) \/ \E l \in PC \ {"verify"} : Goto(r, l)
    BY <1>5 DEF AssignSlotFails, PC
  <2> QED BY <1>5, <2>1, TypeMove DEF AssignSlotFails
<1>6. CASE ReturnSeat(r)
  BY <1>6, <1>t, TypeRequests, TypeSlot DEF ReturnSeat, TypeInv, TypeOK
<1>7. CASE DeleteRelease(r)
  <2>1. Finish(r) \/ \E l \in PC \ {"verify"} : Goto(r, l)
    BY <1>7 DEF DeleteRelease, PC
  <2> QED BY <1>7, <1>t, <2>1, TypeRequests, TypeSlot DEF DeleteRelease, TypeInv, TypeOK
<1>8. CASE DeleteRow(r)
  <2>1. [NoBooking EXCEPT !.status = "gone"] \in BookingRow
    BY LimitsAssumption DEF NoBooking, BookingRow, PayStatus
  <2>2. booking' \in [Bookings -> BookingRow]
    BY <1>8, <1>t, <2>1 DEF DeleteRow, UpdateBookingFields, TypeOK
  <2>3. payment' \in [Payments -> PaymentRow]
    BY <1>8, <1>t DEF DeleteRow, TypeOK, PaymentRow
  <2> QED BY <1>8, <2>2, <2>3, TypeRequests DEF DeleteRow, TypeInv, TypeOK
<1> QED BY <1>1, <1>2, <1>3, <1>4, <1>5, <1>6, <1>7, <1>8 DEF SeatStep

LEMMA TypePayments == ASSUME NEW r \in Requests PROVE TypeInv /\ PaymentStep(r) => TypeInv'
<1> SUFFICES ASSUME TypeInv, PaymentStep(r) PROVE TypeInv'
  OBVIOUS
<1> DEFINE Moves == Finish(r) \/ \E l \in PC \ {"verify"} : Goto(r, l)
<1>t. TypeOK /\ req[r] \in Request
  BY DEF TypeInv, TypeOK
<1>b. ASSUME req[r].b \in Bookings PROVE booking[req[r].b] \in BookingRow
  BY <1>b, <1>t DEF TypeOK
<1>1. CASE RetryMark(r)
  <2>1. Moves
    BY <1>1 DEF RetryMark, PC
  <2>2. ASSUME req[r].b \in Bookings
        PROVE [booking[req[r].b] EXCEPT !.status = "scheduled"] \in BookingRow
    BY <1>b, <2>2 DEF BookingRow, BookingStatus
  <2>3. booking' \in [Bookings -> BookingRow]
    BY <1>1, <1>t, <2>2 DEF RetryMark, UpdateBookingFields, TypeOK
  <2> QED BY <1>1, <2>1, <2>3, TypeRequests DEF RetryMark, TypeInv, TypeOK
<1>2. CASE RetryRead(r)
  <2>1. Moves
    BY <1>2 DEF RetryRead, PC
  <2> QED BY <1>2, <2>1, TypeMove DEF RetryRead
<1>3. CASE PaymentAttempt(r)
  <2>1. CASE Finish(r)
    BY <1>3, <2>1, TypeMove DEF PaymentAttempt
  <2>2. CASE ~Finish(r)
    <3>1. PICK last \in {0} \cup Attempts(req[r].b) :
            /\ last + 1 <= MaxPaymentAttempts
            /\ req' = [req EXCEPT ![r].pc = "pay_create", ![r].n = last + 1]
      <4>1. Attempts(req[r].b) \subseteq 0 .. MaxPaymentAttempts
        BY <1>t DEF Attempts, TypeOK, PaymentRow
      <4> QED BY <1>3, <2>2, <4>1, LimitsAssumption DEF PaymentAttempt
    <3>2. last + 1 \in 0 .. MaxPaymentAttempts
      BY <1>t, <3>1, LimitsAssumption DEF Attempts, TypeOK, PaymentRow
    <3>3. [req[r] EXCEPT !.pc = "pay_create", !.n = last + 1] \in Request
      BY <1>t, <3>2 DEF Request, PC
    <3>4. req' = [req EXCEPT ![r] = [req[r] EXCEPT !.pc = "pay_create", !.n = last + 1]]
      BY <1>t, <3>1 DEF TypeOK
    <3> QED BY <1>3, <3>3, <3>4 DEF PaymentAttempt, TypeInv, TypeOK, Reviewing, At
  <2> QED BY <2>1, <2>2
<1>4. CASE CreatePayment(r)
  <2>1. CASE Finish(r) /\ UNCHANGED payment
    BY <1>4, <2>1, TypeMove DEF CreatePayment
  <2>2. CASE ~(Finish(r) /\ UNCHANGED payment)
    <3>1. PICK p \in Payments :
            /\ payment' = [payment EXCEPT ![p] =
                 [status |-> "pending", booking |-> req[r].b, attempt |-> req[r].n]]
            /\ req' = [req EXCEPT ![r].pc = "pay_mark", ![r].p = p]
      BY <1>4, <2>2 DEF CreatePayment
    <3>2. [status |-> "pending", booking |-> req[r].b, attempt |-> req[r].n] \in PaymentRow
      BY <1>t DEF Request, PaymentRow, PaymentStatus
    <3>3. /\ [req[r] EXCEPT !.pc = "pay_mark", !.p = p] \in Request
          /\ [req[r] EXCEPT !.pc = "pay_mark", !.p = p].pc # "verify"
      <4>1. [req[r] EXCEPT !.pc = "pay_mark", !.p = p] \in Request
        BY <1>t DEF Request, PC
      <4>2. [req[r] EXCEPT !.pc = "pay_mark", !.p = p].pc = "pay_mark"
        BY <1>t DEF Request
      <4> QED BY <4>1, <4>2
    <3>4. req' = [req EXCEPT ![r] = [req[r] EXCEPT !.pc = "pay_mark", !.p = p]]
      BY <1>t, <3>1 DEF TypeOK
    <3>5. req' \in [Requests -> Request] /\ Reviewing'
      BY <3>3, <3>4, TypeRecord
    <3>6. payment' \in [Payments -> PaymentRow]
      BY <1>t, <3>1, <3>2 DEF TypeOK
    <3> QED BY <1>4, <3>5, <3>6 DEF CreatePayment, TypeInv, TypeOK
  <2> QED BY <2>1, <2>2
<1>5. CASE MarkPaymentPending(r)
  <2>1. Moves
    BY <1>5 DEF MarkPaymentPending, PC
  <2>2. ASSUME req[r].b \in Bookings
        PROVE [booking[req[r].b] EXCEPT !.status = "payment_pending", !.pay = "pending",
                                        !.attempts = req[r].n] \in BookingRow
    <3>1. req[r].n \in 0 .. MaxPaymentAttempts
      BY <1>t DEF Request
    <3> QED BY <1>b, <2>2, <3>1 DEF BookingRow, BookingStatus, PayStatus
  <2>3. booking' \in [Bookings -> BookingRow]
    BY <1>5, <1>t, <2>2 DEF MarkPaymentPending, UpdateBookingFields, TypeOK
  <2> QED BY <1>5, <2>1, <2>3, TypeRequests DEF MarkPaymentPending, TypeInv, TypeOK
<1>6. CASE MarkPaymentPendingFails(r)
  <2>1. Moves
    BY <1>6 DEF MarkPaymentPendingFails, PC
  <2> QED BY <1>6, <2>1, TypeMove DEF MarkPaymentPendingFails
<1>7. CASE UndoPayment(r)
  <2>1. payment' \in [Payments -> PaymentRow]
    BY <1>7, <1>t, TypePayment DEF UndoPayment, PaymentStatus
  <2> QED BY <1>7, <2>1, TypeRequests DEF UndoPayment, TypeInv, TypeOK
<1>8. CASE ProviderInitiate(r)
  <2>1. Moves
    BY <1>8 DEF ProviderInitiate, PC
  <2>2. chapa' \in [Payments -> ChapaStatus]
    BY <1>8, <1>t DEF ProviderInitiate, TypeOK, ChapaStatus
  <2> QED BY <1>8, <2>1, <2>2, TypeRequests DEF ProviderInitiate, TypeInv, TypeOK
<1> QED BY <1>1, <1>2, <1>3, <1>4, <1>5, <1>6, <1>7, <1>8 DEF PaymentStep

LEMMA TypeTransaction ==
  ASSUME NEW r \in Requests PROVE TypeInv /\ TransactionStep(r) => TypeInv'
<1> SUFFICES ASSUME TypeInv, TransactionStep(r) PROVE TypeInv'
  OBVIOUS
<1> DEFINE Moves == Finish(r) \/ \E l \in PC \ {"verify"} : Goto(r, l)
<1>t. TypeOK /\ req[r] \in Request
  BY DEF TypeInv, TypeOK
<1>b. ASSUME req[r].b \in Bookings PROVE booking[req[r].b] \in BookingRow
  BY <1>b, <1>t DEF TypeOK
<1>1. CASE VerifyTransaction(r) \/ VerifyTransactionFails(r) \/ TestCreationDetails(r)
  <2>1. Moves
    BY <1>1 DEF VerifyTransaction, VerifyTransactionFails, TestCreationDetails, PC
  <2> QED BY <1>1, <2>1, TypeMove
          DEF VerifyTransaction, VerifyTransactionFails, TestCreationDetails
<1>2. CASE WritePayment(r)
  <2>1. Moves
    BY <1>2 DEF WritePayment, PC
  <2>2. payment' \in [Payments -> PaymentRow]
    BY <1>2, <1>t, TypePayment DEF WritePayment, PaymentStatus
  <2> QED BY <1>2, <2>1, <2>2, TypeRequests DEF WritePayment, TypeInv, TypeOK
<1>3. CASE ConfirmBooking(r)
  <2>1. Moves
    BY <1>3 DEF ConfirmBooking, PC
  <2>2. ASSUME req[r].b \in Bookings
        PROVE [booking[req[r].b] EXCEPT !.status = "confirmed", !.pay = "paid",
                                        !.ref = req[r].p] \in BookingRow
    <3>1. req[r].p \in Payments \cup {None}
      BY <1>t DEF Request
    <3> QED BY <1>b, <2>2, <3>1 DEF BookingRow, BookingStatus, PayStatus
  <2>3. booking' \in [Bookings -> BookingRow]
    BY <1>3, <1>t, <2>2 DEF ConfirmBooking, UpdateBookingFields, TypeOK
  <2> QED BY <1>3, <2>1, <2>3, TypeRequests DEF ConfirmBooking, TypeInv, TypeOK
<1>4. CASE FailBooking(r)
  <2>1. ASSUME req[r].b \in Bookings
        PROVE [booking[req[r].b] EXCEPT !.status = "payment_failed", !.pay = "failed"]
                \in BookingRow
    BY <1>b, <2>1 DEF BookingRow, BookingStatus, PayStatus
  <2>2. booking' \in [Bookings -> BookingRow]
    BY <1>4, <1>t, <2>1 DEF FailBooking, UpdateBookingFields, TypeOK
  <2> QED BY <1>4, <2>2, TypeRequests DEF FailBooking, TypeInv, TypeOK
<1>5. CASE KeepBookingPending(r)
  <2>1. ASSUME req[r].b \in Bookings
        PROVE [booking[req[r].b] EXCEPT !.status = "payment_pending", !.pay = "pending"]
                \in BookingRow
    BY <1>b, <2>1 DEF BookingRow, BookingStatus, PayStatus
  <2>2. booking' \in [Bookings -> BookingRow]
    BY <1>5, <1>t, <2>1 DEF KeepBookingPending, UpdateBookingFields, TypeOK
  <2> QED BY <1>5, <2>2, TypeRequests DEF KeepBookingPending, TypeInv, TypeOK
<1>6. CASE PostTest(r)
  <2>1. CASE Finish(r) /\ UNCHANGED test
    BY <1>6, <2>1, TypeMove DEF PostTest
  <2>2. CASE ~(Finish(r) /\ UNCHANGED test)
    <3>1. PICK t \in Tests :
            /\ test' = [test EXCEPT ![t] = [status |-> "pending", booking |-> req[r].b]]
            /\ req' = [req EXCEPT ![r].pc = "trig_store", ![r].t = t]
      BY <1>6, <2>2 DEF PostTest
    <3>2. [status |-> "pending", booking |-> req[r].b] \in TestRow
      BY <1>t DEF Request, TestRow
    <3>3. /\ [req[r] EXCEPT !.pc = "trig_store", !.t = t] \in Request
          /\ [req[r] EXCEPT !.pc = "trig_store", !.t = t].pc # "verify"
      <4>1. [req[r] EXCEPT !.pc = "trig_store", !.t = t] \in Request
        BY <1>t DEF Request, PC
      <4>2. [req[r] EXCEPT !.pc = "trig_store", !.t = t].pc = "trig_store"
        BY <1>t DEF Request
      <4> QED BY <4>1, <4>2
    <3>4. req' = [req EXCEPT ![r] = [req[r] EXCEPT !.pc = "trig_store", !.t = t]]
      BY <1>t, <3>1 DEF TypeOK
    <3>5. req' \in [Requests -> Request] /\ Reviewing'
      BY <3>3, <3>4, TypeRecord
    <3>6. test' \in [Tests -> TestRow]
      BY <1>t, <3>1, <3>2 DEF TypeOK
    <3> QED BY <1>6, <3>5, <3>6 DEF PostTest, TypeInv, TypeOK
  <2> QED BY <2>1, <2>2
<1>7. CASE StoreTestID(r)
  <2>1. ASSUME req[r].b \in Bookings
        PROVE [booking[req[r].b] EXCEPT !.test = req[r].t] \in BookingRow
    <3>1. req[r].t \in Tests \cup {None}
      BY <1>t DEF Request
    <3> QED BY <1>b, <2>1, <3>1 DEF BookingRow
  <2>2. booking' \in [Bookings -> BookingRow]
    BY <1>7, <1>t, <2>1 DEF StoreTestID, UpdateBookingFields, TypeOK
  <2> QED BY <1>7, <2>2, TypeRequests DEF StoreTestID, TypeInv, TypeOK
<1> QED BY <1>1, <1>2, <1>3, <1>4, <1>5, <1>6, <1>7 DEF TransactionStep

(* Every step, or none, keeps the types. *)
LEMMA TypeStep == TypeInv /\ [Next]_vars => TypeInv'
<1> SUFFICES ASSUME TypeInv, [Next]_vars PROVE TypeInv'
  OBVIOUS
<1>1. ASSUME NEW r \in Requests, VerifyWrite(r) PROVE TypeInv'
  <2>1. req[r] \in Request /\ req[r].seen \in {"verified", "rejected"}
    BY <1>1 DEF VerifyWrite, TypeInv, TypeOK, Reviewing
  <2>2. ASSUME req[r].b \in Bookings
        PROVE [booking[req[r].b] EXCEPT !.status = req[r].seen] \in BookingRow
    <3>1. booking[req[r].b] \in BookingRow
      BY <2>2 DEF TypeInv, TypeOK
    <3> QED BY <2>1, <3>1 DEF BookingRow, BookingStatus
  <2>3. booking' \in [Bookings -> BookingRow]
    BY <1>1, <2>2 DEF VerifyWrite, UpdateBookingFields, TypeInv, TypeOK
  <2> QED BY <1>1, <2>3, TypeRequests DEF VerifyWrite, TypeInv, TypeOK
<1>2. ASSUME NEW r \in Requests, ErrorIgnored(r) \/ RequestDies(r) PROVE TypeInv'
  <2>1. Finish(r) \/ \E l \in PC \ {"verify"} : Goto(r, l)
    BY <1>2 DEF ErrorIgnored, RequestDies, PC
  <2> QED BY <1>2, <2>1, TypeMove DEF ErrorIgnored, RequestDies
<1>3. ASSUME NEW r \in Requests, Step(r) PROVE TypeInv'
  BY <1>1, <1>2, <1>3, TypeSeats, TypePayments, TypeTransaction DEF Step
<1>4. CASE UNCHANGED vars
  BY <1>4 DEF vars, TypeInv, TypeOK, Reviewing, At
<1> QED BY <1>2, <1>3, <1>4, TypeEnvironment, TypeBegin DEF Next

(* In every reachable state each row and each request has the columns the  *)
(* schema gives it, and no payment attempt is numbered beyond the limit.   *)
THEOREM TypeCorrect == Spec => []TypeOK
<1>1. Spec => []TypeInv
  BY TypeInit, TypeStep, PTL DEF Spec
<1>2. TypeInv => TypeOK
  BY DEF TypeInv
<1> QED BY <1>1, <1>2, PTL

-----------------------------------------------------------------------------
(* What a step of one request does to the requests.                        *)

LEMMA GotoEffect ==
  ASSUME TypeOK, NEW r \in Requests, NEW l, Goto(r, l)
  PROVE  /\ req'[r] = [req[r] EXCEPT !.pc = l]
         /\ req'[r].pc = l /\ req'[r].b = req[r].b /\ req'[r].s = req[r].s
         /\ req'[r].old = req[r].old /\ req'[r].p = req[r].p /\ req'[r].n = req[r].n
         /\ req'[r].t = req[r].t /\ req'[r].seen = req[r].seen
         /\ \A q \in Requests : q # r => req'[q] = req[q]
<1>1. req \in [Requests -> Request]
  BY DEF TypeOK
<1>2. req[r] \in Request
  BY <1>1
<1>3. /\ req'[r] = [req[r] EXCEPT !.pc = l]
      /\ \A q \in Requests : q # r => req'[q] = req[q]
  BY <1>1 DEF Goto
<1> QED BY <1>2, <1>3 DEF Request

LEMMA FinishEffect ==
  ASSUME TypeOK, NEW r \in Requests, Finish(r)
  PROVE  req'[r] = Idle /\ \A q \in Requests : q # r => req'[q] = req[q]
BY DEF TypeOK, Finish

LEMMA SlotTypes ==
  ASSUME TypeOK, NEW s \in Slots PROVE slot[s].booked \in Nat /\ slot[s].capacity \in Nat
<1>1. slot[s] \in [capacity : {0} \cup Capacities, booked : Nat]
  BY DEF TypeOK
<1>2. slot[s].booked \in Nat /\ slot[s].capacity \in {0} \cup Capacities
  BY <1>1
<1>3. Capacities \subseteq Nat
  BY LimitsAssumption
<1>4. {0} \cup Capacities \subseteq Nat
  BY <1>3
<1> QED BY <1>2, <1>4

-----------------------------------------------------------------------------
(* Overbooking.  OverbookingBounded says nothing of the requests that have *)
(* passed the capacity check and not taken their seat yet, so it is not    *)
(* inductive: SeatInv counts their seats as taken.  When a request passes  *)
(* the check the slot has a free seat, and at most all the requests are    *)
(* then between check and increment.                                       *)

Holding == {"sched_inc", "resched_dec", "resched_inc"}

Passed(s) == {r \in Requests : req[r].pc \in Holding /\ req[r].s = s}

SeatInv == \A s \in Slots :
  slot[s].booked + Cardinality(Passed(s)) <= slot[s].capacity + (Cardinality(Requests) - 1)

(* Passed(s) is finite, and no larger than the set of requests. *)
LEMMA PassedFinite ==
  ASSUME NEW s
  PROVE  /\ IsFiniteSet(Passed(s)) /\ Cardinality(Passed(s)) \in Nat
         /\ Cardinality(Requests) \in Nat
         /\ Cardinality(Passed(s)) <= Cardinality(Requests)
         /\ IsFiniteSet(Passed(s)') /\ Cardinality(Passed(s)') \in Nat
         /\ Cardinality(Passed(s)') <= Cardinality(Requests)
<1>1. Passed(s) \subseteq Requests /\ Passed(s)' \subseteq Requests
  BY DEF Passed
<1> QED BY <1>1, RequestsAssumption, FS_Subset, FS_CardinalityType

(* No request passes the check, and no seat is taken. *)
QuietRequests == \A q \in Requests : req'[q].pc \in Holding =>
                   req[q].pc \in Holding /\ req'[q].s = req[q].s
QuietSlots    == \A s \in Slots : /\ slot'[s].capacity = slot[s].capacity
                                  /\ slot'[s].booked <= slot[s].booked
Quiet         == QuietRequests /\ QuietSlots

LEMMA SeatQuiet == TypeOK /\ TypeOK' /\ SeatInv /\ Quiet => SeatInv'
<1> SUFFICES ASSUME TypeOK, TypeOK', SeatInv, Quiet, NEW s \in Slots
             PROVE  slot'[s].booked + Cardinality(Passed(s)')
                      <= slot'[s].capacity + (Cardinality(Requests) - 1)
  BY DEF SeatInv
<1>1. Passed(s)' \subseteq Passed(s)
  BY DEF Passed, Quiet, QuietRequests
<1>2. Cardinality(Passed(s)') <= Cardinality(Passed(s))
  BY <1>1, PassedFinite, FS_Subset
<1>3. /\ slot'[s].booked \in Nat /\ slot[s].booked \in Nat /\ slot[s].capacity \in Nat
      /\ slot'[s].capacity = slot[s].capacity /\ slot'[s].booked <= slot[s].booked
  <2>1. slot'[s].booked \in Nat
    BY DEF TypeOK
  <2> QED BY <2>1, SlotTypes DEF Quiet, QuietSlots
<1>4. slot[s].booked + Cardinality(Passed(s)) <= slot[s].capacity + (Cardinality(Requests) - 1)
  BY DEF SeatInv
<1> QED BY <1>2, <1>3, <1>4, PassedFinite

(* A request that sees a free seat joins those that passed the check. *)
LEMMA SeatSeen ==
  ASSUME NEW r \in Requests, TypeOK, SeatInv, SlotRead(r) PROVE SeatInv'
<1> SUFFICES ASSUME NEW s \in Slots
             PROVE  slot'[s].booked + Cardinality(Passed(s)')
                      <= slot'[s].capacity + (Cardinality(Requests) - 1)
  BY DEF SeatInv
<1>1. slot' = slot /\ slot[s].booked \in Nat /\ slot[s].capacity \in Nat
  BY SlotTypes DEF SlotRead
<1>2. CASE SlotHasRoom(r) /\ req[r].s = s
  <2>1. slot[s].booked + 1 <= slot[s].capacity
    BY <1>1, <1>2 DEF SlotHasRoom
  <2> QED BY <1>1, <2>1, PassedFinite
<1>3. CASE ~(SlotHasRoom(r) /\ req[r].s = s)
  <2>1. Passed(s)' \subseteq Passed(s)
    <3>1. ASSUME NEW q \in Requests, req'[q].pc \in Holding, req'[q].s = s
          PROVE  req[q].pc \in Holding /\ req[q].s = s
      <4>1. CASE q = r
        <5>1. CASE Finish(r)
          BY <3>1, <4>1, <5>1, FinishEffect DEF Idle, Holding
        <5>2. CASE \E l \in Holding : Goto(r, l) /\ SlotHasRoom(r)
          BY <1>3, <3>1, <4>1, <5>2, GotoEffect
        <5> QED BY <5>1, <5>2 DEF SlotRead, Holding
      <4>2. CASE q # r
        BY <3>1, <4>2, GotoEffect, FinishEffect DEF SlotRead
      <4> QED BY <4>1, <4>2
    <3> QED BY <3>1 DEF Passed
  <2>2. Cardinality(Passed(s)') <= Cardinality(Passed(s))
    BY <2>1, PassedFinite, FS_Subset
  <2> QED BY <1>1, <2>2, PassedFinite DEF SeatInv
<1> QED BY <1>2, <1>3

(* A request that takes its seat leaves them. *)
LEMMA SeatTaken ==
  ASSUME NEW r \in Requests, TypeOK, SeatInv, TakeSeat(r) PROVE SeatInv'
<1> SUFFICES ASSUME NEW s \in Slots
             PROVE  slot'[s].booked + Cardinality(Passed(s)')
                      <= slot'[s].capacity + (Cardinality(Requests) - 1)
  BY DEF SeatInv
<1>1. /\ slot[s].booked \in Nat /\ slot[s].capacity \in Nat
      /\ slot'[s].capacity = slot[s].capacity
      /\ slot'[s].booked = IF req[r].s = s THEN slot[s].booked + 1 ELSE slot[s].booked
  BY LimitsAssumption DEF TakeSeat, IncrementSlotBookedCount, TypeOK
<1>2. Passed(s)' = Passed(s) \ {r}
  <2>1. r \notin Passed(s)'
    <3>1. Goto(r, "sched_upd") \/ Goto(r, "resched_upd")
      BY DEF TakeSeat
    <3>2. req'[r].pc = "sched_upd" \/ req'[r].pc = "resched_upd"
      BY <3>1, GotoEffect
    <3> QED BY <3>2 DEF Passed, Holding
  <2>2. ASSUME NEW q \in Requests, q # r PROVE req'[q] = req[q]
    BY <2>2, GotoEffect DEF TakeSeat
  <2> QED BY <2>1, <2>2 DEF Passed
<1>3. req[r].s = s => r \in Passed(s)
  BY DEF TakeSeat, At, Passed, Holding
<1>4. CASE req[r].s = s
  <2>1. Cardinality(Passed(s)') = Cardinality(Passed(s)) - 1
    BY <1>2, <1>3, <1>4, PassedFinite, FS_RemoveElement
  <2> QED BY <1>1, <1>4, <2>1, PassedFinite DEF SeatInv
<1>5. CASE req[r].s # s
  <2>1. Cardinality(Passed(s)') <= Cardinality(Passed(s))
    BY <1>2, PassedFinite, FS_Subset
  <2> QED BY <1>1, <1>5, <2>1, PassedFinite DEF SeatInv
<1> QED BY <1>4, <1>5

(* The other steps are quiet. *)
LEMMA QuietMove ==
  ASSUME TypeOK, NEW r \in Requests,
         \/ Finish(r)
         \/ \E l \in PC : Goto(r, l) /\ (l \in Holding => req[r].pc \in Holding)
  PROVE  QuietRequests
<1>1. CASE Finish(r)
  BY <1>1, FinishEffect DEF QuietRequests, Idle, Holding
<1>2. ASSUME NEW l \in PC, Goto(r, l), l \in Holding => req[r].pc \in Holding
      PROVE  QuietRequests
  <2> SUFFICES ASSUME NEW q \in Requests, req'[q].pc \in Holding
               PROVE  req[q].pc \in Holding /\ req'[q].s = req[q].s
    BY DEF QuietRequests
  <2>1. CASE q = r
    <3>1. req'[r].pc = l /\ req'[r].s = req[r].s
      BY <1>2, GotoEffect
    <3> QED BY <1>2, <2>1, <3>1
  <2>2. CASE q # r
    <3>1. req'[q] = req[q]
      BY <1>2, <2>2, GotoEffect
    <3> QED BY <3>1
  <2> QED BY <2>1, <2>2
<1> QED BY <1>1, <1>2

LEMMA QuietTable ==
  ASSUME TypeOK, UNCHANGED slot \/ \E s : DecrementSlotBookedCount(s)
  PROVE  QuietSlots
<1>1. CASE UNCHANGED slot
  BY <1>1, SlotTypes DEF QuietSlots
<1>2. ASSUME NEW s, DecrementSlotBookedCount(s), NEW u \in Slots
      PROVE  slot'[u].capacity = slot[u].capacity /\ slot'[u].booked <= slot[u].booked
  <2>1. slot[u] \in [capacity : {0} \cup Capacities, booked : Nat] /\ u \in DOMAIN slot
    BY DEF TypeOK
  <2>2. CASE u = s
    BY <1>2, <2>1, <2>2, SlotTypes DEF DecrementSlotBookedCount
  <2>3. CASE u # s
    BY <1>2, <2>1, <2>3, SlotTypes DEF DecrementSlotBookedCount
  <2> QED BY <2>2, <2>3
<1> QED BY <1>1, <1>2 DEF QuietSlots

LEMMA QuietBegin == ASSUME TypeOK, NEW r \in Requests, Begin(r) PROVE Quiet
<1>1. ASSUME NEW rec, req' = [req EXCEPT ![r] = rec], rec.pc \notin Holding, UNCHANGED slot
      PROVE  Quiet
  BY <1>1, QuietTable DEF Quiet, QuietRequests, TypeOK
<1>2. ASSUME NEW b \in Bookings, NEW v \in {"verified", "rejected"}, VerifyBooking(r, b, v)
      PROVE  Quiet
  BY <1>1, <1>2 DEF VerifyBooking, Idle, Holding
<1>3. ASSUME NEW b \in Bookings, NEW s \in Slots,
             ScheduleBooking(r, b, s) \/ RescheduleBooking(r, b, s)
      PROVE  Quiet
  BY <1>1, <1>3 DEF ScheduleBooking, RescheduleBooking, Idle, Holding
<1>4. ASSUME NEW b \in Bookings,
             DeleteBooking(r, b) \/ InitiatePayment(r, b) \/ RetryPayment(r, b)
      PROVE  Quiet
  BY <1>1, <1>4 DEF DeleteBooking, InitiatePayment, RetryPayment, Idle, Holding
<1>5. ASSUME NEW p \in Payments, HandleChapaWebhook(r, p) \/ HandleChapaCallback(r, p)
      PROVE  Quiet
  BY <1>1, <1>5
  DEF HandleChapaWebhook, HandleChapaCallback, HandleChapaTransaction, Idle, Holding
<1> QED BY <1>2, <1>3, <1>4, <1>5 DEF Begin

LEMMA QuietPayment ==
  ASSUME TypeOK, NEW r \in Requests, PaymentStep(r) \/ TransactionStep(r) PROVE Quiet
<1> DEFINE Moves == \/ Finish(r)
                    \/ \E l \in PC : Goto(r, l) /\ (l \in Holding => req[r].pc \in Holding)
<1>1. UNCHANGED slot
  BY DEF PaymentStep, TransactionStep, RetryMark, RetryRead, PaymentAttempt, CreatePayment,
         MarkPaymentPending, MarkPaymentPendingFails, UndoPayment, ProviderInitiate,
         VerifyTransaction, VerifyTransactionFails, WritePayment, ConfirmBooking,
         FailBooking, KeepBookingPending, TestCreationDetails, PostTest, StoreTestID
<1>2. QuietRequests => Quiet
  BY <1>1, QuietTable DEF Quiet
<1>3. Moves => Quiet
  BY <1>2, QuietMove
<1>4. ASSUME PaymentAttempt(r) PROVE Quiet
  <2>1. ASSUME NEW n, req' = [req EXCEPT ![r].pc = "pay_create", ![r].n = n] PROVE Quiet
    <3>1. req'[r].pc = "pay_create" /\ \A q \in Requests : q # r => req'[q] = req[q]
      BY <2>1 DEF TypeOK, Request
    <3> QED BY <1>2, <3>1 DEF QuietRequests, Holding
  <2> QED BY <1>3, <1>4, <2>1 DEF PaymentAttempt
<1>5. ASSUME CreatePayment(r) PROVE Quiet
  <2>1. ASSUME NEW p, req' = [req EXCEPT ![r].pc = "pay_mark", ![r].p = p] PROVE Quiet
    <3>1. req'[r].pc = "pay_mark" /\ \A q \in Requests : q # r => req'[q] = req[q]
      BY <2>1 DEF TypeOK, Request
    <3> QED BY <1>2, <3>1 DEF QuietRequests, Holding
  <2> QED BY <1>3, <1>5, <2>1 DEF CreatePayment
<1>6. ASSUME PostTest(r) PROVE Quiet
  <2>1. ASSUME NEW t, req' = [req EXCEPT ![r].pc = "trig_store", ![r].t = t] PROVE Quiet
    <3>1. req'[r].pc = "trig_store" /\ \A q \in Requests : q # r => req'[q] = req[q]
      BY <2>1 DEF TypeOK, Request
    <3> QED BY <1>2, <3>1 DEF QuietRequests, Holding
  <2> QED BY <1>3, <1>6, <2>1 DEF PostTest
<1>7. ASSUME RetryMark(r) \/ RetryRead(r) \/ MarkPaymentPending(r)
             \/ MarkPaymentPendingFails(r) \/ UndoPayment(r) \/ ProviderInitiate(r)
      PROVE  Quiet
  <2>1. Moves
    BY <1>7 DEF RetryMark, RetryRead, MarkPaymentPending, MarkPaymentPendingFails,
                UndoPayment, ProviderInitiate, PC, Holding
  <2> QED BY <1>3, <2>1
<1>8. ASSUME VerifyTransaction(r) \/ VerifyTransactionFails(r) \/ WritePayment(r)
             \/ ConfirmBooking(r) \/ FailBooking(r) \/ KeepBookingPending(r)
             \/ TestCreationDetails(r) \/ StoreTestID(r)
      PROVE  Quiet
  <2>1. Moves
    BY <1>8 DEF VerifyTransaction, VerifyTransactionFails, WritePayment, ConfirmBooking,
                FailBooking, KeepBookingPending, TestCreationDetails, StoreTestID, PC, Holding
  <2> QED BY <1>3, <2>1
<1> QED BY <1>4, <1>5, <1>6, <1>7, <1>8 DEF PaymentStep, TransactionStep

LEMMA SeatInvStep == TypeOK /\ TypeOK' /\ SeatInv /\ [Next]_vars => SeatInv'
<1> SUFFICES ASSUME TypeOK, TypeOK', SeatInv, [Next]_vars PROVE SeatInv'
  OBVIOUS
<1>1. ASSUME NEW s \in Slots, NEW c \in Capacities, CreateSlot(s, c) PROVE SeatInv'
  <2> SUFFICES ASSUME NEW u \in Slots
               PROVE  slot'[u].booked + Cardinality(Passed(u)')
                        <= slot'[u].capacity + (Cardinality(Requests) - 1)
    BY DEF SeatInv
  <2>1. Passed(u)' = Passed(u)
    BY <1>1 DEF CreateSlot, Passed
  <2>2. CASE u = s
    <3>1. slot'[u].booked = 0 /\ slot'[u].capacity = c /\ c \in Nat /\ c >= 1
      BY <1>1, <2>2, LimitsAssumption DEF CreateSlot, TypeOK
    <3> QED BY <3>1, PassedFinite
  <2>3. CASE u # s
    BY <1>1, <2>1, <2>3 DEF CreateSlot, SeatInv, TypeOK
  <2> QED BY <2>2, <2>3
<1>2. CASE Environment
  <2>1. CASE \E s \in Slots, c \in Capacities : CreateSlot(s, c)
    BY <1>1, <2>1
  <2>2. CASE ~\E s \in Slots, c \in Capacities : CreateSlot(s, c)
    <3>1. UNCHANGED <<slot, req>>
      BY <1>2, <2>2 DEF Environment, CreateBooking, ChapaSettle, ChapaRefund, TestTaken
    <3> QED BY <3>1 DEF SeatInv, Passed
  <2> QED BY <2>1, <2>2
<1>3. ASSUME NEW r \in Requests, SeatStep(r) PROVE SeatInv'
  <2>1. CASE SlotRead(r)
    BY <2>1, SeatSeen
  <2>2. CASE TakeSeat(r)
    BY <2>2, SeatTaken
  <2>3. ASSUME RescheduleRelease(r) \/ AssignSlot(r) \/ AssignSlotFails(r)
               \/ ReturnSeat(r) \/ DeleteRelease(r) \/ DeleteRow(r)
        PROVE  SeatInv'
    <3>1. UNCHANGED slot \/ \E s : DecrementSlotBookedCount(s)
      BY <2>3 DEF RescheduleRelease, AssignSlot, AssignSlotFails, ReturnSeat,
                  DeleteRelease, DeleteRow
    <3>2. \/ Finish(r)
          \/ \E l \in PC : Goto(r, l) /\ (l \in Holding => req[r].pc \in Holding)
      BY <2>3 DEF RescheduleRelease, AssignSlot, AssignSlotFails, ReturnSeat,
                  DeleteRelease, DeleteRow, At, PC, Holding
    <3>3. Quiet
      BY <3>1, <3>2, QuietMove, QuietTable DEF Quiet
    <3> QED BY <3>3, SeatQuiet
  <2> QED BY <1>3, <2>1, <2>2, <2>3 DEF SeatStep
<1>4. ASSUME NEW r \in Requests, VerifyWrite(r) \/ ErrorIgnored(r) \/ RequestDies(r)
      PROVE  SeatInv'
  <2>1. UNCHANGED slot
    BY <1>4 DEF VerifyWrite, ErrorIgnored, RequestDies
  <2>2. \/ Finish(r)
        \/ \E l \in PC : Goto(r, l) /\ (l \in Holding => req[r].pc \in Holding)
    BY <1>4 DEF VerifyWrite, ErrorIgnored, RequestDies, At, PC, Holding
  <2>3. Quiet
    BY <2>1, <2>2, QuietMove, QuietTable DEF Quiet
  <2> QED BY <2>3, SeatQuiet
<1>5. ASSUME NEW r \in Requests, Begin(r) \/ PaymentStep(r) \/ TransactionStep(r)
      PROVE  SeatInv'
  BY <1>5, QuietBegin, QuietPayment, SeatQuiet
<1>6. CASE UNCHANGED vars
  BY <1>6 DEF vars, SeatInv, Passed
<1> QED BY <1>2, <1>3, <1>4, <1>5, <1>6 DEF Next, Step

(* However many requests race for a slot, it takes at most one booking     *)
(* more than its capacity for every request beyond the first.              *)
THEOREM OverbookingIsBounded == Spec => []OverbookingBounded
<1>1. Init => SeatInv
  <2> SUFFICES ASSUME Init, NEW s \in Slots
               PROVE  slot[s].booked + Cardinality(Passed(s))
                        <= slot[s].capacity + (Cardinality(Requests) - 1)
    BY DEF SeatInv
  <2>1. Passed(s) = {}
    BY DEF Init, Passed, Idle, Holding
  <2>2. Cardinality(Requests) # 0
    BY RequestsAssumption, FS_EmptySet
  <2> QED BY <2>1, <2>2, PassedFinite, FS_EmptySet DEF Init
<1>2. SeatInv /\ TypeOK => OverbookingBounded
  <2> SUFFICES ASSUME SeatInv, TypeOK, NEW s \in Slots
               PROVE  slot[s].booked <= slot[s].capacity + (Cardinality(Requests) - 1)
    BY DEF OverbookingBounded
  <2> QED BY SlotTypes, PassedFinite DEF SeatInv
<1>3. Spec => []TypeOK
  BY TypeCorrect
<1>4. Spec => []SeatInv
  BY <1>1, <1>3, SeatInvStep, PTL DEF Spec
<1> QED BY <1>2, <1>3, <1>4, PTL

-----------------------------------------------------------------------------
(***************************************************************************)
(* Payments: attempts are numbered within bounds, and only a transaction   *)
(* that the provider settled makes a booking paid or creates a test.       *)
(***************************************************************************)

(* What beginning a request does: it reads, and writes no table.           *)

Beginnings == {"verify", "sched_slot", "resched_slot", "del_dec", "del_row",
               "pay_attempt", "retry_mark", "conf_booking", "tx_verify"}

LEMMA BeginEffect ==
  ASSUME TypeOK, NEW r \in Requests, Begin(r)
  PROVE  /\ UNCHANGED <<booking, slot, payment, test, chapa>>
         /\ \A q \in Requests : q # r => req'[q] = req[q]
         /\ req'[r].pc \in Beginnings
         /\ req'[r].pc \in {"pay_attempt", "retry_mark"} => req'[r].b \in Bookings
         /\ req'[r].pc \in {"conf_booking", "tx_verify"} =>
              \E p \in Payments :
                /\ PaymentExists(p) /\ req'[r].p = p /\ req'[r].b = payment[p].booking
                /\ req'[r].pc = "conf_booking" => payment[p].status = "success"
<1> DEFINE Goal ==
         /\ UNCHANGED <<booking, slot, payment, test, chapa>>
         /\ \A q \in Requests : q # r => req'[q] = req[q]
         /\ req'[r].pc \in Beginnings
         /\ req'[r].pc \in {"pay_attempt", "retry_mark"} => req'[r].b \in Bookings
         /\ req'[r].pc \in {"conf_booking", "tx_verify"} =>
              \E p \in Payments :
                /\ PaymentExists(p) /\ req'[r].p = p /\ req'[r].b = payment[p].booking
                /\ req'[r].pc = "conf_booking" => payment[p].status = "success"
<1>0. \A rec : req' = [req EXCEPT ![r] = rec] =>
        req'[r] = rec /\ \A q \in Requests : q # r => req'[q] = req[q]
  BY DEF TypeOK
<1>1. ASSUME NEW b \in Bookings, NEW v \in {"verified", "rejected"}, VerifyBooking(r, b, v)
      PROVE  Goal
  BY <1>0, <1>1 DEF VerifyBooking, Idle, Beginnings
<1>2. ASSUME NEW b \in Bookings, NEW s \in Slots,
             ScheduleBooking(r, b, s) \/ RescheduleBooking(r, b, s)
      PROVE  Goal
  <2>1. /\ UNCHANGED <<booking, slot, payment, test, chapa>>
        /\ \A q \in Requests : q # r => req'[q] = req[q]
    BY <1>0, <1>2 DEF ScheduleBooking, RescheduleBooking
  <2>2. CASE ScheduleBooking(r, b, s)
    <3>1. req'[r] = [Idle EXCEPT !.pc = "sched_slot", !.b = b, !.s = s]
      BY <1>0, <2>2 DEF ScheduleBooking
    <3>2. req'[r].pc = "sched_slot"
      BY <3>1 DEF Idle
    <3> QED BY <2>1, <3>2 DEF Beginnings
  <2>3. CASE RescheduleBooking(r, b, s)
    <3>1. req'[r] = [Idle EXCEPT !.pc = "resched_slot", !.b = b, !.s = s,
                                 !.old = booking[b].slot]
      BY <1>0, <2>3 DEF RescheduleBooking
    <3>2. req'[r].pc = "resched_slot"
      BY <3>1 DEF Idle
    <3> QED BY <2>1, <3>2 DEF Beginnings
  <2> QED BY <1>2, <2>2, <2>3
<1>3. ASSUME NEW b \in Bookings, DeleteBooking(r, b) PROVE Goal
  <2>1. /\ UNCHANGED <<booking, slot, payment, test, chapa>>
        /\ req'[r] = [Idle EXCEPT
             !.pc = IF booking[b].slot # None THEN "del_dec" ELSE "del_row",
             !.b = b, !.old = booking[b].slot]
        /\ \A q \in Requests : q # r => req'[q] = req[q]
    BY <1>0, <1>3 DEF DeleteBooking
  <2>2. req'[r].pc \in {"del_dec", "del_row"}
    BY <2>1 DEF Idle
  <2> QED BY <2>1, <2>2 DEF Beginnings
<1>4. ASSUME NEW b \in Bookings, InitiatePayment(r, b) \/ RetryPayment(r, b) PROVE Goal
  <2>1. /\ UNCHANGED <<booking, slot, payment, test, chapa>>
        /\ \A q \in Requests : q # r => req'[q] = req[q]
    BY <1>0, <1>4 DEF InitiatePayment, RetryPayment
  <2>2. PICK l \in {"pay_attempt", "retry_mark"} :
          req'[r] = [Idle EXCEPT !.pc = l, !.b = b]
    BY <1>0, <1>4 DEF InitiatePayment, RetryPayment
  <2>3. req'[r].pc = l /\ req'[r].b = b
    BY <2>2 DEF Idle
  <2> QED BY <2>1, <2>3 DEF Beginnings
<1>5. ASSUME NEW p \in Payments, HandleChapaWebhook(r, p) \/ HandleChapaCallback(r, p)
      PROVE  Goal
  <2>1. /\ PaymentExists(p) /\ UNCHANGED <<booking, slot, payment, test, chapa>>
        /\ req' = [req EXCEPT ![r] = [Idle EXCEPT
             !.pc = IF payment[p].status = "success" THEN "conf_booking" ELSE "tx_verify",
             !.b = payment[p].booking, !.p = p, !.seen = payment[p].status]]
    BY <1>5 DEF HandleChapaWebhook, HandleChapaCallback, HandleChapaTransaction
  <2>2. /\ req'[r].pc = IF payment[p].status = "success" THEN "conf_booking" ELSE "tx_verify"
        /\ req'[r].b = payment[p].booking /\ req'[r].p = p
        /\ \A q \in Requests : q # r => req'[q] = req[q]
    BY <1>0, <2>1 DEF Idle
  <2> QED BY <2>1, <2>2 DEF Beginnings
<1> QED BY <1>1, <1>2, <1>3, <1>4, <1>5 DEF Begin

-----------------------------------------------------------------------------
(* Numbering.  A request that has computed attempt number k and not stored *)
(* it yet counts as a row: it is computed only while no row carries k.     *)

Rows(b, k) == {p \in Payments : /\ PaymentExists(p)
                                /\ payment[p].booking = b
                                /\ payment[p].attempt = k}

Numbered(b, k) == {r \in Requests : At(r, "pay_create") /\ req[r].b = b /\ req[r].n = k}

NumberInv ==
  \A b \in Bookings, k \in 1 .. MaxPaymentAttempts :
    /\ IsFiniteSet(Rows(b, k))
    /\ Cardinality(Rows(b, k)) + Cardinality(Numbered(b, k)) <= Cardinality(Requests)

LEMMA NumberedFinite ==
  ASSUME NEW b, NEW k
  PROVE  /\ IsFiniteSet(Numbered(b, k)) /\ Cardinality(Numbered(b, k)) \in Nat
         /\ Cardinality(Requests) \in Nat
         /\ Cardinality(Numbered(b, k)) <= Cardinality(Requests)
         /\ IsFiniteSet(Numbered(b, k)') /\ Cardinality(Numbered(b, k)') \in Nat
         /\ Cardinality(Numbered(b, k)') <= Cardinality(Requests)
<1>1. Numbered(b, k) \subseteq Requests /\ Numbered(b, k)' \subseteq Requests
  BY DEF Numbered
<1> QED BY <1>1, RequestsAssumption, FS_Subset, FS_CardinalityType

(* No row is inserted or renumbered, and no number is computed. *)
SameRows     == \A p \in Payments : PaymentExists(p)' =>
                  /\ PaymentExists(p)
                  /\ payment'[p].booking = payment[p].booking
                  /\ payment'[p].attempt = payment[p].attempt
SameNumbered == \A q \in Requests : req'[q].pc = "pay_create" =>
                  req[q].pc = "pay_create" /\ req'[q].b = req[q].b /\ req'[q].n = req[q].n

(* Fewer rows and fewer computed numbers respect the bound. *)
LEMMA NumberFewer ==
  ASSUME NumberInv, NEW b \in Bookings, NEW k \in 1 .. MaxPaymentAttempts,
         Rows(b, k)' \subseteq Rows(b, k), Numbered(b, k)' \subseteq Numbered(b, k)
  PROVE  /\ IsFiniteSet(Rows(b, k)')
         /\ Cardinality(Rows(b, k)') + Cardinality(Numbered(b, k)') <= Cardinality(Requests)
<1>1. /\ IsFiniteSet(Rows(b, k))
      /\ Cardinality(Rows(b, k)) + Cardinality(Numbered(b, k)) <= Cardinality(Requests)
  BY DEF NumberInv
<1>2. /\ IsFiniteSet(Rows(b, k)') /\ Cardinality(Rows(b, k)') \in Nat
      /\ Cardinality(Rows(b, k)) \in Nat
      /\ Cardinality(Rows(b, k)') <= Cardinality(Rows(b, k))
  BY <1>1, FS_Subset, FS_CardinalityType
<1>3. Cardinality(Numbered(b, k)') <= Cardinality(Numbered(b, k))
  BY NumberedFinite, FS_Subset
<1> QED BY <1>1, <1>2, <1>3, NumberedFinite

LEMMA NumberQuiet == ASSUME NumberInv, SameRows, SameNumbered PROVE NumberInv'
<1> SUFFICES ASSUME NEW b \in Bookings, NEW k \in 1 .. MaxPaymentAttempts
             PROVE  /\ IsFiniteSet(Rows(b, k)')
                    /\ Cardinality(Rows(b, k)') + Cardinality(Numbered(b, k)')
                         <= Cardinality(Requests)
  BY DEF NumberInv
<1>1. Rows(b, k)' \subseteq Rows(b, k)
  BY DEF SameRows, Rows
<1>2. Numbered(b, k)' \subseteq Numbered(b, k)
  BY DEF SameNumbered, Numbered, At
<1> QED BY <1>1, <1>2, NumberFewer

(* A number is computed only when no row carries it. *)
LEMMA NumberComputed ==
  ASSUME NEW r \in Requests, TypeOK, NumberInv, PaymentAttempt(r), ~Finish(r)
  PROVE  NumberInv'
<1> SUFFICES ASSUME NEW b \in Bookings, NEW k \in 1 .. MaxPaymentAttempts
             PROVE  /\ IsFiniteSet(Rows(b, k)')
                    /\ Cardinality(Rows(b, k)') + Cardinality(Numbered(b, k)')
                         <= Cardinality(Requests)
  BY DEF NumberInv
<1>1. PICK last \in {0} \cup Attempts(req[r].b) :
        /\ \A m \in Attempts(req[r].b) : m <= last
        /\ req' = [req EXCEPT ![r].pc = "pay_create", ![r].n = last + 1]
  BY DEF PaymentAttempt
<1>2. Rows(b, k)' = Rows(b, k)
  BY DEF PaymentAttempt, Rows, PaymentExists
<1>3. /\ req'[r].b = req[r].b /\ req'[r].n = last + 1
      /\ \A q \in Requests : q # r => req'[q] = req[q]
  BY <1>1 DEF TypeOK, Request
<1>4. CASE b = req[r].b /\ k = last + 1
  <2>1. last \in Nat /\ Attempts(req[r].b) \subseteq Nat
    BY LimitsAssumption DEF Attempts, TypeOK, PaymentRow
  <2>2. last + 1 \notin Attempts(req[r].b)
    BY <1>1, <2>1
  <2>3. Rows(b, k) = {}
    BY <1>4, <2>2 DEF Rows, Attempts
  <2> QED BY <1>2, <2>3, NumberedFinite, FS_EmptySet
<1>5. CASE ~(b = req[r].b /\ k = last + 1)
  <2>1. Numbered(b, k)' \subseteq Numbered(b, k)
    <3> SUFFICES ASSUME NEW q \in Numbered(b, k)' PROVE q \in Numbered(b, k)
      OBVIOUS
    <3>1. q \in Requests /\ At(q, "pay_create")' /\ req'[q].b = b /\ req'[q].n = k
      BY DEF Numbered
    <3>2. q # r
      BY <1>3, <1>5, <3>1
    <3> QED BY <1>3, <3>1, <3>2 DEF Numbered, At
  <2> QED BY <1>2, <2>1, NumberFewer
<1> QED BY <1>4, <1>5

(* A number stored is no longer computed. *)
LEMMA NumberStored ==
  ASSUME NEW r \in Requests, TypeOK, NumberInv, CreatePayment(r), ~Finish(r)
  PROVE  NumberInv'
<1> SUFFICES ASSUME NEW b \in Bookings, NEW k \in 1 .. MaxPaymentAttempts
             PROVE  /\ IsFiniteSet(Rows(b, k)')
                    /\ Cardinality(Rows(b, k)') + Cardinality(Numbered(b, k)')
                         <= Cardinality(Requests)
  BY DEF NumberInv
<1>1. PICK p \in Payments :
        /\ payment[p].status = "none"
        /\ payment' = [payment EXCEPT ![p] =
             [status |-> "pending", booking |-> req[r].b, attempt |-> req[r].n]]
        /\ req' = [req EXCEPT ![r].pc = "pay_mark", ![r].p = p]
  BY DEF CreatePayment
<1>2. /\ req'[r].pc = "pay_mark"
      /\ \A q \in Requests : q # r => req'[q] = req[q]
  BY <1>1 DEF TypeOK, Request
<1>3. Numbered(b, k)' = Numbered(b, k) \ {r}
  BY <1>2 DEF Numbered, At
<1>4. p \notin Rows(b, k)
  BY <1>1 DEF Rows, PaymentExists, PaymentStatus
<1>5. /\ payment'[p].booking = req[r].b /\ payment'[p].attempt = req[r].n
      /\ \A u \in Payments : u # p => payment'[u] = payment[u]
  BY <1>1 DEF TypeOK
<1>6. CASE b = req[r].b /\ k = req[r].n
  <2>1. r \in Numbered(b, k)
    BY <1>6 DEF CreatePayment, Numbered
  <2>2. Cardinality(Numbered(b, k)') = Cardinality(Numbered(b, k)) - 1
    BY <1>3, <2>1, NumberedFinite, FS_RemoveElement
  <2>3. Rows(b, k)' = Rows(b, k) \cup {p}
    <3>1. p \in Rows(b, k)'
      <4>1. payment'[p].status = "pending"
        BY <1>1 DEF TypeOK
      <4> QED BY <1>5, <1>6, <4>1 DEF Rows, PaymentExists, PaymentStatus
    <3> QED BY <1>4, <1>5, <3>1 DEF Rows, PaymentExists
  <2>4. /\ IsFiniteSet(Rows(b, k)) /\ Cardinality(Rows(b, k)) \in Nat
        /\ Cardinality(Rows(b, k)) + Cardinality(Numbered(b, k)) <= Cardinality(Requests)
    BY FS_CardinalityType DEF NumberInv
  <2>5. IsFiniteSet(Rows(b, k)') /\ Cardinality(Rows(b, k)') = Cardinality(Rows(b, k)) + 1
    BY <1>4, <2>3, <2>4, FS_AddElement
  <2> QED BY <2>2, <2>4, <2>5, NumberedFinite
<1>7. CASE ~(b = req[r].b /\ k = req[r].n)
  <2>1. Rows(b, k)' \subseteq Rows(b, k)
    <3> SUFFICES ASSUME NEW u \in Rows(b, k)' PROVE u \in Rows(b, k)
      OBVIOUS
    <3>1. u \in Payments /\ payment'[u].booking = b /\ payment'[u].attempt = k
      BY DEF Rows
    <3>2. u # p
      BY <1>5, <1>7, <3>1
    <3> QED BY <1>5, <3>1, <3>2 DEF Rows, PaymentExists
  <2> QED BY <1>3, <2>1, NumberFewer
<1> QED BY <1>6, <1>7

(* The steps that only move on, or end, neither store nor compute one. *)
LEMMA NumberMove ==
  ASSUME TypeOK, NumberInv, SameRows, NEW r \in Requests,
         Finish(r) \/ \E l \in PC \ {"pay_create"} : Goto(r, l)
  PROVE  NumberInv'
<1>1. SameNumbered
  <2>1. CASE Finish(r)
    BY <2>1, FinishEffect DEF SameNumbered, Idle
  <2>2. ASSUME NEW l \in PC \ {"pay_create"}, Goto(r, l) PROVE SameNumbered
    <3>1. /\ req'[r].pc = l
          /\ \A q \in Requests : q # r => req'[q] = req[q]
      BY <2>2, GotoEffect
    <3> QED BY <2>2, <3>1 DEF SameNumbered
  <2> QED BY <2>1, <2>2
<1> QED BY <1>1, NumberQuiet

LEMMA NumberInvStep == TypeOK /\ NumberInv /\ [Next]_vars => NumberInv'
<1> SUFFICES ASSUME TypeOK, NumberInv, [Next]_vars PROVE NumberInv'
  OBVIOUS
<1>1. UNCHANGED payment => SameRows
  BY DEF SameRows, PaymentExists
<1>2. ASSUME NEW p, NEW st \in PaymentStatus, SetPaymentStatus(p, st) PROVE SameRows
  BY <1>2 DEF SetPaymentStatus, SameRows, PaymentExists, TypeOK, PaymentRow
<1>3. CASE Environment \/ UNCHANGED vars
  <2>1. UNCHANGED <<payment, req>>
    BY <1>3 DEF Environment, CreateBooking, CreateSlot, ChapaSettle, ChapaRefund,
                TestTaken, vars
  <2> QED BY <1>1, <2>1, NumberQuiet DEF SameNumbered
<1>4. ASSUME NEW r \in Requests, Begin(r) PROVE NumberInv'
  <2>1. SameNumbered /\ UNCHANGED payment
    BY <1>4, BeginEffect DEF SameNumbered, Beginnings
  <2> QED BY <1>1, <2>1, NumberQuiet
<1>5. ASSUME NEW r \in Requests, SeatStep(r) PROVE NumberInv'
  <2>1. SameRows
    <3>1. CASE UNCHANGED payment
      BY <1>1, <3>1
    <3>2. CASE DeleteRow(r)
      BY <3>2 DEF DeleteRow, SameRows, PaymentExists, PaymentStatus, TypeOK, PaymentRow
    <3> QED BY <1>5, <3>1, <3>2
            DEF SeatStep, SlotRead, RescheduleRelease, TakeSeat, AssignSlot,
                AssignSlotFails, ReturnSeat, DeleteRelease
  <2>2. Finish(r) \/ \E l \in PC \ {"pay_create"} : Goto(r, l)
    BY <1>5 DEF SeatStep, SlotRead, RescheduleRelease, TakeSeat, AssignSlot,
                AssignSlotFails, ReturnSeat, DeleteRelease, DeleteRow, PC
  <2> QED BY <2>1, <2>2, NumberMove
<1>6. ASSUME NEW r \in Requests, PaymentStep(r) PROVE NumberInv'
  <2>1. CASE PaymentAttempt(r) /\ ~Finish(r)
    BY <2>1, NumberComputed
  <2>2. CASE CreatePayment(r) /\ ~Finish(r)
    BY <2>2, NumberStored
  <2>3. CASE (PaymentAttempt(r) \/ CreatePayment(r)) /\ Finish(r)
    <3>1. CASE UNCHANGED payment
      BY <1>1, <2>3, <3>1, NumberMove
    <3>2. CASE CreatePayment(r) /\ ~UNCHANGED payment
      <4>1. PICK p \in Payments : req' = [req EXCEPT ![r].pc = "pay_mark", ![r].p = p]
        BY <3>2 DEF CreatePayment
      <4>2. req'[r].pc = "pay_mark"
        BY <4>1 DEF TypeOK, Request
      <4> QED BY <2>3, <4>2, FinishEffect DEF Idle
    <3> QED BY <2>3, <3>1, <3>2 DEF PaymentAttempt
  <2>4. ASSUME RetryMark(r) \/ RetryRead(r) \/ MarkPaymentPending(r)
               \/ MarkPaymentPendingFails(r) \/ UndoPayment(r) \/ ProviderInitiate(r)
        PROVE  NumberInv'
    <3>1. SameRows
      BY <1>1, <1>2, <2>4 DEF RetryMark, RetryRead, MarkPaymentPending, PaymentStatus,
                              MarkPaymentPendingFails, UndoPayment, ProviderInitiate
    <3>2. Finish(r) \/ \E l \in PC \ {"pay_create"} : Goto(r, l)
      BY <2>4 DEF RetryMark, RetryRead, MarkPaymentPending, MarkPaymentPendingFails,
                  UndoPayment, ProviderInitiate, PC
    <3> QED BY <3>1, <3>2, NumberMove
  <2> QED BY <1>6, <2>1, <2>2, <2>3, <2>4 DEF PaymentStep
<1>7. ASSUME NEW r \in Requests, TransactionStep(r) PROVE NumberInv'
  <2>1. CASE PostTest(r) /\ ~Finish(r)
    <3>1. PICK t \in Tests : req' = [req EXCEPT ![r].pc = "trig_store", ![r].t = t]
      BY <2>1 DEF PostTest
    <3>2. req'[r].pc = "trig_store" /\ \A q \in Requests : q # r => req'[q] = req[q]
      BY <3>1 DEF TypeOK, Request
    <3>3. SameNumbered
      BY <3>2 DEF SameNumbered
    <3> QED BY <1>1, <2>1, <3>3, NumberQuiet DEF PostTest
  <2>2. CASE PostTest(r) /\ Finish(r)
    BY <1>1, <2>2, NumberMove DEF PostTest
  <2>3. ASSUME VerifyTransaction(r) \/ VerifyTransactionFails(r) \/ WritePayment(r)
               \/ ConfirmBooking(r) \/ FailBooking(r) \/ KeepBookingPending(r)
               \/ TestCreationDetails(r) \/ StoreTestID(r)
        PROVE  NumberInv'
    <3>1. SameRows
      BY <1>1, <1>2, <2>3 DEF VerifyTransaction, VerifyTransactionFails, WritePayment,
           ConfirmBooking, FailBooking, KeepBookingPending, TestCreationDetails,
           StoreTestID, PaymentStatus
    <3>2. Finish(r) \/ \E l \in PC \ {"pay_create"} : Goto(r, l)
      BY <2>3 DEF VerifyTransaction, VerifyTransactionFails, WritePayment, ConfirmBooking,
                  FailBooking, KeepBookingPending, TestCreationDetails, StoreTestID, PC
    <3> QED BY <3>1, <3>2, NumberMove
  <2> QED BY <1>7, <2>1, <2>2, <2>3 DEF TransactionStep
<1>8. ASSUME NEW r \in Requests, VerifyWrite(r) \/ ErrorIgnored(r) \/ RequestDies(r)
      PROVE  NumberInv'
  <2>1. SameRows
    BY <1>1, <1>8 DEF VerifyWrite, ErrorIgnored, RequestDies
  <2>2. Finish(r) \/ \E l \in PC \ {"pay_create"} : Goto(r, l)
    BY <1>8 DEF VerifyWrite, ErrorIgnored, RequestDies, PC
  <2> QED BY <2>1, <2>2, NumberMove
<1> QED BY <1>3, <1>4, <1>5, <1>6, <1>7, <1>8 DEF Next, Step

(* Initiations that race may share an attempt number, but never more of    *)
(* them than there are requests: one at a time, attempts number apart.     *)
THEOREM AttemptsAreNumbered == Spec => []AttemptRowsBounded
<1>1. Init => NumberInv
  <2> SUFFICES ASSUME Init, NEW b \in Bookings, NEW k \in 1 .. MaxPaymentAttempts
               PROVE  /\ IsFiniteSet(Rows(b, k))
                      /\ Cardinality(Rows(b, k)) + Cardinality(Numbered(b, k))
                           <= Cardinality(Requests)
    BY DEF NumberInv
  <2>1. Rows(b, k) = {} /\ Numbered(b, k) = {}
    BY DEF Init, Rows, PaymentExists, PaymentStatus, NoPayment, Numbered, At, Idle
  <2> QED BY <2>1, NumberedFinite, FS_EmptySet
<1>2. NumberInv => AttemptRowsBounded
  <2> SUFFICES ASSUME NumberInv, NEW b \in Bookings, NEW k \in 1 .. MaxPaymentAttempts
               PROVE  Cardinality(Rows(b, k)) <= Cardinality(Requests)
    BY DEF AttemptRowsBounded, Rows
  <2>1. Cardinality(Rows(b, k)) \in Nat
    BY FS_CardinalityType DEF NumberInv
  <2> QED BY <2>1, NumberedFinite DEF NumberInv
<1>3. Spec => []TypeOK
  BY TypeCorrect
<1>4. Spec => []NumberInv
  BY <1>1, <1>3, NumberInvStep, PTL DEF Spec
<1> QED BY <1>2, <1>4, PTL

-----------------------------------------------------------------------------
(* Money.                                                                  *)

(* A payment row not inserted yet belongs to no booking and was never sent *)
(* to the provider; one that was, belongs to a booking for ever.           *)
RowsOwned == \A p \in Payments :
  IF payment[p].status = "none" THEN payment[p].booking = None /\ chapa[p] = "none"
                                ELSE payment[p].booking \in Bookings

(* A success recorded is a success the provider reported. *)
SuccessIsSettled == \A p \in Payments : payment[p].status = "success" => Settled(p)

SettledFor(b) == \E p \in Payments : payment[p].booking = b /\ Settled(p)

Paying      == {"retry_mark", "pay_read", "pay_attempt", "pay_create"}
Opening     == {"pay_mark", "pay_call"}
Transacting == {"tx_verify", "conf_payment", "conf_booking", "fail_payment", "fail_booking",
                "keep_payment", "keep_booking"}
Confirming  == {"conf_payment", "conf_booking"}
Triggering  == {"trig_details", "trig_post", "trig_store"}

(* What a request knows of the payment it serves, at each statement. *)
RequestKnows(r) ==
  /\ req[r].pc \in Paying => req[r].b \in Bookings
  /\ req[r].pc \in Opening =>
       req[r].p \in Payments /\ payment[req[r].p].status # "none" /\ chapa[req[r].p] = "none"
  /\ req[r].pc \in Transacting =>
       /\ req[r].b \in Bookings
       /\ req[r].p \in Payments /\ payment[req[r].p].status # "none"
       /\ payment[req[r].p].booking = req[r].b
  /\ req[r].pc \in Confirming => Settled(req[r].p)
  /\ req[r].pc \in Triggering => req[r].b \in Bookings /\ SettledFor(req[r].b)

(* Two requests never open the same transaction. *)
OpeningApart == \A q, r \in Requests :
  req[q].pc \in Opening /\ req[r].pc \in Opening /\ q # r => req[q].p # req[r].p

MoneyInv == /\ RowsOwned
            /\ SuccessIsSettled
            /\ \A r \in Requests : RequestKnows(r)
            /\ OpeningApart
            /\ PaidIsSettled
            /\ TestOnlyIfSettled

(* A payment row stays the row of its booking, and money taken was taken:  *)
(* no step opens a transaction that was opened before.                     *)
Stable == \A p \in Payments :
  /\ payment[p].status # "none" =>
       payment'[p].status # "none" /\ payment'[p].booking = payment[p].booking
  /\ Settled(p) => Settled(p)'
  /\ chapa[p] # "none" => chapa'[p] # "none"

RequestStep(r) == Begin(r) \/ Step(r) \/ RequestDies(r)

(* Which steps write the payments, and which ones the provider's table. *)
LEMMA PaymentWriters ==
  ASSUME TypeOK, NEW r \in Requests, RequestStep(r)
  PROVE  \/ UNCHANGED payment
         \/ CreatePayment(r) \/ UndoPayment(r) \/ WritePayment(r) \/ DeleteRow(r)
BY BeginEffect
DEF RequestStep, Step, RequestDies, VerifyWrite, ErrorIgnored,
    SeatStep, SlotRead, RescheduleRelease, TakeSeat, AssignSlot, AssignSlotFails,
    ReturnSeat, DeleteRelease, PaymentStep, RetryMark, RetryRead, PaymentAttempt,
    MarkPaymentPending, MarkPaymentPendingFails, ProviderInitiate, TransactionStep,
    VerifyTransaction, VerifyTransactionFails, ConfirmBooking, FailBooking,
    KeepBookingPending, TestCreationDetails, PostTest, StoreTestID

LEMMA ProviderWriters ==
  ASSUME TypeOK, NEW r \in Requests, RequestStep(r)
  PROVE  UNCHANGED chapa \/ ProviderInitiate(r)
BY BeginEffect
DEF RequestStep, Step, RequestDies, VerifyWrite, ErrorIgnored,
    SeatStep, SlotRead, RescheduleRelease, TakeSeat, AssignSlot, AssignSlotFails,
    ReturnSeat, DeleteRelease, DeleteRow, PaymentStep, RetryMark, RetryRead,
    PaymentAttempt, CreatePayment, MarkPaymentPending, MarkPaymentPendingFails,
    UndoPayment, TransactionStep, VerifyTransaction, VerifyTransactionFails,
    WritePayment, ConfirmBooking, FailBooking, KeepBookingPending,
    TestCreationDetails, PostTest, StoreTestID

LEMMA PaymentTypes ==
  ASSUME TypeOK, NEW p \in Payments PROVE payment[p] \in PaymentRow /\ chapa[p] \in ChapaStatus
BY DEF TypeOK

(* What a write of a status does to the rows. *)
LEMMA StatusEffect ==
  ASSUME TypeOK, NEW p, NEW st \in PaymentStatus, SetPaymentStatus(p, st), NEW u \in Payments
  PROVE  /\ payment'[u].booking = payment[u].booking
         /\ IF PaymentExists(u) /\ u = p THEN payment'[u].status = st
                                         ELSE payment'[u].status = payment[u].status
<1>1. payment[u] \in PaymentRow
  BY PaymentTypes
<1>2. CASE PaymentExists(p) /\ u = p
  <2>1. payment'[u] = [payment[u] EXCEPT !.status = st]
    BY <1>2 DEF SetPaymentStatus, TypeOK
  <2> QED BY <1>1, <1>2, <2>1 DEF PaymentRow
<1>3. CASE ~(PaymentExists(p) /\ u = p)
  <2>1. payment'[u] = payment[u]
    BY <1>3 DEF SetPaymentStatus, TypeOK
  <2> QED BY <1>3, <2>1
<1> QED BY <1>2, <1>3

LEMMA CreateEffect ==
  ASSUME TypeOK, NEW r \in Requests, CreatePayment(r), ~UNCHANGED payment
  PROVE  \E p \in Payments :
           /\ payment[p].status = "none" /\ BookingExists(req[r].b)
           /\ payment'[p].status = "pending" /\ payment'[p].booking = req[r].b
           /\ \A u \in Payments : u # p => payment'[u] = payment[u]
           /\ req'[r].pc = "pay_mark" /\ req'[r].p = p
<1>1. PICK p \in Payments :
        /\ payment[p].status = "none"
        /\ payment' = [payment EXCEPT ![p] =
             [status |-> "pending", booking |-> req[r].b, attempt |-> req[r].n]]
        /\ req' = [req EXCEPT ![r].pc = "pay_mark", ![r].p = p]
  BY DEF CreatePayment
<1>2. req'[r].pc = "pay_mark" /\ req'[r].p = p
  BY <1>1 DEF TypeOK, Request
<1>3. /\ payment'[p].status = "pending" /\ payment'[p].booking = req[r].b
      /\ \A u \in Payments : u # p => payment'[u] = payment[u]
  BY <1>1 DEF TypeOK
<1> QED BY <1>1, <1>2, <1>3 DEF CreatePayment

LEMMA DeleteEffect ==
  ASSUME TypeOK, NEW r \in Requests, DeleteRow(r), NEW u \in Payments
  PROVE  /\ payment'[u].booking = payment[u].booking
         /\ \/ payment'[u].status = payment[u].status
            \/ payment[u].status # "none" /\ payment'[u].status = "gone"
<1>1. payment[u] \in PaymentRow
  BY PaymentTypes
<1>2. \/ payment'[u] = payment[u]
      \/ PaymentExists(u) /\ payment'[u] = [payment[u] EXCEPT !.status = "gone"]
  <2>1. \/ UNCHANGED payment
        \/ payment' = [p \in Payments |->
              IF PaymentExists(p) /\ payment[p].booking = req[r].b
                THEN [payment[p] EXCEPT !.status = "gone"] ELSE payment[p]]
    BY DEF DeleteRow
  <2> QED BY <2>1
<1> QED BY <1>1, <1>2 DEF PaymentRow, PaymentExists, PaymentStatus

LEMMA MoneyStable ==
  ASSUME TypeOK, MoneyInv, NEW r \in Requests, RequestStep(r) PROVE Stable
<1> SUFFICES ASSUME NEW p \in Payments
             PROVE  /\ payment[p].status # "none" =>
                         /\ payment'[p].status # "none"
                         /\ payment'[p].booking = payment[p].booking
                    /\ Settled(p) => Settled(p)'
                    /\ chapa[p] # "none" => chapa'[p] # "none"
  BY DEF Stable
<1>1. payment[p].status # "none" =>
        payment'[p].status # "none" /\ payment'[p].booking = payment[p].booking
  <2>1. CASE UNCHANGED payment
    BY <2>1
  <2>2. CASE CreatePayment(r) /\ ~UNCHANGED payment
    BY <2>2, CreateEffect
  <2>3. CASE UndoPayment(r) \/ WritePayment(r)
    <3>1. PICK st \in PaymentStatus : SetPaymentStatus(req[r].p, st)
      <4>1. \/ SetPaymentStatus(req[r].p, "success") \/ SetPaymentStatus(req[r].p, "failed")
            \/ SetPaymentStatus(req[r].p, "pending")
        BY <2>3 DEF UndoPayment, WritePayment
      <4> QED BY <4>1 DEF PaymentStatus
    <3> QED BY <3>1, StatusEffect DEF PaymentStatus
  <2>4. CASE DeleteRow(r)
    BY <2>4, DeleteEffect
  <2> QED BY <2>1, <2>2, <2>3, <2>4, PaymentWriters
<1>2. chapa'[p] = chapa[p] \/ (chapa[p] = "none" /\ chapa'[p] = "pending")
  <2>1. CASE UNCHANGED chapa
    BY <2>1
  <2>2. CASE ProviderInitiate(r)
    <3>1. req[r].p \in Payments /\ chapa[req[r].p] = "none"
      BY <2>2 DEF ProviderInitiate, At, Opening, MoneyInv, RequestKnows
    <3> QED BY <2>2, <3>1 DEF ProviderInitiate, TypeOK
  <2> QED BY <2>1, <2>2, ProviderWriters
<1>3. (Settled(p) => Settled(p)') /\ (chapa[p] # "none" => chapa'[p] # "none")
  BY <1>2 DEF Settled
<1> QED BY <1>1, <1>3

(* RowsOwned and SuccessIsSettled after a step of a request. *)
LEMMA RowsStep ==
  ASSUME TypeOK, MoneyInv, NEW r \in Requests, RequestStep(r), Stable
  PROVE  RowsOwned' /\ SuccessIsSettled'
<1> SUFFICES ASSUME NEW p \in Payments
             PROVE  /\ payment'[p].status = "none" =>
                         payment'[p].booking = None /\ chapa'[p] = "none"
                    /\ payment'[p].status # "none" => payment'[p].booking \in Bookings
                    /\ payment'[p].status = "success" => Settled(p)'
  BY DEF RowsOwned, SuccessIsSettled
<1>1. /\ payment[p].status = "none" => payment[p].booking = None /\ chapa[p] = "none"
      /\ payment[p].status # "none" => payment[p].booking \in Bookings
      /\ payment[p].status = "success" => Settled(p)
  BY DEF MoneyInv, RowsOwned, SuccessIsSettled
<1>2. /\ payment[p].status # "none" =>
           payment'[p].status # "none" /\ payment'[p].booking = payment[p].booking
      /\ Settled(p) => Settled(p)'
  BY DEF Stable
<1>3. payment[p].status = "none" => chapa'[p] = chapa[p]
  <2>1. CASE UNCHANGED chapa
    BY <2>1
  <2>2. CASE ProviderInitiate(r)
    <3>1. req[r].p \in Payments /\ payment[req[r].p].status # "none"
      BY <2>2 DEF ProviderInitiate, At, Opening, MoneyInv, RequestKnows
    <3> QED BY <2>2, <3>1 DEF ProviderInitiate, TypeOK
  <2> QED BY <2>1, <2>2, ProviderWriters
<1>4. CASE UNCHANGED payment
  BY <1>1, <1>2, <1>3, <1>4
<1>5. CASE CreatePayment(r) /\ ~UNCHANGED payment
  <2>1. req[r].b \in Bookings
    BY <1>5 DEF CreatePayment, At, Paying, MoneyInv, RequestKnows
  <2> QED BY <1>1, <1>2, <1>3, <1>5, <2>1, CreateEffect
<1>6. CASE UndoPayment(r) \/ WritePayment(r)
  <2>1. PICK st \in PaymentStatus :
          SetPaymentStatus(req[r].p, st) /\ (st = "success" => At(r, "conf_payment"))
    <3>1. \/ SetPaymentStatus(req[r].p, "success") /\ At(r, "conf_payment")
          \/ SetPaymentStatus(req[r].p, "failed")
          \/ SetPaymentStatus(req[r].p, "pending")
      BY <1>6 DEF UndoPayment, WritePayment
    <3> QED BY <3>1 DEF PaymentStatus
  <2>2. st = "success" => Settled(req[r].p)
    BY <2>1 DEF At, Confirming, MoneyInv, RequestKnows
  <2>3. /\ payment'[p].booking = payment[p].booking
        /\ IF PaymentExists(p) /\ p = req[r].p THEN payment'[p].status = st
                                               ELSE payment'[p].status = payment[p].status
    BY <2>1, StatusEffect
  <2>4. PaymentExists(p) => payment[p].status # "none"
    BY DEF PaymentExists, PaymentStatus
  <2> QED BY <1>1, <1>2, <1>3, <2>2, <2>3, <2>4
<1>7. CASE DeleteRow(r)
  <2>1. /\ payment'[p].booking = payment[p].booking
        /\ \/ payment'[p].status = payment[p].status
           \/ payment[p].status # "none" /\ payment'[p].status = "gone"
    BY <1>7, DeleteEffect
  <2> QED BY <1>1, <1>2, <1>3, <2>1
<1> QED BY <1>4, <1>5, <1>6, <1>7, PaymentWriters

(* What a request knows stays true while it waits, and when it moves on to *)
(* a statement that needs no more than it knew.                            *)
LEMMA KnowsMoved ==
  ASSUME TypeOK, MoneyInv, Stable, NEW q \in Requests,
         req'[q].b = req[q].b, req'[q].p = req[q].p,
         req'[q].pc \in Paying => req[q].pc \in Paying,
         req'[q].pc \in Opening => req[q].pc \in Opening /\ chapa'[req[q].p] = "none",
         req'[q].pc \in Transacting => req[q].pc \in Transacting,
         req'[q].pc \in Confirming =>
           req[q].pc \in Confirming \/ (req[q].pc \in Transacting /\ Settled(req[q].p)),
         req'[q].pc \in Triggering => req[q].pc \in Triggering \cup Confirming
  PROVE  RequestKnows(q)'
<1>1. RequestKnows(q)
  BY DEF MoneyInv
<1>2. ASSUME req[q].pc \in Triggering \cup Confirming
      PROVE  \E p \in Payments :
               payment'[p].booking = req[q].b /\ chapa'[p] \in {"success", "refunded"}
  <2>1. PICK p \in Payments : payment[p].booking = req[q].b /\ Settled(p)
    BY <1>1, <1>2 DEF RequestKnows, SettledFor, Confirming, Transacting
  <2>2. payment[p].status # "none"
    BY <1>1, <1>2, <2>1, NoneAssumption
    DEF RequestKnows, MoneyInv, RowsOwned, Confirming, Transacting
  <2>3. payment'[p].booking = payment[p].booking /\ Settled(p)'
    BY <2>1, <2>2 DEF Stable
  <2> QED BY <2>1, <2>3 DEF Settled
<1>3. /\ req[q].pc \in Opening =>
           req[q].p \in Payments /\ payment'[req[q].p].status # "none"
      /\ req[q].pc \in Transacting =>
           /\ req[q].b \in Bookings /\ req[q].p \in Payments
           /\ payment'[req[q].p].status # "none"
           /\ payment'[req[q].p].booking = req[q].b
      /\ req[q].pc \in Triggering \cup Confirming => req[q].b \in Bookings
      /\ req[q].pc \in Paying => req[q].b \in Bookings
  BY <1>1 DEF RequestKnows, Stable, Confirming, Transacting
<1>4. req'[q].pc \in Confirming => chapa'[req[q].p] \in {"success", "refunded"}
  BY <1>1 DEF RequestKnows, Stable, Confirming, Transacting, Settled
<1> QED BY <1>2, <1>3, <1>4 DEF RequestKnows, SettledFor, Settled

(* A transaction no request but this one is about to open. *)
LEMMA OthersOpening ==
  ASSUME TypeOK, MoneyInv, NEW r \in Requests, RequestStep(r),
         NEW q \in Requests, q # r, req[q].pc \in Opening
  PROVE  chapa'[req[q].p] = "none"
<1>1. req[q].p \in Payments /\ chapa[req[q].p] = "none"
  BY DEF MoneyInv, RequestKnows
<1>2. CASE UNCHANGED chapa
  BY <1>1, <1>2
<1>3. CASE ProviderInitiate(r)
  <2>1. req[r].p # req[q].p
    BY <1>3 DEF ProviderInitiate, At, Opening, MoneyInv, OpeningApart
  <2>2. chapa' = chapa \/ chapa' = [chapa EXCEPT ![req[r].p] = "pending"]
    BY <1>3 DEF ProviderInitiate
  <2> QED BY <1>1, <2>1, <2>2 DEF TypeOK
<1> QED BY <1>2, <1>3, ProviderWriters

(* The moves of a request, as far as RequestKnows tells them apart. *)
Elsewhere == PC \ (Paying \cup Opening \cup Transacting \cup Triggering)

LEMMA KnowsGoto ==
  ASSUME TypeOK, MoneyInv, Stable, NEW r \in Requests, NEW l \in PC, Goto(r, l),
         l \in Paying => req[r].pc \in Paying,
         l \in Opening => req[r].pc \in Opening /\ UNCHANGED chapa,
         l \in Transacting => req[r].pc \in Transacting,
         l \in Confirming =>
           req[r].pc \in Confirming \/ (req[r].pc \in Transacting /\ Settled(req[r].p)),
         l \in Triggering => req[r].pc \in Triggering \cup Confirming
  PROVE  RequestKnows(r)'
<1>1. req'[r].pc = l /\ req'[r].b = req[r].b /\ req'[r].p = req[r].p
  BY GotoEffect
<1>2. req[r].pc \in Opening => chapa[req[r].p] = "none"
  BY DEF MoneyInv, RequestKnows
<1> QED BY <1>1, <1>2, KnowsMoved

LEMMA KnowsFinish ==
  ASSUME TypeOK, NEW r \in Requests, Finish(r) PROVE RequestKnows(r)'
<1>1. req'[r].pc = "idle"
  BY FinishEffect DEF Idle
<1> QED BY <1>1 DEF RequestKnows, Paying, Opening, Transacting, Confirming, Triggering

LEMMA KnowsElsewhere ==
  ASSUME TypeOK, NEW r \in Requests, NEW l \in Elsewhere, Goto(r, l) PROVE RequestKnows(r)'
<1>1. req'[r].pc = l
  BY GotoEffect
<1> QED BY <1>1 DEF RequestKnows, Elsewhere, Confirming, Transacting

LEMMA KnowsBegin ==
  ASSUME TypeOK, MoneyInv, NEW r \in Requests, Begin(r) PROVE RequestKnows(r)'
<1>1. CASE req'[r].pc \in {"conf_booking", "tx_verify"}
  <2>1. PICK p \in Payments :
          /\ PaymentExists(p) /\ req'[r].p = p /\ req'[r].b = payment[p].booking
          /\ req'[r].pc = "conf_booking" => payment[p].status = "success"
    BY <1>1, BeginEffect
  <2>2. payment[p].status # "none"
    BY <2>1 DEF PaymentExists, PaymentStatus
  <2>3. payment[p].booking \in Bookings
    BY <2>2 DEF MoneyInv, RowsOwned
  <2>4. req'[r].pc = "conf_booking" => Settled(p)
    BY <2>1 DEF MoneyInv, SuccessIsSettled
  <2>5. UNCHANGED <<payment, chapa>>
    BY BeginEffect
  <2> QED BY <1>1, <2>1, <2>2, <2>3, <2>4, <2>5
          DEF RequestKnows, Settled, Paying, Opening, Transacting, Confirming, Triggering
<1>2. CASE req'[r].pc \in {"pay_attempt", "retry_mark"}
  <2>1. req'[r].b \in Bookings
    BY <1>2, BeginEffect
  <2> QED BY <1>2, <2>1
          DEF RequestKnows, Paying, Opening, Transacting, Confirming, Triggering
<1>3. CASE req'[r].pc \in {"verify", "sched_slot", "resched_slot", "del_dec", "del_row"}
  BY <1>3 DEF RequestKnows, Paying, Opening, Transacting, Confirming, Triggering
<1> QED BY <1>1, <1>2, <1>3, BeginEffect DEF Beginnings

LEMMA KnowsStep ==
  ASSUME TypeOK, MoneyInv, Stable, NEW r \in Requests, RequestStep(r) PROVE RequestKnows(r)'
<1> USE DEF At
<1>1. CASE Begin(r)
  BY <1>1, KnowsBegin
<1>2. CASE VerifyWrite(r) \/ ErrorIgnored(r) \/ RequestDies(r) \/ SeatStep(r)
  <2>1. Finish(r) \/ \E l \in Elsewhere : Goto(r, l)
    BY <1>2 DEF VerifyWrite, ErrorIgnored, RequestDies, SeatStep, SlotRead,
         RescheduleRelease, TakeSeat, AssignSlot, AssignSlotFails, ReturnSeat,
         DeleteRelease, DeleteRow, Elsewhere, PC, Paying, Opening, Transacting, Triggering
  <2> QED BY <2>1, KnowsFinish, KnowsElsewhere
<1>3. CASE MarkPaymentPendingFails(r) \/ UndoPayment(r) \/ ProviderInitiate(r)
           \/ VerifyTransactionFails(r) \/ FailBooking(r) \/ KeepBookingPending(r)
           \/ StoreTestID(r)
  <2>1. Finish(r) \/ \E l \in Elsewhere : Goto(r, l)
    BY <1>3 DEF MarkPaymentPendingFails, UndoPayment, ProviderInitiate,
         VerifyTransactionFails, FailBooking, KeepBookingPending, StoreTestID,
         Elsewhere, PC, Paying, Opening, Transacting, Triggering
  <2> QED BY <2>1, KnowsFinish, KnowsElsewhere
<1>4. CASE RetryMark(r)
  BY <1>4, KnowsGoto
  DEF RetryMark, PC, Paying, Opening, Transacting, Confirming, Triggering
<1>5. CASE RetryRead(r)
  <2>1. CASE Finish(r)
    BY <2>1, KnowsFinish
  <2>2. CASE Goto(r, "pay_attempt")
    BY <1>5, <2>2, KnowsGoto
    DEF RetryRead, PC, Paying, Opening, Transacting, Confirming, Triggering
  <2> QED BY <1>5, <2>1, <2>2 DEF RetryRead
<1>6. CASE PaymentAttempt(r)
  <2>1. CASE Finish(r)
    BY <2>1, KnowsFinish
  <2>2. CASE ~Finish(r)
    <3>1. PICK n : req' = [req EXCEPT ![r].pc = "pay_create", ![r].n = n]
      BY <1>6, <2>2 DEF PaymentAttempt
    <3>2. req'[r].pc = "pay_create" /\ req'[r].b = req[r].b
      BY <3>1 DEF TypeOK, Request
    <3>3. req[r].b \in Bookings
      BY <1>6 DEF PaymentAttempt, Paying, MoneyInv, RequestKnows
    <3> QED BY <3>2, <3>3
            DEF RequestKnows, Opening, Transacting, Confirming, Triggering
  <2> QED BY <2>1, <2>2
<1>7. CASE CreatePayment(r)
  <2>1. CASE Finish(r)
    BY <2>1, KnowsFinish
  <2>2. CASE ~Finish(r)
    <3>1. ~UNCHANGED payment
      <4>1. PICK p \in Payments :
              /\ payment[p].status = "none"
              /\ payment' = [payment EXCEPT ![p] =
                   [status |-> "pending", booking |-> req[r].b, attempt |-> req[r].n]]
        BY <1>7, <2>2 DEF CreatePayment
      <4>2. payment'[p].status = "pending"
        BY <4>1 DEF TypeOK
      <4> QED BY <4>1, <4>2
    <3>2. PICK p \in Payments :
            /\ payment[p].status = "none" /\ payment'[p].status = "pending"
            /\ req'[r].pc = "pay_mark" /\ req'[r].p = p
      BY <1>7, <3>1, CreateEffect
    <3>3. chapa'[p] = "none"
      BY <1>7, <3>2 DEF CreatePayment, MoneyInv, RowsOwned
    <3> QED BY <3>2, <3>3
            DEF RequestKnows, Paying, Opening, Transacting, Confirming, Triggering
  <2> QED BY <2>1, <2>2
<1>8. CASE MarkPaymentPending(r)
  BY <1>8, KnowsGoto
  DEF MarkPaymentPending, PC, Paying, Opening, Transacting, Confirming, Triggering
<1>9. CASE VerifyTransaction(r)
  <2>1. CASE chapa[req[r].p] = "success" /\ Goto(r, "conf_payment")
    BY <1>9, <2>1, KnowsGoto
    DEF VerifyTransaction, Settled, PC, Paying, Opening, Transacting, Confirming, Triggering
  <2>2. ASSUME NEW l \in {"fail_payment", "keep_payment", "keep_booking"}, Goto(r, l)
        PROVE  RequestKnows(r)'
    BY <1>9, <2>2, KnowsGoto
    DEF VerifyTransaction, PC, Paying, Opening, Transacting, Confirming, Triggering
  <2> QED BY <1>9, <2>1, <2>2 DEF VerifyTransaction
<1>10. CASE WritePayment(r)
  <2>1. CASE At(r, "conf_payment") /\ Goto(r, "conf_booking")
    BY <2>1, KnowsGoto DEF PC, Paying, Opening, Transacting, Confirming, Triggering
  <2>2. ASSUME NEW l \in {"fail_booking", "keep_booking"}, Goto(r, l),
               req[r].pc \in {"fail_payment", "keep_payment"}
        PROVE  RequestKnows(r)'
    BY <2>2, KnowsGoto DEF PC, Paying, Opening, Transacting, Confirming, Triggering
  <2>3. CASE Goto(r, "pay_fail_booking")
    BY <2>3, KnowsElsewhere DEF Elsewhere, PC, Paying, Opening, Transacting, Triggering
  <2> QED BY <1>10, <2>1, <2>2, <2>3 DEF WritePayment
<1>11. CASE ConfirmBooking(r)
  BY <1>11, KnowsGoto
  DEF ConfirmBooking, PC, Paying, Opening, Transacting, Confirming, Triggering
<1>12. CASE TestCreationDetails(r)
  <2>1. CASE Finish(r)
    BY <2>1, KnowsFinish
  <2>2. CASE Goto(r, "trig_post")
    BY <1>12, <2>2, KnowsGoto
    DEF TestCreationDetails, PC, Paying, Opening, Transacting, Confirming, Triggering
  <2> QED BY <1>12, <2>1, <2>2 DEF TestCreationDetails
<1>13. CASE PostTest(r)
  <2>1. CASE Finish(r)
    BY <2>1, KnowsFinish
  <2>2. CASE ~Finish(r)
    <3>1. PICK t \in Tests : req' = [req EXCEPT ![r].pc = "trig_store", ![r].t = t]
      BY <1>13, <2>2 DEF PostTest
    <3>2. req'[r].pc = "trig_store" /\ req'[r].b = req[r].b /\ req'[r].p = req[r].p
      BY <3>1 DEF TypeOK, Request
    <3> QED BY <1>13, <3>2, KnowsMoved
            DEF PostTest, Paying, Opening, Transacting, Confirming, Triggering
  <2> QED BY <2>1, <2>2
<1> QED BY <1>1, <1>2, <1>3, <1>4, <1>5, <1>6, <1>7, <1>8, <1>9, <1>10, <1>11, <1>12, <1>13
        DEF RequestStep, Step, PaymentStep, TransactionStep

(* A step of one request leaves the others alone. *)
LEMMA RequestApart ==
  ASSUME TypeOK, NEW r \in Requests, RequestStep(r)
  PROVE  \A q \in Requests : q # r => req'[q] = req[q]
<1>1. CASE Begin(r)
  BY <1>1, BeginEffect
<1>2. CASE Finish(r) \/ \E l : Goto(r, l)
  BY <1>2, FinishEffect, GotoEffect
<1>3. CASE PaymentAttempt(r) \/ CreatePayment(r) \/ PostTest(r)
  BY <1>2, <1>3 DEF PaymentAttempt, CreatePayment, PostTest, TypeOK
<1> QED BY <1>1, <1>2, <1>3
          DEF RequestStep, Step, RequestDies, VerifyWrite, ErrorIgnored, SeatStep, SlotRead,
              RescheduleRelease, TakeSeat, AssignSlot, AssignSlotFails, ReturnSeat,
              DeleteRelease, DeleteRow, PaymentStep, RetryMark, RetryRead,
              MarkPaymentPending, MarkPaymentPendingFails, UndoPayment, ProviderInitiate,
              TransactionStep, VerifyTransaction, VerifyTransactionFails, WritePayment,
              ConfirmBooking, FailBooking, KeepBookingPending, TestCreationDetails,
              StoreTestID

(* Only CreatePayment begins to open a transaction, with a row of its own. *)
LEMMA ApartStep ==
  ASSUME TypeOK, MoneyInv, NEW r \in Requests, RequestStep(r) PROVE OpeningApart'
<1>0. \A q \in Requests : q # r => req'[q] = req[q]
  BY RequestApart
<1>1. CASE req'[r].pc \in Opening => req[r].pc \in Opening /\ req'[r].p = req[r].p
  BY <1>0, <1>1 DEF MoneyInv, OpeningApart
<1>2. CASE CreatePayment(r) /\ ~UNCHANGED payment
  <2>1. PICK p \in Payments : payment[p].status = "none" /\ req'[r].p = p
    BY <1>2, CreateEffect
  <2>2. ASSUME NEW q \in Requests, q # r, req[q].pc \in Opening PROVE req[q].p # p
    BY <2>1, <2>2 DEF MoneyInv, RequestKnows
  <2> QED BY <1>0, <2>1, <2>2 DEF MoneyInv, OpeningApart
<1>3. CASE MarkPaymentPending(r)
  <2>1. req'[r].p = req[r].p /\ req[r].pc \in Opening
    BY <1>3, GotoEffect DEF MarkPaymentPending, At, Opening
  <2> QED BY <1>1, <2>1
<1>4. CASE Finish(r) \/ \E l \in PC \ Opening : Goto(r, l)
  <2>1. req'[r].pc \notin Opening
    <3>1. CASE Finish(r)
      BY <3>1, FinishEffect DEF Idle, Opening
    <3>2. ASSUME NEW l \in PC \ Opening, Goto(r, l) PROVE req'[r].pc \notin Opening
      BY <3>2, GotoEffect
    <3> QED BY <1>4, <3>1, <3>2
  <2> QED BY <1>1, <2>1
<1>5. CASE Begin(r)
  <2>1. req'[r].pc \notin Opening
    BY <1>5, BeginEffect DEF Beginnings, Opening
  <2> QED BY <1>1, <2>1
<1>6. CASE PaymentAttempt(r) \/ PostTest(r)
  <2>1. CASE Finish(r)
    BY <1>4, <2>1
  <2>2. CASE ~Finish(r)
    <3>1. req'[r].pc \in {"pay_create", "trig_store"}
      BY <1>6, <2>2 DEF PaymentAttempt, PostTest, TypeOK, Request
    <3> QED BY <1>1, <3>1 DEF Opening
  <2> QED BY <2>1, <2>2
<1>7. CASE CreatePayment(r) /\ UNCHANGED payment
  <2>1. Finish(r)
    <3>1. ASSUME NEW p \in Payments, payment[p].status = "none",
                 payment' = [payment EXCEPT ![p] =
                   [status |-> "pending", booking |-> req[r].b, attempt |-> req[r].n]]
          PROVE  FALSE
      <4>1. payment'[p].status = "pending"
        BY <3>1 DEF TypeOK
      <4> QED BY <1>7, <3>1, <4>1
    <3> QED BY <1>7, <3>1 DEF CreatePayment
  <2> QED BY <1>4, <2>1
<1>8. CASE VerifyWrite(r) \/ ErrorIgnored(r) \/ RequestDies(r) \/ SeatStep(r)
  <2>1. Finish(r) \/ \E l \in PC \ Opening : Goto(r, l)
    BY <1>8 DEF VerifyWrite, ErrorIgnored, RequestDies, SeatStep, SlotRead,
         RescheduleRelease, TakeSeat, AssignSlot, AssignSlotFails, ReturnSeat,
         DeleteRelease, DeleteRow, PC, Opening
  <2> QED BY <1>4, <2>1
<1>9. CASE RetryMark(r) \/ RetryRead(r) \/ MarkPaymentPendingFails(r) \/ UndoPayment(r)
           \/ ProviderInitiate(r) \/ VerifyTransaction(r) \/ VerifyTransactionFails(r)
           \/ WritePayment(r) \/ ConfirmBooking(r) \/ FailBooking(r)
           \/ KeepBookingPending(r) \/ TestCreationDetails(r) \/ StoreTestID(r)
  <2>1. Finish(r) \/ \E l \in PC \ Opening : Goto(r, l)
    BY <1>9 DEF RetryMark, RetryRead, MarkPaymentPendingFails, UndoPayment,
         ProviderInitiate, VerifyTransaction, VerifyTransactionFails, WritePayment,
         ConfirmBooking, FailBooking, KeepBookingPending, TestCreationDetails,
         StoreTestID, PC, Opening
  <2> QED BY <1>4, <2>1
<1> QED BY <1>2, <1>3, <1>5, <1>6, <1>7, <1>8, <1>9
        DEF RequestStep, Step, PaymentStep, TransactionStep

-----------------------------------------------------------------------------
(* What a step does to the bookings.                                       *)

(* No booking disappears, and none becomes paid or changes what paid it. *)
BookingsKept == \A b \in Bookings :
  /\ BookingExists(b) => BookingExists(b)'
  /\ booking'[b].status = "confirmed" \/ booking'[b].pay = "paid" =>
       /\ booking[b].status = "confirmed" \/ booking[b].pay = "paid"
       /\ booking'[b].ref = booking[b].ref

LEMMA RowKept ==
  ASSUME TypeOK, NEW b, NEW row, UpdateBookingFields(b, row),
         b \in Bookings => row.status \in BookingStatus,
         b \in Bookings => (row.status = "confirmed" \/ row.pay = "paid" =>
           /\ booking[b].status = "confirmed" \/ booking[b].pay = "paid"
           /\ row.ref = booking[b].ref)
  PROVE  BookingsKept
<1> SUFFICES ASSUME NEW c \in Bookings
             PROVE  /\ BookingExists(c) => BookingExists(c)'
                    /\ booking'[c].status = "confirmed" \/ booking'[c].pay = "paid" =>
                         /\ booking[c].status = "confirmed" \/ booking[c].pay = "paid"
                         /\ booking'[c].ref = booking[c].ref
  BY DEF BookingsKept
<1>1. booking'[c] = booking[c] \/ (c = b /\ booking'[c] = row)
  BY DEF UpdateBookingFields, TypeOK
<1> QED BY <1>1 DEF BookingExists

LEMMA BookingWriters ==
  ASSUME TypeInv, NEW r \in Requests, RequestStep(r)
  PROVE  BookingsKept \/ ConfirmBooking(r) \/ DeleteRow(r)
<1>t. TypeOK /\ req[r] \in Request
  BY DEF TypeInv, TypeOK
<1>b. req[r].b \in Bookings => booking[req[r].b] \in BookingRow
  BY <1>t DEF TypeOK
<1>1. UNCHANGED booking => BookingsKept
  BY DEF BookingsKept, BookingExists
<1>2. CASE VerifyWrite(r)
  <2>1. req[r].seen \in {"verified", "rejected"}
    BY <1>2 DEF VerifyWrite, TypeInv, Reviewing
  <2>2. DEFINE row == [booking[req[r].b] EXCEPT !.status = req[r].seen]
  <2>3. req[r].b \in Bookings =>
          row.status = req[r].seen /\ row.pay = booking[req[r].b].pay
          /\ row.ref = booking[req[r].b].ref
    BY <1>b DEF BookingRow
  <2>4. UpdateBookingFields(req[r].b, row)
    BY <1>2 DEF VerifyWrite
  <2> HIDE DEF row
  <2> QED BY <1>t, <2>1, <2>3, <2>4, RowKept DEF BookingStatus
<1>3. CASE AssignSlot(r)
  <2>2. DEFINE row == [booking[req[r].b] EXCEPT !.slot = req[r].s, !.status = "scheduled"]
  <2>3. req[r].b \in Bookings =>
          row.status = "scheduled" /\ row.pay = booking[req[r].b].pay
          /\ row.ref = booking[req[r].b].ref
    BY <1>b DEF BookingRow
  <2>4. UpdateBookingFields(req[r].b, row)
    BY <1>3 DEF AssignSlot
  <2> HIDE DEF row
  <2> QED BY <1>t, <2>3, <2>4, RowKept DEF BookingStatus
<1>4. CASE RetryMark(r)
  <2>2. DEFINE row == [booking[req[r].b] EXCEPT !.status = "scheduled"]
  <2>3. req[r].b \in Bookings =>
          row.status = "scheduled" /\ row.pay = booking[req[r].b].pay
          /\ row.ref = booking[req[r].b].ref
    BY <1>b DEF BookingRow
  <2>4. UpdateBookingFields(req[r].b, row)
    BY <1>4 DEF RetryMark
  <2> HIDE DEF row
  <2> QED BY <1>t, <2>3, <2>4, RowKept DEF BookingStatus
<1>5. CASE MarkPaymentPending(r)
  <2>2. DEFINE row == [booking[req[r].b] EXCEPT !.status = "payment_pending",
                         !.pay = "pending", !.attempts = req[r].n]
  <2>3. req[r].b \in Bookings => row.status = "payment_pending" /\ row.pay = "pending"
    BY <1>b DEF BookingRow
  <2>4. UpdateBookingFields(req[r].b, row)
    BY <1>5 DEF MarkPaymentPending
  <2> HIDE DEF row
  <2> QED BY <1>t, <2>3, <2>4, RowKept DEF BookingStatus
<1>6. CASE FailBooking(r)
  <2>2. DEFINE row == [booking[req[r].b] EXCEPT !.status = "payment_failed", !.pay = "failed"]
  <2>3. req[r].b \in Bookings => row.status = "payment_failed" /\ row.pay = "failed"
    BY <1>b DEF BookingRow
  <2>4. UpdateBookingFields(req[r].b, row)
    BY <1>6 DEF FailBooking
  <2> HIDE DEF row
  <2> QED BY <1>t, <2>3, <2>4, RowKept DEF BookingStatus
<1>7. CASE KeepBookingPending(r)
  <2>2. DEFINE row == [booking[req[r].b] EXCEPT !.status = "payment_pending", !.pay = "pending"]
  <2>3. req[r].b \in Bookings => row.status = "payment_pending" /\ row.pay = "pending"
    BY <1>b DEF BookingRow
  <2>4. UpdateBookingFields(req[r].b, row)
    BY <1>7 DEF KeepBookingPending
  <2> HIDE DEF row
  <2> QED BY <1>t, <2>3, <2>4, RowKept DEF BookingStatus
<1>8. CASE StoreTestID(r)
  <2>1. DEFINE row == [booking[req[r].b] EXCEPT !.test = req[r].t]
  <2>2. CASE BookingExists(req[r].b) /\ req[r].b \in Bookings
    <3>1. /\ row.status = booking[req[r].b].status /\ row.pay = booking[req[r].b].pay
          /\ row.ref = booking[req[r].b].ref
      BY <1>b, <2>2 DEF BookingRow
    <3>2. UpdateBookingFields(req[r].b, row) /\ row.status \in BookingStatus
      BY <1>8, <2>2, <3>1 DEF StoreTestID, BookingExists
    <3> HIDE DEF row
    <3> QED BY <1>t, <3>1, <3>2, RowKept
  <2>3. CASE ~(BookingExists(req[r].b) /\ req[r].b \in Bookings)
    <3>1. UNCHANGED booking
      BY <1>t, <1>8, <2>3 DEF StoreTestID, UpdateBookingFields, TypeOK
    <3> QED BY <1>1, <3>1
  <2> QED BY <2>2, <2>3
<1> QED BY <1>t, <1>1, <1>2, <1>3, <1>4, <1>5, <1>6, <1>7, <1>8, BeginEffect
        DEF RequestStep, Step, RequestDies, ErrorIgnored, SeatStep, SlotRead,
            RescheduleRelease, TakeSeat, AssignSlotFails, ReturnSeat, DeleteRelease,
            PaymentStep, RetryRead, PaymentAttempt, CreatePayment,
            MarkPaymentPendingFails, UndoPayment, ProviderInitiate, TransactionStep,
            VerifyTransaction, VerifyTransactionFails, WritePayment, TestCreationDetails,
            PostTest

LEMMA PaidStep ==
  ASSUME TypeInv, MoneyInv, Stable, NEW r \in Requests, RequestStep(r) PROVE PaidIsSettled'
<1> SUFFICES ASSUME NEW b \in Bookings,
                    booking'[b].status = "confirmed" \/ booking'[b].pay = "paid"
             PROVE  \E p \in Payments : /\ booking'[b].ref = p
                                        /\ payment'[p].booking = b
                                        /\ Settled(p)'
  BY DEF PaidIsSettled
<1>1. ASSUME NEW p \in Payments, payment[p].booking = b, Settled(p)
      PROVE  payment'[p].booking = b /\ Settled(p)'
  <2>1. payment[p].status # "none"
    BY <1>1, NoneAssumption DEF MoneyInv, RowsOwned
  <2> QED BY <1>1, <2>1 DEF Stable
<1>2. CASE /\ booking[b].status = "confirmed" \/ booking[b].pay = "paid"
           /\ booking'[b].ref = booking[b].ref
  <2>1. PICK p \in Payments : booking[b].ref = p /\ payment[p].booking = b /\ Settled(p)
    BY <1>2 DEF MoneyInv, PaidIsSettled
  <2> QED BY <1>1, <1>2, <2>1
<1>3. CASE BookingsKept
  BY <1>2, <1>3 DEF BookingsKept
<1>4. CASE ConfirmBooking(r)
  <2>1. /\ req[r].p \in Payments /\ payment[req[r].p].booking = req[r].b
        /\ Settled(req[r].p)
    BY <1>4 DEF ConfirmBooking, At, Confirming, Transacting, MoneyInv, RequestKnows
  <2>2. CASE b = req[r].b /\ BookingExists(b)
    <3>1. booking[b] \in BookingRow
      BY DEF TypeInv, TypeOK
    <3>2. booking'[b] = [booking[b] EXCEPT !.status = "confirmed", !.pay = "paid",
                                           !.ref = req[r].p]
      BY <1>4, <2>2 DEF ConfirmBooking, UpdateBookingFields, TypeInv, TypeOK
    <3>3. booking'[b].ref = req[r].p
      BY <3>1, <3>2 DEF BookingRow
    <3> QED BY <1>1, <2>1, <2>2, <3>3
  <2>3. CASE ~(b = req[r].b /\ BookingExists(b))
    <3>1. booking'[b] = booking[b]
      BY <1>4, <2>3 DEF ConfirmBooking, UpdateBookingFields, TypeInv, TypeOK
    <3> QED BY <1>2, <3>1
  <2> QED BY <2>2, <2>3
<1>5. CASE DeleteRow(r)
  <2>1. booking'[b] = booking[b] \/ booking'[b] = [NoBooking EXCEPT !.status = "gone"]
    BY <1>5 DEF DeleteRow, UpdateBookingFields, TypeInv, TypeOK
  <2>2. booking'[b] = booking[b]
    BY <2>1 DEF NoBooking
  <2> QED BY <1>2, <2>2
<1> QED BY <1>3, <1>4, <1>5, BookingWriters

LEMMA TestStep ==
  ASSUME TypeInv, MoneyInv, Stable, NEW r \in Requests, RequestStep(r)
  PROVE  TestOnlyIfSettled'
<1> SUFFICES ASSUME NEW t \in Tests, test'[t].status # "none"
             PROVE  /\ booking'[test'[t].booking].status \in BookingStatus
                    /\ \E p \in Payments :
                         payment'[p].booking = test'[t].booking /\ Settled(p)'
  BY DEF TestOnlyIfSettled, BookingExists
<1>t. TypeOK /\ test[t] \in TestRow
  BY DEF TypeInv, TypeOK
<1>1. CASE test'[t] = test[t]
  <2>1. /\ BookingExists(test[t].booking)
        /\ \E p \in Payments : payment[p].booking = test[t].booking /\ Settled(p)
    BY <1>1 DEF MoneyInv, TestOnlyIfSettled
  <2>2. PICK p \in Payments : payment[p].booking = test[t].booking /\ Settled(p)
    BY <2>1
  <2>3. payment[p].status # "none"
    <3>1. Settled(p) => chapa[p] # "none"
      BY DEF Settled
    <3> QED BY <2>2, <3>1 DEF MoneyInv, RowsOwned
  <2>4. payment'[p].booking = test[t].booking /\ Settled(p)'
    BY <2>2, <2>3 DEF Stable
  <2>5. test[t].booking \in Bookings
    BY <2>2, <2>3 DEF MoneyInv, RowsOwned
  <2>6. booking'[test[t].booking].status \in BookingStatus
    <3>1. CASE BookingsKept
      BY <2>1, <2>5, <3>1 DEF BookingsKept, BookingExists
    <3>2. CASE ConfirmBooking(r)
      <4>1. booking[test[t].booking] \in BookingRow
        BY <1>t, <2>5 DEF TypeOK
      <4>2. \/ booking'[test[t].booking] = booking[test[t].booking]
            \/ booking'[test[t].booking] = [booking[test[t].booking] EXCEPT
                 !.status = "confirmed", !.pay = "paid", !.ref = req[r].p]
        BY <1>t, <2>5, <3>2 DEF ConfirmBooking, UpdateBookingFields, TypeOK
      <4> QED BY <2>1, <4>1, <4>2 DEF BookingExists, BookingStatus, BookingRow
    <3>3. CASE DeleteRow(r)
      <4>1. CASE req[r].b = test[t].booking
        BY <2>1, <3>3, <4>1 DEF DeleteRow, BookingExists
      <4>2. CASE req[r].b # test[t].booking
        BY <1>t, <2>1, <2>5, <3>3, <4>2
        DEF DeleteRow, UpdateBookingFields, BookingExists, TypeOK
      <4> QED BY <4>1, <4>2
    <3> QED BY <3>1, <3>2, <3>3, BookingWriters
  <2> QED BY <1>1, <2>4, <2>6 DEF BookingExists
<1>2. CASE test'[t] # test[t]
  <2>1. PostTest(r)
    BY <1>2, BeginEffect, <1>t
    DEF RequestStep, Step, RequestDies, VerifyWrite, ErrorIgnored, SeatStep, SlotRead,
        RescheduleRelease, TakeSeat, AssignSlot, AssignSlotFails, ReturnSeat,
        DeleteRelease, DeleteRow, PaymentStep, RetryMark, RetryRead, PaymentAttempt,
        CreatePayment, MarkPaymentPending, MarkPaymentPendingFails, UndoPayment,
        ProviderInitiate, TransactionStep, VerifyTransaction, VerifyTransactionFails,
        WritePayment, ConfirmBooking, FailBooking, KeepBookingPending,
        TestCreationDetails, StoreTestID
  <2>2. /\ BookingExists(req[r].b) /\ UNCHANGED <<booking, payment, chapa>>
        /\ \E u \in Tests :
             test' = [test EXCEPT ![u] = [status |-> "pending", booking |-> req[r].b]]
    BY <1>2, <2>1 DEF PostTest
  <2>3. test'[t].booking = req[r].b
    BY <1>2, <1>t, <2>2 DEF TypeOK
  <2>4. SettledFor(req[r].b)
    BY <2>1 DEF PostTest, At, Triggering, MoneyInv, RequestKnows
  <2> QED BY <2>2, <2>3, <2>4 DEF SettledFor, Settled, BookingExists
<1> QED BY <1>1, <1>2

(* The provider, the customer and the testing module. *)
LEMMA MoneyEnvironment ==
  ASSUME TypeInv, MoneyInv, Environment \/ UNCHANGED vars PROVE MoneyInv'
<1>t. TypeOK
  BY DEF TypeInv
<1>1. UNCHANGED <<payment, req>>
  BY DEF Environment, CreateBooking, CreateSlot, ChapaSettle, ChapaRefund, TestTaken, vars
<1>2. \A p \in Payments : /\ Settled(p) => Settled(p)'
                          /\ chapa[p] = "none" => chapa'[p] = "none"
                          /\ chapa[p] # "none" => chapa'[p] # "none"
  <2>1. ASSUME NEW q \in Payments, ChapaSettle(q) \/ ChapaRefund(q), NEW p \in Payments
        PROVE  /\ Settled(p) => Settled(p)'
               /\ chapa[p] = "none" => chapa'[p] = "none"
               /\ chapa[p] # "none" => chapa'[p] # "none"
    BY <1>t, <2>1 DEF ChapaSettle, ChapaRefund, Settled, TypeOK
  <2>2. CASE UNCHANGED chapa
    BY <2>2 DEF Settled
  <2> QED BY <2>1, <2>2 DEF Environment, CreateBooking, CreateSlot, TestTaken, vars
<1>3. Stable
  BY <1>1, <1>2 DEF Stable
<1>4. BookingsKept
  <2>1. ASSUME NEW b \in Bookings, CreateBooking(b) PROVE BookingsKept
    <3>1. booking'[b].pay = "unpaid" /\ booking'[b].status = "pending_verification"
      BY <1>t, <2>1 DEF CreateBooking, NoBooking, TypeOK
    <3>2. \A c \in Bookings : c # b => booking'[c] = booking[c]
      BY <1>t, <2>1 DEF CreateBooking, TypeOK
    <3> QED BY <3>1, <3>2 DEF BookingsKept, BookingExists, BookingStatus
  <2>2. CASE UNCHANGED booking
    BY <2>2 DEF BookingsKept, BookingExists
  <2> QED BY <2>1, <2>2 DEF Environment, CreateSlot, ChapaSettle, ChapaRefund, TestTaken, vars
<1>5. RowsOwned' /\ SuccessIsSettled' /\ OpeningApart'
  BY <1>1, <1>2 DEF MoneyInv, RowsOwned, SuccessIsSettled, OpeningApart
<1>6. ASSUME NEW r \in Requests PROVE RequestKnows(r)'
  <2>1. RequestKnows(r)
    BY DEF MoneyInv
  <2>2. req[r].pc \in Opening => chapa'[req[r].p] = "none"
    BY <1>2, <2>1 DEF RequestKnows
  <2>3. req[r].pc \in Confirming => Settled(req[r].p)
    BY <2>1 DEF RequestKnows
  <2> QED BY <1>t, <1>1, <1>3, <2>2, <2>3, KnowsMoved
<1>7. PaidIsSettled'
  <2> SUFFICES ASSUME NEW b \in Bookings,
                      booking'[b].status = "confirmed" \/ booking'[b].pay = "paid"
               PROVE  \E p \in Payments : /\ booking'[b].ref = p
                                          /\ payment'[p].booking = b
                                          /\ Settled(p)'
    BY DEF PaidIsSettled
  <2>1. /\ booking[b].status = "confirmed" \/ booking[b].pay = "paid"
        /\ booking'[b].ref = booking[b].ref
    BY <1>4 DEF BookingsKept
  <2>2. PICK p \in Payments : booking[b].ref = p /\ payment[p].booking = b /\ Settled(p)
    BY <2>1 DEF MoneyInv, PaidIsSettled
  <2> QED BY <1>1, <1>2, <2>1, <2>2
<1>8. TestOnlyIfSettled'
  <2> SUFFICES ASSUME NEW t \in Tests, test'[t].status # "none"
               PROVE  /\ booking'[test'[t].booking].status \in BookingStatus
                      /\ \E p \in Payments :
                           payment'[p].booking = test'[t].booking /\ Settled(p)'
    BY DEF TestOnlyIfSettled, BookingExists
  <2>1. test[t].status # "none" /\ test'[t].booking = test[t].booking
    <3>1. CASE UNCHANGED test
      BY <3>1
    <3>2. ASSUME NEW u \in Tests, TestTaken(u)
          PROVE  test[t].status # "none" /\ test'[t].booking = test[t].booking
      BY <1>t, <3>2 DEF TestTaken, TypeOK, TestRow
    <3> QED BY <3>1, <3>2 DEF Environment, CreateBooking, CreateSlot, ChapaSettle,
                              ChapaRefund, vars
  <2>2. PICK p \in Payments : payment[p].booking = test[t].booking /\ Settled(p)
    BY <2>1 DEF MoneyInv, TestOnlyIfSettled
  <2>3. test[t].booking \in Bookings /\ BookingExists(test[t].booking)
    <3>1. chapa[p] # "none"
      BY <2>2 DEF Settled
    <3> QED BY <2>1, <2>2, <3>1 DEF MoneyInv, RowsOwned, TestOnlyIfSettled
  <2> QED BY <1>1, <1>2, <1>4, <2>1, <2>2, <2>3 DEF BookingsKept, BookingExists
<1> QED BY <1>5, <1>6, <1>7, <1>8 DEF MoneyInv

LEMMA MoneyInvStep == TypeInv /\ MoneyInv /\ [Next]_vars => MoneyInv'
<1> SUFFICES ASSUME TypeInv, MoneyInv, [Next]_vars PROVE MoneyInv'
  OBVIOUS
<1>t. TypeOK
  BY DEF TypeInv
<1>1. ASSUME NEW r \in Requests, RequestStep(r) PROVE MoneyInv'
  <2>1. Stable
    BY <1>t, <1>1, MoneyStable
  <2>2. ASSUME NEW q \in Requests PROVE RequestKnows(q)'
    <3>1. CASE q = r
      BY <1>t, <1>1, <2>1, <3>1, KnowsStep
    <3>2. CASE q # r
      <4>1. req'[q] = req[q]
        BY <1>t, <1>1, <3>2, RequestApart
      <4>2. req[q].pc \in Opening => chapa'[req[q].p] = "none"
        BY <1>t, <1>1, <3>2, OthersOpening
      <4> QED BY <1>t, <2>1, <4>1, <4>2, KnowsMoved
    <3> QED BY <3>1, <3>2
  <2>3. RowsOwned' /\ SuccessIsSettled'
    BY <1>t, <1>1, <2>1, RowsStep
  <2>4. OpeningApart'
    BY <1>t, <1>1, ApartStep
  <2>5. PaidIsSettled'
    BY <1>1, <2>1, PaidStep
  <2>6. TestOnlyIfSettled'
    BY <1>1, <2>1, TestStep
  <2> QED BY <2>2, <2>3, <2>4, <2>5, <2>6 DEF MoneyInv
<1>2. CASE Environment \/ UNCHANGED vars
  BY <1>2, MoneyEnvironment
<1> QED BY <1>1, <1>2 DEF Next, RequestStep

LEMMA MoneyInit == Init => MoneyInv
BY DEF Init, MoneyInv, RowsOwned, SuccessIsSettled, RequestKnows, OpeningApart,
       PaidIsSettled, TestOnlyIfSettled, NoBooking, NoPayment, NoTest, Idle,
       Paying, Opening, Transacting, Confirming, Triggering

LEMMA MoneyHolds == Spec => []MoneyInv
<1>1. TypeInv /\ MoneyInv /\ [Next]_vars => (TypeInv /\ MoneyInv)'
  BY TypeStep, MoneyInvStep
<1>2. Init => TypeInv /\ MoneyInv
  BY TypeInit, MoneyInit
<1> QED BY <1>1, <1>2, PTL DEF Spec

(* A booking is confirmed or shown as paid only when the provider settled  *)
(* a transaction of this booking, the one its payment_ref names.           *)
THEOREM PaidOnlyIfSettled == Spec => []PaidIsSettled
<1>1. MoneyInv => PaidIsSettled
  BY DEF MoneyInv
<1> QED BY <1>1, MoneyHolds, PTL

(* Every test the booking module creates belongs to a booking that is      *)
(* still there and that the provider was paid for.                         *)
THEOREM TestsOnlyIfSettled == Spec => []TestOnlyIfSettled
<1>1. MoneyInv => TestOnlyIfSettled
  BY DEF MoneyInv
<1> QED BY <1>1, MoneyHolds, PTL

-----------------------------------------------------------------------------
(* Booking relies on no more than PendingTests.                            *)

LEMMA TakenInit == Init => Taken!Init
BY DEF Init, Taken!Init, NoTest

LEMMA TakenStutter == ASSUME test' = test PROVE UNCHANGED Taken!vars
BY DEF Taken!vars

(* A test row is written by PostTest alone. *)
LEMMA TestWriter ==
  ASSUME TypeOK, NEW r \in Requests, RequestStep(r), test' # test
  PROVE  PostTest(r)
BY BeginEffect
DEF RequestStep, Step, RequestDies, VerifyWrite, ErrorIgnored, SeatStep, SlotRead,
    RescheduleRelease, TakeSeat, AssignSlot, AssignSlotFails, ReturnSeat,
    DeleteRelease, DeleteRow, PaymentStep, RetryMark, RetryRead, PaymentAttempt,
    CreatePayment, MarkPaymentPending, MarkPaymentPendingFails, UndoPayment,
    ProviderInitiate, TransactionStep, VerifyTransaction, VerifyTransactionFails,
    WritePayment, ConfirmBooking, FailBooking, KeepBookingPending,
    TestCreationDetails, StoreTestID

(* It creates a test for a candidate who has none pending. *)
LEMMA TakenCreate ==
  ASSUME TypeOK, MoneyInv, NEW r \in Requests, PostTest(r), test' # test
  PROVE  Taken!Next
<1>1. /\ ~CandidateHasPending(req[r].b)
      /\ \E t \in Tests :
           /\ test[t].status = "none"
           /\ test' = [test EXCEPT ![t] = [status |-> "pending", booking |-> req[r].b]]
  BY DEF PostTest
<1>2. PICK t \in Tests :
        /\ test[t].status = "none"
        /\ test' = [test EXCEPT ![t] = [status |-> "pending", booking |-> req[r].b]]
  BY <1>1
<1>3. req[r].b \in Bookings
  BY DEF PostTest, At, Triggering, MoneyInv, RequestKnows
<1>4. PICK c \in Candidates : c = CandidateOf[req[r].b]
  BY <1>3, OwnersAssumption
<1>5. ~Taken!HasPending(c)
  BY <1>1, <1>4 DEF CandidateHasPending, Taken!HasPending
<1>6. \A u \in Tests :
        /\ test'[u].status = IF u = t THEN "pending" ELSE test[u].status
        /\ test'[u].booking = IF u = t THEN req[r].b ELSE test[u].booking
  BY <1>2 DEF TypeOK, TestRow
<1>7. Taken!Create(t, c)
  <2>1. [u \in Tests |-> test'[u].status] =
          [[u \in Tests |-> test[u].status] EXCEPT ![t] = "pending"]
    BY <1>6
  <2>2. [u \in Tests |-> IF test'[u].status = "none" THEN None
                         ELSE CandidateOf[test'[u].booking]] =
          [[u \in Tests |-> IF test[u].status = "none" THEN None
                            ELSE CandidateOf[test[u].booking]] EXCEPT ![t] = c]
    <3>1. \A u \in Tests :
            (IF test'[u].status = "none" THEN None ELSE CandidateOf[test'[u].booking]) =
              IF u = t THEN c
              ELSE IF test[u].status = "none" THEN None ELSE CandidateOf[test[u].booking]
      BY <1>4, <1>6
    <3> QED BY <3>1
  <2>3. [u \in Tests |-> test[u].status][t] = "none"
    BY <1>2
  <2> QED BY <1>5, <2>1, <2>2, <2>3 DEF Taken!Create
<1> QED BY <1>2, <1>4, <1>7 DEF Taken!Next

LEMMA TakenTake == ASSUME TypeOK, NEW t \in Tests, TestTaken(t) PROVE Taken!Next
<1>1. test[t].status = "pending"
  BY DEF TestTaken
<1>2. \A u \in Tests : /\ test'[u].status = IF u = t THEN "taken" ELSE test[u].status
                       /\ test'[u].booking = test[u].booking
  BY DEF TestTaken, TypeOK, TestRow
<1>3. Taken!Take(t)
  BY <1>1, <1>2 DEF Taken!Take
<1> QED BY <1>3 DEF Taken!Next

LEMMA TakenStep == TypeOK /\ MoneyInv /\ [Next]_vars => [Taken!Next]_Taken!vars
<1> SUFFICES ASSUME TypeOK, MoneyInv, [Next]_vars PROVE [Taken!Next]_Taken!vars
  OBVIOUS
<1>1. CASE test' = test
  BY <1>1, TakenStutter
<1>2. ASSUME NEW r \in Requests, RequestStep(r), test' # test PROVE [Taken!Next]_Taken!vars
  BY <1>2, TestWriter, TakenCreate
<1>3. ASSUME NEW t \in Tests, TestTaken(t) PROVE [Taken!Next]_Taken!vars
  BY <1>3, TakenTake
<1> QED BY <1>1, <1>2, <1>3 DEF Next, RequestStep, Environment, CreateBooking, CreateSlot,
                                ChapaSettle, ChapaRefund, vars

(* What Booking assumes of the tests is no more than PendingTests, which   *)
(* TestLifecycle provides: it asks for a test only while the candidate has *)
(* none pending, and never makes a test pending again.                     *)
THEOREM RequestsPendingTests == Spec => ImplementsPendingTests
<1>1. TypeInv /\ MoneyInv /\ [Next]_vars => (TypeInv /\ MoneyInv)'
  BY TypeStep, MoneyInvStep
<1>2. Init => TypeInv /\ MoneyInv
  BY TypeInit, MoneyInit
<1>3. TypeInv => TypeOK
  BY DEF TypeInv
<1> QED BY <1>1, <1>2, <1>3, TakenInit, TakenStep, PTL
        DEF Spec, ImplementsPendingTests, Taken!Spec

-----------------------------------------------------------------------------
(***************************************************************************)
(* Requests served one by one.                                             *)
(***************************************************************************)

(* One request at a time.  What a handler has read holds until its last    *)
(* statement only because no other request runs in between; what follows   *)
(* supposes that there is one request at most.                             *)
OneRequest == \A r, q \in Requests : r = q

Scheduling   == {"sched_slot", "sched_inc", "sched_upd", "sched_undo"}
Rescheduling == {"resched_slot", "resched_dec", "resched_inc", "resched_upd",
                 "resched_undo"}
Deleting     == {"del_dec", "del_row"}
Charging     == PC \ ({"idle", "verify"} \cup Scheduling \cup Rescheduling \cup Deleting)

(* A booking that was verified, and not rejected.                          *)
Unverified == {"none", "pending_verification", "rejected"}
Live(b)    == booking[b].status \notin Unverified

(* Before it is scheduled or charged, a booking has no slot.               *)
Unscheduled == {"none", "pending_verification", "verified", "rejected", "gone"}
Slotless    == \A b \in Bookings : booking[b].status \in Unscheduled => booking[b].slot = None

(* Only bookings that were verified have payment rows.                     *)
PaidLive == \A p \in Payments : payment[p].booking # None => Live(payment[p].booking)

(* What a request has read of its booking is what the row still says.      *)
StillKnows(r) ==
  /\ req[r].pc # "idle" => req[r].b \in Bookings
  /\ At(r, "verify") => booking[req[r].b].status = "pending_verification"
  /\ req[r].pc \in Scheduling => booking[req[r].b].status = "verified"
  /\ req[r].pc \in Rescheduling =>
       booking[req[r].b].status \in BookingStatus \ Unscheduled
  /\ req[r].pc \in Deleting => BookingExists(req[r].b)
  /\ req[r].pc \in Rescheduling \cup Deleting => req[r].old = booking[req[r].b].slot
  /\ req[r].pc \in {"resched_dec", "del_dec"} => req[r].old # None
  /\ req[r].pc \in Charging => Live(req[r].b)

SerialInv == Slotless /\ PaidLive /\ \A r \in Requests : StillKnows(r)

(* What one step does to the row of a booking.                             *)
LEMMA RowWritten ==
  ASSUME TypeOK, NEW b, NEW row, UpdateBookingFields(b, row), NEW c \in Bookings
  PROVE  booking'[c] = IF c = b /\ BookingExists(c) THEN row ELSE booking[c]
BY DEF UpdateBookingFields, TypeOK

Charged == {"scheduled", "payment_pending", "payment_failed", "confirmed"}

BookingWritten(r, c) ==
  \/ /\ VerifyWrite(r)
     /\ booking'[c].status = req[r].seen /\ booking'[c].slot = booking[c].slot
  \/ /\ AssignSlot(r)
     /\ booking'[c].status = "scheduled" /\ booking'[c].slot = req[r].s
  \/ /\ DeleteRow(r)
     /\ booking'[c].status = "gone" /\ booking'[c].slot = None
  \/ /\ req[r].pc \in Charging
     /\ booking'[c].status \in Charged \cup {booking[c].status}
     /\ booking'[c].slot = booking[c].slot

LEMMA BookingEffect ==
  ASSUME TypeInv, NEW r \in Requests, RequestStep(r), NEW c \in Bookings
  PROVE  \/ booking'[c] = booking[c]
         \/ c = req[r].b /\ BookingExists(c) /\ BookingWritten(r, c)
<1>t. TypeOK /\ req[r] \in Request /\ booking[c] \in BookingRow
  BY DEF TypeInv, TypeOK
<1> SUFFICES ASSUME booking'[c] # booking[c]
             PROVE  c = req[r].b /\ BookingExists(c) /\ BookingWritten(r, c)
  OBVIOUS
<1>1. ASSUME NEW row, UpdateBookingFields(req[r].b, row)
      PROVE  c = req[r].b /\ BookingExists(c) /\ booking'[c] = row
  BY <1>1, <1>t, RowWritten
<1>2. CASE VerifyWrite(r)
  BY <1>1, <1>2, <1>t DEF VerifyWrite, BookingWritten, BookingRow
<1>3. CASE AssignSlot(r)
  <2>1. /\ c = req[r].b /\ BookingExists(c)
        /\ booking'[c] = [booking[c] EXCEPT !.slot = req[r].s, !.status = "scheduled"]
    BY <1>1, <1>3 DEF AssignSlot
  <2>2. booking'[c].slot = req[r].s /\ booking'[c].status = "scheduled"
    BY <2>1, <1>t DEF BookingRow
  <2> QED BY <1>3, <2>1, <2>2 DEF BookingWritten
<1>4. CASE DeleteRow(r)
  BY <1>1, <1>4, <1>t DEF DeleteRow, BookingWritten, NoBooking
<1>5. CASE \/ RetryMark(r) \/ MarkPaymentPending(r) \/ ConfirmBooking(r)
           \/ FailBooking(r) \/ KeepBookingPending(r) \/ StoreTestID(r)
  <2>1. req[r].pc \in Charging
    BY <1>5 DEF RetryMark, MarkPaymentPending, ConfirmBooking, FailBooking,
         KeepBookingPending, StoreTestID, At, Charging, PC, Scheduling, Rescheduling,
         Deleting
  <2>2. CASE RetryMark(r)
    BY <1>1, <2>1, <2>2, <1>t DEF RetryMark, BookingWritten, BookingRow, Charged
  <2>3. CASE MarkPaymentPending(r)
    <3>1. /\ c = req[r].b /\ BookingExists(c)
          /\ booking'[c] = [booking[c] EXCEPT !.status = "payment_pending",
                                            !.pay = "pending", !.attempts = req[r].n]
      BY <1>1, <2>3 DEF MarkPaymentPending
    <3>2. booking'[c].status \in Charged /\ booking'[c].slot = booking[c].slot
      BY <3>1, <1>t DEF BookingRow, Charged
    <3> QED BY <2>1, <3>1, <3>2 DEF BookingWritten
  <2>4. CASE ConfirmBooking(r)
    <3>1. /\ c = req[r].b /\ BookingExists(c)
          /\ booking'[c] = [booking[c] EXCEPT !.status = "confirmed",
                                            !.pay = "paid", !.ref = req[r].p]
      BY <1>1, <2>4 DEF ConfirmBooking
    <3>2. booking'[c].status \in Charged /\ booking'[c].slot = booking[c].slot
      BY <3>1, <1>t DEF BookingRow, Charged
    <3> QED BY <2>1, <3>1, <3>2 DEF BookingWritten
  <2>5. CASE FailBooking(r)
    <3>1. /\ c = req[r].b /\ BookingExists(c)
          /\ booking'[c] = [booking[c] EXCEPT !.status = "payment_failed",
                                            !.pay = "failed"]
      BY <1>1, <2>5 DEF FailBooking
    <3>2. booking'[c].status \in Charged /\ booking'[c].slot = booking[c].slot
      BY <3>1, <1>t DEF BookingRow, Charged
    <3> QED BY <2>1, <3>1, <3>2 DEF BookingWritten
  <2>6. CASE KeepBookingPending(r)
    <3>1. /\ c = req[r].b /\ BookingExists(c)
          /\ booking'[c] = [booking[c] EXCEPT !.status = "payment_pending",
                                            !.pay = "pending"]
      BY <1>1, <2>6 DEF KeepBookingPending
    <3>2. booking'[c].status \in Charged /\ booking'[c].slot = booking[c].slot
      BY <3>1, <1>t DEF BookingRow, Charged
    <3> QED BY <2>1, <3>1, <3>2 DEF BookingWritten
  <2>7. CASE StoreTestID(r)
    BY <1>1, <2>1, <2>7, <1>t DEF StoreTestID, BookingWritten, BookingRow, Charged
  <2> QED BY <1>5, <2>2, <2>3, <2>4, <2>5, <2>6, <2>7
<1> QED BY <1>t, <1>2, <1>3, <1>4, <1>5, BeginEffect
        DEF RequestStep, Step, RequestDies, ErrorIgnored, SeatStep, SlotRead,
            RescheduleRelease, TakeSeat, AssignSlotFails, ReturnSeat, DeleteRelease,
            PaymentStep, RetryRead, PaymentAttempt, CreatePayment,
            MarkPaymentPendingFails, UndoPayment, ProviderInitiate, TransactionStep,
            VerifyTransaction, VerifyTransactionFails, WritePayment, TestCreationDetails,
            PostTest

(* Where a request that has begun goes on, with the same booking and slots. *)
GoesOn(r) ==
  /\ req'[r].b = req[r].b /\ req'[r].s = req[r].s /\ req'[r].old = req[r].old
  /\ \/ req[r].pc \in Charging /\ req'[r].pc \in Charging
     \/ req[r].pc \in Scheduling /\ req'[r].pc \in Scheduling
     \/ /\ req[r].pc \in Rescheduling /\ req'[r].pc \in Rescheduling
        /\ req'[r].pc = "resched_dec" => req[r].old # None
     \/ req[r].pc \in Deleting /\ req'[r].pc = "del_row"
  /\ UNCHANGED booking \/ req[r].pc \in Charging

LEMMA RequestEffect ==
  ASSUME TypeOK, NEW r \in Requests, Step(r) \/ RequestDies(r)
  PROVE  req'[r] = Idle \/ GoesOn(r)
<1>1. CASE Finish(r)
  BY <1>1, FinishEffect
<1>2. ASSUME NEW l \in Charging, Goto(r, l), req[r].pc \in Charging PROVE GoesOn(r)
  BY <1>2, GotoEffect DEF GoesOn
<1>3. CASE SeatStep(r) \/ ErrorIgnored(r)
  <2>1. UNCHANGED booking \/ Finish(r)
    BY <1>3 DEF SeatStep, SlotRead, RescheduleRelease, TakeSeat, AssignSlot,
                AssignSlotFails, ReturnSeat, DeleteRelease, DeleteRow, ErrorIgnored
  <2>2. \/ Finish(r)
        \/ At(r, "pay_fail_payment") /\ Goto(r, "pay_fail_booking")
        \/ \E l \in Scheduling : req[r].pc \in Scheduling /\ Goto(r, l)
        \/ \E l \in Rescheduling : /\ req[r].pc \in Rescheduling /\ Goto(r, l)
                                   /\ l = "resched_dec" => req[r].old # None
        \/ req[r].pc \in Deleting /\ Goto(r, "del_row")
    BY <1>3 DEF SeatStep, SlotRead, RescheduleRelease, TakeSeat, AssignSlot,
                AssignSlotFails, ReturnSeat, DeleteRelease, DeleteRow, ErrorIgnored, At,
                Scheduling, Rescheduling, Deleting
  <2>3. CASE At(r, "pay_fail_payment") /\ Goto(r, "pay_fail_booking")
    BY <1>2, <2>3 DEF At, Charging, PC, Scheduling, Rescheduling, Deleting
  <2>4. ASSUME NEW l, Goto(r, l),
               \/ l \in Scheduling /\ req[r].pc \in Scheduling
               \/ /\ l \in Rescheduling /\ req[r].pc \in Rescheduling
                  /\ l = "resched_dec" => req[r].old # None
               \/ req[r].pc \in Deleting /\ l = "del_row",
               UNCHANGED booking
        PROVE  GoesOn(r)
    BY <2>4, GotoEffect DEF GoesOn
  <2> QED BY <1>1, <2>1, <2>2, <2>3, <2>4
<1>4. CASE PaymentAttempt(r) \/ CreatePayment(r) \/ PostTest(r)
  <2>1. req[r].pc \in Charging /\ UNCHANGED booking
    BY <1>4 DEF PaymentAttempt, CreatePayment, PostTest, At, Charging, PC, Scheduling,
                Rescheduling, Deleting
  <2>2. CASE ~Finish(r)
    <3>1. /\ req'[r].pc \in {"pay_create", "pay_mark", "trig_store"}
          /\ req'[r].b = req[r].b /\ req'[r].s = req[r].s /\ req'[r].old = req[r].old
      BY <1>4, <2>2 DEF PaymentAttempt, CreatePayment, PostTest, TypeOK, Request
    <3>2. req'[r].pc \in Charging
      BY <3>1 DEF Charging, PC, Scheduling, Rescheduling, Deleting
    <3> QED BY <2>1, <3>1, <3>2 DEF GoesOn
  <2> QED BY <1>1, <2>2
<1>5. CASE \/ RetryMark(r) \/ RetryRead(r) \/ MarkPaymentPending(r)
           \/ MarkPaymentPendingFails(r) \/ UndoPayment(r) \/ ProviderInitiate(r)
           \/ VerifyTransaction(r) \/ VerifyTransactionFails(r) \/ WritePayment(r)
           \/ ConfirmBooking(r) \/ FailBooking(r) \/ KeepBookingPending(r)
           \/ TestCreationDetails(r) \/ StoreTestID(r)
  <2>1. Finish(r) \/ \E l \in Charging : Goto(r, l) /\ req[r].pc \in Charging
    BY <1>5 DEF RetryMark, RetryRead, MarkPaymentPending, MarkPaymentPendingFails,
         UndoPayment, ProviderInitiate, VerifyTransaction, VerifyTransactionFails,
         WritePayment, ConfirmBooking, FailBooking, KeepBookingPending,
         TestCreationDetails, StoreTestID, At, Charging, PC, Scheduling, Rescheduling,
         Deleting
  <2> QED BY <1>1, <1>2, <2>1
<1> QED BY <1>1, <1>3, <1>4, <1>5
        DEF Step, RequestDies, VerifyWrite, PaymentStep, TransactionStep

(* A request that begins has just read its booking.                        *)
LEMMA KnowsBegun ==
  ASSUME TypeOK, MoneyInv, SerialInv, NEW r \in Requests, Begin(r)
  PROVE  StillKnows(r)'
<1>0. /\ \A rec : req' = [req EXCEPT ![r] = rec] => req'[r] = rec
      /\ UNCHANGED <<booking, payment>>
  BY BeginEffect DEF TypeOK
<1> USE DEF Idle, At, Scheduling, Rescheduling, Deleting
<1>1. ASSUME NEW b \in Bookings, NEW v \in {"verified", "rejected"}, VerifyBooking(r, b, v)
      PROVE  StillKnows(r)'
  <2>1. /\ req'[r].pc = "verify" /\ req'[r].b = b
        /\ booking'[b].status = "pending_verification"
    BY <1>0, <1>1 DEF VerifyBooking
  <2> QED BY <2>1 DEF StillKnows, Charging
<1>2. ASSUME NEW b \in Bookings, NEW s \in Slots, ScheduleBooking(r, b, s)
      PROVE  StillKnows(r)'
  <2>1. req'[r] = [Idle EXCEPT !.pc = "sched_slot", !.b = b, !.s = s]
    BY <1>0, <1>2 DEF ScheduleBooking
  <2>2. req'[r].pc = "sched_slot" /\ req'[r].b = b /\ booking'[b].status = "verified"
    BY <1>0, <1>2, <2>1 DEF ScheduleBooking
  <2> QED BY <2>2 DEF StillKnows, Charging
<1>3. ASSUME NEW b \in Bookings, NEW s \in Slots, RescheduleBooking(r, b, s)
      PROVE  StillKnows(r)'
  <2>1. req'[r] = [Idle EXCEPT !.pc = "resched_slot", !.b = b, !.s = s,
                               !.old = booking[b].slot]
    BY <1>0, <1>3 DEF RescheduleBooking
  <2>2. /\ req'[r].pc = "resched_slot" /\ req'[r].b = b /\ req'[r].old = booking'[b].slot
        /\ booking'[b].status \in {"scheduled", "confirmed"}
    BY <1>0, <1>3, <2>1 DEF RescheduleBooking
  <2> QED BY <2>2 DEF StillKnows, Charging, BookingStatus, Unscheduled
<1>4. ASSUME NEW b \in Bookings, DeleteBooking(r, b) PROVE StillKnows(r)'
  <2>1. req'[r] = [Idle EXCEPT
             !.pc = IF booking[b].slot # None THEN "del_dec" ELSE "del_row",
             !.b = b, !.old = booking[b].slot]
    BY <1>0, <1>4 DEF DeleteBooking
  <2>2. /\ req'[r].pc = IF booking[b].slot # None THEN "del_dec" ELSE "del_row"
        /\ req'[r].b = b /\ req'[r].old = booking[b].slot
    BY <2>1
  <2>3. booking' = booking /\ BookingExists(b)
    BY <1>0, <1>4 DEF DeleteBooking
  <2> QED BY <2>2, <2>3 DEF StillKnows, Charging, BookingExists
<1>5. ASSUME NEW b \in Bookings, InitiatePayment(r, b) \/ RetryPayment(r, b)
      PROVE  StillKnows(r)'
  <2>1. PICK l \in {"pay_attempt", "retry_mark"} :
          req'[r] = [Idle EXCEPT !.pc = l, !.b = b]
    BY <1>0, <1>5 DEF InitiatePayment, RetryPayment
  <2>2. req'[r].pc = l /\ req'[r].b = b
    BY <2>1
  <2>3. Live(b)'
    BY <1>0, <1>5 DEF InitiatePayment, RetryPayment, MayPay, Live, Unverified
  <2> QED BY <2>2, <2>3 DEF StillKnows, Charging, Live
<1>6. ASSUME NEW p \in Payments, HandleChapaWebhook(r, p) \/ HandleChapaCallback(r, p)
      PROVE  StillKnows(r)'
  <2>1. /\ PaymentExists(p)
        /\ req'[r] = [Idle EXCEPT
             !.pc = IF payment[p].status = "success" THEN "conf_booking" ELSE "tx_verify",
             !.b = payment[p].booking, !.p = p, !.seen = payment[p].status]
    BY <1>0, <1>6 DEF HandleChapaWebhook, HandleChapaCallback, HandleChapaTransaction
  <2>2. req'[r].pc \in {"conf_booking", "tx_verify"} /\ req'[r].b = payment[p].booking
    BY <2>1
  <2>3. payment[p].booking \in Bookings
    BY <2>1 DEF MoneyInv, RowsOwned, PaymentExists, PaymentStatus
  <2>4. booking'[payment[p].booking].status \notin Unverified
    BY <1>0, <2>3, NoneAssumption DEF SerialInv, PaidLive, Live
  <2> QED BY <2>2, <2>3, <2>4 DEF StillKnows, Charging, Live
<1> QED BY <1>1, <1>2, <1>3, <1>4, <1>5, <1>6 DEF Begin

(* A booking that was verified is never returned to review, nor rejected.  *)
LEMMA LiveKept ==
  ASSUME TypeInv, SerialInv, NEW r \in Requests, RequestStep(r)
  PROVE  \A c \in Bookings : Live(c) => booking'[c].status \notin Unverified
<1> SUFFICES ASSUME NEW c \in Bookings, Live(c)
             PROVE  booking'[c].status \notin Unverified
  OBVIOUS
<1>1. StillKnows(r)
  BY DEF SerialInv
<1>2. ~(VerifyWrite(r) /\ c = req[r].b)
  BY <1>1 DEF VerifyWrite, StillKnows, Live, Unverified
<1> QED BY <1>2, BookingEffect DEF BookingWritten, Charged, Live, Unverified

LEMMA SlotlessStep ==
  ASSUME TypeInv, SerialInv, NEW r \in Requests, RequestStep(r)
  PROVE  Slotless'
<1> SUFFICES ASSUME NEW c \in Bookings, booking'[c].status \in Unscheduled
             PROVE  booking'[c].slot = None
  BY DEF Slotless
<1>1. booking[c].status \in Unscheduled => booking[c].slot = None
  BY DEF SerialInv, Slotless
<1>2. StillKnows(r)
  BY DEF SerialInv
<1>3. CASE booking'[c] = booking[c]
  BY <1>1, <1>3
<1>4. CASE c = req[r].b /\ BookingWritten(r, c)
  BY <1>1, <1>2, <1>4 DEF BookingWritten, VerifyWrite, StillKnows, Charged, Unscheduled
<1> QED BY <1>3, <1>4, BookingEffect

LEMMA PaidLiveStep ==
  ASSUME TypeInv, SerialInv, NEW r \in Requests, RequestStep(r)
  PROVE  PaidLive'
<1>t. TypeOK
  BY DEF TypeInv
<1> SUFFICES ASSUME NEW p \in Payments, payment'[p].booking # None
             PROVE  booking'[payment'[p].booking].status \notin Unverified
  BY DEF PaidLive, Live
<1>1. payment[p].booking \in Bookings \cup {None}
  BY <1>t DEF TypeOK, PaymentRow
<1>2. CASE payment'[p].booking = payment[p].booking
  <2>1. Live(payment[p].booking)
    BY <1>2 DEF SerialInv, PaidLive
  <2> QED BY <1>1, <1>2, <2>1, LiveKept
<1>3. CASE CreatePayment(r) /\ ~UNCHANGED payment /\ payment'[p].booking # payment[p].booking
  <2>1. payment'[p].booking = req[r].b
    BY <1>3, <1>t, CreateEffect
  <2>2. req[r].b \in Bookings /\ Live(req[r].b)
    BY <1>3 DEF CreatePayment, At, SerialInv, StillKnows, Charging, PC, Scheduling,
                Rescheduling, Deleting
  <2> QED BY <2>1, <2>2, LiveKept
<1>4. CASE UndoPayment(r) \/ WritePayment(r)
  <2>1. PICK st \in PaymentStatus : SetPaymentStatus(req[r].p, st)
    <3>1. \/ SetPaymentStatus(req[r].p, "success") \/ SetPaymentStatus(req[r].p, "failed")
          \/ SetPaymentStatus(req[r].p, "pending")
      BY <1>4 DEF UndoPayment, WritePayment
    <3> QED BY <3>1 DEF PaymentStatus
  <2> QED BY <1>2, <1>t, <2>1, StatusEffect
<1>5. CASE DeleteRow(r)
  BY <1>2, <1>5, <1>t, DeleteEffect
<1> QED BY <1>2, <1>3, <1>4, <1>5, <1>t, PaymentWriters

LEMMA KnowsGoesOn ==
  ASSUME TypeInv, SerialInv, NEW r \in Requests, Step(r) \/ RequestDies(r)
  PROVE  StillKnows(r)'
<1>t. TypeOK /\ StillKnows(r) /\ RequestStep(r)
  BY DEF TypeInv, SerialInv, RequestStep
<1>1. CASE req'[r] = Idle
  BY <1>1 DEF StillKnows, Idle, At, Scheduling, Rescheduling, Deleting, Charging
<1>2. CASE GoesOn(r) /\ req[r].pc \in Charging
  <2>1. req[r].b \in Bookings /\ Live(req[r].b)
    BY <1>2, <1>t DEF StillKnows, Charging
  <2>2. booking'[req[r].b].status \notin Unverified
    BY <2>1, <1>t, LiveKept
  <2>3. req'[r].pc \in Charging /\ req'[r].b = req[r].b
    BY <1>2 DEF GoesOn, Charging, Scheduling, Rescheduling, Deleting
  <2> QED BY <2>1, <2>2, <2>3
          DEF StillKnows, Live, At, Charging, Scheduling, Rescheduling, Deleting
<1>3. CASE GoesOn(r) /\ req[r].pc \notin Charging
  BY <1>3, <1>t DEF GoesOn, StillKnows, BookingExists, At, Charging, Scheduling,
                    Rescheduling, Deleting
<1> QED BY <1>1, <1>2, <1>3, <1>t, RequestEffect

LEMMA SerialEnvironment ==
  ASSUME TypeInv, SerialInv, Environment \/ UNCHANGED vars
  PROVE  SerialInv'
<1>t. TypeOK /\ Slotless /\ PaidLive /\ \A r \in Requests : StillKnows(r)
  BY DEF TypeInv, SerialInv
<1>1. ASSUME NEW b \in Bookings, CreateBooking(b) PROVE SerialInv'
  <2>1. /\ booking[b].status = "none" /\ UNCHANGED <<req, payment>>
        /\ booking'[b] = [NoBooking EXCEPT !.status = "pending_verification"]
        /\ \A c \in Bookings : c # b => booking'[c] = booking[c]
    BY <1>1, <1>t DEF CreateBooking, TypeOK
  <2>2. booking'[b].slot = None
    BY <2>1 DEF NoBooking
  <2>3. Slotless'
    BY <1>t, <2>1, <2>2 DEF Slotless
  <2>4. \A p \in Payments : payment[p].booking \in Bookings \cup {None}
    BY <1>t DEF TypeOK, PaymentRow
  <2>5. PaidLive'
    BY <1>t, <2>1, <2>4 DEF PaidLive, Live, Unverified
  <2>6. ASSUME NEW r \in Requests PROVE StillKnows(r)'
    <3>1. CASE req[r].pc = "idle"
      BY <2>1, <3>1 DEF StillKnows, At, Scheduling, Rescheduling, Deleting, Charging
    <3>2. CASE req[r].pc # "idle"
      <4>1. req[r].b \in Bookings /\ req[r].pc \in PC
        BY <1>t, <3>2 DEF StillKnows, TypeOK, Request
      <4>2. req[r].b # b
        BY <1>t, <2>1, <3>2, <4>1 DEF StillKnows, Live, BookingExists, BookingStatus, At,
           Unscheduled, Unverified, Charging
      <4>3. booking'[req[r].b] = booking[req[r].b]
        BY <2>1, <4>1, <4>2
      <4> QED BY <1>t, <2>1, <4>3 DEF StillKnows, Live, BookingExists, At
    <3> QED BY <3>1, <3>2
  <2> QED BY <2>3, <2>5, <2>6 DEF SerialInv
<1>2. CASE UNCHANGED <<booking, payment, req>>
  BY <1>2, <1>t DEF SerialInv, Slotless, PaidLive, StillKnows, Live, BookingExists, At
<1> QED BY <1>1, <1>2
        DEF Environment, CreateSlot, ChapaSettle, ChapaRefund, TestTaken, vars

LEMMA SerialStep ==
  TypeInv /\ MoneyInv /\ SerialInv /\ OneRequest /\ [Next]_vars => SerialInv'
<1> SUFFICES ASSUME TypeInv, MoneyInv, SerialInv, OneRequest, [Next]_vars PROVE SerialInv'
  OBVIOUS
<1>1. ASSUME NEW r \in Requests, RequestStep(r) PROVE SerialInv'
  <2>1. StillKnows(r)'
    BY <1>1, KnowsBegun, KnowsGoesOn DEF RequestStep, TypeInv
  <2>2. \A q \in Requests : q = r
    BY DEF OneRequest
  <2> QED BY <1>1, <2>1, <2>2, SlotlessStep, PaidLiveStep DEF SerialInv
<1> QED BY <1>1, SerialEnvironment DEF Next, RequestStep

LEMMA SerialInit == Init => SerialInv
BY DEF Init, SerialInv, Slotless, PaidLive, StillKnows, NoBooking, NoPayment, Idle, At,
       Scheduling, Rescheduling, Deleting, Charging

LEMMA SerialHolds == ASSUME OneRequest PROVE Spec => [](TypeInv /\ MoneyInv /\ SerialInv)
<1>1. TypeInv /\ MoneyInv /\ SerialInv /\ [Next]_vars => (TypeInv /\ MoneyInv /\ SerialInv)'
  BY OneRequest, TypeStep, MoneyInvStep, SerialStep
<1>2. Init => TypeInv /\ MoneyInv /\ SerialInv
  BY TypeInit, MoneyInit, SerialInit
<1> QED BY <1>1, <1>2, PTL DEF Spec

(* Served one after the other, and whatever fails, no request brings a     *)
(* rejected booking back: it stays rejected until it is deleted.           *)
THEOREM RejectionIsFinal ==
  ASSUME \A r, q \in Requests : r = q
  PROVE  Spec => RejectedIsFinal
<1>1. OneRequest
  BY DEF OneRequest
<1>2. TypeInv /\ MoneyInv /\ SerialInv /\ [Next]_vars =>
        [\A b \in Bookings : booking[b].status = "rejected" =>
           booking'[b].status \in {"rejected", "gone"}]_vars
  <2> SUFFICES ASSUME TypeInv, SerialInv, [Next]_vars, NEW b \in Bookings,
                      booking[b].status = "rejected"
               PROVE  booking'[b].status \in {"rejected", "gone"}
    OBVIOUS
  <2>1. ASSUME NEW r \in Requests, RequestStep(r)
        PROVE  booking'[b].status \in {"rejected", "gone"}
    <3>1. StillKnows(r)
      BY DEF SerialInv
    <3>2. CASE b = req[r].b /\ BookingWritten(r, b)
      BY <3>1, <3>2 DEF BookingWritten, StillKnows, Live, Unverified, VerifyWrite,
         AssignSlot, At, Scheduling, Rescheduling, Unscheduled
    <3> QED BY <2>1, <3>2, BookingEffect
  <2>2. CASE Environment \/ UNCHANGED vars
    BY <2>2 DEF Environment, CreateBooking, CreateSlot, ChapaSettle, ChapaRefund,
                TestTaken, vars, TypeInv, TypeOK
  <2> QED BY <2>1, <2>2 DEF Next, RequestStep
<1>3. Spec => [](TypeInv /\ MoneyInv /\ SerialInv)
  BY <1>1, SerialHolds
<1> QED BY <1>2, <1>3, PTL DEF Spec, RejectedIsFinal

(* Seats.  NoSeatLost speaks of the states between requests; within one    *)
(* the seat given back ahead of the row, and the one taken ahead of it,    *)
(* are counted apart.                                                      *)
GivesBack(r, s) == req[r].pc \in {"resched_inc", "resched_upd", "del_row"} /\ req[r].old = s
HasTaken(r, s)  == req[r].pc \in {"sched_upd", "resched_upd"} /\ req[r].s = s

GivenBack(s)  == IF \E r \in Requests : GivesBack(r, s) THEN 1 ELSE 0
TakenAhead(s) == IF \E r \in Requests : HasTaken(r, s) THEN 1 ELSE 0

SeatsAddUp(s) == /\ IsFiniteSet(Holders(s))
                 /\ slot[s].booked + GivenBack(s) <= Cardinality(Holders(s)) + TakenAhead(s)

Undoing == {"sched_undo", "resched_undo"}

SeatsKept == /\ \A r \in Requests : req[r].pc \notin Undoing
             /\ \A s \in Slots : SeatsAddUp(s)

LEMMA HoldersType ==
  ASSUME NEW s, IsFiniteSet(Holders(s)) PROVE Cardinality(Holders(s)) \in Nat
BY FS_CardinalityType

(* A step that leaves the slot and its holders alone. *)
LEMMA SeatsSame ==
  ASSUME TypeOK, SeatsKept, OneRequest, NEW r \in Requests, NEW s \in Slots,
         slot'[s] = slot[s], Holders(s)' = Holders(s),
         GivesBack(r, s)' => GivesBack(r, s), HasTaken(r, s) => HasTaken(r, s)'
  PROVE  SeatsAddUp(s)'
<1>1. SeatsAddUp(s) /\ slot[s].booked \in Nat
  BY SlotTypes DEF SeatsKept
<1>2. Cardinality(Holders(s)) \in Nat
  BY <1>1, HoldersType DEF SeatsAddUp
<1>3. GivenBack(s)' <= GivenBack(s) /\ TakenAhead(s) <= TakenAhead(s)'
  BY DEF GivenBack, TakenAhead, OneRequest
<1>4. /\ GivenBack(s) \in {0, 1} /\ GivenBack(s)' \in {0, 1}
      /\ TakenAhead(s) \in {0, 1} /\ TakenAhead(s)' \in {0, 1}
  BY DEF GivenBack, TakenAhead
<1> QED BY <1>1, <1>2, <1>3, <1>4 DEF SeatsAddUp

(* The holders of a slot change with the slot or the life of a booking.    *)
LEMMA HoldersSame ==
  ASSUME NEW s \in Slots,
         \A c \in Bookings : /\ booking'[c].slot = booking[c].slot
                             /\ BookingExists(c)' <=> BookingExists(c)
  PROVE  Holders(s)' = Holders(s)
BY DEF Holders

(* A request that begins, and every step outside the seat handlers.        *)
LEMMA SeatsElsewhere ==
  ASSUME TypeInv, SerialInv, SeatsKept, OneRequest, ~Faults, NEW r \in Requests,
         RequestStep(r), ~SeatStep(r)
  PROVE  SeatsKept'
<1>t. TypeOK /\ StillKnows(r) /\ \A q \in Requests : q = r
  BY DEF TypeInv, SerialInv, OneRequest
<1>1. UNCHANGED slot
  BY <1>t, BeginEffect
  DEF RequestStep, Step, RequestDies, VerifyWrite, ErrorIgnored, PaymentStep,
      TransactionStep, RetryMark, RetryRead, PaymentAttempt, CreatePayment,
      MarkPaymentPending, MarkPaymentPendingFails, UndoPayment, ProviderInitiate,
      VerifyTransaction, VerifyTransactionFails, WritePayment, ConfirmBooking,
      FailBooking, KeepBookingPending, TestCreationDetails, PostTest, StoreTestID
<1>2. ASSUME NEW c \in Bookings
      PROVE  booking'[c].slot = booking[c].slot /\ (BookingExists(c)' <=> BookingExists(c))
  <2>1. CASE c = req[r].b /\ BookingExists(c) /\ BookingWritten(r, c)
    <3>1. CASE VerifyWrite(r) /\ booking'[c].status = req[r].seen
      BY <2>1, <3>1 DEF TypeInv, Reviewing, VerifyWrite, BookingExists, BookingStatus,
         BookingWritten, SeatStep, AssignSlot, DeleteRow, At, Charging
    <3>2. CASE ~(VerifyWrite(r) /\ booking'[c].status = req[r].seen)
      BY <2>1, <3>2 DEF BookingWritten, SeatStep, Charged, BookingExists, BookingStatus
    <3> QED BY <3>1, <3>2
  <2> QED BY <2>1, BookingEffect DEF BookingExists
<1>3. req[r].pc \in Scheduling \cup Rescheduling \cup Deleting => FALSE
  <2>1. Begin(r) => At(r, "idle")
    BY DEF Begin, VerifyBooking, ScheduleBooking, RescheduleBooking, DeleteBooking,
       InitiatePayment, RetryPayment, HandleChapaWebhook, HandleChapaCallback,
       HandleChapaTransaction
  <2>2. Step(r) => req[r].pc \notin Scheduling \cup Rescheduling \cup Deleting
    BY DEF Step, VerifyWrite, ErrorIgnored, PaymentStep,
      TransactionStep, RetryMark, RetryRead, PaymentAttempt, CreatePayment,
      MarkPaymentPending, MarkPaymentPendingFails, UndoPayment, ProviderInitiate,
      VerifyTransaction, VerifyTransactionFails, WritePayment, ConfirmBooking,
      FailBooking, KeepBookingPending, TestCreationDetails, PostTest, StoreTestID,
      At, Scheduling, Rescheduling, Deleting
  <2> QED BY <2>1, <2>2 DEF RequestStep, RequestDies, At, Scheduling, Rescheduling, Deleting
<1>4. \/ req'[r].pc \notin Scheduling \cup Rescheduling \cup Deleting
      \/ /\ req'[r].pc \in {"sched_slot", "resched_slot", "del_dec"}
      \/ /\ req'[r].pc = "del_row" /\ req'[r].old = None
  <2>1. CASE Begin(r)
    <3>1. req'[r].pc \in Beginnings
      BY <2>1, <1>t, BeginEffect
    <3>2. ASSUME req'[r].pc = "del_row" PROVE req'[r].old = None
      <4>1. \A rec : req' = [req EXCEPT ![r] = rec] => req'[r] = rec
        BY <1>t DEF TypeOK
      <4>a. ASSUME NEW b \in Bookings, NEW v, VerifyBooking(r, b, v) PROVE FALSE
        BY <3>2, <4>1, <4>a DEF VerifyBooking, Idle
      <4>b. ASSUME NEW b \in Bookings, NEW s \in Slots, ScheduleBooking(r, b, s)
            PROVE  FALSE
        BY <3>2, <4>1, <4>b DEF ScheduleBooking, Idle
      <4>c. ASSUME NEW b \in Bookings, NEW s \in Slots, RescheduleBooking(r, b, s)
            PROVE  FALSE
        BY <3>2, <4>1, <4>c DEF RescheduleBooking, Idle
      <4>d. ASSUME NEW b \in Bookings, InitiatePayment(r, b) \/ RetryPayment(r, b)
            PROVE  FALSE
        BY <3>2, <4>1, <4>d DEF InitiatePayment, RetryPayment, Idle
      <4>e. ASSUME NEW p \in Payments, HandleChapaWebhook(r, p) \/ HandleChapaCallback(r, p)
            PROVE  FALSE
        <5>1. req'[r] = [Idle EXCEPT
             !.pc = IF payment[p].status = "success" THEN "conf_booking" ELSE "tx_verify",
             !.b = payment[p].booking, !.p = p, !.seen = payment[p].status]
          BY <4>1, <4>e
          DEF HandleChapaWebhook, HandleChapaCallback, HandleChapaTransaction
        <5>2. req'[r].pc \in {"conf_booking", "tx_verify"}
          BY <5>1 DEF Idle
        <5> QED BY <3>2, <5>2
      <4>2. PICK b \in Bookings : DeleteBooking(r, b)
        BY <2>1, <4>a, <4>b, <4>c, <4>d, <4>e DEF Begin
      <4>3. req'[r] = [Idle EXCEPT
               !.pc = IF booking[b].slot # None THEN "del_dec" ELSE "del_row",
               !.b = b, !.old = booking[b].slot]
        BY <4>1, <4>2 DEF DeleteBooking
      <4>4. /\ req'[r].pc = IF booking[b].slot # None THEN "del_dec" ELSE "del_row"
            /\ req'[r].old = booking[b].slot
        BY <4>3 DEF Idle
      <4> QED BY <3>2, <4>4
    <3> QED BY <3>1, <3>2 DEF Beginnings, Scheduling, Rescheduling, Deleting
  <2>2. CASE Step(r) \/ RequestDies(r)
    BY <2>2, <1>t, <1>3, RequestEffect
    DEF GoesOn, Idle, Charging, Scheduling, Rescheduling, Deleting
  <2> QED BY <2>1, <2>2 DEF RequestStep
<1>5. ASSUME NEW s \in Slots PROVE SeatsAddUp(s)'
  <2>1. Holders(s)' = Holders(s) /\ slot'[s] = slot[s]
    BY <1>1, <1>2, HoldersSame
  <2>2. ~GivesBack(r, s)' /\ ~HasTaken(r, s)
    BY <1>3, <1>4, NoneAssumption
    DEF GivesBack, HasTaken, Scheduling, Rescheduling, Deleting
  <2> QED BY <1>t, <2>1, <2>2, SeatsSame
<1>6. req'[r].pc \notin Undoing
  BY <1>4 DEF Undoing, Scheduling, Rescheduling, Deleting
<1> QED BY <1>t, <1>5, <1>6 DEF SeatsKept

(* With one request, what is counted apart is what this request holds.     *)
LEMMA CountedApart ==
  ASSUME OneRequest, NEW r \in Requests, NEW s
  PROVE  /\ GivenBack(s) = IF GivesBack(r, s) THEN 1 ELSE 0
         /\ TakenAhead(s) = IF HasTaken(r, s) THEN 1 ELSE 0
         /\ GivenBack(s)' = IF GivesBack(r, s)' THEN 1 ELSE 0
         /\ TakenAhead(s)' = IF HasTaken(r, s)' THEN 1 ELSE 0
BY DEF GivenBack, TakenAhead, OneRequest

(* Reading the slot. *)
LEMMA SeatsRead ==
  ASSUME TypeOK, SeatsKept, OneRequest, NEW r \in Requests, SlotRead(r)
  PROVE  SeatsKept'
<1>1. UNCHANGED <<booking, slot>> /\ req[r].pc \in {"sched_slot", "resched_slot"}
  BY DEF SlotRead, At
<1>2. \/ req'[r].pc \in {"idle", "sched_inc", "resched_dec"}
      \/ req'[r].pc = "resched_inc" /\ req'[r].old = None
  <2>1. CASE Finish(r)
    BY <2>1, FinishEffect DEF Idle
  <2>2. ASSUME NEW l, Goto(r, l) PROVE req'[r].pc = l /\ req'[r].old = req[r].old
    BY <2>2, GotoEffect
  <2> QED BY <2>1, <2>2 DEF SlotRead
<1>3. ASSUME NEW s \in Slots PROVE SeatsAddUp(s)'
  <2>1. Holders(s)' = Holders(s) /\ slot'[s] = slot[s]
    BY <1>1 DEF Holders, BookingExists
  <2>2. ~GivesBack(r, s)' /\ ~HasTaken(r, s)
    BY <1>1, <1>2, NoneAssumption DEF GivesBack, HasTaken
  <2> QED BY <2>1, <2>2, SeatsSame
<1>4. \A q \in Requests : req'[q].pc \notin Undoing
  BY <1>2 DEF OneRequest, Undoing
<1> QED BY <1>3, <1>4 DEF SeatsKept

(* Giving the seat of the old slot back: the booking still holds one.      *)
LEMMA SeatsReleased ==
  ASSUME TypeOK, SerialInv, SeatsKept, OneRequest, NEW r \in Requests,
         RescheduleRelease(r) \/ DeleteRelease(r)
  PROVE  SeatsKept'
<1>1. /\ UNCHANGED booking /\ req[r].pc \in {"resched_dec", "del_dec"}
      /\ DecrementSlotBookedCount(req[r].old)
      /\ req'[r].pc \in {"resched_inc", "del_row"} /\ req'[r].old = req[r].old
  BY GotoEffect DEF RescheduleRelease, DeleteRelease, At
<1>2. /\ req[r].b \in Bookings /\ BookingExists(req[r].b)
      /\ req[r].old = booking[req[r].b].slot
  BY <1>1 DEF SerialInv, StillKnows, Rescheduling, Deleting, BookingExists
<1>3. ASSUME NEW s \in Slots PROVE SeatsAddUp(s)'
  <2>1. Holders(s)' = Holders(s)
    BY <1>1 DEF Holders, BookingExists
  <2>2. SeatsAddUp(s) /\ slot[s].booked \in Nat /\ Cardinality(Holders(s)) \in Nat
    BY SlotTypes, HoldersType DEF SeatsKept, SeatsAddUp
  <2>3. ~GivesBack(r, s) /\ ~HasTaken(r, s) /\ ~HasTaken(r, s)'
    BY <1>1 DEF GivesBack, HasTaken
  <2>4. GivenBack(s) = 0 /\ TakenAhead(s) = 0 /\ TakenAhead(s)' = 0
    BY <2>3, CountedApart
  <2>5. CASE s = req[r].old
    <3>1. req[r].b \in Holders(s)
      BY <1>2, <2>5 DEF Holders
    <3>2. Cardinality(Holders(s)) # 0
      BY <2>2, <3>1, FS_EmptySet DEF SeatsAddUp
    <3>3. slot'[s].booked = IF slot[s].booked > 0 THEN slot[s].booked - 1 ELSE 0
      BY <1>1, <2>5 DEF DecrementSlotBookedCount, TypeOK
    <3>4. GivenBack(s)' = 1
      <4>1. GivesBack(r, s)'
        BY <1>1, <2>5 DEF GivesBack
      <4> QED BY <4>1, CountedApart
    <3> QED BY <2>1, <2>2, <2>4, <3>2, <3>3, <3>4 DEF SeatsAddUp
  <2>6. CASE s # req[r].old
    <3>1. slot'[s] = slot[s]
      BY <1>1, <2>6 DEF DecrementSlotBookedCount, TypeOK
    <3>2. ~GivesBack(r, s)'
      BY <1>1, <2>6 DEF GivesBack
    <3> QED BY <2>1, <2>3, <3>1, <3>2, SeatsSame
  <2> QED BY <2>5, <2>6
<1>4. \A q \in Requests : req'[q].pc \notin Undoing
  BY <1>1 DEF OneRequest, Undoing
<1> QED BY <1>3, <1>4 DEF SeatsKept

(* Taking the seat of the slot asked for, ahead of the row.                *)
LEMMA SeatsTaken ==
  ASSUME TypeOK, SeatsKept, OneRequest, NEW r \in Requests, TakeSeat(r)
  PROVE  SeatsKept'
<1>1. /\ UNCHANGED booking /\ IncrementSlotBookedCount(req[r].s)
      /\ req'[r].old = req[r].old /\ req'[r].s = req[r].s
      /\ \/ req[r].pc = "sched_inc" /\ req'[r].pc = "sched_upd"
         \/ req[r].pc = "resched_inc" /\ req'[r].pc = "resched_upd"
  BY GotoEffect DEF TakeSeat, At
<1>2. ASSUME NEW s \in Slots PROVE SeatsAddUp(s)'
  <2>1. Holders(s)' = Holders(s)
    BY <1>1 DEF Holders, BookingExists
  <2>2. SeatsAddUp(s) /\ slot[s].booked \in Nat /\ Cardinality(Holders(s)) \in Nat
    BY SlotTypes, HoldersType DEF SeatsKept, SeatsAddUp
  <2>3. ~HasTaken(r, s) /\ (GivesBack(r, s)' <=> GivesBack(r, s))
    BY <1>1 DEF GivesBack, HasTaken
  <2>4. CASE s = req[r].s
    <3>1. slot'[s].booked = slot[s].booked + 1
      BY <1>1, <2>4 DEF IncrementSlotBookedCount, TypeOK
    <3>2. HasTaken(r, s)'
      BY <1>1, <2>4 DEF HasTaken
    <3>3. TakenAhead(s)' = 1 /\ TakenAhead(s) = 0 /\ GivenBack(s)' = GivenBack(s)
      BY <2>3, <3>2, CountedApart
    <3>4. GivenBack(s) \in {0, 1}
      BY DEF GivenBack
    <3> QED BY <2>1, <2>2, <3>1, <3>3, <3>4 DEF SeatsAddUp
  <2>5. CASE s # req[r].s
    <3>1. slot'[s] = slot[s]
      BY <1>1, <2>5 DEF IncrementSlotBookedCount, TypeOK
    <3> QED BY <2>1, <2>3, <3>1, SeatsSame
  <2> QED BY <2>4, <2>5
<1>3. \A q \in Requests : req'[q].pc \notin Undoing
  BY <1>1 DEF OneRequest, Undoing
<1> QED BY <1>2, <1>3 DEF SeatsKept

(* Writing the row: the booking leaves the slot it had, if any, and holds  *)
(* the one it was given.                                                   *)
LEMMA SeatsWritten ==
  ASSUME TypeInv, SerialInv, SeatsKept, OneRequest, NEW r \in Requests,
         AssignSlot(r) \/ DeleteRow(r)
  PROVE  SeatsKept'
<1>t. TypeOK /\ StillKnows(r) /\ RequestStep(r)
  BY DEF TypeInv, SerialInv, RequestStep, Step, SeatStep
<1>1. /\ UNCHANGED slot /\ req'[r] = Idle
      /\ req[r].pc \in {"sched_upd", "resched_upd", "del_row"}
  BY <1>t, FinishEffect DEF AssignSlot, DeleteRow, At
<1>2. req[r].b \in Bookings /\ BookingExists(req[r].b)
  BY <1>1, <1>t DEF StillKnows, Scheduling, Rescheduling, Deleting, BookingExists,
                    BookingStatus
<1>3. ASSUME NEW s \in Slots PROVE GivesBack(r, s) <=> req[r].b \in Holders(s)
  <2>1. CASE req[r].pc \in {"resched_upd", "del_row"}
    BY <1>2, <1>t, <2>1 DEF GivesBack, Holders, StillKnows, Rescheduling, Deleting
  <2>2. CASE req[r].pc = "sched_upd"
    <3>1. booking[req[r].b].slot = None
      BY <1>2, <1>t, <2>2 DEF StillKnows, Scheduling, SerialInv, Slotless, Unscheduled
    <3> QED BY <2>2, <3>1, NoneAssumption DEF GivesBack, Holders
  <2> QED BY <1>1, <2>1, <2>2
<1>4. ASSUME NEW s \in Slots
      PROVE  \/ HasTaken(r, s) /\ Holders(s)' = Holders(s) \cup {req[r].b}
             \/ ~HasTaken(r, s) /\ Holders(s)' \in {Holders(s), Holders(s) \ {req[r].b}}
                /\ (AssignSlot(r) => Holders(s)' = Holders(s) \ {req[r].b})
  <2>0. \A c \in Bookings : c # req[r].b => booking'[c] = booking[c]
    BY <1>t, BookingEffect
  <2>1. CASE AssignSlot(r)
    <3>1. booking'[req[r].b] = [booking[req[r].b] EXCEPT !.slot = req[r].s,
                                                         !.status = "scheduled"]
      BY <1>2, <1>t, <2>1, RowWritten DEF AssignSlot
    <3>2. booking'[req[r].b].slot = req[r].s /\ booking'[req[r].b].status = "scheduled"
      BY <1>2, <1>t, <3>1 DEF TypeOK, BookingRow
    <3>3. HasTaken(r, s) <=> s = req[r].s
      BY <2>1 DEF AssignSlot, At, HasTaken
    <3>4. CASE s = req[r].s
      BY <1>2, <2>0, <3>2, <3>3, <3>4 DEF Holders, BookingExists, BookingStatus
    <3>5. CASE s # req[r].s
      BY <1>2, <2>0, <3>2, <3>3, <3>5 DEF Holders, BookingExists
    <3> QED BY <3>4, <3>5
  <2>2. CASE DeleteRow(r)
    <3>1. ~HasTaken(r, s) /\ ~AssignSlot(r)
      BY <2>2 DEF DeleteRow, AssignSlot, At, HasTaken
    <3>2. CASE UNCHANGED booking
      BY <3>1, <3>2 DEF Holders, BookingExists
    <3>3. CASE ~UNCHANGED booking
      <4>1. booking'[req[r].b] = [NoBooking EXCEPT !.status = "gone"]
        BY <1>2, <1>t, <2>2, <3>3, RowWritten DEF DeleteRow
      <4>2. booking'[req[r].b].status = "gone"
        BY <4>1 DEF NoBooking
      <4>3. Holders(s)' = Holders(s) \ {req[r].b}
        BY <2>0, <4>2 DEF Holders, BookingExists, BookingStatus
      <4> QED BY <3>1, <4>3
    <3> QED BY <3>2, <3>3
  <2> QED BY <2>1, <2>2
<1>5. ASSUME NEW s \in Slots PROVE SeatsAddUp(s)'
  <2>1. SeatsAddUp(s) /\ slot[s].booked \in Nat /\ Cardinality(Holders(s)) \in Nat
    BY <1>t, SlotTypes, HoldersType DEF SeatsKept, SeatsAddUp
  <2>2. ~GivesBack(r, s)' /\ ~HasTaken(r, s)'
    BY <1>1 DEF GivesBack, HasTaken, Idle
  <2>3. /\ GivenBack(s)' = 0 /\ TakenAhead(s)' = 0
        /\ GivenBack(s) = IF req[r].b \in Holders(s) THEN 1 ELSE 0
        /\ TakenAhead(s) = IF HasTaken(r, s) THEN 1 ELSE 0
    BY <1>3, <2>2, CountedApart
  <2>4. /\ IsFiniteSet(Holders(s) \cup {req[r].b}) /\ IsFiniteSet(Holders(s) \ {req[r].b})
        /\ Cardinality(Holders(s) \cup {req[r].b})
             = IF req[r].b \in Holders(s) THEN Cardinality(Holders(s))
                                          ELSE Cardinality(Holders(s)) + 1
        /\ Cardinality(Holders(s) \ {req[r].b})
             = IF req[r].b \in Holders(s) THEN Cardinality(Holders(s)) - 1
                                          ELSE Cardinality(Holders(s))
    BY <2>1, FS_AddElement, FS_RemoveElement DEF SeatsAddUp
  <2>5. CASE HasTaken(r, s)
    <3>1. Holders(s)' = Holders(s) \cup {req[r].b} /\ slot'[s] = slot[s]
      BY <1>1, <1>4, <2>5
    <3>2. CASE req[r].b \in Holders(s)
      BY <2>1, <2>3, <2>4, <2>5, <3>1, <3>2 DEF SeatsAddUp
    <3>3. CASE req[r].b \notin Holders(s)
      BY <2>1, <2>3, <2>4, <2>5, <3>1, <3>3 DEF SeatsAddUp
    <3> QED BY <3>2, <3>3
  <2>6. CASE ~HasTaken(r, s)
    BY <1>1, <1>4, <2>1, <2>3, <2>4, <2>6 DEF SeatsAddUp
  <2> QED BY <2>5, <2>6
<1>6. \A q \in Requests : req'[q].pc \notin Undoing
  BY <1>1 DEF OneRequest, Undoing, Idle
<1> QED BY <1>5, <1>6 DEF SeatsKept

LEMMA SeatsEnvironment ==
  ASSUME TypeInv, SeatsKept, Environment \/ UNCHANGED vars
  PROVE  SeatsKept'
<1>t. TypeOK
  BY DEF TypeInv
<1>0. UNCHANGED req
  BY DEF Environment, CreateBooking, CreateSlot, ChapaSettle, ChapaRefund, TestTaken, vars
<1>1. ASSUME NEW s \in Slots PROVE Holders(s)' = Holders(s)
  <2>1. ASSUME NEW b \in Bookings, CreateBooking(b) PROVE Holders(s)' = Holders(s)
    <3>1. /\ booking[b].status = "none" /\ booking'[b].slot = None
          /\ \A c \in Bookings : c # b => booking'[c] = booking[c]
      BY <2>1, <1>t DEF CreateBooking, NoBooking, TypeOK
    <3> QED BY <3>1, NoneAssumption DEF Holders, BookingExists, BookingStatus
  <2>2. CASE UNCHANGED booking
    BY <2>2 DEF Holders, BookingExists
  <2> QED BY <2>1, <2>2 DEF Environment, CreateSlot, ChapaSettle, ChapaRefund, TestTaken,
                            vars
<1>2. ASSUME NEW s \in Slots PROVE slot'[s].booked \in {0, slot[s].booked}
  BY <1>t DEF Environment, CreateBooking, CreateSlot, ChapaSettle, ChapaRefund, TestTaken,
              vars, TypeOK
<1>3. ASSUME NEW s \in Slots PROVE SeatsAddUp(s)'
  <2>1. SeatsAddUp(s) /\ slot[s].booked \in Nat /\ Cardinality(Holders(s)) \in Nat
    BY <1>t, SlotTypes, HoldersType DEF SeatsKept, SeatsAddUp
  <2>2. GivenBack(s)' = GivenBack(s) /\ TakenAhead(s)' = TakenAhead(s)
    BY <1>0 DEF GivenBack, TakenAhead, GivesBack, HasTaken
  <2>3. GivenBack(s) \in {0, 1} /\ TakenAhead(s) \in {0, 1}
    BY DEF GivenBack, TakenAhead
  <2> QED BY <1>1, <1>2, <2>1, <2>2, <2>3 DEF SeatsAddUp
<1> QED BY <1>0, <1>3 DEF SeatsKept

LEMMA SeatsStep ==
  TypeInv /\ SerialInv /\ SeatsKept /\ OneRequest /\ ~Faults /\ [Next]_vars => SeatsKept'
<1> SUFFICES ASSUME TypeInv, SerialInv, SeatsKept, OneRequest, ~Faults, [Next]_vars
             PROVE  SeatsKept'
  OBVIOUS
<1>1. ASSUME NEW r \in Requests, SeatStep(r) PROVE SeatsKept'
  <2>1. ~AssignSlotFails(r) /\ ~ReturnSeat(r)
    BY DEF AssignSlotFails, ReturnSeat, SeatsKept, Undoing, At
  <2> QED BY <1>1, <2>1, SeatsRead, SeatsReleased, SeatsTaken, SeatsWritten
          DEF SeatStep, TypeInv
<1>2. ASSUME NEW r \in Requests, RequestStep(r), ~SeatStep(r) PROVE SeatsKept'
  BY <1>2, SeatsElsewhere
<1> QED BY <1>1, <1>2, SeatsEnvironment DEF Next, RequestStep

LEMMA SeatsInit == Init => SeatsKept
<1> SUFFICES ASSUME Init PROVE SeatsKept
  OBVIOUS
<1>1. ASSUME NEW s \in Slots PROVE SeatsAddUp(s)
  <2>1. Holders(s) = {}
    BY DEF Init, NoBooking, Holders, BookingExists, BookingStatus
  <2>2. slot[s].booked = 0 /\ GivenBack(s) = 0 /\ TakenAhead(s) = 0
    BY DEF Init, GivenBack, TakenAhead, GivesBack, HasTaken, Idle
  <2> QED BY <2>1, <2>2, FS_EmptySet DEF SeatsAddUp
<1> QED BY <1>1 DEF SeatsKept, Init, Idle, Undoing

(* Served one after the other, and as long as no statement fails, requests *)
(* never lose a seat: between two of them no slot counts more seats taken  *)
(* than there are bookings on it.                                          *)
THEOREM SeatsAreNotLost ==
  ASSUME \A r, q \in Requests : r = q, ~Faults
  PROVE  Spec => []NoSeatLost
<1>1. OneRequest
  BY DEF OneRequest
<1>2. Spec => [](TypeInv /\ MoneyInv /\ SerialInv)
  BY <1>1, SerialHolds
<1>3. TypeInv /\ SerialInv /\ SeatsKept /\ [Next]_vars => SeatsKept'
  BY <1>1, SeatsStep
<1>4. TypeInv /\ SeatsKept => NoSeatLost
  <2> SUFFICES ASSUME TypeOK, SeatsKept, \A r \in Requests : At(r, "idle"), NEW s \in Slots
               PROVE  slot[s].booked <= Cardinality(Holders(s))
    BY DEF NoSeatLost, TypeInv
  <2>1. GivenBack(s) = 0 /\ TakenAhead(s) = 0
    BY DEF GivenBack, TakenAhead, GivesBack, HasTaken, At
  <2>2. SeatsAddUp(s) /\ slot[s].booked \in Nat /\ Cardinality(Holders(s)) \in Nat
    BY SlotTypes, HoldersType DEF SeatsKept, SeatsAddUp
  <2> QED BY <2>1, <2>2 DEF SeatsAddUp
<1> QED BY <1>2, <1>3, <1>4, SeatsInit, PTL DEF Spec
-----------------------------------------------------------------------------
(* Attempts to pay.  As long as no statement fails, some request minds an  *)
(* attempt that was recorded and is not open at the provider: the one that *)
(* recorded it goes on to open it or to mark it failed.                    *)

Minding      == {"pay_mark", "pay_call", "pay_fail_payment"}
Minds(r, p, l) == At(r, l) /\ req[r].p = p

HalfMade(p) == payment[p].status = "pending" /\ chapa[p] = "none"
HalfMadeAreMinded ==
  \A p \in Payments : HalfMade(p) => \E r \in Requests, l \in Minding : Minds(r, p, l)

(* keepPaymentPending writes "pending" to a row whose transaction is open. *)
KeepsOpened == \A r \in Requests : At(r, "keep_payment") => chapa[req[r].p] # "none"

MindedInv == HalfMadeAreMinded /\ KeepsOpened

LEMMA MindingWhere ==
  ASSUME ~Faults, NEW r \in Requests, RequestStep(r)
  PROVE  /\ At(r, "pay_mark") => MarkPaymentPending(r)
         /\ At(r, "pay_call") => ProviderInitiate(r)
         /\ At(r, "pay_fail_payment") => WritePayment(r)
<1>1. Begin(r) => At(r, "idle")
  BY DEF Begin, VerifyBooking, ScheduleBooking, RescheduleBooking, DeleteBooking,
         InitiatePayment, RetryPayment, HandleChapaWebhook, HandleChapaCallback,
         HandleChapaTransaction
<1>2. Step(r) => \/ MarkPaymentPending(r) /\ At(r, "pay_mark")
                 \/ ProviderInitiate(r) /\ At(r, "pay_call")
                 \/ WritePayment(r)
                 \/ req[r].pc \notin Minding
  BY DEF Step, VerifyWrite, ErrorIgnored, SeatStep, SlotRead, RescheduleRelease, TakeSeat,
         AssignSlot, AssignSlotFails, ReturnSeat, DeleteRelease, DeleteRow, PaymentStep,
         RetryMark, RetryRead, PaymentAttempt, CreatePayment, MarkPaymentPending,
         MarkPaymentPendingFails, UndoPayment, ProviderInitiate, TransactionStep,
         VerifyTransaction, VerifyTransactionFails, ConfirmBooking, FailBooking,
         KeepBookingPending, TestCreationDetails, PostTest, StoreTestID, At, Minding
<1>3. WritePayment(r) => ~At(r, "pay_mark") /\ ~At(r, "pay_call")
  BY DEF WritePayment, At
<1> QED BY <1>1, <1>2, <1>3 DEF RequestStep, RequestDies, At, Minding

LEMMA MindingSteps ==
  ASSUME TypeOK, ~Faults, NEW r \in Requests, RequestStep(r), NEW p \in Payments
  PROVE  /\ Minds(r, p, "pay_mark") => Minds(r, p, "pay_call")'
         /\ Minds(r, p, "pay_call") => Minds(r, p, "pay_fail_payment")' \/ chapa'[p] # "none"
         /\ Minds(r, p, "pay_fail_payment") => payment'[p].status # "pending"
<1>1. ASSUME Minds(r, p, "pay_mark") PROVE Minds(r, p, "pay_call")'
  <2>1. Goto(r, "pay_call")
    BY <1>1, MindingWhere DEF Minds, MarkPaymentPending
  <2> QED BY <1>1, <2>1, GotoEffect DEF Minds, At
<1>2. ASSUME Minds(r, p, "pay_call")
      PROVE  Minds(r, p, "pay_fail_payment")' \/ chapa'[p] # "none"
  <2>1. Goto(r, "pay_fail_payment") \/ chapa' = [chapa EXCEPT ![p] = "pending"]
    BY <1>2, MindingWhere DEF Minds, ProviderInitiate
  <2>2. CASE Goto(r, "pay_fail_payment")
    BY <1>2, <2>2, GotoEffect DEF Minds, At
  <2>3. CASE chapa' = [chapa EXCEPT ![p] = "pending"]
    BY <2>3 DEF TypeOK
  <2> QED BY <2>1, <2>2, <2>3
<1>3. ASSUME Minds(r, p, "pay_fail_payment") PROVE payment'[p].status # "pending"
  <2>1. SetPaymentStatus(p, "failed")
    BY <1>3, MindingWhere DEF Minds, WritePayment, At
  <2>2. IF PaymentExists(p) THEN payment'[p].status = "failed"
                            ELSE payment'[p].status = payment[p].status
    BY <2>1, StatusEffect DEF PaymentStatus
  <2> QED BY <2>2 DEF PaymentExists, PaymentStatus
<1> QED BY <1>1, <1>2, <1>3

(* A request comes to keepPaymentPending from its look at an open          *)
(* transaction only.                                                       *)
LEMMA KeepingSeen ==
  ASSUME TypeOK, NEW r \in Requests, RequestStep(r), req'[r].pc = "keep_payment"
  PROVE  chapa[req[r].p] = "pending" /\ UNCHANGED chapa /\ req'[r].p = req[r].p
<1>1. ~Begin(r) /\ ~Finish(r) /\ \A l : Goto(r, l) => l = "keep_payment"
  <2>1. ASSUME NEW l, Goto(r, l) PROVE l = "keep_payment"
    BY <2>1, GotoEffect
  <2>2. ~Begin(r)
    BY BeginEffect DEF Beginnings
  <2>3. ~Finish(r)
    BY FinishEffect DEF Idle
  <2> QED BY <2>1, <2>2, <2>3
<1>2. ~(PaymentAttempt(r) \/ CreatePayment(r) \/ PostTest(r))
  BY <1>1 DEF PaymentAttempt, CreatePayment, PostTest, TypeOK, Request
<1>3. VerifyTransaction(r)
  BY <1>1, <1>2
  DEF RequestStep, Step, RequestDies, VerifyWrite, ErrorIgnored, SeatStep, SlotRead,
      RescheduleRelease, TakeSeat, AssignSlot, AssignSlotFails, ReturnSeat, DeleteRelease,
      DeleteRow, PaymentStep, RetryMark, RetryRead, MarkPaymentPending,
      MarkPaymentPendingFails, UndoPayment, ProviderInitiate, TransactionStep,
      VerifyTransactionFails, WritePayment, ConfirmBooking, FailBooking,
      KeepBookingPending, TestCreationDetails, StoreTestID
<1>4. Goto(r, "keep_payment") /\ chapa[req[r].p] = "pending"
  BY <1>1, <1>3 DEF VerifyTransaction
<1> QED BY <1>3, <1>4, GotoEffect DEF VerifyTransaction

LEMMA KeepsStep ==
  ASSUME TypeOK, MoneyInv, KeepsOpened, NEW r \in Requests, RequestStep(r)
  PROVE  KeepsOpened'
<1> SUFFICES ASSUME NEW q \in Requests, req'[q].pc = "keep_payment"
             PROVE  chapa'[req'[q].p] # "none"
  BY DEF KeepsOpened, At
<1>1. CASE q = r
  BY <1>1, KeepingSeen
<1>2. CASE q # r
  <2>1. req'[q] = req[q]
    BY <1>2, RequestApart
  <2>2. req[q].p \in Payments /\ chapa[req[q].p] # "none"
    BY <2>1 DEF KeepsOpened, At, MoneyInv, RequestKnows, Transacting
  <2> QED BY <2>1, <2>2, MoneyStable DEF Stable
<1> QED BY <1>1, <1>2

(* Who leaves an attempt half made minds it. *)
LEMMA MindedStep ==
  ASSUME TypeOK, MoneyInv, MindedInv, ~Faults, NEW r \in Requests, RequestStep(r)
  PROVE  HalfMadeAreMinded'
<1> SUFFICES ASSUME NEW p \in Payments, payment'[p].status = "pending", chapa'[p] = "none"
             PROVE  \E q \in Requests, l \in Minding : Minds(q, p, l)'
  BY DEF HalfMadeAreMinded, HalfMade
<1>1. chapa[p] = "none"
  BY MoneyStable DEF Stable
<1>2. CASE payment[p].status = "pending"
  <2>1. PICK q \in Requests, l \in Minding : Minds(q, p, l)
    BY <1>1, <1>2 DEF MindedInv, HalfMadeAreMinded, HalfMade
  <2>2. CASE q = r
    <3>1. Minds(r, p, "pay_call")' \/ Minds(r, p, "pay_fail_payment")'
      BY <2>1, <2>2, MindingSteps DEF Minding
    <3> QED BY <3>1 DEF Minding
  <2>3. CASE q # r
    <3>1. req'[q] = req[q]
      BY <2>3, RequestApart
    <3> QED BY <2>1, <3>1 DEF Minds, At
  <2> QED BY <2>2, <2>3
<1>3. CASE payment[p].status # "pending"
  <2>1. CASE CreatePayment(r) /\ ~UNCHANGED payment
    <3>1. Minds(r, p, "pay_mark")'
      BY <1>3, <2>1, CreateEffect DEF Minds, At
    <3> QED BY <3>1 DEF Minding
  <2>2. CASE UndoPayment(r) \/ WritePayment(r)
    <3>1. PICK st \in PaymentStatus : SetPaymentStatus(req[r].p, st) /\ (st = "pending" => At(r, "keep_payment"))
      <4>1. \/ SetPaymentStatus(req[r].p, "success") \/ SetPaymentStatus(req[r].p, "failed")
            \/ SetPaymentStatus(req[r].p, "pending") /\ At(r, "keep_payment")
        BY <2>2 DEF UndoPayment, WritePayment
      <4> QED BY <4>1 DEF PaymentStatus
    <3>2. st = "pending" /\ req[r].p = p
      BY <1>3, <3>1, StatusEffect
    <3> QED BY <1>1, <3>1, <3>2 DEF MindedInv, KeepsOpened
  <2>3. CASE DeleteRow(r)
    BY <1>3, <2>3, DeleteEffect
  <2> QED BY <1>3, <2>1, <2>2, <2>3, PaymentWriters
<1> QED BY <1>2, <1>3

LEMMA MindedNext == TypeInv /\ MoneyInv /\ MindedInv /\ ~Faults /\ [Next]_vars => MindedInv'
<1> SUFFICES ASSUME TypeOK, MoneyInv, MindedInv, ~Faults, [Next]_vars
             PROVE  MindedInv'
  BY DEF TypeInv
<1>1. ASSUME NEW r \in Requests, RequestStep(r) PROVE MindedInv'
  BY <1>1, KeepsStep, MindedStep DEF MindedInv
<1>2. CASE Environment \/ UNCHANGED vars
  <2>1. /\ payment' = payment /\ req' = req
        /\ \A p \in Payments : chapa'[p] = "none" <=> chapa[p] = "none"
    BY <1>2 DEF Environment, CreateBooking, CreateSlot, ChapaSettle, ChapaRefund, TestTaken,
                vars, TypeOK
  <2>2. HalfMadeAreMinded'
    BY <2>1 DEF MindedInv, HalfMadeAreMinded, HalfMade, Minds, At
  <2>3. KeepsOpened'
    BY <2>1 DEF MindedInv, KeepsOpened, At, MoneyInv, RequestKnows, Transacting
  <2> QED BY <2>2, <2>3 DEF MindedInv
<1> QED BY <1>1, <1>2 DEF Next, RequestStep

LEMMA MindedHolds == ASSUME ~Faults PROVE Spec => [](TypeInv /\ MoneyInv /\ MindedInv)
<1>1. TypeInv /\ MoneyInv /\ MindedInv /\ [Next]_vars => (TypeInv /\ MoneyInv /\ MindedInv)'
  BY TypeStep, MoneyInvStep, MindedNext
<1>2. Init => MindedInv
  BY DEF Init, MindedInv, HalfMadeAreMinded, HalfMade, KeepsOpened, At, NoPayment, Idle
<1> QED BY <1>1, <1>2, TypeInit, MoneyInit, PTL DEF Spec

(* Two initiations of one booking may cross each other, with webhooks and  *)
(* deletions in between: an attempt that was recorded and not opened has a *)
(* request that is about to open it or to mark it failed (service.go:355). *)
THEOREM NoAttemptIsAbandoned == ASSUME ~Faults PROVE Spec => []HalfMadeAreMinded
<1>1. MindedInv => HalfMadeAreMinded
  BY DEF MindedInv
<1> QED BY <1>1, MindedHolds, PTL

-----------------------------------------------------------------------------
(* What fairness adds.  The provers know nothing of ENABLED: that a        *)
(* request which minds an attempt can go on is a hypothesis here.          *)

Fair(r) == WF_vars(Step(r))
Can(r)  == ENABLED <<Step(r)>>_vars

CanGoOn == \A r \in Requests : req[r].pc \in Minding => Can(r)

LEMMA FairRequests == Fairness => \A r \in Requests : Fair(r)
BY PTL DEF Fairness, Fair

LEMMA MindedMoves ==
  ASSUME TypeInv, ~Faults, [Next]_vars, NEW r \in Requests, NEW p \in Payments,
         NEW l \in Minding, Minds(r, p, l)
  PROVE  Minds(r, p, l)' \/ RequestStep(r)
<1>1. ASSUME NEW q \in Requests \ {r}, RequestStep(q) PROVE Minds(r, p, l)'
  BY <1>1, RequestApart DEF Minds, At, TypeInv
<1>2. CASE Environment \/ UNCHANGED vars
  BY <1>2 DEF Environment, CreateBooking, CreateSlot, ChapaSettle, ChapaRefund, TestTaken,
              vars, Minds, At
<1> QED BY <1>1, <1>2 DEF Next, RequestStep

(* An attempt that was recorded is opened at the provider or marked failed *)
(* in the end, unless its booking is deleted, as long as no statement      *)
(* fails (service.go:355).                                                 *)
THEOREM AttemptsAreOpenedOrFailed ==
  ASSUME ~Faults
  PROVE  FairSpec /\ []CanGoOn => AttemptIsOpenedOrFailed
<1>1. ASSUME NEW p \in Payments
      PROVE  FairSpec /\ []CanGoOn => [](HalfMade(p) => <>~HalfMade(p))
  <2>1. ASSUME NEW r \in Requests
        PROVE  FairSpec /\ []CanGoOn =>
                 []((\E l \in Minding : Minds(r, p, l)) => <>~HalfMade(p))
    <3> DEFINE A1 == Minds(r, p, "pay_mark")
               A2 == Minds(r, p, "pay_call")
               A3 == Minds(r, p, "pay_fail_payment")
               Over == ~HalfMade(p)
    <3>1. (\E l \in Minding : Minds(r, p, l)) <=> A1 \/ A2 \/ A3
      BY DEF Minding
    <3>2. ASSUME TypeInv, [Next]_vars
          PROVE  /\ A1 => A1' \/ A2'
                 /\ A2 => A2' \/ A3' \/ Over'
                 /\ A3 => A3' \/ Over'
      BY <3>2, MindedMoves, MindingSteps DEF Minding, TypeInv, HalfMade
    <3>3. ASSUME TypeInv, [Next]_vars, <<Step(r)>>_vars
          PROVE  /\ A1 => A2'
                 /\ A2 => A3' \/ Over'
                 /\ A3 => Over'
      BY <3>3, MindingSteps DEF RequestStep, TypeInv, HalfMade
    <3>4. CanGoOn /\ (A1 \/ A2 \/ A3) => Can(r)
      BY DEF CanGoOn, Minds, At, Minding
    <3>5. Fairness => Fair(r)
      BY FairRequests
    <3>6. Spec => []TypeInv
      BY MindedHolds, PTL
    <3> HIDE DEF A1, A2, A3, Over
    <3>7. FairSpec /\ []CanGoOn => [](A3 => <>Over)
      BY <3>2, <3>3, <3>4, <3>5, <3>6, PTL DEF FairSpec, Spec, Fair, Can
    <3>8. FairSpec /\ []CanGoOn => [](A2 => <>Over)
      BY <3>2, <3>3, <3>4, <3>5, <3>6, <3>7, PTL DEF FairSpec, Spec, Fair, Can
    <3>9. FairSpec /\ []CanGoOn => [](A1 => <>Over)
      BY <3>2, <3>3, <3>4, <3>5, <3>6, <3>8, PTL DEF FairSpec, Spec, Fair, Can
    <3>10. FairSpec /\ []CanGoOn => []((\E l \in Minding : Minds(r, p, l)) => <>Over)
      BY <3>1, <3>7, <3>8, <3>9, PTL
    <3> QED BY <3>10 DEF Over
  <2>2. FairSpec /\ []CanGoOn =>
          [](\A r \in Requests : ((\E l \in Minding : Minds(r, p, l)) => <>~HalfMade(p)))
    BY <2>1
  <2>3. (\A r \in Requests : ((\E l \in Minding : Minds(r, p, l)) => <>~HalfMade(p)))
          => ((\E r \in Requests, l \in Minding : Minds(r, p, l)) => <>~HalfMade(p))
    OBVIOUS
  <2>4. MindedInv /\ HalfMade(p) => \E r \in Requests, l \in Minding : Minds(r, p, l)
    BY DEF MindedInv, HalfMadeAreMinded
  <2> QED BY <2>2, <2>3, <2>4, MindedHolds, PTL DEF FairSpec
<1>2. ASSUME NEW p \in Payments
      PROVE  FairSpec /\ []CanGoOn =>
               (payment[p].status = "pending" ~> chapa[p] # "none" \/ payment[p].status # "pending")
  <2>1. ~HalfMade(p) <=> chapa[p] # "none" \/ payment[p].status # "pending"
    BY DEF HalfMade
  <2>2. payment[p].status = "pending" => HalfMade(p) \/ chapa[p] # "none"
    BY DEF HalfMade
  <2> QED BY <1>1, <2>1, <2>2, PTL
<1> QED BY <1>2 DEF AttemptIsOpenedOrFailed
-----------------------------------------------------------------------------
(* What fails a booking.  As long as no statement fails, who is about to   *)
(* fail one knows of a transaction that the provider does not keep: it was *)
(* never opened, and nobody else opens it, or it is over.                  *)

Unopened == {"pay_mark", "pay_call", "pay_fail_payment", "pay_fail_booking"}
Refusing == {"fail_payment", "fail_booking"}

FailsKnown(r) ==
  /\ req[r].pc \in Refusing => chapa[req[r].p] \in {"failed", "refunded"}
  /\ req[r].pc \in Unopened =>
       req[r].p \in Payments /\ payment[req[r].p].status # "none" /\ chapa[req[r].p] = "none"

UnopenedApart == \A q, r \in Requests :
  req[q].pc \in Unopened /\ req[r].pc \in Unopened /\ q # r => req[q].p # req[r].p

FailingInv == UnopenedApart /\ \A r \in Requests : FailsKnown(r)

(* How a request comes to hold a transaction, or to refuse one. *)
LEMMA UnopenedArrives ==
  ASSUME TypeOK, ~Faults, NEW r \in Requests, RequestStep(r),
         req'[r].pc \in Unopened \cup Refusing
  PROVE  \/ CreatePayment(r) /\ ~UNCHANGED payment
         \/ /\ req'[r].p = req[r].p /\ UNCHANGED chapa
            /\ \/ req[r].pc \in Unopened /\ req'[r].pc \in Unopened
               \/ req[r].pc \in Refusing /\ req'[r].pc \in Refusing
               \/ /\ req[r].pc = "tx_verify" /\ req'[r].pc \in Refusing
                  /\ chapa[req[r].p] \in {"failed", "refunded"}
<1>1. ASSUME NEW l, Goto(r, l) PROVE l \in Unopened \cup Refusing
  BY <1>1, GotoEffect
<1>2. ~Begin(r)
  BY BeginEffect DEF Beginnings, Unopened, Refusing
<1>3. ~Finish(r)
  BY FinishEffect DEF Idle, Unopened, Refusing
<1>4. ~(PaymentAttempt(r) \/ PostTest(r))
  BY <1>3 DEF PaymentAttempt, PostTest, TypeOK, Request, Unopened, Refusing
<1>5. CASE CreatePayment(r)
  <2>1. PICK p \in Payments :
          /\ payment[p].status = "none"
          /\ payment' = [payment EXCEPT ![p] =
               [status |-> "pending", booking |-> req[r].b, attempt |-> req[r].n]]
    BY <1>3, <1>5 DEF CreatePayment
  <2>2. payment'[p].status = "pending"
    BY <2>1 DEF TypeOK
  <2> QED BY <1>5, <2>1, <2>2
<1>6. CASE MarkPaymentPending(r) \/ ProviderInitiate(r) \/ WritePayment(r) \/ VerifyTransaction(r)
  <2>1. PICK l : /\ Goto(r, l) /\ UNCHANGED chapa
                 /\ \/ At(r, "pay_mark") /\ l = "pay_call"
                    \/ At(r, "pay_call") /\ l = "pay_fail_payment"
                    \/ At(r, "pay_fail_payment") /\ l = "pay_fail_booking"
                    \/ At(r, "fail_payment") /\ l = "fail_booking"
                    \/ /\ At(r, "tx_verify") /\ l = "fail_payment"
                       /\ chapa[req[r].p] \in {"failed", "refunded"}
    <3>1. CASE MarkPaymentPending(r)
      BY <3>1 DEF MarkPaymentPending
    <3>2. CASE ProviderInitiate(r)
      BY <1>3, <3>2 DEF ProviderInitiate
    <3>3. CASE WritePayment(r)
      <4>1. ~Goto(r, "conf_booking") /\ ~Goto(r, "keep_booking")
        BY <1>1 DEF Unopened, Refusing
      <4> QED BY <3>3, <4>1 DEF WritePayment
    <3>4. CASE VerifyTransaction(r)
      <4>1. ~Goto(r, "conf_payment") /\ ~Goto(r, "keep_payment") /\ ~Goto(r, "keep_booking")
        BY <1>1 DEF Unopened, Refusing
      <4> QED BY <3>4, <4>1 DEF VerifyTransaction
    <3> QED BY <1>6, <3>1, <3>2, <3>3, <3>4
  <2>2. req'[r].pc = l /\ req'[r].p = req[r].p
    BY <2>1, GotoEffect
  <2> QED BY <2>1, <2>2 DEF At, Unopened, Refusing
<1>7. CASE VerifyWrite(r) \/ ErrorIgnored(r) \/ RequestDies(r) \/ SeatStep(r)
  <2>1. Finish(r) \/ \E l \in PC \ (Unopened \cup Refusing) : Goto(r, l)
    BY <1>7 DEF VerifyWrite, ErrorIgnored, RequestDies, SeatStep, SlotRead,
         RescheduleRelease, TakeSeat, AssignSlot, AssignSlotFails, ReturnSeat,
         DeleteRelease, DeleteRow, PC, Unopened, Refusing
  <2> QED BY <1>1, <1>3, <2>1
<1>8. CASE RetryMark(r) \/ RetryRead(r) \/ MarkPaymentPendingFails(r) \/ UndoPayment(r)
           \/ VerifyTransactionFails(r) \/ ConfirmBooking(r) \/ FailBooking(r)
           \/ KeepBookingPending(r) \/ TestCreationDetails(r) \/ StoreTestID(r)
  <2>1. Finish(r) \/ \E l \in PC \ (Unopened \cup Refusing) : Goto(r, l)
    BY <1>8 DEF RetryMark, RetryRead, MarkPaymentPendingFails, UndoPayment,
         VerifyTransactionFails, ConfirmBooking, FailBooking, KeepBookingPending,
         TestCreationDetails, StoreTestID, PC, Unopened, Refusing
  <2> QED BY <1>1, <1>3, <2>1
<1> QED BY <1>2, <1>4, <1>5, <1>6, <1>7, <1>8
        DEF RequestStep, Step, PaymentStep, TransactionStep

LEMMA FailingStep ==
  ASSUME TypeOK, MoneyInv, FailingInv, ~Faults, NEW r \in Requests, RequestStep(r)
  PROVE  FailingInv'
<1>1. Stable /\ \A q \in Requests : q # r => req'[q] = req[q]
  BY MoneyStable, RequestApart
<1>2. ASSUME CreatePayment(r), ~UNCHANGED payment
      PROVE  \E p \in Payments :
               /\ payment[p].status = "none" /\ payment'[p].status # "none"
               /\ chapa'[p] = "none" /\ UNCHANGED chapa
               /\ req'[r].pc = "pay_mark" /\ req'[r].p = p
  BY <1>2, CreateEffect DEF MoneyInv, RowsOwned, CreatePayment
<1>3. UnopenedApart'
  <2> SUFFICES ASSUME NEW q \in Requests, q # r, req[q].pc \in Unopened, req'[r].pc \in Unopened
               PROVE  req[q].p # req'[r].p
    BY <1>1 DEF FailingInv, UnopenedApart
  <2>1. CASE CreatePayment(r) /\ ~UNCHANGED payment
    BY <1>2, <2>1 DEF FailingInv, FailsKnown
  <2>2. CASE req'[r].p = req[r].p /\ req[r].pc \in Unopened
    BY <2>2 DEF FailingInv, UnopenedApart
  <2> QED BY <2>1, <2>2, UnopenedArrives DEF Unopened, Refusing
<1>4. FailsKnown(r)'
  <2>1. CASE CreatePayment(r) /\ ~UNCHANGED payment
    BY <1>2, <2>1 DEF FailsKnown, Unopened, Refusing
  <2>2. CASE /\ req'[r].p = req[r].p /\ UNCHANGED chapa
             /\ req[r].pc \in Unopened /\ req'[r].pc \in Unopened
    <3>1. FailsKnown(r)
      BY DEF FailingInv
    <3> QED BY <1>1, <2>2, <3>1 DEF FailsKnown, Stable, Unopened, Refusing
  <2>3. CASE /\ req'[r].p = req[r].p /\ UNCHANGED chapa /\ req'[r].pc \in Refusing
             /\ chapa[req[r].p] \in {"failed", "refunded"}
    BY <2>3 DEF FailsKnown, Unopened, Refusing
  <2>4. CASE req'[r].pc \notin Unopened \cup Refusing
    BY <2>4 DEF FailsKnown
  <2>5. req[r].pc \in Refusing => chapa[req[r].p] \in {"failed", "refunded"}
    BY DEF FailingInv, FailsKnown
  <2> QED BY <2>1, <2>2, <2>3, <2>4, <2>5, UnopenedArrives
<1>5. ASSUME NEW q \in Requests, q # r PROVE FailsKnown(q)'
  <2>1. req'[q] = req[q] /\ FailsKnown(q)
    BY <1>1, <1>5 DEF FailingInv
  <2>2. ASSUME req[q].pc \in Unopened \cup Refusing PROVE chapa'[req[q].p] = chapa[req[q].p]
    <3>1. CASE UNCHANGED chapa
      BY <3>1
    <3>2. CASE ProviderInitiate(r)
      <4>1. req[r].pc = "pay_call" /\ chapa[req[r].p] = "none"
        BY <3>2 DEF ProviderInitiate, At, Opening, MoneyInv, RequestKnows
      <4>2. req[r].p # req[q].p
        BY <1>5, <2>1, <2>2, <4>1 DEF FailsKnown, FailingInv, UnopenedApart, Unopened
      <4>3. chapa' = chapa \/ chapa' = [chapa EXCEPT ![req[r].p] = "pending"]
        BY <3>2 DEF ProviderInitiate
      <4>4. req[q].p \in Payments
        BY <2>1, <2>2 DEF FailsKnown, MoneyInv, RequestKnows, Transacting, Refusing
      <4> QED BY <4>2, <4>3, <4>4 DEF TypeOK
    <3> QED BY <3>1, <3>2, ProviderWriters
  <2> QED BY <1>1, <2>1, <2>2 DEF FailsKnown, Stable
<1> QED BY <1>3, <1>4, <1>5 DEF FailingInv

LEMMA FailingNext == TypeInv /\ MoneyInv /\ FailingInv /\ ~Faults /\ [Next]_vars => FailingInv'
<1> SUFFICES ASSUME TypeOK, MoneyInv, FailingInv, ~Faults, [Next]_vars
             PROVE  FailingInv'
  BY DEF TypeInv
<1>1. ASSUME NEW r \in Requests, RequestStep(r) PROVE FailingInv'
  BY <1>1, FailingStep
<1>2. CASE Environment \/ UNCHANGED vars
  <2>1. /\ payment' = payment /\ req' = req
        /\ \A p \in Payments : chapa[p] \in {"none", "failed", "refunded"} => chapa'[p] = chapa[p]
    BY <1>2 DEF Environment, CreateBooking, CreateSlot, ChapaSettle, ChapaRefund, TestTaken,
                vars, TypeOK
  <2>2. UnopenedApart'
    BY <2>1 DEF FailingInv, UnopenedApart
  <2>3. ASSUME NEW r \in Requests PROVE FailsKnown(r)'
    <3>1. req[r].pc \in Refusing => req[r].p \in Payments
      BY DEF MoneyInv, RequestKnows, Transacting, Refusing
    <3> QED BY <2>1, <3>1 DEF FailingInv, FailsKnown
  <2> QED BY <2>2, <2>3 DEF FailingInv
<1> QED BY <1>1, <1>2 DEF Next, RequestStep

(* Only FailBooking turns a booking to payment_failed. *)
LEMMA WhoFails ==
  ASSUME TypeInv, [Next]_vars, NEW b \in Bookings,
         booking[b].status # "payment_failed", booking'[b].status = "payment_failed"
  PROVE  \E r \in Requests : FailBooking(r) /\ req[r].b = b
<1>t. TypeOK /\ booking[b] \in BookingRow
  BY DEF TypeInv, TypeOK
<1>1. CASE Environment \/ UNCHANGED vars
  BY <1>t, <1>1 DEF Environment, CreateBooking, CreateSlot, ChapaSettle, ChapaRefund, TestTaken,
              vars, TypeOK, NoBooking
<1>2. ASSUME NEW r \in Requests, RequestStep(r) PROVE FailBooking(r) /\ req[r].b = b
  <2>1. b = req[r].b /\ BookingExists(b) /\ BookingWritten(r, b)
    BY <1>2, BookingEffect
  <2>2. ASSUME NEW row, UpdateBookingFields(req[r].b, row) PROVE row.status = "payment_failed"
    BY <1>t, <2>1, <2>2, RowWritten
  <2>3. ~(VerifyWrite(r) \/ AssignSlot(r) \/ DeleteRow(r))
    <3>1. ~VerifyWrite(r)
      BY <1>t, <2>1, <2>2 DEF VerifyWrite, TypeInv, Reviewing, BookingRow
    <3>2. ~AssignSlot(r)
      <4>1. [booking[b] EXCEPT !.slot = req[r].s, !.status = "scheduled"].status = "scheduled"
        BY <1>t DEF BookingRow
      <4> QED BY <2>1, <2>2, <4>1 DEF AssignSlot
    <3>3. ~DeleteRow(r)
      BY <1>2, <2>1, <2>2 DEF DeleteRow, NoBooking
    <3> QED BY <3>1, <3>2, <3>3
  <2>4. ~(RetryMark(r) \/ MarkPaymentPending(r) \/ ConfirmBooking(r) \/ KeepBookingPending(r))
    <3>1. ~RetryMark(r)
      BY <1>t, <2>1, <2>2 DEF RetryMark, BookingRow
    <3>2. ~MarkPaymentPending(r)
      <4>1. [booking[b] EXCEPT !.status = "payment_pending", !.pay = "pending",
                               !.attempts = req[r].n].status = "payment_pending"
        BY <1>t DEF BookingRow
      <4> QED BY <2>1, <2>2, <4>1 DEF MarkPaymentPending
    <3>3. ~ConfirmBooking(r)
      <4>1. [booking[b] EXCEPT !.status = "confirmed", !.pay = "paid",
                               !.ref = req[r].p].status = "confirmed"
        BY <1>t DEF BookingRow
      <4> QED BY <2>1, <2>2, <4>1 DEF ConfirmBooking
    <3>4. ~KeepBookingPending(r)
      <4>1. [booking[b] EXCEPT !.status = "payment_pending", !.pay = "pending"].status
              = "payment_pending"
        BY <1>t DEF BookingRow
      <4> QED BY <2>1, <2>2, <4>1 DEF KeepBookingPending
    <3> QED BY <3>1, <3>2, <3>3, <3>4
  <2>5. ~StoreTestID(r)
    BY <1>t, <2>1, <2>2 DEF StoreTestID, BookingRow
  <2>6. booking' # booking
    OBVIOUS
  <2>7. FailBooking(r)
    BY <1>2, <1>t, <2>3, <2>4, <2>5, <2>6, BeginEffect
    DEF RequestStep, Step, RequestDies, ErrorIgnored, SeatStep, SlotRead,
        RescheduleRelease, TakeSeat, AssignSlotFails, ReturnSeat, DeleteRelease,
        PaymentStep, RetryRead, PaymentAttempt, CreatePayment,
        MarkPaymentPendingFails, UndoPayment, ProviderInitiate, TransactionStep,
        VerifyTransaction, VerifyTransactionFails, WritePayment, TestCreationDetails,
        PostTest
  <2> QED BY <2>1, <2>7
<1> QED BY <1>1, <1>2 DEF Next, RequestStep

(* PaidNeverFails does not hold, but what turns a paid booking, whose      *)
(* transaction stands at the provider, to payment_failed is always a       *)
(* request about another attempt, one that was not opened or is over: the  *)
(* transaction that paid the booking does not fail it (service.go:454).    *)
PaidFailsByAnother ==
  [][\A b \in Bookings :
       /\ booking[b].pay = "paid"
       /\ booking[b].ref # None /\ chapa[booking[b].ref] = "success"
       /\ booking[b].status # "payment_failed" /\ booking'[b].status = "payment_failed"
       => \E r \in Requests : /\ FailBooking(r) /\ req[r].b = b
                              /\ req[r].p # booking[b].ref]_vars

THEOREM OnlyAnotherAttemptFails == ASSUME ~Faults PROVE Spec => PaidFailsByAnother
<1>1. ASSUME TypeInv, FailingInv, [Next]_vars, NEW b \in Bookings,
             chapa[booking[b].ref] = "success",
             booking[b].status # "payment_failed", booking'[b].status = "payment_failed"
      PROVE  \E r \in Requests : FailBooking(r) /\ req[r].b = b /\ req[r].p # booking[b].ref
  <2>1. PICK r \in Requests : FailBooking(r) /\ req[r].b = b
    BY <1>1, WhoFails
  <2>2. chapa[req[r].p] # "success"
    BY <1>1, <2>1 DEF FailBooking, At, FailingInv, FailsKnown, Unopened, Refusing
  <2> QED BY <1>1, <2>1, <2>2
<1>2. TypeInv /\ FailingInv /\ [Next]_vars =>
        [\A b \in Bookings :
           /\ booking[b].pay = "paid"
           /\ booking[b].ref # None /\ chapa[booking[b].ref] = "success"
           /\ booking[b].status # "payment_failed" /\ booking'[b].status = "payment_failed"
           => \E r \in Requests : /\ FailBooking(r) /\ req[r].b = b
                                  /\ req[r].p # booking[b].ref]_vars
  BY <1>1
<1>3. Init => FailingInv
  BY DEF Init, FailingInv, UnopenedApart, FailsKnown, Unopened, Refusing, Idle
<1>4. TypeInv /\ MoneyInv /\ FailingInv /\ [Next]_vars => FailingInv'
  BY FailingNext
<1>5. Spec => [](TypeInv /\ MoneyInv)
  BY MindedHolds, PTL
<1> QED BY <1>2, <1>3, <1>4, <1>5, PTL DEF Spec, PaidFailsByAnother
=============================================================================
