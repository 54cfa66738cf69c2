----------------------------- MODULE MCBooking -----------------------------
(* Small instances of Booking for TLC. *)
EXTENDS Booking, TLC

CONSTANT c1

(* All bookings belong to one candidate, so that they compete for its one  *)
(* pending test.                                                           *)
MCCandidates  == {c1}
MCCandidateOf == [b \in Bookings |-> c1]

(* Requests, slots, payments and tests of the same kind are interchangeable. *)
Symmetry == Permutations(Requests) \cup Permutations(Slots) \cup Permutations(Bookings)
            \cup Permutations(Payments) \cup Permutations(Tests)
=============================================================================
