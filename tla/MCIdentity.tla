----------------------------- MODULE MCIdentity -----------------------------
(* Small instances of Identity for TLC. *)
EXTENDS Identity, TLC

CONSTANTS root, root2, sa1, ad1, c1, c2, e0, e1

(* The root has an address of its own if there are two; all others share   *)
(* one, in different tables.                                               *)
MCKindOf  == [a \in Accounts |-> CASE a \in {root, root2, sa1} -> "super_admin"
                                   [] a \in {c1, c2} -> "candidate"
                                   [] OTHER -> "admin"]
MCEmailOf == [a \in Accounts |-> IF a \in {root, root2} /\ e0 \in Emails THEN e0 ELSE e1]

(* Requests, codes, tokens and invitations of the same kind are alike. *)
Symmetry == Permutations(Requests) \cup Permutations(Codes) \cup Permutations(ResetTokens)
            \cup Permutations(Invitations) \cup Permutations(InviteTokens)
=============================================================================
