------------------------------ MODULE MCBilling ------------------------------
(* Two requests in flight on one subscription of two states. *)
EXTENDS Billing, TLC

CONSTANTS q1, q2

MCRequests == {q1, q2}
MCStatuses == {"created", "active"}
MCCreated == "created"

Symmetry == Permutations(Requests)
=============================================================================
