------------------------------ MODULE MCCredits -----------------------------
(* Two sessions, two requests of two credits, one pack, and a plan that may *)
(* change once: the balances are small enough for a charge to need two of   *)
(* them and for the two requests to compete.                                *)
EXTENDS Credits, TLC
CONSTANTS c1, c2, r1, r2, p1
MCEstimate == r1 :> 2 @@ r2 :> 2
MCAllowance == "FREE" :> 1 @@ "PRO" :> 2
MCSymmetry == Permutations({c1, c2}) \cup Permutations({r1, r2})
=============================================================================
