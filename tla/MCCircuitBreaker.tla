-------------------------- MODULE MCCircuitBreaker --------------------------
(* Instances of CircuitBreaker for TLC: two processes, two calls of one     *)
(* and one of the other.                                                    *)
EXTENDS CircuitBreaker, TLC

CONSTANTS c1, c2, c3, n1, n2

TwoAndOne == c1 :> n1 @@ c2 :> n1 @@ c3 :> n2

\* The two calls of one process are alike.
Twins == Permutations({c1, c2})
=============================================================================
