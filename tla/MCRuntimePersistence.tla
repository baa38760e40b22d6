------------------------ MODULE MCRuntimePersistence ------------------------
(* Instance of RuntimePersistence for TLC: two processes, which are          *)
(* interchangeable, as are the event types.                                  *)
EXTENDS RuntimePersistence, TLC

CONSTANTS w1, w2, created, changed

MCWriters == {w1, w2}
MCSymmetry == Permutations(MCWriters) \cup Permutations(Types)
=============================================================================
