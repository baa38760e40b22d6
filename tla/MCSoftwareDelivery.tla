------------------------- MODULE MCSoftwareDelivery -------------------------
(* Two requests compete for two agents: a1 takes both and is preferred,     *)
(* a2 takes one.                                                           *)
EXTENDS SoftwareDelivery, TLC

CONSTANTS w1, w2, a1, a2

MCRoster == <<a1, a2>>
MCMaxParallel == (a1 :> 2 @@ a2 :> 1)
MCPriority == (a1 :> 2 @@ a2 :> 1)
MCSuits == [w \in Workflows |-> Agents]
MCSymmetry == Permutations(Workflows)
=============================================================================
