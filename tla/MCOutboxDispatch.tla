-------------------------- MODULE MCOutboxDispatch --------------------------
(* Two processes race for one operation, or for two on one version of one     *)
(* aggregate, while the holder of a claim may renew it.                       *)
EXTENDS OutboxDispatch, TLC

CONSTANTS o1, o2, k1, k2, r1, a1, w1, w2

KeyIn == [o \in Ops |-> IF o = o1 THEN k1 ELSE k2]
ProviderIn == [o \in Ops |-> r1]
PriorityIn == [o \in Ops |-> 1]
AggregateIn == [o \in Ops |-> a1]
VersionIn == [o \in Ops |-> 0]

\* Nothing in the repository renews a claim of the outbox; renew_claim is there
\* for those who would.
Renewal ==
    /\ \E p \in Procs : Op(p) \in Ops /\ RenewClaim(Op(p), job[p].fence)
    /\ UNCHANGED <<procVars, executed>>

RenewingSpec == DInit /\ [][DNext \/ Renewal]_vars

\* One operation is claimed MaxFence times; two of them at most twice each, and
\* no process dies once both are there.
Bounded ==
    \/ Cardinality({o \in Ops : ops[o].status # "ABSENT"}) <= 1
    \/ /\ \A o \in Ops : ops[o].fencing <= 2
       /\ \A p \in Procs : pc[p] # "down"

Alike == Permutations({w1, w2}) \cup Permutations({o1, o2})
=============================================================================
