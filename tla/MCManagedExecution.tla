------------------------- MODULE MCManagedExecution -------------------------
(* Instances of ManagedExecution for TLC. *)
EXTENDS ManagedExecution, TLC

CONSTANT Driver    \* the process that drives the execution

ASSUME DriverAssumption == Driver \in Procs

\* Tasks are interchangeable: no step and no safety property names one.
TaskSymmetry == Permutations(Tasks)

\* One process drives the execution and reconciles it, while the others decide
\* on the plan and on its review, and cancel it; nobody crashes or interferes.
NextOfOneDriver ==
    \/ Drive(Driver) \/ Decide(Driver)
    \/ \E p \in Procs :
          \/ DecidePlan(p) \/ ApproveReview(p) \/ RejectReview(p) \/ CancelExecution(p)
          \/ Continue(p) \/ PerformRaises(p)

SpecOfOneDriver == Init /\ [][NextOfOneDriver]_vars
=============================================================================
