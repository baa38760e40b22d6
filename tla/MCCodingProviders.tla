------------------------- MODULE MCCodingProviders -------------------------
EXTENDS CodingProviders, TLC

Symmetry == Permutations(Callers) \cup Permutations(Paths)

\* Another beginning: every operation has answered, result() has saved the answer,
\* and the processes that asked for it have been restarted.  The patches are to be
\* applied, by six calls one after the other or by three of which two overlap.
Answer(o) == [op |-> o, task |-> <<o \in LiveOps, 1>>, status |-> "SUCCEEDED"]

Answered ==
  /\ operation = [o \in Ops |-> [state |-> "RESULT_AVAILABLE", task |-> Answer(o).task,
                                 reference |-> TRUE]]
  /\ result = [o \in Ops |-> Answer(o)] /\ receipt = [o \in Ops |-> Receipt(Answer(o))]
  /\ effect = [o \in Ops |-> None] /\ cancellation = [o \in Ops |-> None]
  /\ files = BaseFiles /\ base = BaseFiles /\ commits = 0 /\ staged = {}
  /\ tasks = [c \in Callers |-> << >>]
  /\ charges = [o \in Ops |-> IF o \in LiveOps THEN 1 ELSE 0]
  /\ pc = [c \in Callers |-> "idle"] /\ frame = [c \in Callers |-> None]
  /\ overlapped = {} /\ crossed = {} /\ edited = FALSE /\ calls = MaxCalls - 6 /\ faults = 0

SpecFromEither == (Init \/ Answered) /\ [][Next]_vars
=============================================================================
