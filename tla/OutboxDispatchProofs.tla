------------------------ MODULE OutboxDispatchProofs ------------------------
(***************************************************************************)
(* Proofs about OutboxRepository and OutboxDispatch for any processes,     *)
(* operations and bounds.                                                  *)
(*                                                                         *)
(* The repository.  All operations are changed one at a time by the same   *)
(* few helpers, so the argument is made once per record: OpOK is the       *)
(* inductive invariant of one operation, OpStep what one repository call   *)
(* may do to it, and each helper is shown to keep the first and to make    *)
(* the second true.                                                        *)
(*                                                                         *)
(* The workers.  Above the repository's invariant stand three facts of     *)
(* each process: where it is and what its claim says there (Place), what   *)
(* its result application has counted (Ledger), and that no result is kept *)
(* in vain (Returned).  They are stated over values, so that a step of one *)
(* process is one lemma about its own new values, and another about what   *)
(* it does to the operations of the others (Progress, Silent).             *)
(***************************************************************************)
EXTENDS OutboxDispatch, SequenceTheorems, FiniteSetTheorems, TLAPS

(***************************************************************************)
(* The repository.                                                         *)
(***************************************************************************)

InWork == {"CLAIMED", "DISPATCHING"}

\* The claim part of the invariant.  A delay left over from RETRY_WAIT must
\* be known to be 0 before a claim can be, or SUCCEEDED would not be final.
ClaimOK(op) ==
    /\ op.ttl <= TTL
    /\ op.delay <= MaxDelay
    /\ op.status \in InWork <=> op.holder # 0
    /\ op.holder # 0 => op.holder = op.fencing
    /\ op.ttl > 0 => op.holder # 0
    /\ op.status \in InWork \cup {"SUCCEEDED", "RECONCILIATION_REQUIRED"}
         => op.delay = 0
    /\ op.status = "ABSENT" => op.fencing = 0

\* The attempt part.
AttemptOK(op) ==
    /\ Len(op.attempts) = op.attemptCount
    /\ op.attemptCount <= op.fencing
    /\ op.status = "CLAIMED" => op.attemptCount < op.fencing
    /\ op.status = "DISPATCHING"
         => op.attempts # <<>> /\ op.attempts[Len(op.attempts)] = "STARTED"
    /\ op.status = "SUCCEEDED" /\ op.attempts # <<>>
         => op.attempts[Len(op.attempts)] # "STARTED"

OpOK(op) == op \in OutboxOperation /\ ClaimOK(op) /\ AttemptOK(op)

\* The inductive invariant.
IInv ==
    /\ ops \in [Ops -> OutboxOperation]
    /\ \A o \in Ops : OpOK(ops[o])
    /\ paused \subseteq Providers
    /\ KeysUnique

\* _validate_claim on a record.
Holds(op, fence) == op.ttl > 0 /\ op.fencing = fence /\ op.holder = fence

Kept(old, new) ==
    /\ Len(old) <= Len(new)
    /\ \A i \in 1..Len(old) :
          old[i] # new[i] => old[i] = "STARTED" /\ i = Len(old)

\* What one repository call may do to one operation.
OpStep(a, b) ==
    /\ Kept(a.attempts, b.attempts)
    /\ a.status = "SUCCEEDED" => b = a
    /\ \A fence \in 1..a.fencing : ~Holds(a, fence) => ~Holds(b, fence)
    /\ a.status = "DISPATCHING" /\ a.ttl = 0 /\ b.status # "DISPATCHING"
         => b.status = "RECONCILIATION_REQUIRED" /\ b.recon = "REQUIRED"

-----------------------------------------------------------------------------
(* Lemmas about the helpers.                                                *)

\* A call that does not touch an operation is a step of it.
LEMMA KeptRefl ==
    ASSUME NEW op \in OutboxOperation
    PROVE  Kept(op.attempts, op.attempts)
  BY DEF Kept, OutboxOperation

\* _finish_attempt changes nothing but the last, open entry of the history.
LEMMA FinishedProperties ==
    ASSUME NEW op \in OutboxOperation, NEW x \in Outcome \ {"STARTED"}
    PROVE  LET f == Finished(op, x)
           IN  /\ f \in OutboxOperation
               /\ f.status = op.status /\ f.recon = op.recon
               /\ f.holder = op.holder /\ f.ttl = op.ttl
               /\ f.fencing = op.fencing /\ f.delay = op.delay
               /\ f.attemptCount = op.attemptCount
               /\ Len(f.attempts) = Len(op.attempts)
               /\ Kept(op.attempts, f.attempts)
               /\ f.attempts # <<>> => f.attempts[Len(f.attempts)] # "STARTED"
<1>. DEFINE h == op.attempts
            n == Len(h)
<1>0. h \in Seq(Outcome) /\ n \in Nat
  BY DEF OutboxOperation
<1>1. CASE h # <<>> /\ h[n] = "STARTED"
  <2>. DEFINE g == [h EXCEPT ![n] = x]
  <2>1. n \in 1..n
    BY <1>0, <1>1, EmptySeq
  <2>2. /\ g \in Seq(Outcome)
        /\ Len(g) = n
        /\ \A j \in 1..n : g[j] = IF j = n THEN x ELSE h[j]
    BY <1>0, <2>1, ExceptSeq
  <2>3. Finished(op, x) = [op EXCEPT !.attempts = g]
    BY <1>1 DEF Finished, OutboxOperation
  <2>4. Kept(h, g)
    BY <1>0, <1>1, <2>2 DEF Kept
  <2>. HIDE DEF g
  <2>. QED
    BY <1>0, <2>1, <2>2, <2>3, <2>4 DEF OutboxOperation
<1>2. CASE ~(h # <<>> /\ h[n] = "STARTED")
  BY <1>2, KeptRefl DEF Finished, OutboxOperation
<1>. QED
  BY <1>1, <1>2

\* A call that leaves an operation alone.
LEMMA SameOK ==
    ASSUME NEW op, OpOK(op)
    PROVE  OpStep(op, op)
  BY KeptRefl DEF OpStep, OpOK

\* _claim, on an operation that is not in work and has no delay left.
LEMMA ClaimedOK ==
    ASSUME NEW op, OpOK(op), NEW r \in ReconciliationState, op.delay = 0,
           op.status \in {"PENDING", "RETRY_WAIT", "RECONCILIATION_REQUIRED"}
    PROVE  LET c == Claimed([op EXCEPT !.recon = r])
           IN  OpOK(c) /\ OpStep(op, c)
<1>. DEFINE m == [op EXCEPT !.recon = r]
            c == Claimed(m)
<1>0. op \in OutboxOperation /\ TTL \in Nat \ {0}
  BY ConstantsAssumption DEF OpOK
<1>a. /\ m \in OutboxOperation
      /\ m.fencing = op.fencing /\ m.attemptCount = op.attemptCount
      /\ m.attempts = op.attempts /\ m.delay = op.delay
  BY <1>0 DEF OutboxOperation
<1>b. m.fencing + 1 \in Nat /\ "CLAIMED" \in Status /\ TTL \in Nat
  BY <1>0, <1>a DEF OutboxOperation, Status
<1>. HIDE DEF m
<1>1. /\ c \in OutboxOperation
      /\ c.status = "CLAIMED" /\ c.holder = op.fencing + 1 /\ c.ttl = TTL
      /\ c.fencing = op.fencing + 1 /\ c.attemptCount = op.attemptCount
      /\ c.attempts = op.attempts /\ c.delay = op.delay
  BY <1>a, <1>b DEF Claimed, OutboxOperation
<1>. HIDE DEF c
<1>2. ClaimOK(c)
  BY <1>0, <1>1 DEF OpOK, ClaimOK, OutboxOperation, InWork
<1>3. AttemptOK(c)
  BY <1>0, <1>1 DEF OpOK, AttemptOK, OutboxOperation
<1>4. OpStep(op, c)
  <2>1. Kept(op.attempts, c.attempts)
    BY <1>0, <1>1, KeptRefl
  <2>2. \A fence \in 1..op.fencing : ~Holds(c, fence)
    BY <1>0, <1>1 DEF Holds, OutboxOperation
  <2>. QED
    BY <1>1, <2>1, <2>2 DEF OpStep
<1>. QED
  BY <1>1, <1>2, <1>3, <1>4 DEF OpOK, c, m

\* Settling an operation in work: the claim is cleared and the last attempt
\* finished, whatever the new status, reconciliation state and delay are.
LEMMA SettledOK ==
    ASSUME NEW op, OpOK(op), NEW fence, Holds(op, fence),
           NEW s \in {"SUCCEEDED", "RETRY_WAIT", "DEAD_LETTER",
                      "RECONCILIATION_REQUIRED"},
           NEW r \in ReconciliationState, NEW d \in 0..MaxDelay,
           s \in {"SUCCEEDED", "RECONCILIATION_REQUIRED"} => d = 0,
           NEW x \in Outcome \ {"STARTED"}
    PROVE  LET b == Cleared(Finished([op EXCEPT !.status = s, !.recon = r,
                                                !.delay = d], x))
           IN  OpOK(b) /\ OpStep(op, b)
<1>. DEFINE m == [op EXCEPT !.status = s, !.recon = r, !.delay = d]
            f == Finished(m, x)
            b == Cleared(f)
<1>0. op \in OutboxOperation /\ MaxDelay \in Nat /\ TTL \in Nat
  BY ConstantsAssumption DEF OpOK
<1>a. s \in Status /\ d \in Nat
  BY <1>0 DEF Status
<1>1. /\ m \in OutboxOperation
      /\ m.fencing = op.fencing /\ m.attemptCount = op.attemptCount
      /\ m.attempts = op.attempts /\ m.status = s /\ m.delay = d
  BY <1>0, <1>a DEF OutboxOperation
<1>. HIDE DEF m
<1>2. /\ f \in OutboxOperation
      /\ f.status = s /\ f.fencing = op.fencing /\ f.delay = d
      /\ f.attemptCount = op.attemptCount
      /\ Len(f.attempts) = Len(op.attempts)
      /\ Kept(op.attempts, f.attempts)
      /\ f.attempts # <<>> => f.attempts[Len(f.attempts)] # "STARTED"
  BY <1>1, FinishedProperties
<1>. HIDE DEF f
<1>3. /\ b \in OutboxOperation
      /\ b.status = s /\ b.holder = 0 /\ b.ttl = 0 /\ b.delay = d
      /\ b.fencing = op.fencing /\ b.attemptCount = op.attemptCount
      /\ b.attempts = f.attempts
  BY <1>2 DEF Cleared, OutboxOperation
<1>. HIDE DEF b
<1>4. ClaimOK(b)
  BY <1>0, <1>3 DEF ClaimOK, OutboxOperation, InWork
<1>5. AttemptOK(b)
  BY <1>0, <1>2, <1>3 DEF OpOK, AttemptOK, OutboxOperation
<1>6. OpStep(op, b)
  <2>1. op.status \in InWork /\ op.ttl # 0
    BY DEF OpOK, ClaimOK, Holds, OutboxOperation
  <2>2. \A q \in 1..op.fencing : ~Holds(b, q)
    BY <1>3 DEF Holds
  <2>. QED
    BY <1>2, <1>3, <2>1, <2>2 DEF OpStep, InWork
<1>. QED
  BY <1>3, <1>4, <1>5, <1>6 DEF OpOK, b, f, m

\* recover_expired, on every operation.
LEMMA RecoveredOK ==
    ASSUME NEW op, OpOK(op)
    PROVE  OpOK(RecoveredOp(op)) /\ OpStep(op, RecoveredOp(op))
<1>. DEFINE b == RecoveredOp(op)
<1>0. op \in OutboxOperation /\ TTL \in Nat /\ MaxDelay \in Nat
  BY ConstantsAssumption DEF OpOK
<1>1. CASE ~Expired(op)
  BY <1>1, SameOK DEF RecoveredOp
<1>2. CASE Expired(op)
  <2>1. /\ b \in OutboxOperation
        /\ b.holder = 0 /\ b.ttl = 0 /\ b.delay = op.delay
        /\ b.fencing = op.fencing /\ b.attemptCount = op.attemptCount
        /\ b.attempts = op.attempts
        /\ op.status = "CLAIMED" => b.status = "PENDING"
        /\ op.status = "DISPATCHING"
             => b.status = "RECONCILIATION_REQUIRED" /\ b.recon = "REQUIRED"
    BY <1>0, <1>2
       DEF RecoveredOp, Expired, Cleared, OutboxOperation, Status,
           ReconciliationState
  <2>2. op.status \in InWork /\ op.delay = 0
    BY <1>2 DEF Expired, InWork, OpOK, ClaimOK
  <2>. HIDE DEF b
  <2>3. ClaimOK(b)
    BY <1>0, <2>1, <2>2 DEF ClaimOK, InWork, OutboxOperation
  <2>4. AttemptOK(b)
    BY <1>0, <2>1, <2>2 DEF OpOK, AttemptOK, InWork, OutboxOperation
  <2>5. OpStep(op, b)
    <3>1. Kept(op.attempts, b.attempts)
      BY <1>0, <2>1, KeptRefl
    <3>2. \A q \in 1..op.fencing : ~Holds(b, q)
      BY <2>1 DEF Holds
    <3>. QED
      BY <2>1, <2>2, <3>1, <3>2 DEF OpStep, InWork
  <2>. QED
    BY <2>1, <2>3, <2>4, <2>5 DEF OpOK, b
<1>. QED
  BY <1>1, <1>2

\* Changing the status of an operation that is not in work, by an operator
\* call or by adding it; retry_dead_letter also drops the delay.
LEMMA RestatusedOK ==
    ASSUME NEW op, OpOK(op), op.status \notin InWork \cup {"SUCCEEDED"},
           NEW s \in {"PENDING", "CANCELLED", "DEAD_LETTER"},
           NEW d \in {0, op.delay}
    PROVE  LET b == [op EXCEPT !.status = s, !.delay = d]
           IN  OpOK(b) /\ OpStep(op, b)
<1>. DEFINE b == [op EXCEPT !.status = s, !.delay = d]
<1>0. /\ op \in OutboxOperation /\ s \in Status /\ d \in Nat
      /\ d <= MaxDelay /\ MaxDelay \in Nat
  BY ConstantsAssumption DEF OpOK, ClaimOK, OutboxOperation, Status
<1>1. /\ b \in OutboxOperation
      /\ b.status = s /\ b.holder = op.holder /\ b.ttl = op.ttl
      /\ b.delay = d /\ b.fencing = op.fencing
      /\ b.attemptCount = op.attemptCount /\ b.attempts = op.attempts
  BY <1>0 DEF OutboxOperation
<1>. HIDE DEF b
<1>2. ClaimOK(b)
  BY <1>0, <1>1 DEF OpOK, ClaimOK, InWork, OutboxOperation
<1>3. AttemptOK(b)
  BY <1>0, <1>1 DEF OpOK, AttemptOK, OutboxOperation
<1>4. OpStep(op, b)
  BY <1>0, <1>1, KeptRefl DEF OpStep, InWork, Holds
<1>. QED
  BY <1>1, <1>2, <1>3, <1>4 DEF OpOK, b

\* renew_claim
LEMMA RenewedOK ==
    ASSUME NEW op, OpOK(op), NEW fence, Holds(op, fence)
    PROVE  LET b == [op EXCEPT !.ttl = TTL]
           IN  OpOK(b) /\ OpStep(op, b)
<1>. DEFINE b == [op EXCEPT !.ttl = TTL]
<1>0. op \in OutboxOperation /\ TTL \in Nat
  BY ConstantsAssumption DEF OpOK
<1>1. /\ b \in OutboxOperation
      /\ b.status = op.status /\ b.holder = op.holder /\ b.ttl = TTL
      /\ b.delay = op.delay /\ b.fencing = op.fencing
      /\ b.attemptCount = op.attemptCount /\ b.attempts = op.attempts
  BY <1>0 DEF OutboxOperation
<1>. HIDE DEF b
<1>2. op.ttl > 0 /\ op.holder = op.fencing /\ op.holder # 0
      /\ op.status \in InWork
  BY DEF Holds, OpOK, ClaimOK
<1>3. ClaimOK(b)
  BY <1>0, <1>1, <1>2 DEF OpOK, ClaimOK, InWork, OutboxOperation
<1>4. AttemptOK(b)
  BY <1>0, <1>1 DEF OpOK, AttemptOK, OutboxOperation
<1>5. OpStep(op, b)
  BY <1>0, <1>1, <1>2, KeptRefl DEF OpStep, InWork, Holds, OutboxOperation
<1>. QED
  BY <1>1, <1>3, <1>4, <1>5 DEF OpOK, b

\* release_claim
LEMMA ReleasedOK ==
    ASSUME NEW op, OpOK(op), NEW fence, Holds(op, fence),
           op.status = "CLAIMED"
    PROVE  LET b == [Cleared(op) EXCEPT !.status = "PENDING"]
           IN  OpOK(b) /\ OpStep(op, b)
<1>. DEFINE b == [Cleared(op) EXCEPT !.status = "PENDING"]
<1>0. op \in OutboxOperation /\ TTL \in Nat
  BY ConstantsAssumption DEF OpOK
<1>1. /\ b \in OutboxOperation
      /\ b.status = "PENDING" /\ b.holder = 0 /\ b.ttl = 0
      /\ b.delay = op.delay /\ b.fencing = op.fencing
      /\ b.attemptCount = op.attemptCount /\ b.attempts = op.attempts
  BY <1>0 DEF OutboxOperation, Cleared, Status
<1>. HIDE DEF b
<1>2. ClaimOK(b)
  BY <1>0, <1>1 DEF OpOK, ClaimOK, InWork, OutboxOperation
<1>3. AttemptOK(b)
  BY <1>0, <1>1 DEF OpOK, AttemptOK, OutboxOperation
<1>4. OpStep(op, b)
  BY <1>0, <1>1, KeptRefl DEF OpStep, Holds
<1>. QED
  BY <1>1, <1>2, <1>3, <1>4 DEF OpOK, b

\* mark_dispatching
LEMMA DispatchingOK ==
    ASSUME NEW op, OpOK(op), NEW fence, Holds(op, fence),
           op.status = "CLAIMED"
    PROVE  LET b == [op EXCEPT !.status = "DISPATCHING",
                               !.attemptCount = op.attemptCount + 1,
                               !.attempts = Append(op.attempts, "STARTED")]
           IN  OpOK(b) /\ OpStep(op, b)
<1>. DEFINE h == Append(op.attempts, "STARTED")
            b == [op EXCEPT !.status = "DISPATCHING",
                            !.attemptCount = op.attemptCount + 1,
                            !.attempts = h]
<1>0. op \in OutboxOperation /\ TTL \in Nat
  BY ConstantsAssumption DEF OpOK
<1>1. /\ h \in Seq(Outcome) /\ h # <<>>
      /\ Len(h) = Len(op.attempts) + 1
      /\ \A i \in 1..Len(op.attempts) : h[i] = op.attempts[i]
      /\ h[Len(op.attempts) + 1] = "STARTED"
  <2>1. op.attempts \in Seq(Outcome) /\ "STARTED" \in Outcome
    BY <1>0 DEF OutboxOperation, Outcome
  <2>. QED
    BY <2>1, AppendProperties
<1>2. op.attemptCount + 1 \in Nat /\ "DISPATCHING" \in Status
  BY <1>0 DEF OutboxOperation, Status
<1>. HIDE DEF h
<1>3. /\ b \in OutboxOperation
      /\ b.status = "DISPATCHING" /\ b.holder = op.holder
      /\ b.ttl = op.ttl /\ b.delay = op.delay /\ b.fencing = op.fencing
      /\ b.attemptCount = op.attemptCount + 1 /\ b.attempts = h
  BY <1>0, <1>1, <1>2 DEF OutboxOperation
<1>. HIDE DEF b
<1>4. ClaimOK(b)
  BY <1>0, <1>3 DEF OpOK, ClaimOK, InWork, OutboxOperation
<1>5. AttemptOK(b)
  BY <1>0, <1>1, <1>3 DEF OpOK, AttemptOK, OutboxOperation
<1>6. Kept(op.attempts, b.attempts)
  BY <1>0, <1>1, <1>3 DEF Kept, OutboxOperation
<1>7. OpStep(op, b)
  BY <1>0, <1>3, <1>6 DEF OpStep, Holds
<1>. QED
  BY <1>3, <1>4, <1>5, <1>7 DEF OpOK, b, h

\* One unit of the clock, seen by one operation.
Ticked(op) ==
    [op EXCEPT !.ttl = IF op.ttl > 0 THEN op.ttl - 1 ELSE 0,
               !.delay = IF op.delay > 0 THEN op.delay - 1 ELSE 0]

\* The passing of time keeps a record sound: it only counts ttl and delay down.
LEMMA TickedOK ==
    ASSUME NEW op, OpOK(op)
    PROVE  OpOK(Ticked(op)) /\ OpStep(op, Ticked(op))
<1>. DEFINE b == Ticked(op)
            t == IF op.ttl > 0 THEN op.ttl - 1 ELSE 0
            d == IF op.delay > 0 THEN op.delay - 1 ELSE 0
<1>0. op \in OutboxOperation /\ TTL \in Nat /\ MaxDelay \in Nat
  BY ConstantsAssumption DEF OpOK
<1>1. t \in Nat /\ d \in Nat /\ t <= op.ttl /\ d <= op.delay
  BY <1>0 DEF OutboxOperation
<1>. HIDE DEF t, d
<1>2. b = [op EXCEPT !.ttl = t, !.delay = d]
  BY DEF Ticked, t, d
<1>3. /\ b \in OutboxOperation
      /\ b.status = op.status /\ b.holder = op.holder /\ b.ttl = t
      /\ b.delay = d /\ b.fencing = op.fencing /\ b.recon = op.recon
      /\ b.attemptCount = op.attemptCount /\ b.attempts = op.attempts
  BY <1>0, <1>1, <1>2 DEF OutboxOperation
<1>4. ClaimOK(b)
  BY <1>0, <1>1, <1>3 DEF OpOK, ClaimOK, InWork, OutboxOperation
<1>5. AttemptOK(b)
  BY <1>0, <1>3 DEF OpOK, AttemptOK, OutboxOperation
<1>6. ASSUME op.status = "SUCCEEDED" PROVE b = op
  <2>1. op.ttl = 0 /\ op.delay = 0
    BY <1>0, <1>6 DEF OpOK, ClaimOK, InWork, OutboxOperation
  <2>2. t = op.ttl /\ d = op.delay
    BY <2>1 DEF t, d
  <2>. QED
    BY <1>0, <1>2, <2>2 DEF OutboxOperation
<1>7. OpStep(op, b)
  BY <1>0, <1>1, <1>3, <1>6, KeptRefl DEF OpStep, Holds, OutboxOperation
<1>. QED
  BY <1>3, <1>4, <1>5, <1>7 DEF OpOK

-----------------------------------------------------------------------------
(* One step of the repository.                                              *)

\* Every operation stays well-formed and takes a step of its own.
StepOK ==
    /\ ops' \in [Ops -> OutboxOperation]
    /\ \A q \in Ops : OpOK(ops'[q]) /\ OpStep(ops[q], ops'[q])

\* An operation that is not in the outbox is not put there.
AbsentStays ==
    \A q \in Ops : ops[q].status = "ABSENT" => ops'[q].status = "ABSENT"

\* A call that replaces the record of one operation.
LEMMA OneOperation ==
    ASSUME IInv, NEW o \in Ops, NEW b, OpOK(b), OpStep(ops[o], b),
           ops' = [ops EXCEPT ![o] = b]
    PROVE  StepOK /\ (ops[o].status # "ABSENT" => AbsentStays)
<1>1. \A q \in Ops : ops'[q] = IF q = o THEN b ELSE ops[q]
  BY DEF IInv
<1>2. ops' \in [Ops -> OutboxOperation]
  BY DEF IInv, OpOK
<1>3. \A q \in Ops : OpOK(ops'[q]) /\ OpStep(ops[q], ops'[q])
  BY <1>1, SameOK DEF IInv
<1>. QED
  BY <1>1, <1>2, <1>3 DEF StepOK, AbsentStays

\* A presented claim that validates is on an operation in work.
LEMMA AuthorisedHolds ==
    ASSUME IInv, NEW o \in Ops, NEW fence, Authorised(o, fence)
    PROVE  /\ OpOK(ops[o])
           /\ Holds(ops[o], fence)
           /\ ops[o].status \in InWork
           /\ ops[o].delay = 0
           /\ ops[o].recon \in ReconciliationState
  BY DEF IInv, Authorised, Holds, OpOK, ClaimOK, OutboxOperation

\* Recovering every expired claim.
LEMMA RecoveredStep ==
    ASSUME IInv
    PROVE  /\ Recovered \in [Ops -> OutboxOperation]
           /\ \A q \in Ops : /\ OpOK(Recovered[q])
                             /\ OpStep(ops[q], Recovered[q])
                             /\ ops[q].status = "ABSENT"
                                  => Recovered[q] = ops[q]
<1>1. \A q \in Ops : OpOK(RecoveredOp(ops[q])) /\ OpStep(ops[q], RecoveredOp(ops[q]))
  BY RecoveredOK DEF IInv
<1>2. \A q \in Ops : ops[q].status = "ABSENT" => RecoveredOp(ops[q]) = ops[q]
  BY DEF RecoveredOp, Expired
<1>. QED
  BY <1>1, <1>2 DEF Recovered, OpOK

\* The calls that present a claim.
LEMMA ClaimCallOK ==
    ASSUME IInv, NEW o \in Ops, NEW fence, ClaimCall(o, fence)
    PROVE  StepOK /\ AbsentStays /\ UNCHANGED paused
<1>. DEFINE op == ops[o]
<1>0. Authorised(o, fence) /\ UNCHANGED paused
  BY DEF ClaimCall, RenewClaim, ReleaseClaim, MarkDispatching, MarkSucceeded,
         MarkRetryWait, MarkReconciliationRequired, MarkDeadLetter
<1>1. /\ OpOK(op) /\ Holds(op, fence) /\ op.status \in InWork
      /\ op.delay = 0 /\ op.recon \in ReconciliationState
      /\ op \in OutboxOperation /\ ops \in [Ops -> OutboxOperation]
      /\ op.status # "ABSENT"
  BY <1>0, AuthorisedHolds DEF IInv, OpOK, InWork
<1>2. 0 \in 0..MaxDelay
  BY ConstantsAssumption
<1>3. CASE RenewClaim(o, fence)
  <2>1. ops' = [ops EXCEPT ![o] = [op EXCEPT !.ttl = TTL]]
    BY <1>3, <1>1 DEF RenewClaim
  <2>. QED
    BY <1>0, <1>1, <2>1, RenewedOK, OneOperation
<1>4. CASE ReleaseClaim(o, fence)
  BY <1>0, <1>1, <1>4, ReleasedOK, OneOperation DEF ReleaseClaim
<1>5. CASE MarkDispatching(o, fence)
  <2>1. ops' = [ops EXCEPT ![o] =
                  [op EXCEPT !.status = "DISPATCHING",
                             !.attemptCount = op.attemptCount + 1,
                             !.attempts = Append(op.attempts, "STARTED")]]
    BY <1>5, <1>1 DEF MarkDispatching, OutboxOperation
  <2>2. op.status = "CLAIMED"
    BY <1>5 DEF MarkDispatching
  <2>. QED
    BY <1>0, <1>1, <2>1, <2>2, DispatchingOK, OneOperation
<1>6. CASE MarkSucceeded(o, fence)
  <2>. DEFINE b == Cleared(Finished([op EXCEPT !.status = "SUCCEEDED",
                                               !.recon = "RESOLVED",
                                               !.delay = 0], "SUCCEEDED"))
  <2>1. [op EXCEPT !.status = "SUCCEEDED", !.recon = "RESOLVED"]
         = [op EXCEPT !.status = "SUCCEEDED", !.recon = "RESOLVED", !.delay = 0]
    BY <1>1 DEF OutboxOperation
  <2>2. ops' = [ops EXCEPT ![o] = b]
    BY <1>6, <2>1 DEF MarkSucceeded
  <2>3. OpOK(b) /\ OpStep(op, b)
    <3>1. /\ "RESOLVED" \in ReconciliationState
          /\ "SUCCEEDED" \in Outcome \ {"STARTED"}
      BY DEF ReconciliationState, Outcome
    <3>. QED
      BY <1>1, <1>2, <3>1, SettledOK
  <2>. QED
    BY <1>0, <1>1, <2>2, <2>3, OneOperation
<1>7. ASSUME NEW d \in 0..MaxDelay, MarkRetryWait(o, fence, d)
      PROVE  StepOK /\ AbsentStays /\ UNCHANGED paused
  <2>. DEFINE b == Cleared(Finished([op EXCEPT !.status = "RETRY_WAIT",
                                               !.recon = op.recon,
                                               !.delay = d], "RETRY"))
              e == Cleared(Finished([op EXCEPT !.status = "DEAD_LETTER",
                                               !.recon = op.recon,
                                               !.delay = 0], "DEAD_LETTER"))
  <2>0. "RETRY" \in Outcome \ {"STARTED"} /\ "DEAD_LETTER" \in Outcome \ {"STARTED"}
    BY DEF Outcome
  <2>1. /\ [op EXCEPT !.status = "RETRY_WAIT", !.delay = d]
             = [op EXCEPT !.status = "RETRY_WAIT", !.recon = op.recon, !.delay = d]
        /\ [op EXCEPT !.status = "DEAD_LETTER"]
             = [op EXCEPT !.status = "DEAD_LETTER", !.recon = op.recon, !.delay = 0]
    BY <1>1 DEF OutboxOperation
  <2>2. ops' = [ops EXCEPT ![o] = b] \/ ops' = [ops EXCEPT ![o] = e]
    BY <1>7, <2>1 DEF MarkRetryWait, DeadLettered
  <2>3. OpOK(b) /\ OpStep(op, b)
    BY <1>1, <2>0, SettledOK
  <2>4. OpOK(e) /\ OpStep(op, e)
    BY <1>1, <1>2, <2>0, SettledOK
  <2>. QED
    BY <1>0, <1>1, <2>2, <2>3, <2>4, OneOperation
<1>8. CASE MarkReconciliationRequired(o, fence)
  <2>. DEFINE b == Cleared(Finished([op EXCEPT
                             !.status = "RECONCILIATION_REQUIRED",
                             !.recon = "REQUIRED", !.delay = 0], "UNCERTAIN"))
  <2>1. [op EXCEPT !.status = "RECONCILIATION_REQUIRED", !.recon = "REQUIRED"]
         = [op EXCEPT !.status = "RECONCILIATION_REQUIRED",
                      !.recon = "REQUIRED", !.delay = 0]
    BY <1>1 DEF OutboxOperation
  <2>2. ops' = [ops EXCEPT ![o] = b]
    BY <1>8, <2>1 DEF MarkReconciliationRequired
  <2>3. OpOK(b) /\ OpStep(op, b)
    <3>1. /\ "REQUIRED" \in ReconciliationState
          /\ "UNCERTAIN" \in Outcome \ {"STARTED"}
      BY DEF ReconciliationState, Outcome
    <3>. QED
      BY <1>1, <1>2, <3>1, SettledOK
  <2>. QED
    BY <1>0, <1>1, <2>2, <2>3, OneOperation
<1>9. CASE MarkDeadLetter(o, fence)
  <2>. DEFINE b == Cleared(Finished([op EXCEPT !.status = "DEAD_LETTER",
                                               !.recon = op.recon,
                                               !.delay = 0], "DEAD_LETTER"))
  <2>1. [op EXCEPT !.status = "DEAD_LETTER"]
         = [op EXCEPT !.status = "DEAD_LETTER", !.recon = op.recon, !.delay = 0]
    BY <1>1 DEF OutboxOperation
  <2>2. ops' = [ops EXCEPT ![o] = b]
    BY <1>9, <2>1 DEF MarkDeadLetter, DeadLettered
  <2>3. OpOK(b) /\ OpStep(op, b)
    <3>1. "DEAD_LETTER" \in Outcome \ {"STARTED"}
      BY DEF Outcome
    <3>. QED
      BY <1>1, <1>2, <3>1, SettledOK
  <2>. QED
    BY <1>0, <1>1, <2>2, <2>3, OneOperation
<1>. QED
  BY <1>3, <1>4, <1>5, <1>6, <1>7, <1>8, <1>9 DEF ClaimCall

\* The two ways to take a claim.
LEMMA ClaimingOK ==
    ASSUME IInv, NEW o \in Ops, ClaimNext(o) \/ ClaimReconciliation(o)
    PROVE  StepOK /\ AbsentStays /\ UNCHANGED paused
<1>1. CASE ClaimNext(o)
  <2>. DEFINE r == Recovered[o]
              c == Claimed([r EXCEPT !.recon = r.recon])
  <2>1. /\ OpOK(r) /\ OpStep(ops[o], r) /\ r \in OutboxOperation
        /\ Recovered \in [Ops -> OutboxOperation]
        /\ \A q \in Ops : OpOK(Recovered[q]) /\ OpStep(ops[q], Recovered[q])
    BY RecoveredStep
  <2>2. r.status \in {"PENDING", "RETRY_WAIT"} /\ r.delay = 0
    BY <1>1 DEF ClaimNext, First, Eligible
  <2>3. r.recon \in ReconciliationState /\ r = [r EXCEPT !.recon = r.recon]
    BY <2>1 DEF OutboxOperation
  <2>4. OpOK(c) /\ OpStep(r, c)
    BY <2>1, <2>2, <2>3, ClaimedOK
  <2>5. ops' = [Recovered EXCEPT ![o] = c] /\ UNCHANGED paused
    BY <1>1, <2>3 DEF ClaimNext
  <2>. HIDE DEF c
  <2>6. \A q \in Ops : ops'[q] = IF q = o THEN c ELSE Recovered[q]
    BY <2>1, <2>5
  <2>7. /\ ops[o] \in OutboxOperation /\ OpOK(ops[o])
        /\ c \in OutboxOperation
        /\ ops[o].status \notin {"SUCCEEDED", "ABSENT"}
    <3>1. ops[o] \in OutboxOperation /\ OpOK(ops[o]) /\ c \in OutboxOperation
      BY <2>4 DEF IInv, OpOK
    <3>2. ops[o].status = "ABSENT" => r = ops[o]
      BY RecoveredStep
    <3>. QED
      BY <2>1, <2>2, <3>1, <3>2 DEF OpStep
  <2>8. OpStep(ops[o], c)
    \* Recovery and the claim compose: neither hands authority back.
    <3>1. c.attempts = r.attempts /\ c.ttl = TTL /\ c.status = "CLAIMED"
          /\ c.fencing = r.fencing + 1
      BY <2>1, <2>3 DEF c, Claimed, OutboxOperation
    <3>2. r.fencing = ops[o].fencing /\ r.attempts = ops[o].attempts
      BY <2>7 DEF Recovered, RecoveredOp, Cleared, OutboxOperation
    <3>3. Kept(ops[o].attempts, c.attempts)
      BY <2>7, <3>1, <3>2, KeptRefl
    <3>4. \A fence \in 1..ops[o].fencing : ~Holds(c, fence)
      BY <2>7, <3>1, <3>2 DEF Holds, OutboxOperation
    <3>5. ~(ops[o].status = "DISPATCHING" /\ ops[o].ttl = 0)
      <4>1. SUFFICES ASSUME ops[o].status = "DISPATCHING", ops[o].ttl = 0
                     PROVE  FALSE
        OBVIOUS
      <4>2. Expired(ops[o])
        BY <2>7, <4>1 DEF Expired, OpOK, ClaimOK, InWork
      <4>3. r.status = "RECONCILIATION_REQUIRED"
        BY <2>7, <4>1, <4>2 DEF Recovered, RecoveredOp, Cleared, OutboxOperation
      <4>. QED
        BY <2>2, <4>3
    <3>. QED
      BY <2>7, <3>3, <3>4, <3>5 DEF OpStep
  <2>9. ops' \in [Ops -> OutboxOperation]
    BY <2>1, <2>5, <2>7
  <2>10. StepOK
    BY <2>1, <2>4, <2>6, <2>8, <2>9 DEF StepOK
  <2>11. AbsentStays
    BY <2>6, <2>7, RecoveredStep DEF AbsentStays
  <2>. QED
    BY <2>5, <2>10, <2>11
<1>2. CASE ClaimReconciliation(o)
  <2>. DEFINE c == Claimed([ops[o] EXCEPT !.recon = "IN_PROGRESS"])
  <2>1. OpOK(ops[o]) /\ ops[o].status = "RECONCILIATION_REQUIRED"
    BY <1>2 DEF IInv, ClaimReconciliation, First
  <2>2. "IN_PROGRESS" \in ReconciliationState /\ ops[o].delay = 0
    BY <2>1 DEF ReconciliationState, OpOK, ClaimOK
  <2>3. OpOK(c) /\ OpStep(ops[o], c)
    BY <2>1, <2>2, ClaimedOK
  <2>. QED
    BY <1>2, <2>1, <2>3, OneOperation DEF ClaimReconciliation
<1>. QED
  BY <1>1, <1>2

\* The operator's calls.
LEMMA OperatorCallOK ==
    ASSUME IInv, NEW o \in Ops, OperatorCall(o)
    PROVE  StepOK /\ AbsentStays /\ UNCHANGED paused
<1>. DEFINE op == ops[o]
            R(s, d) == [op EXCEPT !.status = s, !.delay = d]
<1>1. /\ OpOK(op) /\ op \in OutboxOperation
      /\ ops \in [Ops -> OutboxOperation]
      /\ op.status \notin InWork \cup {"SUCCEEDED", "ABSENT"}
      /\ UNCHANGED paused
  BY DEF IInv, OpOK, OperatorCall, CancelOperation, AbandonOperation,
         RetryDeadLetter, InWork
<1>2. \/ ops' = [ops EXCEPT ![o] = R("CANCELLED", op.delay)]
      \/ ops' = [ops EXCEPT ![o] = R("DEAD_LETTER", op.delay)]
      \/ ops' = [ops EXCEPT ![o] = R("PENDING", 0)]
  BY <1>1 DEF OperatorCall, CancelOperation, AbandonOperation,
              RetryDeadLetter, OutboxOperation
<1>3. \A s \in {"PENDING", "CANCELLED", "DEAD_LETTER"}, d \in {0, op.delay} :
         OpOK(R(s, d)) /\ OpStep(op, R(s, d))
  BY <1>1, RestatusedOK
<1>. HIDE DEF R
<1>. QED
  BY <1>1, <1>2, <1>3, OneOperation

\* The record of an operation that was never added.
LEMMA AbsentFields ==
    /\ Absent \in OutboxOperation
    /\ Absent.status = "ABSENT" /\ Absent.holder = 0 /\ Absent.ttl = 0
    /\ Absent.fencing = 0 /\ Absent.attemptCount = 0
    /\ Absent.attempts = <<>> /\ Absent.delay = 0
  BY DEF Absent, OutboxOperation, Status, ReconciliationState, Outcome

\* add_operation: the new record is fresh and its key was not in use.
LEMMA AddOperationOK ==
    ASSUME IInv, NEW o \in Ops, AddOperation(o)
    PROVE  StepOK /\ KeysUnique' /\ UNCHANGED paused
<1>. DEFINE b == [Absent EXCEPT !.status = "PENDING"]
<1>1. ops' = [ops EXCEPT ![o] = b] /\ UNCHANGED paused
  BY DEF AddOperation
<1>2. /\ b \in OutboxOperation
      /\ b.status = "PENDING" /\ b.holder = 0 /\ b.ttl = 0 /\ b.fencing = 0
      /\ b.attemptCount = 0 /\ b.attempts = <<>> /\ b.delay = 0
  BY AbsentFields DEF OutboxOperation, Status
<1>. HIDE DEF b
<1>3. OpOK(b)
  BY <1>2, ConstantsAssumption DEF OpOK, ClaimOK, AttemptOK, InWork
<1>4. OpStep(ops[o], b)
  <2>1. OpOK(ops[o]) /\ ops[o].status = "ABSENT"
    BY DEF IInv, AddOperation
  <2>2. ops[o].fencing = 0 /\ Len(ops[o].attempts) = 0
        /\ ops[o].attempts \in Seq(Outcome)
    BY <2>1 DEF OpOK, ClaimOK, AttemptOK, OutboxOperation
  <2>. QED
    BY <1>2, <2>1, <2>2 DEF OpStep, Kept, Holds
<1>5. StepOK
  BY <1>1, <1>3, <1>4, OneOperation
<1>6. KeysUnique'
  <2>1. \A q \in Ops : q # o => ops'[q] = ops[q]
    BY <1>1 DEF IInv
  <2>. QED
    BY <2>1 DEF IInv, KeysUnique, AddOperation
<1>. QED
  BY <1>1, <1>5, <1>6

\* A step that keeps every key, or adds one that is not in use, keeps keys unique.
LEMMA KeysStayUnique ==
    ASSUME IInv, AbsentStays
    PROVE  KeysUnique'
  BY DEF IInv, AbsentStays, KeysUnique

-----------------------------------------------------------------------------
(* The invariant and what follows from it.                                  *)

\* The empty repository satisfies the invariant.
LEMMA InitIInv == Init => IInv
<1>. SUFFICES ASSUME Init PROVE IInv
  OBVIOUS
<1>2. OpOK(Absent)
  BY AbsentFields, ConstantsAssumption DEF OpOK, ClaimOK, AttemptOK, InWork
<1>3. \A o \in Ops : ops[o] = Absent
  BY DEF Init
<1>. QED
  BY AbsentFields, <1>2, <1>3 DEF Init, IInv, KeysUnique

\* Every step of the repository preserves the invariant.
LEMMA StepIInv ==
    ASSUME IInv, [Next]_repoVars
    PROVE  StepOK /\ IInv'
<1>1. ASSUME NEW o \in Ops, AddOperation(o)
      PROVE  StepOK /\ KeysUnique' /\ UNCHANGED paused
  BY <1>1, AddOperationOK
<1>2. ASSUME NEW o \in Ops, ClaimNext(o) \/ ClaimReconciliation(o)
      PROVE  StepOK /\ KeysUnique' /\ UNCHANGED paused
  BY <1>2, ClaimingOK, KeysStayUnique
<1>3. ASSUME NEW o \in Ops, NEW fence \in 1..ops[o].fencing, ClaimCall(o, fence)
      PROVE  StepOK /\ KeysUnique' /\ UNCHANGED paused
  BY <1>3, ClaimCallOK, KeysStayUnique
<1>4. ASSUME NEW o \in Ops, OperatorCall(o)
      PROVE  StepOK /\ KeysUnique' /\ UNCHANGED paused
  BY <1>4, OperatorCallOK, KeysStayUnique
<1>5. ASSUME UNCHANGED ops
      PROVE  StepOK /\ KeysUnique'
  BY <1>5, SameOK DEF StepOK, IInv, KeysUnique
<1>6. ASSUME NEW p \in Providers, PauseProvider(p) \/ ResumeProvider(p)
      PROVE  StepOK /\ KeysUnique' /\ (paused \subseteq Providers)'
  BY <1>5, <1>6 DEF PauseProvider, ResumeProvider, IInv
<1>7. ASSUME RecoverExpired
      PROVE  StepOK /\ KeysUnique' /\ UNCHANGED paused
  <2>1. StepOK /\ AbsentStays
    BY <1>7, RecoveredStep DEF RecoverExpired, StepOK, AbsentStays
  <2>. QED
    BY <1>7, <2>1, KeysStayUnique DEF RecoverExpired
<1>8. ASSUME Tick
      PROVE  StepOK /\ KeysUnique' /\ UNCHANGED paused
  <2>1. ops' = [q \in Ops |-> Ticked(ops[q])]
    BY <1>8 DEF Tick, Ticked
  <2>2. \A q \in Ops : ops'[q] = Ticked(ops[q])
    BY <2>1
  <2>3. StepOK
    BY <2>1, <2>2, TickedOK DEF IInv, StepOK, OpOK
  <2>4. AbsentStays
    BY <2>2 DEF IInv, AbsentStays, Ticked, OutboxOperation
  <2>. QED
    BY <1>8, <2>3, <2>4, KeysStayUnique DEF Tick
<1>9. StepOK /\ KeysUnique' /\ (paused \subseteq Providers)'
  BY <1>1, <1>2, <1>3, <1>4, <1>5, <1>6, <1>7, <1>8
     DEF Next, repoVars, IInv
<1>. QED
  BY <1>9 DEF IInv, StepOK

\* The invariant holds in every reachable state.
THEOREM InvariantHolds == Spec => []IInv
<1>1. Init => IInv
  BY InitIInv
<1>2. IInv /\ [Next]_repoVars => IInv'
  BY StepIInv
<1>. QED
  BY <1>1, <1>2, PTL DEF Spec

\* Type correctness of the repository's state.
THEOREM TypeCorrect == Spec => []TypeOK
<1>1. IInv => TypeOK
  BY DEF IInv, TypeOK, OpOK, ClaimOK
<1>. QED
  BY <1>1, InvariantHolds, PTL

\* The safety invariants of the repository, for every number of operations,
\* claims and attempts.
THEOREM ClaimsAreSound ==
    Spec => [](ClaimedIffHeld /\ AttemptsMatchClaims
               /\ LastAttemptOpenWhileDispatching /\ KeysUnique)
<1>1. IInv => ClaimedIffHeld
  BY DEF IInv, ClaimedIffHeld, OpOK, ClaimOK, InWork
<1>2. IInv => AttemptsMatchClaims /\ LastAttemptOpenWhileDispatching
  BY DEF IInv, AttemptsMatchClaims, LastAttemptOpenWhileDispatching, OpOK,
         AttemptOK
<1>3. IInv => KeysUnique
  BY DEF IInv
<1>. QED
  BY <1>1, <1>2, <1>3, InvariantHolds, PTL

\* A claim that _validate_claim has once refused is refused for ever.
THEOREM LostAuthority == Spec => LostAuthorityStaysLost
<1>1. IInv /\ [Next]_repoVars
        => \A o \in Ops : \A fence \in 1..ops[o].fencing :
              ~Authorised(o, fence) => ~Authorised(o, fence)'
  BY StepIInv DEF StepOK, OpStep, Holds, Authorised
<1>. QED
  BY <1>1, InvariantHolds, PTL DEF Spec, LostAuthorityStaysLost

\* A SUCCEEDED operation never changes again.
THEOREM SucceededFinal == Spec => SucceededIsFinal
<1>1. IInv /\ [Next]_repoVars
        => \A o \in Ops : ops[o].status = "SUCCEEDED" => ops'[o] = ops[o]
  BY StepIInv DEF StepOK, OpStep
<1>. QED
  BY <1>1, InvariantHolds, PTL DEF Spec, SucceededIsFinal

\* Closed attempts keep their outcome.
THEOREM HistoryKept == Spec => HistoryIsKept
<1>1. IInv /\ [Next]_repoVars
        => \A o \in Ops : Kept(ops[o].attempts, ops'[o].attempts)
  BY StepIInv DEF StepOK, OpStep
<1>. QED
  BY <1>1, InvariantHolds, PTL DEF Spec, HistoryIsKept, Kept

\* Recovery never guesses the outcome of a dispatch.
THEOREM UncertainReconciled == Spec => UncertainWorkIsReconciled
<1>1. IInv /\ [Next]_repoVars
        => \A o \in Ops :
             /\ ops[o].status = "DISPATCHING"
             /\ ops[o].ttl = 0
             /\ ops'[o].status # "DISPATCHING"
             => /\ ops'[o].status = "RECONCILIATION_REQUIRED"
                /\ ops'[o].recon = "REQUIRED"
  BY StepIInv DEF StepOK, OpStep
<1>. QED
  BY <1>1, InvariantHolds, PTL DEF Spec, UncertainWorkIsReconciled

(***************************************************************************)
(* The workers.                                                            *)
(***************************************************************************)

Away == {"idle", "down"}
Sent == {"calling", "result", "applied", "retry"}
Reconciling == {"querying", "absent", "found", "recorded"}
InHand == {"applied", "marked", "recorded"}

\* A process at l with job j, over the records os and the executed operations ex.
Place(l, j, os, ex) ==
    /\ l \in Locations
    /\ j \in [op : Ops \cup {"none"}, fence : Nat, fresh : BOOLEAN]
    /\ l \in Away => j = NoJob
    /\ l \notin Away =>
          /\ j.op \in Ops /\ j.fence \in Nat /\ j.fence > 0
          /\ j.fence <= os[j.op].fencing /\ j.fence <= MaxFence
          /\ l \in Sent => os[j.op].attemptCount > 0
          /\ l \in Reconciling => os[j.op].recon # "NONE"
          /\ l \in {"result", "applied", "found", "recorded"} => j.op \in ex
          /\ Holds(os[j.op], j.fence) =>
                /\ l \in Sent => os[j.op].status = "DISPATCHING"
                /\ l = "claimed" => os[j.op].status = "CLAIMED"
                /\ l \in Reconciling => os[j.op].status = "CLAIMED"
                                        /\ os[j.op].recon = "IN_PROGRESS"

OfAggregate(ap, a) == {o \in ap : AggregateOf[o] = a}

\* The results ap a process has applied, and the versions ve it counts them in.
Ledger(l, j, ap, ve) ==
    /\ ap \subseteq Ops /\ IsFiniteSet(ap)
    /\ ve \in [Aggregates -> Nat]
    /\ \A a \in Aggregates : ve[a] = Cardinality(OfAggregate(ap, a))
    /\ \A o \in ap : VersionOf[o] < ve[AggregateOf[o]]
    /\ \A o, q \in ap : AggregateOf[o] = AggregateOf[q] /\ VersionOf[o] = VersionOf[q]
                        => o = q
    /\ l \in InHand => j.op \in ap
    /\ l \in {"applied", "marked"} /\ j.fresh => ve[AggregateOf[j.op]] = VersionOf[j.op] + 1

\* Every result applied is recorded, under reconciliation, or about to be recorded.
Returned(l, j, ap, os) ==
    \A o \in ap : \/ os[o].status = "SUCCEEDED"
                  \/ os[o].recon # "NONE"
                  \/ l = "applied" /\ j.fresh /\ j.op = o

\* Of an operation and what has been executed.
Recorded(o) ==
    /\ ops[o].status = "ABSENT" => ops[o].recon = "NONE"
    /\ o \in executed => ops[o].attemptCount > 0
    /\ ops[o].status = "SUCCEEDED" => o \in executed

\* The functions over the processes.
Shape ==
    /\ pc \in [Procs -> Locations] /\ job = [p \in Procs |-> job[p]]
    /\ applied = [p \in Procs |-> applied[p]]
    /\ version = [p \in Procs |-> version[p]]

ProcessOK(p) ==
    /\ Place(pc[p], job[p], ops, executed)
    /\ Ledger(pc[p], job[p], applied[p], version[p])
    /\ Eventing => Returned(pc[p], job[p], applied[p], ops)

\* No other process has been handed the claim of p.
Own(p) ==
    pc[p] \notin Away =>
        \A q \in Procs \ {p} :
            pc[q] \notin Away /\ Op(q) = Op(p) => job[q].fence # job[p].fence

\* The inductive invariant of the composition.
DIInv ==
    /\ IInv
    /\ Shape
    /\ executed \subseteq Ops
    /\ \A o \in Ops : Recorded(o)
    /\ \A p \in Procs : ProcessOK(p) /\ Own(p)

-----------------------------------------------------------------------------
(* What a repository call does to one operation, beyond OpStep.             *)

StatusStep(s, t) ==
    PhaseOf[s] = PhaseOf[t] \/ <<PhaseOf[s], PhaseOf[t]>> \in Lifecycle!Moves

\* Nothing a process relies on is taken back.
Progress(a, b) ==
    /\ a.fencing <= b.fencing
    /\ a.attemptCount <= b.attemptCount
    /\ a.recon # "NONE" => b.recon # "NONE"
    /\ b.status = "ABSENT" => a.status = "ABSENT" /\ b.recon = a.recon
    /\ StatusStep(a.status, b.status)

\* The claim f, if it validates afterwards, finds what it found before.
Silent(a, b, f) ==
    Holds(b, f) => Holds(a, f) /\ b.status = a.status /\ b.recon = a.recon

\* The calls that present no claim.
Unclaimed ==
    \/ \E o \in Ops : AddOperation(o) \/ ClaimNext(o) \/ ClaimReconciliation(o)
    \/ \E o \in Ops : OperatorCall(o)
    \/ \E r \in Providers : PauseProvider(r) \/ ResumeProvider(r)
    \/ RecoverExpired \/ Tick \/ UNCHANGED repoVars

\* The changes of status that the abstract life cycle knows.
LEMMA StatusSteps ==
    /\ \A s \in Status : StatusStep(s, s)
    /\ StatusStep("ABSENT", "PENDING")
    /\ \A s \in {"PENDING", "RETRY_WAIT", "CLAIMED", "RECONCILIATION_REQUIRED"} :
          StatusStep(s, "CLAIMED")
    /\ \A s \in InWork, t \in {"SUCCEEDED", "RETRY_WAIT", "DEAD_LETTER",
                               "RECONCILIATION_REQUIRED"} : StatusStep(s, t)
    /\ StatusStep("CLAIMED", "PENDING")
    /\ StatusStep("CLAIMED", "DISPATCHING")
    /\ \A s \in {"PENDING", "RETRY_WAIT"} : StatusStep(s, "CANCELLED")
    /\ \A s \in {"PENDING", "RETRY_WAIT", "RECONCILIATION_REQUIRED",
                 "DEAD_LETTER", "CANCELLED"} : StatusStep(s, "DEAD_LETTER")
    /\ StatusStep("DEAD_LETTER", "PENDING")
<1>1. /\ PhaseOf["ABSENT"] = "absent" /\ PhaseOf["PENDING"] = "queued"
      /\ PhaseOf["RETRY_WAIT"] = "queued" /\ PhaseOf["CLAIMED"] = "held"
      /\ PhaseOf["DISPATCHING"] = "sent"
      /\ PhaseOf["RECONCILIATION_REQUIRED"] = "uncertain"
      /\ PhaseOf["SUCCEEDED"] = "succeeded"
      /\ PhaseOf["DEAD_LETTER"] = "dead" /\ PhaseOf["CANCELLED"] = "cancelled"
  BY DEF PhaseOf
<1>. HIDE DEF PhaseOf
<1>2. \A s \in Status : StatusStep(s, s)
  BY DEF StatusStep
<1>3. StatusStep("ABSENT", "PENDING")
  BY <1>1 DEF StatusStep, Lifecycle!Moves
<1>4. \A s \in {"PENDING", "RETRY_WAIT", "CLAIMED", "RECONCILIATION_REQUIRED"} :
         StatusStep(s, "CLAIMED")
  BY <1>1 DEF StatusStep, Lifecycle!Moves
<1>5. \A s \in InWork, t \in {"SUCCEEDED", "RETRY_WAIT", "DEAD_LETTER",
                              "RECONCILIATION_REQUIRED"} : StatusStep(s, t)
  BY <1>1 DEF StatusStep, Lifecycle!Moves, InWork
<1>6. StatusStep("CLAIMED", "PENDING") /\ StatusStep("CLAIMED", "DISPATCHING")
  BY <1>1 DEF StatusStep, Lifecycle!Moves
<1>7. \A s \in {"PENDING", "RETRY_WAIT"} : StatusStep(s, "CANCELLED")
  BY <1>1 DEF StatusStep, Lifecycle!Moves
<1>8. \A s \in {"PENDING", "RETRY_WAIT", "RECONCILIATION_REQUIRED",
                "DEAD_LETTER", "CANCELLED"} : StatusStep(s, "DEAD_LETTER")
  BY <1>1 DEF StatusStep, Lifecycle!Moves
<1>9. StatusStep("DEAD_LETTER", "PENDING")
  BY <1>1 DEF StatusStep, Lifecycle!Moves
<1>. QED
  BY <1>2, <1>3, <1>4, <1>5, <1>6, <1>7, <1>8, <1>9

LEMMA RecoveredProgress ==
    ASSUME NEW a, OpOK(a)
    PROVE  LET b == RecoveredOp(a)
           IN  /\ Progress(a, b)
               /\ b.status = "SUCCEEDED" => a.status = "SUCCEEDED"
               /\ \A f : Silent(a, b, f)
               /\ b.fencing = a.fencing
               /\ b.status \in {"PENDING", "RETRY_WAIT"}
                    => a.status \in {"PENDING", "RETRY_WAIT", "CLAIMED"}
<1>. DEFINE b == RecoveredOp(a)
<1>1. a \in OutboxOperation
  BY DEF OpOK
<1>2. CASE ~Expired(a)
  BY <1>1, <1>2, StatusSteps DEF RecoveredOp, Progress, Silent, OutboxOperation
<1>3. CASE Expired(a)
  <2>1. /\ b.fencing = a.fencing /\ b.attemptCount = a.attemptCount
        /\ b.ttl = 0
        /\ \/ a.status = "CLAIMED" /\ b.status = "PENDING" /\ b.recon = a.recon
           \/ /\ a.status = "DISPATCHING" /\ b.status = "RECONCILIATION_REQUIRED"
              /\ b.recon = "REQUIRED"
    BY <1>1, <1>3 DEF RecoveredOp, Expired, Cleared, OutboxOperation
  <2>. HIDE DEF b
  <2>2. Progress(a, b)
    <3>1. StatusStep(a.status, b.status)
      BY <2>1, StatusSteps DEF InWork
    <3>. QED
      BY <1>1, <2>1, <3>1 DEF Progress, OutboxOperation
  <2>3. \A f : Silent(a, b, f)
    BY <2>1 DEF Silent, Holds
  <2>. QED
    BY <2>1, <2>2, <2>3 DEF b
<1>. QED
  BY <1>2, <1>3

LEMMA ClaimedProgress ==
    ASSUME NEW a, OpOK(a), NEW b, OpOK(b), b.fencing = a.fencing,
           a.attemptCount <= b.attemptCount,
           a.status \in {"PENDING", "RETRY_WAIT", "CLAIMED",
                         "RECONCILIATION_REQUIRED"},
           a.recon # "NONE" => b.recon # "NONE"
    PROVE  /\ Progress(a, Claimed(b))
           /\ Claimed(b).status # "SUCCEEDED"
           /\ \A f \in 1..a.fencing : Silent(a, Claimed(b), f)
           /\ Claimed(b).fencing = a.fencing + 1
           /\ Claimed(b).status = "CLAIMED" /\ Claimed(b).recon = b.recon
<1>. DEFINE c == Claimed(b)
<1>1. a \in OutboxOperation /\ b \in OutboxOperation
  BY DEF OpOK
<1>2. /\ c.status = "CLAIMED" /\ c.recon = b.recon
      /\ c.fencing = a.fencing + 1 /\ c.attemptCount = b.attemptCount
  BY <1>1 DEF Claimed, OutboxOperation
<1>. HIDE DEF c
<1>3. Progress(a, c) /\ \A f \in 1..a.fencing : Silent(a, c, f)
  BY <1>1, <1>2, StatusSteps DEF Progress, Silent, Holds, OutboxOperation
<1>. QED
  BY <1>2, <1>3 DEF c

\* A call under a claim: the operation stays in work, or leaves it.
CallStep(a, b) ==
    /\ b.fencing = a.fencing
    /\ b.attemptCount \in {a.attemptCount, a.attemptCount + 1}
    /\ b.recon \in {a.recon, "REQUIRED", "RESOLVED"}
    /\ \/ b.status = a.status
       \/ a.status = "CLAIMED" /\ b.status \in {"PENDING", "DISPATCHING"}
       \/ b.status \in {"SUCCEEDED", "RETRY_WAIT", "DEAD_LETTER",
                        "RECONCILIATION_REQUIRED"}

LEMMA CallStepProgress ==
    ASSUME NEW a, OpOK(a), a.status \in InWork, NEW b, CallStep(a, b)
    PROVE  Progress(a, b)
<1>1. a \in OutboxOperation /\ a.attemptCount <= b.attemptCount
  BY DEF OpOK, CallStep, OutboxOperation
<1>2. StatusStep(a.status, b.status)
  BY <1>1, StatusSteps DEF CallStep, InWork, OutboxOperation
<1>3. b.status # "ABSENT" /\ a.fencing <= b.fencing
  BY <1>1 DEF CallStep, InWork, OutboxOperation
<1>4. a.recon # "NONE" => b.recon # "NONE"
  BY DEF CallStep
<1>. QED
  BY <1>1, <1>2, <1>3, <1>4 DEF Progress

SettledTo(a, s, r, d, x) ==
    Cleared(Finished([a EXCEPT !.status = s, !.recon = r, !.delay = d], x))

LEMMA SettledCall ==
    ASSUME NEW a \in OutboxOperation, NEW s \in Status,
           NEW r \in ReconciliationState, NEW d \in Nat,
           NEW x \in Outcome \ {"STARTED"}
    PROVE  /\ SettledTo(a, s, r, d, x).status = s
           /\ SettledTo(a, s, r, d, x).recon = r
           /\ SettledTo(a, s, r, d, x).fencing = a.fencing
           /\ SettledTo(a, s, r, d, x).attemptCount = a.attemptCount
<1>. DEFINE m == [a EXCEPT !.status = s, !.recon = r, !.delay = d]
            f == Finished(m, x)
<1>1. /\ m \in OutboxOperation /\ m.status = s /\ m.recon = r
      /\ m.fencing = a.fencing /\ m.attemptCount = a.attemptCount
  BY DEF OutboxOperation
<1>. HIDE DEF m
<1>2. /\ f \in OutboxOperation /\ f.status = s /\ f.recon = r
      /\ f.fencing = a.fencing /\ f.attemptCount = a.attemptCount
  BY <1>1, FinishedProperties
<1>. HIDE DEF f
<1>3. /\ Cleared(f).status = s /\ Cleared(f).recon = r
      /\ Cleared(f).fencing = a.fencing
      /\ Cleared(f).attemptCount = a.attemptCount
  BY <1>2 DEF Cleared, OutboxOperation
<1>4. SettledTo(a, s, r, d, x) = Cleared(f)
  BY DEF SettledTo, f, m
<1>. QED
  BY <1>3, <1>4

\* The calls under a claim, but for mark_succeeded.
LEMMA CallFields ==
    ASSUME IInv, NEW o \in Ops, NEW fence,
           \/ RenewClaim(o, fence) \/ ReleaseClaim(o, fence)
           \/ MarkDispatching(o, fence)
           \/ \E d \in 0..MaxDelay : MarkRetryWait(o, fence, d)
           \/ MarkReconciliationRequired(o, fence)
           \/ MarkDeadLetter(o, fence)
    PROVE  /\ CallStep(ops[o], ops'[o]) /\ ops'[o].status # "SUCCEEDED"
           /\ \A q \in Ops \ {o} : ops'[q] = ops[q]
           /\ Authorised(o, fence)
<1>. DEFINE a == ops[o]
            S(s, r, d, x) == SettledTo(a, s, r, d, x)
<1>1. Authorised(o, fence)
  BY DEF RenewClaim, ReleaseClaim, MarkDispatching, MarkRetryWait,
         MarkReconciliationRequired, MarkDeadLetter
<1>2. /\ OpOK(a) /\ a \in OutboxOperation /\ a.status \in InWork
      /\ a.delay = 0 /\ a.recon \in ReconciliationState
      /\ ops \in [Ops -> OutboxOperation]
  BY <1>1, AuthorisedHolds DEF IInv, OpOK
<1>3. ASSUME NEW b, ops' = [ops EXCEPT ![o] = b], CallStep(a, b),
             b.status # "SUCCEEDED"
      PROVE  /\ CallStep(ops[o], ops'[o]) /\ ops'[o].status # "SUCCEEDED"
             /\ \A q \in Ops \ {o} : ops'[q] = ops[q]
  BY <1>2, <1>3
<1>4. ASSUME NEW s \in {"RETRY_WAIT", "DEAD_LETTER", "RECONCILIATION_REQUIRED"},
             NEW r \in {a.recon, "REQUIRED"}, NEW d \in Nat,
             NEW x \in Outcome \ {"STARTED"}
      PROVE  CallStep(a, S(s, r, d, x)) /\ S(s, r, d, x).status # "SUCCEEDED"
  <2>1. s \in Status /\ r \in ReconciliationState
    BY <1>2 DEF Status, ReconciliationState
  <2>2. /\ S(s, r, d, x).status = s /\ S(s, r, d, x).recon = r
        /\ S(s, r, d, x).fencing = a.fencing
        /\ S(s, r, d, x).attemptCount = a.attemptCount
    BY <1>2, <2>1, SettledCall
  <2>. QED
    BY <2>2 DEF CallStep
<1>5. /\ "RETRY" \in Outcome \ {"STARTED"} /\ "DEAD_LETTER" \in Outcome \ {"STARTED"}
      /\ "UNCERTAIN" \in Outcome \ {"STARTED"}
  BY DEF Outcome
<1>6. \A s \in Status, d \in Nat :
         [a EXCEPT !.status = s, !.delay = d]
           = [a EXCEPT !.status = s, !.recon = a.recon, !.delay = d]
  BY <1>2 DEF OutboxOperation
<1>7. \A s \in Status :
         [a EXCEPT !.status = s]
           = [a EXCEPT !.status = s, !.recon = a.recon, !.delay = a.delay]
  BY <1>2 DEF OutboxOperation
<1>8. [a EXCEPT !.status = "RECONCILIATION_REQUIRED", !.recon = "REQUIRED"]
        = [a EXCEPT !.status = "RECONCILIATION_REQUIRED", !.recon = "REQUIRED",
                    !.delay = a.delay]
  BY <1>2 DEF OutboxOperation
<1>9. /\ "RETRY_WAIT" \in Status /\ "DEAD_LETTER" \in Status
      /\ a.delay \in Nat /\ a.recon \in {a.recon, "REQUIRED"}
  BY <1>2 DEF Status, OutboxOperation
<1>10. S("DEAD_LETTER", a.recon, a.delay, "DEAD_LETTER") = DeadLettered(a)
  BY <1>7, <1>9 DEF DeadLettered, SettledTo
<1>11. CASE RenewClaim(o, fence)
  <2>1. CallStep(a, [a EXCEPT !.ttl = TTL]) /\ a.status # "SUCCEEDED"
    BY <1>2 DEF CallStep, OutboxOperation, InWork
  <2>. QED
    BY <1>1, <1>2, <1>11, <2>1 DEF RenewClaim, OutboxOperation
<1>12. CASE ReleaseClaim(o, fence)
  <2>. DEFINE b == [Cleared(a) EXCEPT !.status = "PENDING"]
  <2>1. CallStep(a, b) /\ b.status # "SUCCEEDED"
    BY <1>2, <1>12 DEF CallStep, OutboxOperation, Cleared, ReleaseClaim
  <2>2. ops' = [ops EXCEPT ![o] = b]
    BY <1>12 DEF ReleaseClaim
  <2>. HIDE DEF b
  <2>. QED
    BY <1>1, <1>3, <2>1, <2>2
<1>13. CASE MarkDispatching(o, fence)
  <2>. DEFINE b == [a EXCEPT !.status = "DISPATCHING",
                             !.attemptCount = a.attemptCount + 1,
                             !.attempts = Append(a.attempts, "STARTED")]
  <2>1. CallStep(a, b) /\ b.status # "SUCCEEDED"
    BY <1>2, <1>13 DEF CallStep, OutboxOperation, MarkDispatching
  <2>2. ops' = [ops EXCEPT ![o] = b]
    BY <1>2, <1>13 DEF MarkDispatching, OutboxOperation
  <2>. HIDE DEF b
  <2>. QED
    BY <1>1, <1>3, <2>1, <2>2
<1>14. CASE \E d \in 0..MaxDelay : MarkRetryWait(o, fence, d)
  <2>1. PICK d \in 0..MaxDelay : MarkRetryWait(o, fence, d)
    BY <1>14
  <2>2. d \in Nat
    BY ConstantsAssumption
  <2>3. \/ ops' = [ops EXCEPT ![o] = DeadLettered(a)]
        \/ ops' = [ops EXCEPT ![o] = S("RETRY_WAIT", a.recon, d, "RETRY")]
    BY <2>1, <2>2, <1>6, <1>9 DEF MarkRetryWait, SettledTo
  <2>. QED
    BY <1>1, <1>3, <1>4, <1>5, <1>9, <1>10, <2>2, <2>3
<1>15. CASE MarkReconciliationRequired(o, fence)
  <2>1. ops' = [ops EXCEPT ![o] = S("RECONCILIATION_REQUIRED", "REQUIRED",
                                    a.delay, "UNCERTAIN")]
    BY <1>15, <1>8 DEF MarkReconciliationRequired, SettledTo
  <2>. QED
    BY <1>1, <1>3, <1>4, <1>5, <1>9, <2>1
<1>16. CASE MarkDeadLetter(o, fence)
  BY <1>1, <1>3, <1>4, <1>5, <1>9, <1>10, <1>16 DEF MarkDeadLetter
<1>. QED
  BY <1>11, <1>12, <1>13, <1>14, <1>15, <1>16

LEMMA SuccessFields ==
    ASSUME IInv, NEW o \in Ops, NEW fence, MarkSucceeded(o, fence)
    PROVE  /\ CallStep(ops[o], ops'[o]) /\ ops'[o].status = "SUCCEEDED"
           /\ \A q \in Ops \ {o} : ops'[q] = ops[q]
           /\ Authorised(o, fence)
<1>. DEFINE a == ops[o]
            m == [a EXCEPT !.status = "SUCCEEDED", !.recon = "RESOLVED"]
            b == SettledTo(a, "SUCCEEDED", "RESOLVED", a.delay, "SUCCEEDED")
<1>1. /\ a \in OutboxOperation /\ ops \in [Ops -> OutboxOperation]
      /\ a.delay \in Nat /\ Authorised(o, fence)
  BY DEF IInv, OpOK, OutboxOperation, MarkSucceeded
<1>2. m = [a EXCEPT !.status = "SUCCEEDED", !.recon = "RESOLVED", !.delay = a.delay]
  BY <1>1 DEF OutboxOperation
<1>3. ops' = [ops EXCEPT ![o] = b]
  BY <1>2 DEF MarkSucceeded, SettledTo
<1>4. /\ "SUCCEEDED" \in Status /\ "RESOLVED" \in ReconciliationState
      /\ "SUCCEEDED" \in Outcome \ {"STARTED"}
  BY DEF Status, ReconciliationState, Outcome
<1>5. /\ b.status = "SUCCEEDED" /\ b.recon = "RESOLVED"
      /\ b.fencing = a.fencing /\ b.attemptCount = a.attemptCount
  BY <1>1, <1>4, SettledCall
<1>. HIDE DEF b
<1>. QED
  BY <1>1, <1>3, <1>5 DEF CallStep

\* What an unclaimed call does to one operation.
Gentle(a, b) ==
    /\ Progress(a, b)
    /\ b.status = "SUCCEEDED" => a.status = "SUCCEEDED"
    /\ \A f \in 1..a.fencing : Silent(a, b, f)

LEMMA GentleSame ==
    ASSUME NEW a, OpOK(a)
    PROVE  Gentle(a, a)
  BY StatusSteps DEF Gentle, Progress, Silent, OpOK, OutboxOperation

\* Without a claim before or after, only the fields matter.
LEMMA GentleUnheld ==
    ASSUME NEW a, OpOK(a), NEW b, b.ttl = 0, b.fencing = a.fencing,
           b.attemptCount = a.attemptCount, b.recon = a.recon,
           b.status \notin {"ABSENT", "SUCCEEDED"},
           StatusStep(a.status, b.status)
    PROVE  Gentle(a, b)
<1>1. a \in OutboxOperation
  BY DEF OpOK
<1>. QED
  BY <1>1 DEF Gentle, Progress, Silent, Holds, OutboxOperation

LEMMA UnclaimedGentle ==
    ASSUME IInv, Unclaimed, NEW o \in Ops,
           \A q \in Ops : ops[q].status = "ABSENT" => ops[q].recon = "NONE"
    PROVE  Gentle(ops[o], ops'[o])
<1>. DEFINE a == ops[o]
<1>1. /\ OpOK(a) /\ a \in OutboxOperation /\ ops \in [Ops -> OutboxOperation]
      /\ Gentle(a, a)
  BY GentleSame DEF IInv, OpOK
<1>2. ASSUME NEW q \in Ops, AddOperation(q) PROVE Gentle(a, ops'[o])
  <2>. DEFINE b == [Absent EXCEPT !.status = "PENDING"]
  <2>1. CASE o # q
    BY <1>1, <1>2, <2>1 DEF AddOperation
  <2>2. CASE o = q
    <3>1. /\ b.status = "PENDING" /\ b.ttl = 0 /\ b.fencing = 0
          /\ b.attemptCount = 0 /\ b.recon = "NONE"
      BY AbsentFields DEF OutboxOperation, Absent
    <3>2. /\ ops'[o] = b /\ a.status = "ABSENT" /\ a.recon = "NONE"
      BY <1>1, <1>2, <2>2 DEF AddOperation
    <3>3. a.fencing = 0 /\ a.attemptCount = 0
      BY <1>1, <3>2 DEF OpOK, ClaimOK, AttemptOK, OutboxOperation
    <3>4. StatusStep(a.status, "PENDING")
      BY <3>2, StatusSteps
    <3>. HIDE DEF b
    <3>. QED
      BY <1>1, <3>1, <3>2, <3>3, <3>4, GentleUnheld
  <2>. QED
    BY <2>1, <2>2
<1>3. Gentle(a, Recovered[o]) /\ Recovered \in [Ops -> OutboxOperation]
  BY <1>1, RecoveredProgress, RecoveredStep DEF Recovered, Gentle
<1>4. ASSUME NEW q \in Ops, ClaimNext(q) PROVE Gentle(a, ops'[o])
  <2>. DEFINE r == Recovered[o]
  <2>1. CASE o # q
    BY <1>3, <1>4, <2>1 DEF ClaimNext
  <2>2. CASE o = q
    <3>1. ops'[o] = Claimed(r) /\ r.status \in {"PENDING", "RETRY_WAIT"}
      BY <1>3, <1>4, <2>2 DEF ClaimNext, First, Eligible
    <3>2. r.fencing = a.fencing /\ a.status \in {"PENDING", "RETRY_WAIT", "CLAIMED"}
      BY <1>1, <3>1, RecoveredProgress DEF Recovered
    <3>3. OpOK(r) /\ a.attemptCount <= r.attemptCount
          /\ (a.recon # "NONE" => r.recon # "NONE")
      BY <1>3, RecoveredStep DEF Gentle, Progress
    <3>. HIDE DEF r
    <3>4. /\ Progress(a, Claimed(r)) /\ Claimed(r).status # "SUCCEEDED"
          /\ \A f \in 1..a.fencing : Silent(a, Claimed(r), f)
      BY <1>1, <3>2, <3>3, ClaimedProgress
    <3>. QED
      BY <3>1, <3>4 DEF Gentle
  <2>. QED
    BY <2>1, <2>2
<1>5. ASSUME NEW q \in Ops, ClaimReconciliation(q) PROVE Gentle(a, ops'[o])
  <2>. DEFINE r == [a EXCEPT !.recon = "IN_PROGRESS"]
  <2>1. CASE o # q
    BY <1>1, <1>5, <2>1 DEF ClaimReconciliation
  <2>2. CASE o = q
    <3>1. ops'[o] = Claimed(r) /\ a.status = "RECONCILIATION_REQUIRED"
      BY <1>1, <1>5, <2>2 DEF ClaimReconciliation, First
    <3>2. /\ r.fencing = a.fencing /\ r.attemptCount = a.attemptCount
          /\ r.recon = "IN_PROGRESS" /\ OpOK(r)
      BY <1>1 DEF OutboxOperation, OpOK, ClaimOK, AttemptOK, ReconciliationState
    <3>. HIDE DEF r
    <3>3. a.attemptCount <= r.attemptCount
      BY <1>1, <3>2 DEF OutboxOperation
    <3>4. /\ Progress(a, Claimed(r)) /\ Claimed(r).status # "SUCCEEDED"
          /\ \A f \in 1..a.fencing : Silent(a, Claimed(r), f)
      BY <1>1, <3>1, <3>2, <3>3, ClaimedProgress
    <3>. QED
      BY <3>1, <3>4 DEF Gentle
  <2>. QED
    BY <2>1, <2>2
<1>6. ASSUME NEW q \in Ops, OperatorCall(q) PROVE Gentle(a, ops'[o])
  <2>1. CASE o # q
    BY <1>1, <1>6, <2>1 DEF OperatorCall, CancelOperation, AbandonOperation,
                            RetryDeadLetter
  <2>2. CASE o = q
    <3>1. /\ ops'[o].fencing = a.fencing /\ ops'[o].attemptCount = a.attemptCount
          /\ ops'[o].recon = a.recon /\ ops'[o].ttl = a.ttl
          /\ a.status \notin InWork
      BY <1>1, <1>6, <2>2 DEF OperatorCall, CancelOperation, AbandonOperation,
                              RetryDeadLetter, OutboxOperation, InWork
    <3>2. \/ a.status \in {"PENDING", "RETRY_WAIT"} /\ ops'[o].status = "CANCELLED"
          \/ /\ a.status \in {"PENDING", "RETRY_WAIT", "RECONCILIATION_REQUIRED",
                              "DEAD_LETTER", "CANCELLED"}
             /\ ops'[o].status = "DEAD_LETTER"
          \/ a.status = "DEAD_LETTER" /\ ops'[o].status = "PENDING"
      BY <1>1, <1>6, <2>2 DEF OperatorCall, CancelOperation, AbandonOperation,
                              RetryDeadLetter, OutboxOperation, Status
    <3>3. StatusStep(a.status, ops'[o].status)
          /\ ops'[o].status \notin {"ABSENT", "SUCCEEDED"}
      BY <3>2, StatusSteps
    <3>4. a.ttl = 0
      BY <1>1, <3>1 DEF OpOK, ClaimOK, OutboxOperation
    <3>. QED
      BY <1>1, <3>1, <3>3, <3>4, GentleUnheld
  <2>. QED
    BY <2>1, <2>2
<1>7. CASE Tick
  <2>1. ops'[o] = Ticked(a)
    BY <1>7 DEF Tick, Ticked
  <2>2. /\ Ticked(a).status = a.status /\ Ticked(a).recon = a.recon
        /\ Ticked(a).fencing = a.fencing /\ Ticked(a).holder = a.holder
        /\ Ticked(a).attemptCount = a.attemptCount
        /\ Ticked(a).ttl > 0 => a.ttl > 0
    BY <1>1 DEF Ticked, OutboxOperation
  <2>3. Gentle(a, Ticked(a))
    BY <1>1, <2>2 DEF Gentle, Progress, Silent, Holds
  <2>. QED
    BY <2>1, <2>3
<1>8. CASE \/ \E r \in Providers : PauseProvider(r) \/ ResumeProvider(r)
           \/ UNCHANGED repoVars
  BY <1>1, <1>8 DEF PauseProvider, ResumeProvider, repoVars
<1>9. CASE RecoverExpired
  BY <1>3, <1>9 DEF RecoverExpired
<1>. QED
  BY <1>2, <1>4, <1>5, <1>6, <1>7, <1>8, <1>9 DEF Unclaimed

LEMMA UnclaimedIsNext ==
    ASSUME Unclaimed
    PROVE  [Next]_repoVars
  BY DEF Unclaimed, Next

-----------------------------------------------------------------------------
(* A step of the composition, by the processes that act in it.              *)

\* What happens to the processes outside P.
Undisturbed(P) ==
    \A q \in Procs \ P :
        /\ pc'[q] = pc[q] /\ job'[q] = job[q]
        /\ applied'[q] = applied[q] /\ version'[q] = version[q]
        /\ pc[q] \notin Away => Silent(ops[Op(q)], ops'[Op(q)], job[q].fence)

\* The provider carries out only what was dispatched, and an operation
\* succeeds only by the hand of a process that has applied its result.
Effects ==
    /\ executed \subseteq executed'
    /\ \A o \in executed' \ executed : o \in Ops /\ ops[o].attemptCount > 0
    /\ \A o \in Ops : ops[o].status # "SUCCEEDED" /\ ops'[o].status = "SUCCEEDED"
                      => \E p \in Procs : pc[p] \in {"applied", "recorded"} /\ Op(p) = o

\* A step in which the processes of P act.
Acts(P) ==
    /\ [Next]_repoVars
    /\ \A o \in Ops : Progress(ops[o], ops'[o])
    /\ Shape'
    /\ Undisturbed(P)
    /\ Effects
    /\ \A p \in P : ProcessOK(p)' /\ Own(p)'

LEMMA PlaceKept ==
    ASSUME NEW l, NEW j, NEW os, NEW ns, NEW ex, NEW nx,
           \A o \in Ops : os[o].fencing \in Nat /\ os[o].attemptCount \in Nat
           /\ ns[o].fencing \in Nat /\ ns[o].attemptCount \in Nat,
           \A o \in Ops : Progress(os[o], ns[o]),
           ex \subseteq nx,
           l \notin Away => Silent(os[j.op], ns[j.op], j.fence),
           Place(l, j, os, ex)
    PROVE  Place(l, j, ns, nx)
<1>. USE ConstantsAssumption
<1>1. CASE l \in Away
  BY <1>1 DEF Place
<1>2. CASE l \notin Away
  <2>1. /\ j.op \in Ops /\ j.fence \in Nat /\ j.fence > 0
        /\ j.fence <= ns[j.op].fencing /\ j.fence <= MaxFence
    BY <1>2 DEF Place, Progress
  <2>2. l \in Sent => ns[j.op].attemptCount > 0
    BY <1>2, <2>1 DEF Place, Progress
  <2>3. l \in Reconciling => ns[j.op].recon # "NONE"
    BY <1>2, <2>1 DEF Place, Progress
  <2>. QED
    BY <1>2, <2>1, <2>2, <2>3 DEF Place, Silent
<1>. QED
  BY <1>1, <1>2

LEMMA ReturnedKept ==
    ASSUME NEW l, NEW j, NEW os, NEW ns, NEW ap, ap \subseteq Ops,
           \A o \in Ops : Progress(os[o], ns[o]),
           \A o \in Ops : os[o].status = "SUCCEEDED" => ns[o].status = "SUCCEEDED",
           Returned(l, j, ap, os)
    PROVE  Returned(l, j, ap, ns)
  BY DEF Returned, Progress

\* Every step of any kind preserves the invariant.
LEMMA ActsInvariant ==
    ASSUME DIInv, NEW P \in SUBSET Procs, Acts(P)
    PROVE  DIInv'
<1>1. StepOK /\ IInv'
  BY StepIInv DEF DIInv, Acts
<1>2. \A o \in Ops : ops[o].status = "SUCCEEDED" => ops'[o].status = "SUCCEEDED"
  BY <1>1 DEF StepOK, OpStep
<1>3. \A o \in Ops : /\ ops[o].fencing \in Nat /\ ops[o].attemptCount \in Nat
                     /\ ops'[o].fencing \in Nat /\ ops'[o].attemptCount \in Nat
  BY <1>1 DEF DIInv, IInv, OutboxOperation
<1>4. /\ executed \subseteq executed' /\ executed' \subseteq Ops
      /\ \A o \in executed' : ops'[o].attemptCount > 0
  BY <1>3 DEF DIInv, Acts, Effects, Recorded, Progress
<1>5. ASSUME NEW o \in Ops PROVE Recorded(o)'
  <2>1. ops'[o].status = "ABSENT" => ops'[o].recon = "NONE"
    BY DEF DIInv, Acts, Recorded, Progress
  <2>2. ops'[o].status = "SUCCEEDED" => o \in executed'
    <3>1. CASE ops[o].status = "SUCCEEDED"
      BY <1>4, <3>1 DEF DIInv, Recorded
    <3>2. CASE ops[o].status # "SUCCEEDED" /\ ops'[o].status = "SUCCEEDED"
      <4>1. PICK p \in Procs : pc[p] \in {"applied", "recorded"} /\ Op(p) = o
        BY <3>2 DEF Acts, Effects
      <4>2. ProcessOK(p)
        BY DEF DIInv
      <4>3. o \in executed
        BY <4>1, <4>2 DEF ProcessOK, Place, Away, Op
      <4>. QED
        BY <1>4, <4>3
    <3>. QED
      BY <3>1, <3>2
  <2>. QED
    BY <1>4, <2>1, <2>2 DEF Recorded
<1>6. ASSUME NEW p \in Procs PROVE ProcessOK(p)'
  <2>1. CASE p \in P
    BY <2>1 DEF Acts
  <2>2. CASE p \notin P
    <3>1. /\ pc'[p] = pc[p] /\ job'[p] = job[p]
          /\ applied'[p] = applied[p] /\ version'[p] = version[p]
          /\ pc[p] \notin Away => Silent(ops[Op(p)], ops'[Op(p)], job[p].fence)
      BY <2>2 DEF Acts, Undisturbed
    <3>2. /\ Place(pc[p], job[p], ops, executed)
          /\ Ledger(pc[p], job[p], applied[p], version[p])
          /\ Eventing => Returned(pc[p], job[p], applied[p], ops)
      BY DEF DIInv, ProcessOK
    <3>3. \A o \in Ops : Progress(ops[o], ops'[o])
      BY DEF Acts
    <3>4. pc[p] \notin Away => Silent(ops[job[p].op], ops'[job[p].op], job[p].fence)
      BY <3>1 DEF Op
    <3>5. Place(pc[p], job[p], ops', executed')
      BY <1>3, <1>4, <3>2, <3>3, <3>4, PlaceKept
    <3>6. applied[p] \subseteq Ops
      BY <3>2 DEF Ledger
    <3>7. Eventing => Returned(pc[p], job[p], applied[p], ops')
      BY <1>2, <3>2, <3>3, <3>6, ReturnedKept
    <3>. QED
      BY <3>1, <3>2, <3>5, <3>7 DEF ProcessOK
  <2>. QED
    BY <2>1, <2>2
<1>7. ASSUME NEW p \in Procs PROVE Own(p)'
  <2>1. CASE p \in P
    BY <2>1 DEF Acts
  <2>2. CASE p \notin P
    <3>1. ASSUME NEW q \in Procs \ {p}, pc'[p] \notin Away, pc'[q] \notin Away,
                 job'[q].op = job'[p].op
          PROVE  job'[q].fence # job'[p].fence
      <4>1. CASE q \in P
        BY <3>1, <4>1 DEF Acts, Own, Op
      <4>2. CASE q \notin P
        BY <2>2, <3>1, <4>2 DEF Acts, Undisturbed, DIInv, Own, Op
      <4>. QED
        BY <4>1, <4>2
    <3>. QED
      BY <3>1 DEF Own, Op
  <2>. QED
    BY <2>1, <2>2
<1>8. Shape'
  BY DEF Acts
<1>. QED
  BY <1>1, <1>4, <1>5, <1>6, <1>7, <1>8 DEF DIInv

-----------------------------------------------------------------------------
(* The results a process has applied.                                       *)

LEMMA OfAggregateCounts ==
    ASSUME NEW ap, IsFiniteSet(ap), NEW a
    PROVE  IsFiniteSet(OfAggregate(ap, a)) /\ Cardinality(OfAggregate(ap, a)) \in Nat
<1>1. OfAggregate(ap, a) \subseteq ap
  BY DEF OfAggregate
<1>2. IsFiniteSet(OfAggregate(ap, a))
  BY <1>1, FS_Subset
<1>. QED
  BY <1>2, FS_CardinalityType

\* apply() on a result that is neither stale nor a duplicate.
LEMMA LedgerApply ==
    ASSUME NEW l, NEW j, NEW ap, NEW ve, Ledger(l, j, ap, ve),
           NEW o \in Ops, o \notin ap, ve[AggregateOf[o]] = VersionOf[o],
           NEW m, NEW k, k.op = o
    PROVE  Ledger(m, k, ap \cup {o}, [ve EXCEPT ![AggregateOf[o]] = VersionOf[o] + 1])
<1>. DEFINE a == AggregateOf[o]
            np == ap \cup {o}
            nv == [ve EXCEPT ![a] = VersionOf[o] + 1]
<1>1. /\ a \in Aggregates /\ VersionOf[o] \in Nat
      /\ ap \subseteq Ops /\ IsFiniteSet(ap) /\ ve \in [Aggregates -> Nat]
      /\ \A q \in Ops : AggregateOf[q] \in Aggregates /\ VersionOf[q] \in Nat
  BY DispatchAssumption DEF Ledger
<1>2. /\ nv \in [Aggregates -> Nat] /\ nv[a] = VersionOf[o] + 1
      /\ \A b \in Aggregates \ {a} : nv[b] = ve[b]
  BY <1>1
<1>3. np \subseteq Ops /\ IsFiniteSet(np)
  BY <1>1, FS_AddElement
<1>4. ASSUME NEW b \in Aggregates PROVE nv[b] = Cardinality(OfAggregate(np, b))
  <2>1. CASE b # a
    <3>1. OfAggregate(np, b) = OfAggregate(ap, b)
      BY <2>1 DEF OfAggregate
    <3>. QED
      BY <1>2, <2>1, <3>1 DEF Ledger
  <2>2. CASE b = a
    <3>1. OfAggregate(np, a) = OfAggregate(ap, a) \cup {o}
      BY DEF OfAggregate
    <3>2. o \notin OfAggregate(ap, a) /\ IsFiniteSet(OfAggregate(ap, a))
      BY <1>1, OfAggregateCounts DEF OfAggregate
    <3>3. Cardinality(OfAggregate(np, a)) = Cardinality(OfAggregate(ap, a)) + 1
      BY <3>1, <3>2, FS_AddElement, ZenonT(60)
    <3>4. Cardinality(OfAggregate(ap, a)) = VersionOf[o]
      BY <1>1 DEF Ledger
    <3>. QED
      BY <1>2, <2>2, <3>3, <3>4
  <2>. QED
    BY <2>1, <2>2
<1>5. \A q \in ap : AggregateOf[q] = a => VersionOf[q] < VersionOf[o]
  BY DEF Ledger
<1>6. \A q \in np : VersionOf[q] < nv[AggregateOf[q]]
  <2>1. ASSUME NEW q \in np PROVE VersionOf[q] < nv[AggregateOf[q]]
    <3>1. CASE q = o
      BY <1>1, <1>2, <3>1
    <3>2. CASE q # o /\ AggregateOf[q] = a
      <4>1. q \in ap /\ VersionOf[q] \in Nat
        BY <1>1, <3>2
      <4>. QED
        BY <1>1, <1>2, <1>5, <3>2, <4>1
    <3>3. CASE q # o /\ AggregateOf[q] # a
      <4>1. q \in ap /\ AggregateOf[q] \in Aggregates \ {a}
        BY <1>1, <3>3
      <4>2. VersionOf[q] < ve[AggregateOf[q]]
        BY <4>1 DEF Ledger
      <4>. QED
        BY <1>2, <4>1, <4>2
    <3>. QED
      BY <3>1, <3>2, <3>3
  <2>. QED
    BY <2>1
<1>7. \A q, r \in np : AggregateOf[q] = AggregateOf[r] /\ VersionOf[q] = VersionOf[r]
                       => q = r
  <2>1. ASSUME NEW q \in np, NEW r \in np, AggregateOf[q] = AggregateOf[r],
               VersionOf[q] = VersionOf[r], q # r
        PROVE  FALSE
    <3>1. CASE q \in ap /\ r \in ap
      BY <2>1, <3>1 DEF Ledger
    <3>2. CASE q = o
      BY <1>1, <1>5, <2>1, <3>2
    <3>3. CASE r = o
      BY <1>1, <1>5, <2>1, <3>3
    <3>. QED
      BY <3>1, <3>2, <3>3
  <2>. QED
    BY <2>1
<1>. HIDE DEF np, nv
<1>8. k.op \in np /\ nv[AggregateOf[k.op]] = VersionOf[k.op] + 1
  BY <1>2 DEF np
<1>9. Ledger(m, k, np, nv)
  BY <1>2, <1>3, <1>4, <1>6, <1>7, <1>8 DEF Ledger
<1>. QED
  BY <1>9 DEF np, nv

\* The rollback of the transaction a result was applied in.
LEMMA LedgerUndo ==
    ASSUME NEW l \in {"applied", "marked"}, NEW j, NEW ap, NEW ve,
           Ledger(l, j, ap, ve), j.fresh,
           NEW m, m \notin InHand, NEW k
    PROVE  Ledger(m, k, ap \ {j.op},
                  [ve EXCEPT ![AggregateOf[j.op]] = VersionOf[j.op]])
<1>. DEFINE o == j.op
            a == AggregateOf[o]
            np == ap \ {o}
            nv == [ve EXCEPT ![a] = VersionOf[o]]
<1>1. /\ o \in ap /\ ap \subseteq Ops /\ IsFiniteSet(ap)
      /\ ve \in [Aggregates -> Nat]
      /\ \A q \in Ops : AggregateOf[q] \in Aggregates /\ VersionOf[q] \in Nat
      /\ ve[a] = VersionOf[o] + 1
  BY DispatchAssumption DEF Ledger, InHand
<1>2. /\ a \in Aggregates /\ VersionOf[o] \in Nat
      /\ nv \in [Aggregates -> Nat] /\ nv[a] = VersionOf[o]
      /\ \A b \in Aggregates \ {a} : nv[b] = ve[b]
  BY <1>1
<1>3. np \subseteq Ops /\ IsFiniteSet(np)
  BY <1>1, FS_RemoveElement
<1>4. ASSUME NEW b \in Aggregates PROVE nv[b] = Cardinality(OfAggregate(np, b))
  <2>1. CASE b # a
    <3>1. OfAggregate(np, b) = OfAggregate(ap, b)
      BY <2>1 DEF OfAggregate
    <3>. QED
      BY <1>2, <2>1, <3>1 DEF Ledger
  <2>2. CASE b = a
    <3>1. OfAggregate(np, a) = OfAggregate(ap, a) \ {o}
      BY DEF OfAggregate
    <3>2. o \in OfAggregate(ap, a) /\ IsFiniteSet(OfAggregate(ap, a))
      BY <1>1, OfAggregateCounts DEF OfAggregate
    <3>3. Cardinality(OfAggregate(np, a)) = Cardinality(OfAggregate(ap, a)) - 1
      <4>1. Cardinality(OfAggregate(ap, a) \ {o})
              = IF o \in OfAggregate(ap, a) THEN Cardinality(OfAggregate(ap, a)) - 1
                ELSE Cardinality(OfAggregate(ap, a))
        BY <3>2, FS_RemoveElement
      <4>. QED
        BY <3>1, <3>2, <4>1
    <3>4. Cardinality(OfAggregate(ap, a)) = VersionOf[o] + 1
      BY <1>1, <1>2 DEF Ledger
    <3>. QED
      BY <1>2, <2>2, <3>3, <3>4
  <2>. QED
    BY <2>1, <2>2
<1>5. \A q \in np : VersionOf[q] < nv[AggregateOf[q]]
  <2>1. ASSUME NEW q \in np PROVE VersionOf[q] < nv[AggregateOf[q]]
    <3>1. q \in ap /\ VersionOf[q] < ve[AggregateOf[q]] /\ VersionOf[q] \in Nat
      BY <1>1 DEF Ledger
    <3>2. CASE AggregateOf[q] = a
      <4>1. VersionOf[q] # VersionOf[o]
        BY <1>1, <3>1, <3>2 DEF Ledger
      <4>. QED
        BY <1>1, <1>2, <3>1, <3>2, <4>1
    <3>3. CASE AggregateOf[q] # a
      <4>1. AggregateOf[q] \in Aggregates \ {a}
        BY <1>1, <3>1, <3>3
      <4>2. nv[AggregateOf[q]] = ve[AggregateOf[q]]
        BY <1>2, <4>1
      <4>. QED
        BY <3>1, <4>2
    <3>. QED
      BY <3>2, <3>3
  <2>. QED
    BY <2>1
<1>6. \A q, r \in np : AggregateOf[q] = AggregateOf[r] /\ VersionOf[q] = VersionOf[r]
                       => q = r
  BY DEF Ledger
<1>. HIDE DEF np, nv
<1>7. Ledger(m, k, np, nv)
  BY <1>2, <1>3, <1>4, <1>5, <1>6 DEF Ledger, InHand
<1>. QED
  BY <1>7 DEF np, nv

LEMMA LedgerMove ==
    ASSUME NEW l, NEW j, NEW ap, NEW ve, Ledger(l, j, ap, ve),
           NEW m, m \notin InHand, NEW k
    PROVE  Ledger(m, k, ap, ve)
  BY DEF Ledger, InHand

LEMMA LedgerEmpty ==
    ASSUME NEW m, m \notin InHand, NEW k
    PROVE  Ledger(m, k, {}, NoVersions)
<1>1. IsFiniteSet({}) /\ Cardinality({}) = 0
  BY FS_EmptySet
<1>2. \A a : OfAggregate({}, a) = {}
  BY DEF OfAggregate
<1>3. NoVersions \in [Aggregates -> Nat] /\ \A a \in Aggregates : NoVersions[a] = 0
  BY DEF NoVersions
<1>. QED
  BY <1>1, <1>2, <1>3 DEF Ledger, InHand

-----------------------------------------------------------------------------
(* The steps of one process.                                                *)

\* Process p is now at l with job j, and has applied ap in versions ve.
MovedTo(p, l, j, ap, ve) ==
    /\ Shape'
    /\ pc'[p] = l /\ job'[p] = j /\ applied'[p] = ap /\ version'[p] = ve
    /\ \A q \in Procs \ {p} :
          /\ pc'[q] = pc[q] /\ job'[q] = job[q]
          /\ applied'[q] = applied[q] /\ version'[q] = version[q]

LEMMA MovedBy ==
    ASSUME Shape, NEW p \in Procs, NEW l \in Locations, NEW j, NEW ap, NEW ve,
           pc' = [pc EXCEPT ![p] = l],
           job' = [job EXCEPT ![p] = j] \/ (UNCHANGED job /\ j = job[p]),
           applied' = [applied EXCEPT ![p] = ap]
           \/ (UNCHANGED applied /\ ap = applied[p]),
           version' = [version EXCEPT ![p] = ve]
           \/ (UNCHANGED version /\ ve = version[p])
    PROVE  MovedTo(p, l, j, ap, ve)
<1>1. /\ pc' \in [Procs -> Locations] /\ pc'[p] = l
      /\ \A q \in Procs \ {p} : pc'[q] = pc[q]
  BY DEF Shape
<1>2. /\ job' = [q \in Procs |-> job'[q]] /\ job'[p] = j
      /\ \A q \in Procs \ {p} : job'[q] = job[q]
  BY DEF Shape
<1>3. /\ applied' = [q \in Procs |-> applied'[q]] /\ applied'[p] = ap
      /\ \A q \in Procs \ {p} : applied'[q] = applied[q]
  BY DEF Shape
<1>4. /\ version' = [q \in Procs |-> version'[q]] /\ version'[p] = ve
      /\ \A q \in Procs \ {p} : version'[q] = version[q]
  BY DEF Shape
<1>. QED
  BY <1>1, <1>2, <1>3, <1>4 DEF MovedTo, Shape

\* The new values of p are as its place requires.
Fits(p, l, j, ap, ve) ==
    /\ Place(l, j, ops', executed')
    /\ Ledger(l, j, ap, ve)
    /\ Eventing => Returned(l, j, ap, ops')
    /\ \/ l \in Away
       \/ pc[p] \notin Away /\ j.op = Op(p) /\ j.fence = job[p].fence

LEMMA FittingMove ==
    ASSUME DIInv, NEW p \in Procs, NEW l, NEW j, NEW ap, NEW ve,
           MovedTo(p, l, j, ap, ve), Fits(p, l, j, ap, ve)
    PROVE  ProcessOK(p)' /\ Own(p)' /\ Shape'
<1>1. ProcessOK(p)' /\ Shape'
  BY DEF MovedTo, Fits, ProcessOK
<1>2. Own(p)'
  <2>1. Own(p)
    BY DEF DIInv
  <2>. QED
    BY <2>1 DEF MovedTo, Fits, Own, Op
<1>. QED
  BY <1>1, <1>2

\* A step that makes no repository call.
LEMMA SteadyActs ==
    ASSUME DIInv, NEW p \in Procs, NEW l, NEW j, NEW ap, NEW ve,
           MovedTo(p, l, j, ap, ve), Fits(p, l, j, ap, ve), UNCHANGED repoVars,
           \/ UNCHANGED executed
           \/ pc[p] \in Sent /\ executed' = executed \cup {Op(p)}
    PROVE  Acts({p})
<1>1. ops' = ops /\ [Next]_repoVars
  BY DEF repoVars
<1>2. \A o \in Ops : Gentle(ops[o], ops'[o])
  BY <1>1, GentleSame DEF DIInv, IInv
<1>3. Undisturbed({p})
  BY <1>1 DEF MovedTo, Undisturbed, Silent
<1>4. Effects
  <2>1. ProcessOK(p)
    BY DEF DIInv
  <2>2. pc[p] \in Sent => Op(p) \in Ops /\ ops[Op(p)].attemptCount > 0
    BY <2>1 DEF ProcessOK, Place, Op, Sent, Away
  <2>. QED
    BY <1>1, <2>2 DEF Effects
<1>. QED
  BY <1>1, <1>2, <1>3, <1>4, FittingMove DEF Acts, Gentle

\* A repository call of p under its claim, accepted.
Accepted(p) ==
    /\ pc[p] \notin Away
    /\ ClaimCall(Op(p), job[p].fence)
    /\ Holding(p)
    /\ CallStep(ops[Op(p)], ops'[Op(p)])
    /\ \A q \in Ops \ {Op(p)} : ops'[q] = ops[q]
    /\ ops'[Op(p)].status # "SUCCEEDED" \/ pc[p] \in {"applied", "recorded"}

LEMMA AcceptedCall ==
    ASSUME DIInv, NEW p \in Procs, pc[p] \notin Away,
           \/ ReleaseClaim(Op(p), job[p].fence)
           \/ MarkDispatching(Op(p), job[p].fence)
           \/ \E d \in 0..MaxDelay : MarkRetryWait(Op(p), job[p].fence, d)
           \/ MarkReconciliationRequired(Op(p), job[p].fence)
           \/ MarkDeadLetter(Op(p), job[p].fence)
           \/ /\ MarkSucceeded(Op(p), job[p].fence)
              /\ pc[p] \in {"applied", "recorded"}
    PROVE  Accepted(p)
<1>. DEFINE o == Op(p)
            f == job[p].fence
<1>1. o \in Ops /\ IInv
  BY DEF DIInv, ProcessOK, Place, Op
<1>2. ClaimCall(o, f)
  BY DEF ClaimCall
<1>3. CASE MarkSucceeded(o, f) /\ pc[p] \in {"applied", "recorded"}
  BY <1>1, <1>2, <1>3, SuccessFields DEF Accepted, Holding, Op
<1>4. CASE ~MarkSucceeded(o, f) \/ pc[p] \notin {"applied", "recorded"}
  <2>1. /\ CallStep(ops[o], ops'[o]) /\ ops'[o].status # "SUCCEEDED"
        /\ \A q \in Ops \ {o} : ops'[q] = ops[q]
        /\ Authorised(o, f)
    BY <1>1, <1>4, CallFields
  <2>. QED
    BY <1>2, <2>1 DEF Accepted, Holding, Op
<1>. QED
  BY <1>3, <1>4

LEMMA AcceptedKeeps ==
    ASSUME DIInv, NEW p \in Procs, Accepted(p)
    PROVE  /\ [Next]_repoVars /\ StepOK /\ IInv'
           /\ \A q \in Ops : Progress(ops[q], ops'[q])
<1>. DEFINE o == Op(p)
            f == job[p].fence
<1>1. o \in Ops /\ f \in Nat /\ f > 0 /\ ops[o].fencing = f
  BY DEF DIInv, ProcessOK, Place, Op, Holding, Authorised, Accepted
<1>2. [Next]_repoVars
  <2>1. f \in 1..ops[o].fencing
    BY <1>1
  <2>. QED
    BY <1>1, <2>1 DEF Next, Accepted
<1>3. StepOK /\ IInv'
  BY <1>2, StepIInv DEF DIInv
<1>4. OpOK(ops[o]) /\ ops[o].status \in InWork
  BY <1>1, AuthorisedHolds DEF DIInv, Holding, Op, Accepted
<1>5. Progress(ops[o], ops'[o])
  BY <1>4, CallStepProgress DEF Accepted
<1>6. \A q \in Ops \ {o} : Progress(ops[q], ops'[q])
  BY GentleSame DEF Gentle, DIInv, IInv, Accepted
<1>. QED
  BY <1>2, <1>3, <1>5, <1>6

LEMMA AcceptedActs ==
    ASSUME DIInv, NEW p \in Procs, NEW l, NEW j, NEW ap, NEW ve,
           MovedTo(p, l, j, ap, ve), Fits(p, l, j, ap, ve), UNCHANGED executed,
           Accepted(p)
    PROVE  Acts({p})
<1>. DEFINE o == Op(p)
            f == job[p].fence
<1>1. o \in Ops /\ f \in Nat /\ f > 0 /\ ops[o].fencing = f
  BY DEF DIInv, ProcessOK, Place, Op, Holding, Authorised, Accepted
<1>2. Undisturbed({p})
  <2>1. ASSUME NEW q \in Procs \ {p}, pc[q] \notin Away
        PROVE  Silent(ops[Op(q)], ops'[Op(q)], job[q].fence)
    <3>1. /\ Op(q) \in Ops /\ job[q].fence \in 1..ops[Op(q)].fencing
      BY <2>1 DEF DIInv, IInv, OutboxOperation, ProcessOK, Place, Op
    <3>2. CASE Op(q) # o
      BY <3>1, <3>2 DEF Silent, Accepted
    <3>3. CASE Op(q) = o
      \* The claim that validated is not the claim of q.
      <4>1. job[q].fence # f
        BY <2>1, <3>3 DEF DIInv, Own, Accepted
      <4>2. ~Holds(ops[o], job[q].fence)
        BY <1>1, <4>1 DEF Holds
      <4>3. ~Holds(ops'[o], job[q].fence)
        BY <3>1, <3>3, <4>2, AcceptedKeeps DEF StepOK, OpStep
      <4>. QED
        BY <3>3, <4>3 DEF Silent
    <3>. QED
      BY <3>2, <3>3
  <2>. QED
    BY <2>1 DEF MovedTo, Undisturbed
<1>3. Effects
  BY <1>1 DEF Effects, Accepted
<1>. QED
  BY <1>2, <1>3, AcceptedKeeps, FittingMove DEF Acts

\* A step that makes a call without a claim, or none.
LEMMA UnclaimedActs ==
    ASSUME DIInv, NEW P \in SUBSET Procs, Unclaimed, UNCHANGED executed, Shape',
           \A q \in Procs \ P :
              /\ pc'[q] = pc[q] /\ job'[q] = job[q]
              /\ applied'[q] = applied[q] /\ version'[q] = version[q],
           \A p \in P : ProcessOK(p)' /\ Own(p)'
    PROVE  Acts(P)
<1>1. [Next]_repoVars
  BY UnclaimedIsNext
<1>2. \A o \in Ops : Gentle(ops[o], ops'[o])
  BY UnclaimedGentle DEF DIInv, Recorded
<1>3. \A o \in Ops : Progress(ops[o], ops'[o])
  BY <1>2 DEF Gentle
<1>4. Undisturbed(P)
  <2>1. ASSUME NEW q \in Procs \ P, pc[q] \notin Away
        PROVE  Silent(ops[Op(q)], ops'[Op(q)], job[q].fence)
    <3>1. Op(q) \in Ops /\ job[q].fence \in 1..ops[Op(q)].fencing
      BY <2>1 DEF DIInv, IInv, OutboxOperation, ProcessOK, Place, Op
    <3>. QED
      BY <1>2, <3>1 DEF Gentle
  <2>. QED
    BY <2>1 DEF Undisturbed
<1>5. Effects
  BY <1>2 DEF Effects, Gentle
<1>. QED
  BY <1>1, <1>3, <1>4, <1>5 DEF Acts

LEMMA PlaceAway ==
    ASSUME NEW l \in Away, NEW os, NEW ex
    PROVE  Place(l, NoJob, os, ex)
  BY DEF Place, NoJob, Away, Locations

LEMMA ReturnedStep ==
    ASSUME NEW l, NEW j, l # "applied" \/ ~j.fresh, NEW ap, ap \subseteq Ops,
           Returned(l, j, ap, ops), StepOK,
           \A o \in Ops : Progress(ops[o], ops'[o]), NEW m, NEW k
    PROVE  Returned(m, k, ap, ops')
  BY DEF Returned, Progress, StepOK, OpStep

\* run_one is over, with or without an accepted call.
LEMMA ReturnActs ==
    ASSUME DIInv, NEW p \in Procs, pc[p] \notin Away \cup {"applied", "marked"}, Return(p),
           UNCHANGED <<applied, version, executed>>,
           Accepted(p) \/ UNCHANGED repoVars
    PROVE  Acts({p})
<1>1. MovedTo(p, "idle", NoJob, applied[p], version[p])
  <2>1. Shape /\ "idle" \in Locations
    BY DEF DIInv, Locations
  <2>. QED
    BY <2>1, MovedBy DEF Return, Goto
<1>2. /\ Ledger(pc[p], job[p], applied[p], version[p])
      /\ Eventing => Returned(pc[p], job[p], applied[p], ops)
  BY DEF DIInv, ProcessOK
<1>3. /\ Place("idle", NoJob, ops', executed')
      /\ Ledger("idle", NoJob, applied[p], version[p])
      /\ applied[p] \subseteq Ops /\ "idle" \in Away
  BY <1>2, PlaceAway, LedgerMove DEF Away, InHand, Ledger
<1>4. CASE Accepted(p)
  <2>1. Eventing => Returned("idle", NoJob, applied[p], ops')
    BY <1>2, <1>3, <1>4, AcceptedKeeps, ReturnedStep
  <2>2. Fits(p, "idle", NoJob, applied[p], version[p])
    BY <1>3, <2>1 DEF Fits
  <2>. QED
    BY <1>1, <1>4, <2>2, AcceptedActs
<1>5. CASE UNCHANGED repoVars
  <2>1. Eventing => Returned("idle", NoJob, applied[p], ops')
    BY <1>2, <1>5 DEF repoVars, Returned
  <2>2. Fits(p, "idle", NoJob, applied[p], version[p])
    BY <1>3, <2>1 DEF Fits
  <2>. QED
    BY <1>1, <1>5, <2>2, SteadyActs
<1>. QED
  BY <1>4, <1>5

\* p goes on to l under the same claim, having called the provider or nobody.
LEMMA GoesOn ==
    ASSUME DIInv, NEW p \in Procs, pc[p] \notin Away \cup {"applied", "marked"},
           NEW l \in Locations \ (Away \cup InHand), Goto(p, l),
           UNCHANGED <<repoVars, job, applied, version>>,
           \/ UNCHANGED executed
           \/ pc[p] \in Sent /\ executed' = executed \cup {Op(p)},
           l \in Sent => pc[p] \in Sent,
           l \in Reconciling => pc[p] \in Reconciling,
           l # "claimed",
           l \in {"result", "found"} => Op(p) \in executed'
    PROVE  Acts({p})
<1>1. MovedTo(p, l, job[p], applied[p], version[p])
  BY MovedBy DEF DIInv, Goto
<1>2. /\ Ledger(pc[p], job[p], applied[p], version[p])
      /\ Eventing => Returned(pc[p], job[p], applied[p], ops)
      /\ Place(pc[p], job[p], ops, executed)
  BY DEF DIInv, ProcessOK
<1>3. Ledger(l, job[p], applied[p], version[p])
  BY <1>2, LedgerMove DEF InHand
<1>4. Eventing => Returned(l, job[p], applied[p], ops')
  BY <1>2 DEF repoVars, Returned
<1>5. Place(l, job[p], ops', executed')
  BY <1>2 DEF Place, repoVars, Op, InHand
<1>6. Fits(p, l, job[p], applied[p], version[p])
  BY <1>3, <1>4, <1>5 DEF Fits, Op
<1>. QED
  BY <1>1, <1>6, SteadyActs

\* A result is applied, or recognised as applied before.
LEMMA ApplyActs ==
    ASSUME DIInv, NEW p \in Procs, NEW l, ApplyEffect(p), Goto(p, l),
           \/ pc[p] = "result" /\ l = "applied"
           \/ pc[p] = "found" /\ l = "recorded",
           UNCHANGED <<repoVars, executed>>
    PROVE  Acts({p})
<1>. DEFINE j == [job[p] EXCEPT !.fresh = ~Suppressed(p)]
            o == Op(p)
            ap == applied[p] \cup {o}
            ve == IF Suppressed(p) THEN version[p]
                  ELSE [version[p] EXCEPT ![AggregateOf[o]] = VersionOf[o] + 1]
<1>1. /\ Ledger(pc[p], job[p], applied[p], version[p])
      /\ Eventing => Returned(pc[p], job[p], applied[p], ops)
      /\ Place(pc[p], job[p], ops, executed)
      /\ Shape
  BY DEF DIInv, ProcessOK
<1>2. o \in Ops /\ l \in Locations /\ Suppressed(p) \in BOOLEAN
  BY <1>1 DEF Place, Away, Op, Locations, Suppressed
<1>3. /\ j.op = o /\ j.fence = job[p].fence /\ j.fresh = ~Suppressed(p)
      /\ j \in [op : Ops \cup {"none"}, fence : Nat, fresh : BOOLEAN]
  BY <1>1, <1>2 DEF Place, Op
<1>4. MovedTo(p, l, j, ap, ve)
  <2>1. job' = [job EXCEPT ![p] = j]
    BY <1>1 DEF ApplyEffect, Shape
  <2>2. applied' = [applied EXCEPT ![p] = ap]
    BY DEF ApplyEffect
  <2>3. version' = [version EXCEPT ![p] = ve] \/ (UNCHANGED version /\ ve = version[p])
    BY <1>1 DEF ApplyEffect, Shape
  <2>4. pc' = [pc EXCEPT ![p] = l]
    BY DEF Goto
  <2>. HIDE DEF j, ap, ve
  <2>. QED
    BY <1>1, <1>2, <2>1, <2>2, <2>3, <2>4, MovedBy
<1>5. Ledger(l, j, ap, ve)
  <2>1. CASE Suppressed(p)
    <3>1. ap = applied[p] /\ ve = version[p] /\ ~j.fresh /\ o \in applied[p]
      BY <1>3, <2>1 DEF Suppressed
    <3>. HIDE DEF j, ap, ve
    <3>. QED
      BY <1>1, <1>3, <3>1 DEF Ledger, InHand
  <2>2. CASE ~Suppressed(p)
    <3>1. /\ ve = [version[p] EXCEPT ![AggregateOf[o]] = VersionOf[o] + 1]
          /\ o \notin applied[p] /\ version[p][AggregateOf[o]] = VersionOf[o]
      BY <2>2 DEF Suppressed, ApplyEffect, Stale
    <3>. HIDE DEF j, ve
    <3>. QED
      BY <1>1, <1>2, <1>3, <3>1, LedgerApply
  <2>. QED
    BY <2>1, <2>2
<1>. HIDE DEF j, ve
<1>6. Place(l, j, ops', executed')
  BY <1>1, <1>3 DEF Place, Op, Sent, Reconciling, Away, Locations, repoVars
<1>7. Eventing => Returned(l, j, ap, ops')
  <2>1. SUFFICES ASSUME Eventing, NEW q \in ap
                 PROVE  \/ ops[q].status = "SUCCEEDED"
                        \/ ops[q].recon # "NONE"
                        \/ l = "applied" /\ j.fresh /\ j.op = q
    BY DEF Returned, repoVars
  <2>2. CASE q \in applied[p]
    BY <1>1, <2>1, <2>2 DEF Returned
  <2>3. CASE q \notin applied[p] /\ l = "applied"
    BY <1>3, <2>1, <2>3 DEF Suppressed
  <2>4. CASE q \notin applied[p] /\ l = "recorded"
    BY <1>1, <2>1, <2>4 DEF Place, Reconciling, Away, Op
  <2>. QED
    BY <2>2, <2>3, <2>4
<1>8. Fits(p, l, j, ap, ve)
  BY <1>3, <1>5, <1>6, <1>7 DEF Fits, Away
<1>. QED
  BY <1>4, <1>8, SteadyActs

\* mark_dispatching accepted: the operation is on its way.
LEMMA DispatchActs ==
    ASSUME DIInv, NEW p \in Procs, pc[p] = "claimed",
           MarkDispatching(job[p].op, job[p].fence), Goto(p, "calling"),
           UNCHANGED <<job, applied, version, executed>>
    PROVE  Acts({p})
<1>. DEFINE o == Op(p)
<1>1. /\ Ledger(pc[p], job[p], applied[p], version[p])
      /\ Eventing => Returned(pc[p], job[p], applied[p], ops)
      /\ Place(pc[p], job[p], ops, executed)
      /\ applied[p] \subseteq Ops
  BY DEF DIInv, ProcessOK, Ledger
<1>2. MovedTo(p, "calling", job[p], applied[p], version[p])
  <2>1. Shape /\ "calling" \in Locations
    BY DEF DIInv, Locations
  <2>. QED
    BY <2>1, MovedBy DEF Goto
<1>3. Accepted(p)
  BY AcceptedCall DEF Away, Op
<1>4. /\ [Next]_repoVars /\ StepOK /\ IInv'
      /\ \A q \in Ops : Progress(ops[q], ops'[q])
  BY <1>3, AcceptedKeeps
<1>5. /\ o \in Ops /\ ops \in [Ops -> OutboxOperation]
      /\ ops'[o].status = "DISPATCHING"
      /\ ops'[o].attemptCount = ops[o].attemptCount + 1
      /\ ops[o].attemptCount \in Nat
  BY <1>1 DEF DIInv, IInv, OutboxOperation, Place, Away, Op, MarkDispatching
<1>6. Place("calling", job[p], ops', executed')
  <2>1. /\ o \in Ops /\ job[p].fence \in Nat /\ job[p].fence > 0
        /\ job[p].fence <= ops'[o].fencing /\ job[p].fence <= MaxFence
        /\ job[p] \in [op : Ops \cup {"none"}, fence : Nat, fresh : BOOLEAN]
    <3>1. ops[o].fencing \in Nat /\ ops'[o].fencing \in Nat /\ MaxFence \in Nat
      BY <1>4, <1>5, ConstantsAssumption DEF IInv, OutboxOperation
    <3>. QED
      BY <1>1, <1>4, <1>5, <3>1 DEF Place, Away, Op, Progress
  <2>2. ops'[o].attemptCount > 0
    BY <1>5
  <2>. QED
    BY <1>5, <2>1, <2>2 DEF Place, Locations, Away, Sent, Reconciling, Op
<1>7. Ledger("calling", job[p], applied[p], version[p])
  BY <1>1, LedgerMove DEF InHand
<1>8. Eventing => Returned("calling", job[p], applied[p], ops')
  <2>1. SUFFICES ASSUME Eventing PROVE Returned("calling", job[p], applied[p], ops')
    OBVIOUS
  <2>2. Returned("claimed", job[p], applied[p], ops)
    BY <1>1, <2>1
  <2>. QED
    BY <1>1, <1>4, <2>2, ReturnedStep
<1>9. Fits(p, "calling", job[p], applied[p], version[p])
  BY <1>6, <1>7, <1>8 DEF Fits, Op, Away
<1>. QED
  BY <1>2, <1>3, <1>9, AcceptedActs

\* The application is undone, if this run made it, or left as it is.
LEMMA UndoneActs ==
    ASSUME DIInv, NEW p \in Procs, pc[p] \in {"applied", "marked"}, Return(p),
           UNCHANGED <<repoVars, executed>>,
           Undo(p) \/ (pc[p] = "marked" /\ UNCHANGED <<applied, version>>)
    PROVE  Acts({p})
<1>. DEFINE o == job[p].op
            U == Eventing /\ job[p].fresh
<1>0. Shape /\ "idle" \in Locations
  BY DEF DIInv, Locations
<1>1. /\ Ledger(pc[p], job[p], applied[p], version[p])
      /\ Eventing => Returned(pc[p], job[p], applied[p], ops)
  BY DEF DIInv, ProcessOK
<1>2. Place("idle", NoJob, ops', executed') /\ "idle" \in Away /\ "idle" \notin InHand
  BY PlaceAway DEF Away, InHand
<1>3. CASE Undo(p) /\ U
  <2>. DEFINE ap == applied[p] \ {o}
              ve == [version[p] EXCEPT ![AggregateOf[o]] = VersionOf[o]]
  <2>1. MovedTo(p, "idle", NoJob, ap, ve)
    <3>1. applied' = [applied EXCEPT ![p] = ap]
      BY <1>3 DEF Undo, Op
    <3>2. version' = [version EXCEPT ![p] = ve]
      BY <1>0, <1>3 DEF Undo, Op, Shape
    <3>. HIDE DEF ap, ve
    <3>. QED
      BY <1>0, <3>1, <3>2, MovedBy DEF Return, Goto
  <2>2. Ledger("idle", NoJob, ap, ve)
    <3>1. job[p].fresh
      BY <1>3
    <3>. QED
      BY <1>1, <1>2, <3>1, LedgerUndo
  <2>3. Returned("idle", NoJob, ap, ops')
    BY <1>1, <1>3 DEF Returned, repoVars
  <2>. HIDE DEF ap, ve
  <2>4. Fits(p, "idle", NoJob, ap, ve)
    BY <1>2, <2>2, <2>3 DEF Fits
  <2>. QED
    BY <1>0, <2>1, <2>4, SteadyActs
<1>4. CASE /\ UNCHANGED <<applied, version>>
           /\ ~U \/ pc[p] = "marked"
  <2>1. MovedTo(p, "idle", NoJob, applied[p], version[p])
    BY <1>0, <1>4, MovedBy DEF Return, Goto
  <2>2. Eventing => Returned("idle", NoJob, applied[p], ops')
    BY <1>1, <1>4 DEF Returned, repoVars
  <2>3. Fits(p, "idle", NoJob, applied[p], version[p])
    BY <1>1, <1>2, <2>2, LedgerMove DEF Fits
  <2>. QED
    BY <1>0, <2>1, <2>3, SteadyActs
<1>. QED
  BY <1>3, <1>4 DEF Undo

\* mark_succeeded accepted, or refused and the application undone.
LEMMA CompleteActs ==
    ASSUME DIInv, NEW p \in Procs, Complete(p)
    PROVE  Acts({p})
<1>. DEFINE o == job[p].op
            l == IF Eventing THEN "marked" ELSE "idle"
            j == IF Eventing THEN job[p] ELSE NoJob
<1>0. /\ pc[p] = "applied" /\ Shape /\ UNCHANGED executed
      /\ l \in Locations /\ l \in {"marked", "idle"}
  BY DEF DIInv, Complete, Locations
<1>1. /\ Ledger("applied", job[p], applied[p], version[p])
      /\ Eventing => Returned("applied", job[p], applied[p], ops)
      /\ Place("applied", job[p], ops, executed)
      /\ applied[p] \subseteq Ops
  BY <1>0 DEF DIInv, ProcessOK, Ledger
<1>2. CASE /\ MarkSucceeded(o, job[p].fence) /\ UNCHANGED <<applied, version>>
           /\ IF Eventing THEN Goto(p, "marked") /\ UNCHANGED job ELSE Return(p)
  <2>1. MovedTo(p, l, j, applied[p], version[p])
    BY <1>0, <1>2, MovedBy DEF Return, Goto
  <2>2. Accepted(p)
    BY <1>0, <1>2, AcceptedCall DEF Away, Op
  <2>3. /\ StepOK /\ IInv' /\ \A q \in Ops : Progress(ops[q], ops'[q])
    BY <2>2, AcceptedKeeps
  <2>4. ops'[o].status = "SUCCEEDED"
    <3>1. o \in Ops /\ IInv
      BY <1>1 DEF Place, Away, DIInv
    <3>. QED
      BY <1>2, <3>1, SuccessFields
  <2>5. Eventing => Returned(l, j, applied[p], ops')
    BY <1>1, <2>3, <2>4 DEF Returned, StepOK, OpStep, Progress
  <2>6. Ledger(l, j, applied[p], version[p])
    BY <1>1 DEF Ledger, InHand
  <2>7. Place(l, j, ops', executed')
    <3>1. CASE ~Eventing
      BY <3>1, PlaceAway DEF Away
    <3>2. CASE Eventing
      <4>1. o \in Ops /\ ops[o].fencing \in Nat /\ ops'[o].fencing \in Nat
        BY <1>1, <2>3 DEF Place, Away, DIInv, IInv, OutboxOperation
      <4>2. /\ job[p].fence \in Nat /\ job[p].fence > 0
            /\ job[p].fence <= ops'[o].fencing /\ job[p].fence <= MaxFence
            /\ job[p] \in [op : Ops \cup {"none"}, fence : Nat, fresh : BOOLEAN]
        BY <1>1, <2>3, <4>1, ConstantsAssumption DEF Place, Away, Progress
      <4>. QED
        BY <3>2, <4>1, <4>2 DEF Place, Locations, Away, Sent, Reconciling
    <3>. QED
      BY <3>1, <3>2
  <2>8. Fits(p, l, j, applied[p], version[p])
    BY <1>0, <2>5, <2>6, <2>7 DEF Fits, Op, Away
  <2>. HIDE DEF l, j
  <2>. QED
    BY <1>0, <2>1, <2>2, <2>8, AcceptedActs
<1>3. CASE UNCHANGED repoVars /\ Undo(p) /\ Return(p)
  BY <1>0, <1>3, UndoneActs
<1>. QED
  BY <1>2, <1>3 DEF Complete

\* A claim is handed out: it is newer than every claim in use.
LEMMA ClaimActs ==
    ASSUME DIInv, NEW p \in Procs, pc[p] = "idle", NEW o \in Ops,
           NEW l \in {"claimed", "querying"},
           \/ ClaimNext(o) /\ l = "claimed"
           \/ ClaimReconciliation(o) /\ l = "querying",
           job' = [job EXCEPT ![p] = [op |-> o, fence |-> ops'[o].fencing,
                                      fresh |-> FALSE]],
           Goto(p, l), UNCHANGED <<applied, version, executed>>
    PROVE  Acts({p})
<1>. DEFINE j == [op |-> o, fence |-> ops'[o].fencing, fresh |-> FALSE]
<1>1. /\ Ledger("idle", job[p], applied[p], version[p])
      /\ Eventing => Returned("idle", job[p], applied[p], ops)
      /\ applied[p] \subseteq Ops /\ IInv /\ Shape /\ l \in Locations
  BY DEF DIInv, ProcessOK, Ledger, Locations
<1>2. Unclaimed /\ [Next]_repoVars
  BY UnclaimedIsNext DEF Unclaimed
<1>3. StepOK /\ IInv' /\ \A q \in Ops : Progress(ops[q], ops'[q])
  BY <1>1, <1>2, StepIInv, UnclaimedGentle DEF DIInv, Recorded, Gentle
<1>4. /\ ops'[o].status = "CLAIMED" /\ ops'[o].fencing = ops[o].fencing + 1
      /\ ops'[o].fencing <= MaxFence /\ ops[o].fencing \in Nat
      /\ l = "querying" => ops'[o].recon = "IN_PROGRESS"
  <2>1. CASE ClaimNext(o) /\ l = "claimed"
    <3>1. OpOK(ops[o]) /\ Recovered \in [Ops -> OutboxOperation]
      BY <1>1, RecoveredStep DEF IInv
    <3>2. ops'[o] = Claimed(Recovered[o]) /\ Recovered[o].fencing < MaxFence
      BY <2>1, <3>1 DEF ClaimNext
    <3>3. Recovered[o].fencing = ops[o].fencing /\ Recovered[o] \in OutboxOperation
      BY <3>1, RecoveredProgress DEF Recovered
    <3>. QED
      BY <2>1, <3>2, <3>3, ConstantsAssumption, SMTT(30) DEF Claimed, OutboxOperation
  <2>2. CASE ClaimReconciliation(o) /\ l = "querying"
    <3>1. ops \in [Ops -> OutboxOperation] /\ ops[o] \in OutboxOperation
      BY <1>1 DEF IInv
    <3>2. /\ ops'[o] = Claimed([ops[o] EXCEPT !.recon = "IN_PROGRESS"])
          /\ ops[o].fencing < MaxFence
      BY <2>2, <3>1 DEF ClaimReconciliation
    <3>. QED
      BY <3>1, <3>2, ConstantsAssumption DEF Claimed, OutboxOperation
  <2>. QED
    BY <2>1, <2>2
<1>5. MovedTo(p, l, j, applied[p], version[p])
  <2>1. job' = [job EXCEPT ![p] = j]
    OBVIOUS
  <2>. HIDE DEF j
  <2>. QED
    BY <1>1, <2>1, MovedBy DEF Goto
<1>6. /\ j.op = o /\ j.fence = ops'[o].fencing
      /\ j \in [op : Ops \cup {"none"}, fence : Nat, fresh : BOOLEAN]
  BY <1>4
<1>. HIDE DEF j
<1>7. Place(l, j, ops', executed')
  BY <1>1, <1>4, <1>6 DEF Place, Away, Sent, Reconciling
<1>8. Eventing => Returned(l, j, applied[p], ops')
  <2>1. SUFFICES ASSUME Eventing PROVE Returned(l, j, applied[p], ops')
    OBVIOUS
  <2>2. Returned("idle", job[p], applied[p], ops) /\ "idle" # "applied"
    BY <1>1, <2>1
  <2>. QED
    BY <1>1, <1>3, <2>2, ReturnedStep
<1>9. ProcessOK(p)'
  BY <1>1, <1>5, <1>7, <1>8, LedgerMove DEF ProcessOK, MovedTo, InHand
<1>10. Own(p)'
  <2>1. ASSUME NEW q \in Procs \ {p}, pc[q] \notin Away, Op(q) = o
        PROVE  job[q].fence # ops'[o].fencing
    BY <1>4, <2>1 DEF DIInv, ProcessOK, Place, Op
  <2>. QED
    BY <1>5, <1>6, <2>1 DEF Own, MovedTo, Op
<1>. QED
  BY <1>2, <1>5, <1>9, <1>10, UnclaimedActs DEF MovedTo

-----------------------------------------------------------------------------
(* The invariant and what follows from it.                                  *)

LEMMA WorkerActs ==
    ASSUME DIInv, NEW p \in Procs, WorkerStep(p)
    PROVE  \E P \in SUBSET Procs : Acts(P)
<1>0. SUFFICES ASSUME ~Acts({p}) PROVE Acts({})
  OBVIOUS
<1>1. CASE Claim(p)
  <2>1. PICK o \in Ops :
           /\ ClaimNext(o)
           /\ job' = [job EXCEPT ![p] = [op |-> o, fence |-> ops'[o].fencing,
                                         fresh |-> FALSE]]
    BY <1>1 DEF Claim
  <2>2. /\ pc[p] = "idle" /\ Goto(p, "claimed")
        /\ UNCHANGED <<applied, version, executed>>
    BY <1>1 DEF Claim
  <2>. QED
    BY <1>0, <2>1, <2>2, ClaimActs
<1>2. CASE ClaimNothing(p)
  <2>1. Unclaimed /\ UNCHANGED executed
    BY <1>2 DEF ClaimNothing, Unclaimed
  <2>2. Shape' /\ UNCHANGED procVars
    BY <1>2 DEF ClaimNothing, DIInv, Shape, procVars
  <2>. QED
    BY <2>1, <2>2, UnclaimedActs DEF procVars
<1>3. CASE LookupFails(p)
  <2>1. "fatal" \in Locations \ (Away \cup InHand)
        /\ "fatal" \notin Sent \cup Reconciling \cup {"claimed", "result", "found"}
    BY DEF Locations, InHand, Away, Sent, Reconciling
  <2>2. pc[p] \notin Away \cup {"applied", "marked"}
    BY <1>3 DEF LookupFails, Away
  <2>. QED
    BY <1>0, <1>3, <2>1, <2>2, GoesOn DEF LookupFails
<1>4. CASE StartDispatch(p)
  <2>1. pc[p] = "claimed" /\ pc[p] \notin Away \cup {"applied", "marked"}
    BY <1>4 DEF StartDispatch, Away
  <2>2. CASE ~Holding(p) /\ Return(p) /\ UNCHANGED repoVars
    BY <1>0, <1>4, <2>1, <2>2, ReturnActs DEF StartDispatch
  <2>3. CASE MarkDispatching(job[p].op, job[p].fence) /\ Goto(p, "calling")
             /\ UNCHANGED job
    BY <1>0, <1>4, <2>1, <2>3, DispatchActs DEF StartDispatch
  <2>. QED
    BY <1>4, <2>2, <2>3 DEF StartDispatch
<1>5. CASE DispatchAccepted(p)
  <2>1. PICK l \in {"result", "uncertain", "fatal"} : Goto(p, l)
    BY <1>5 DEF DispatchAccepted
  <2>2. l \in Locations \ (Away \cup InHand)
        /\ l \notin Reconciling \cup {"claimed"}
    BY DEF Locations, InHand, Away, Reconciling
  <2>3. pc[p] \notin Away \cup {"applied", "marked"} /\ pc[p] \in Sent
    BY <1>5 DEF DispatchAccepted, Away, Sent
  <2>4. /\ executed' = executed \cup {Op(p)} /\ Op(p) \in executed'
        /\ UNCHANGED <<repoVars, job, applied, version>>
    BY <1>5 DEF DispatchAccepted
  <2>. QED
    BY <1>0, <2>1, <2>2, <2>3, <2>4, GoesOn
<1>6. CASE DispatchRefused(p)
  <2>1. PICK l \in {"uncertain", "retry", "fatal"} : Goto(p, l)
    BY <1>6 DEF DispatchRefused
  <2>2. l \in Locations \ (Away \cup InHand)
        /\ l \notin Reconciling \cup {"claimed", "result", "found"}
    BY DEF Locations, InHand, Away, Reconciling
  <2>3. pc[p] \notin Away \cup {"applied", "marked"} /\ pc[p] \in Sent
    BY <1>6 DEF DispatchRefused, Away, Sent
  <2>4. UNCHANGED <<repoVars, job, applied, version, executed>>
    BY <1>6 DEF DispatchRefused
  <2>. QED
    BY <1>0, <2>1, <2>2, <2>3, <2>4, GoesOn
<1>a. /\ "uncertain" \in Locations \ (Away \cup InHand)
      /\ "uncertain" \notin Sent \cup Reconciling \cup {"claimed", "result", "found"}
  BY DEF Locations, InHand, Away, Sent, Reconciling
<1>7. CASE GuardFails(p)
  <2>1. pc[p] \notin Away \cup {"applied", "marked"}
    BY <1>7 DEF GuardFails, Away
  <2>. QED
    BY <1>0, <1>7, <1>a, <2>1, GoesOn DEF GuardFails
<1>8. CASE ApplyResult(p)
  <2>1. CASE ApplyEffect(p) /\ Goto(p, "applied")
    BY <1>0, <1>8, <2>1, ApplyActs DEF ApplyResult
  <2>2. CASE Stale(p) /\ Goto(p, "uncertain") /\ UNCHANGED <<job, applied, version>>
    <3>1. pc[p] \notin Away \cup {"applied", "marked"}
      BY <1>8 DEF ApplyResult, Away
    <3>. QED
      BY <1>0, <1>8, <1>a, <2>2, <3>1, GoesOn DEF ApplyResult
  <2>. QED
    BY <1>8, <2>1, <2>2 DEF ApplyResult
<1>9. CASE Complete(p)
  BY <1>0, <1>9, CompleteActs
<1>13. CASE Commit(p)
  BY <1>0, <1>13, UndoneActs DEF Commit
<1>14. CASE AnnounceFails(p)
  <2>1. pc[p] \notin Away \cup {"applied", "marked"}
    BY <1>14 DEF AnnounceFails, Away
  <2>. QED
    BY <1>0, <1>14, <2>1, ReturnActs DEF AnnounceFails
<1>10. CASE RequireReconciliation(p)
  <2>1. pc[p] \notin Away \cup {"applied", "marked"} /\ pc[p] \notin Away
    BY <1>10 DEF RequireReconciliation, Away
  <2>2. Accepted(p) \/ UNCHANGED repoVars
    BY <1>10, <2>1, AcceptedCall DEF RequireReconciliation, Settle, Op
  <2>. QED
    BY <1>0, <1>10, <2>1, <2>2, ReturnActs DEF RequireReconciliation, Settle
<1>11. CASE ScheduleRetry(p)
  <2>1. pc[p] \notin Away \cup {"applied", "marked"} /\ pc[p] \notin Away
    BY <1>11 DEF ScheduleRetry, Away
  <2>2. PICK d \in 0..MaxDelay : Settle(p, MarkRetryWait(job[p].op, job[p].fence, d))
    BY <1>11 DEF ScheduleRetry
  <2>3. Accepted(p) \/ UNCHANGED repoVars
    BY <2>1, <2>2, AcceptedCall DEF Settle, Op
  <2>. QED
    BY <1>0, <2>1, <2>2, <2>3, ReturnActs DEF Settle
<1>12. CASE GiveUp(p)
  <2>1. pc[p] \notin Away \cup {"applied", "marked"} /\ pc[p] \notin Away
    BY <1>12 DEF GiveUp, Away
  <2>2. Accepted(p) \/ UNCHANGED repoVars
    BY <1>12, <2>1, AcceptedCall DEF GiveUp, Settle, Op
  <2>. QED
    BY <1>0, <1>12, <2>1, <2>2, ReturnActs DEF GiveUp, Settle
<1>. QED
  BY <1>1, <1>2, <1>3, <1>4, <1>5, <1>6, <1>7, <1>8, <1>9, <1>10, <1>11, <1>12,
     <1>13, <1>14 DEF WorkerStep

LEMMA ReconcilerActs ==
    ASSUME DIInv, NEW p \in Procs, ReconcilerStep(p)
    PROVE  Acts({p})
<1>1. CASE ClaimUncertain(p)
  <2>1. PICK o \in Ops :
           /\ ClaimReconciliation(o)
           /\ job' = [job EXCEPT ![p] = [op |-> o, fence |-> ops'[o].fencing,
                                         fresh |-> FALSE]]
    BY <1>1 DEF ClaimUncertain
  <2>2. /\ pc[p] = "idle" /\ Goto(p, "querying")
        /\ UNCHANGED <<applied, version, executed>>
    BY <1>1 DEF ClaimUncertain
  <2>. QED
    BY <2>1, <2>2, ClaimActs
<1>2. CASE Query(p)
  <2>1. PICK l \in {"uncertain", "fatal",
                    IF Op(p) \in executed THEN "found" ELSE "absent"} : Goto(p, l)
    BY <1>2 DEF Query
  <2>2. l \in {"uncertain", "fatal", "found", "absent"}
        /\ (l = "found" => Op(p) \in executed)
    BY <2>1
  <2>3. l \in Locations \ (Away \cup InHand)
        /\ l \notin Sent \cup {"claimed", "result"}
    BY <2>2 DEF Locations, InHand, Away, Sent
  <2>4. pc[p] \notin Away \cup {"applied", "marked"} /\ pc[p] \in Reconciling
    BY <1>2 DEF Query, Away, Reconciling
  <2>5. UNCHANGED <<repoVars, job, applied, version, executed>>
    BY <1>2 DEF Query
  <2>. QED
    BY <2>1, <2>2, <2>3, <2>4, <2>5, GoesOn
<1>3. CASE QueryFails(p)
  <2>1. pc[p] \notin Away \cup {"applied", "marked"}
    BY <1>3 DEF QueryFails, Away
  <2>. QED
    BY <1>3, <2>1, ReturnActs DEF QueryFails
<1>4. CASE ReleaseUnexecuted(p)
  <2>1. pc[p] \notin Away \cup {"applied", "marked"} /\ pc[p] \notin Away
    BY <1>4 DEF ReleaseUnexecuted, Away
  <2>2. Accepted(p) \/ UNCHANGED repoVars
    BY <1>4, <2>1, AcceptedCall DEF ReleaseUnexecuted, Settle, Op
  <2>. QED
    BY <1>4, <2>1, <2>2, ReturnActs DEF ReleaseUnexecuted, Settle
<1>5. CASE ApplyFound(p)
  <2>1. pc[p] \notin Away \cup {"applied", "marked"}
    BY <1>5 DEF ApplyFound, Away
  <2>2. CASE ApplyEffect(p) /\ Goto(p, "recorded")
    BY <1>5, <2>2, ApplyActs DEF ApplyFound
  <2>3. CASE Stale(p) /\ Return(p) /\ UNCHANGED <<applied, version>>
    BY <1>5, <2>1, <2>3, ReturnActs DEF ApplyFound
  <2>. QED
    BY <1>5, <2>2, <2>3 DEF ApplyFound
<1>6. CASE CompleteFound(p)
  <2>1. pc[p] \notin Away \cup {"applied", "marked"} /\ pc[p] \notin Away
        /\ pc[p] \in {"applied", "recorded"}
    BY <1>6 DEF CompleteFound, Away
  <2>2. Accepted(p) \/ UNCHANGED repoVars
    BY <1>6, <2>1, AcceptedCall DEF CompleteFound, Settle, Op
  <2>. QED
    BY <1>6, <2>1, <2>2, ReturnActs DEF CompleteFound, Settle
<1>. QED
  BY <1>1, <1>2, <1>3, <1>4, <1>5, <1>6 DEF ReconcilerStep

LEMMA CrashActs ==
    ASSUME DIInv, NEW p \in Procs, Crash(p)
    PROVE  Acts({p})
<1>1. MovedTo(p, "down", NoJob, {}, NoVersions)
  <2>1. Shape /\ "down" \in Locations
    BY DEF DIInv, Locations
  <2>. QED
    BY <2>1, MovedBy DEF Crash, Goto
<1>2. Ledger("down", NoJob, {}, NoVersions)
  BY LedgerEmpty DEF InHand
<1>3. Returned("down", NoJob, {}, ops')
  BY DEF Returned
<1>4. Fits(p, "down", NoJob, {}, NoVersions)
  BY <1>2, <1>3, PlaceAway DEF Fits, Away
<1>5. UNCHANGED repoVars /\ UNCHANGED executed
  BY DEF Crash
<1>. QED
  BY <1>1, <1>4, <1>5, SteadyActs

LEMMA RestartActs ==
    ASSUME DIInv, NEW p \in Procs, Restart(p)
    PROVE  Acts({p})
<1>1. /\ pc[p] = "down" /\ Ledger("down", job[p], applied[p], version[p])
      /\ Eventing => Returned("down", job[p], applied[p], ops)
      /\ applied[p] \subseteq Ops /\ job[p] = NoJob
  BY DEF DIInv, ProcessOK, Ledger, Restart, Place, Away
<1>2. MovedTo(p, "idle", NoJob, applied[p], version[p])
  <2>1. Shape /\ "idle" \in Locations
    BY DEF DIInv, Locations
  <2>. QED
    BY <1>1, <2>1, MovedBy DEF Restart, Goto
<1>3. Unclaimed /\ UNCHANGED executed
  BY DEF Restart, Unclaimed
<1>4. StepOK /\ \A o \in Ops : Progress(ops[o], ops'[o])
  BY <1>3, UnclaimedIsNext, StepIInv, UnclaimedGentle DEF DIInv, Recorded, Gentle
<1>5. Eventing => Returned("idle", NoJob, applied[p], ops')
  BY <1>1, <1>4, ReturnedStep
<1>6. ProcessOK(p)' /\ Own(p)'
  BY <1>1, <1>2, <1>5, PlaceAway, LedgerMove DEF ProcessOK, MovedTo, Own, Away, InHand
<1>. QED
  BY <1>2, <1>3, <1>6, UnclaimedActs DEF MovedTo

\* Every step of the composition is a step of one process or of none.
LEMMA StepActs ==
    ASSUME DIInv, [DNext]_vars
    PROVE  \E P \in SUBSET Procs : Acts(P)
<1>1. ASSUME Unclaimed, UNCHANGED <<procVars, executed>>
      PROVE  Acts({})
  <2>1. Shape'
    BY <1>1 DEF DIInv, Shape, procVars
  <2>. QED
    BY <1>1, <2>1, UnclaimedActs DEF procVars
<1>2. CASE UNCHANGED vars
  BY <1>1, <1>2 DEF vars, procVars, Unclaimed, repoVars
<1>3. CASE Environment /\ UNCHANGED <<procVars, executed>>
  BY <1>1, <1>3 DEF Environment, Unclaimed
<1>4. CASE \E p \in Procs : WorkerStep(p)
  BY <1>4, WorkerActs
<1>5. CASE \E p \in Procs : ReconcilerStep(p) \/ Crash(p) \/ Restart(p)
  BY <1>5, ReconcilerActs, CrashActs, RestartActs
<1>. QED
  BY <1>2, <1>3, <1>4, <1>5 DEF DNext

LEMMA InitDIInv == DInit => DIInv
<1>. SUFFICES ASSUME DInit PROVE DIInv
  OBVIOUS
<1>1. IInv /\ \A o \in Ops : ops[o] = Absent
  BY InitIInv DEF DInit, Init
<1>2. Shape
  BY DEF DInit, Shape, Locations
<1>3. \A o \in Ops : Recorded(o)
  BY <1>1, AbsentFields DEF DInit, Recorded, Absent
<1>4. ASSUME NEW p \in Procs PROVE ProcessOK(p) /\ Own(p)
  <2>1. /\ pc[p] = "idle" /\ job[p] = NoJob /\ applied[p] = {}
        /\ version[p] = NoVersions
    BY DEF DInit
  <2>2. Returned("idle", NoJob, {}, ops)
    BY DEF Returned
  <2>. QED
    BY <2>1, <2>2, PlaceAway, LedgerEmpty DEF ProcessOK, Own, Away, InHand
<1>. QED
  BY <1>1, <1>2, <1>3, <1>4 DEF DIInv, DInit

LEMMA StepDIInv ==
    ASSUME DIInv, [DNext]_vars
    PROVE  DIInv'
  BY StepActs, ActsInvariant

\* The invariant of the composition, for any processes, operations, aggregates
\* and bounds.
THEOREM DispatchInvariant == DSpec => []DIInv
<1>1. DInit => DIInv
  BY InitDIInv
<1>2. DIInv /\ [DNext]_vars => DIInv'
  BY StepDIInv
<1>. QED
  BY <1>1, <1>2, PTL DEF DSpec

LEMMA InvariantImpliesFaithful ==
    ASSUME DIInv
    PROVE  ClaimsAreFaithful
<1>1. DTypeOK
  <2>1. ASSUME NEW p \in Procs
        PROVE  /\ pc[p] \in {"idle", "down"} <=> job[p] = NoJob
               /\ job[p] # NoJob => Op(p) \in Ops /\ job[p].fence \in 1..MaxFence
               /\ applied[p] \subseteq Ops /\ version[p] \in [Aggregates -> Nat]
    <3>1. /\ Place(pc[p], job[p], ops, executed)
          /\ Ledger(pc[p], job[p], applied[p], version[p])
      BY DEF DIInv, ProcessOK
    <3>2. NoJob.fence = 0
      BY DEF NoJob
    <3>3. pc[p] \notin {"idle", "down"} => job[p] # NoJob
      BY <3>1, <3>2 DEF Place, Away
    <3>4. job[p] # NoJob => Op(p) \in Ops /\ job[p].fence \in 1..MaxFence
      BY <3>1, ConstantsAssumption DEF Place, Away, Op
    <3>. QED
      BY <3>1, <3>3, <3>4 DEF Place, Away, Ledger
  <2>2. /\ pc \in [Procs -> Locations] /\ applied = [p \in Procs |-> applied[p]]
        /\ version = [p \in Procs |-> version[p]] /\ executed \subseteq Ops
    BY DEF DIInv, Shape
  <2>3. applied \in [Procs -> SUBSET Ops]
    BY <2>1, <2>2
  <2>4. version \in [Procs -> [Aggregates -> Nat]]
    BY <2>1, <2>2
  <2>. QED
    BY <2>1, <2>2, <2>3, <2>4 DEF DTypeOK
<1>2. SingleWriter
  BY DEF DIInv, Own, SingleWriter, Holding, Authorised, Away, Op
<1>3. StatusFollowsWorker
  <2>1. ASSUME NEW p \in Procs, pc[p] \notin {"idle", "down"}, Holding(p)
        PROVE  /\ pc[p] \in {"calling", "result", "applied", "retry"}
                    => ops[Op(p)].status = "DISPATCHING"
               /\ pc[p] = "claimed" => ops[Op(p)].status = "CLAIMED"
               /\ pc[p] \in {"querying", "absent", "found", "recorded"}
                    => /\ ops[Op(p)].status = "CLAIMED"
                       /\ ops[Op(p)].recon = "IN_PROGRESS"
    <3>1. Place(pc[p], job[p], ops, executed)
      BY DEF DIInv, ProcessOK
    <3>2. Holds(ops[job[p].op], job[p].fence)
      BY <2>1 DEF Holding, Authorised, Holds
    <3>. QED
      BY <2>1, <3>1, <3>2 DEF Place, Away, Sent, Reconciling, Op
  <2>. QED
    BY <2>1 DEF StatusFollowsWorker
<1>. QED
  BY <1>1, <1>2, <1>3 DEF ClaimsAreFaithful

\* Whatever expires, crashes and is claimed again, one process at most can
\* change an operation, and its claim stands for the status it expects.
THEOREM ClaimsFaithful == DSpec => []ClaimsAreFaithful
  BY DispatchInvariant, InvariantImpliesFaithful, PTL

\* Every SUCCEEDED operation was carried out by the provider.
THEOREM SuccessExecuted == DSpec => []SucceededWasExecuted
<1>1. DIInv => SucceededWasExecuted
  BY DEF DIInv, Recorded, SucceededWasExecuted
<1>. QED
  BY <1>1, DispatchInvariant, PTL

LEMMA InvariantImpliesCounts ==
    ASSUME DIInv
    PROVE  VersionsCountResults /\ (Eventing => FailedResultIsUndone)
<1>1. \A p \in Procs : /\ Ledger(pc[p], job[p], applied[p], version[p])
                       /\ Eventing => Returned(pc[p], job[p], applied[p], ops)
  BY DEF DIInv, ProcessOK
<1>2. VersionsCountResults
  BY <1>1 DEF VersionsCountResults, Ledger, OfAggregate
<1>3. Eventing => FailedResultIsUndone
  BY <1>1 DEF FailedResultIsUndone, Returned, Op
<1>. QED
  BY <1>2, <1>3

\* Who acts, and what of it shows in the outbox and at the provider.
LEMMA StepEffects ==
    ASSUME DIInv, [DNext]_vars
    PROVE  /\ \A o \in Ops :
                 ops[o].status # "SUCCEEDED" /\ ops'[o].status = "SUCCEEDED"
                 => /\ o \in executed
                    /\ \E p \in Procs : pc[p] # "idle" /\ Op(p) = o /\ o \in applied[p]
           /\ \A o \in Ops : StatusStep(ops[o].status, ops'[o].status)
           /\ executed \subseteq executed'
           /\ \A o \in executed' \ executed : o \in Ops /\ ops[o].status # "ABSENT"
<1>1. PICK P \in SUBSET Procs : Acts(P)
  BY StepActs
<1>2. ASSUME NEW o \in Ops, ops[o].status # "SUCCEEDED", ops'[o].status = "SUCCEEDED"
      PROVE  /\ o \in executed
             /\ \E p \in Procs : pc[p] # "idle" /\ Op(p) = o /\ o \in applied[p]
  <2>1. PICK p \in Procs : pc[p] \in {"applied", "recorded"} /\ Op(p) = o
    BY <1>1, <1>2 DEF Acts, Effects
  <2>2. /\ Place(pc[p], job[p], ops, executed)
        /\ Ledger(pc[p], job[p], applied[p], version[p])
    BY DEF DIInv, ProcessOK
  <2>. QED
    BY <2>1, <2>2 DEF Place, Ledger, Away, Op, InHand
<1>3. ASSUME NEW o \in executed' \ executed PROVE o \in Ops /\ ops[o].status # "ABSENT"
  <2>1. o \in Ops /\ ops[o].attemptCount > 0
    BY <1>1, <1>3 DEF Acts, Effects
  <2>2. OpOK(ops[o])
    BY <2>1 DEF DIInv, IInv
  <2>. QED
    BY <2>1, <2>2 DEF OpOK, ClaimOK, AttemptOK, OutboxOperation
<1>. QED
  BY <1>1, <1>2, <1>3 DEF Acts, Progress, Effects

\* With an event publisher the results that are applied and the operations
\* that succeed agree, whichever transaction fails.
THEOREM ResultsAgree == ASSUME Eventing PROVE DSpec => ResultsAreApplied
<1>1. DIInv => VersionsCountResults /\ FailedResultIsUndone
  BY InvariantImpliesCounts
<1>2. DIInv /\ [DNext]_vars
      => [\A o \in Ops :
             ops[o].status # "SUCCEEDED" /\ ops'[o].status = "SUCCEEDED"
             => \E p \in Procs :
                   pc[p] # "idle" /\ Op(p) = o /\ o \in applied[p]]_vars
  BY StepEffects
<1>. QED
  BY <1>1, <1>2, DispatchInvariant, PTL
     DEF DSpec, ResultsAreApplied, SuccessNeedsApplication

LEMMA PhasesOfStatus ==
    /\ \A s \in Status : PhaseOf[s] \in Lifecycle!Phases
    /\ \A s \in Status : PhaseOf[s] = "succeeded" => s = "SUCCEEDED"
    /\ \A s \in Status : PhaseOf[s] = "absent" => s = "ABSENT"
    /\ PhaseOf["ABSENT"] = "absent"
  BY DEF PhaseOf, Status, Lifecycle!Phases

\* Processes, repository and provider together are the abstract life cycle of
\* external operations: every step maps to a step of it, or to none.
THEOREM LifecycleImplemented == DSpec => ImplementsLifecycle
<1>1. DInit => Lifecycle!Init
  <2>1. SUFFICES ASSUME DInit PROVE Lifecycle!Init
    OBVIOUS
  <2>2. \A o \in Ops : PhaseOf[ops[o].status] = "absent"
    BY <2>1, AbsentFields, PhasesOfStatus DEF DInit, Init
  <2>. QED
    BY <2>1, <2>2 DEF Lifecycle!Init, DInit
<1>2. DIInv /\ DIInv' /\ [DNext]_vars => [Lifecycle!Next]_Lifecycle!vars
  <2>. SUFFICES ASSUME DIInv, DIInv', [DNext]_vars PROVE Lifecycle!Next
    OBVIOUS
  <2>1. \A o \in Ops : ops[o].status \in Status /\ ops'[o].status \in Status
    BY DEF DIInv, IInv, OutboxOperation
  <2>2. \A o \in Ops : PhaseOf[ops'[o].status] \in Lifecycle!Phases
    BY <2>1, PhasesOfStatus
  <2>3. \A o \in Ops : PhaseOf[ops'[o].status] # PhaseOf[ops[o].status]
           => <<PhaseOf[ops[o].status], PhaseOf[ops'[o].status]>> \in Lifecycle!Moves
    BY StepEffects DEF StatusStep
  <2>4. \A o \in Ops : PhaseOf[ops'[o].status] = "succeeded" => o \in executed
    BY <2>1, PhasesOfStatus, StepEffects DEF DIInv, Recorded
  <2>5. /\ executed \subseteq executed'
        /\ \A o \in executed' \ executed : o \in Ops /\ PhaseOf[ops[o].status] # "absent"
    BY <2>1, PhasesOfStatus, StepEffects
  <2>. QED
    BY <2>2, <2>3, <2>4, <2>5 DEF Lifecycle!Next
<1>. QED
  BY <1>1, <1>2, DispatchInvariant, PTL DEF DSpec, ImplementsLifecycle, Lifecycle!Spec
=============================================================================
