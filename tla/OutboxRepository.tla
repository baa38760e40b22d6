-------------------------- MODULE OutboxRepository --------------------------
(***************************************************************************)
(* The durable outbox repository (runtime/outbox/repository.py and the      *)
(* SQLite provider around it).  Every repository call is one action: the    *)
(* SQLite provider reloads, runs the in-memory method and saves inside one  *)
(* BEGIN IMMEDIATE transaction.  Callers are arbitrary: a claim that was    *)
(* handed out can be presented at any later time, any number of times.      *)
(*                                                                          *)
(* Data abstraction.                                                        *)
(*   - A claim is the pair (operation, fencing token).  The opaque token    *)
(*     and the owner are fresh for each claim, so the stored owner and      *)
(*     token hash are `holder`, the fencing token they were issued with;    *)
(*     0 stands for None.                                                   *)
(*   - Times are counted down: `ttl` is what is left of claim_expires_at,   *)
(*     `delay` what is left of available_at.  A claim with holder # 0 and   *)
(*     ttl = 0 is expired; Tick lets one unit of time pass.                 *)
(*   - Among eligible operations of the same priority the tie-breakers      *)
(*     (availability, creation time, id) are left open.                     *)
(***************************************************************************)
EXTENDS Integers, Sequences, FiniteSets

CONSTANTS
    Ops,           \* operation ids that may be added
    Keys,          \* idempotency keys
    Providers,     \* provider ids
    KeyOf,         \* idempotency_key of each operation
    ProviderOf,    \* provider_id of each operation
    Priority,      \* priority of each operation, lowest first
    MaxAttempts,   \* OutboxOperation.maximum_attempts
    TTL,           \* ttl_seconds of a claim, in ticks
    MaxDelay,      \* longest retry delay, in ticks
    MaxFence       \* bound on the claims handed out per operation

ASSUME ConstantsAssumption ==
    /\ KeyOf \in [Ops -> Keys]
    /\ ProviderOf \in [Ops -> Providers]
    /\ Priority \in [Ops -> Int]
    /\ MaxAttempts \in Nat
    /\ TTL \in Nat \ {0}
    /\ MaxDelay \in Nat
    /\ MaxFence \in Nat

VARIABLES
    ops,      \* _operations (with _attempts): the record of each operation
    paused    \* _provider_pauses: the providers that are paused

repoVars == <<ops, paused>>

Status == {"ABSENT", "PENDING", "CLAIMED", "DISPATCHING", "SUCCEEDED",
           "RETRY_WAIT", "RECONCILIATION_REQUIRED", "DEAD_LETTER",
           "CANCELLED"}
ReconciliationState == {"NONE", "REQUIRED", "IN_PROGRESS", "RESOLVED"}
Outcome == {"STARTED", "SUCCEEDED", "RETRY", "UNCERTAIN", "DEAD_LETTER"}

OutboxOperation ==
    [status : Status, recon : ReconciliationState, holder : Nat, ttl : Nat,
     fencing : Nat, attemptCount : Nat, attempts : Seq(Outcome), delay : Nat]

Absent ==
    [status |-> "ABSENT", recon |-> "NONE", holder |-> 0, ttl |-> 0,
     fencing |-> 0, attemptCount |-> 0, attempts |-> <<>>, delay |-> 0]

Init ==
    /\ ops = [o \in Ops |-> Absent]
    /\ paused = {}

-----------------------------------------------------------------------------
(* What the private helpers of the repository do to one operation.          *)

\* _claim: a new owner and token, a new expiry, the next fencing token.
Claimed(op) ==
    [op EXCEPT !.status = "CLAIMED", !.holder = op.fencing + 1, !.ttl = TTL,
               !.fencing = op.fencing + 1]

\* _clear_claim
Cleared(op) == [op EXCEPT !.holder = 0, !.ttl = 0]

\* _finish_attempt: only the last attempt, and only while it is open.
Finished(op, outcome) ==
    IF op.attempts # <<>> /\ op.attempts[Len(op.attempts)] = "STARTED"
    THEN [op EXCEPT !.attempts[Len(op.attempts)] = outcome]
    ELSE op

\* _dead_letter
DeadLettered(op) ==
    Cleared(Finished([op EXCEPT !.status = "DEAD_LETTER"], "DEAD_LETTER"))

\* Mutant: only the expiry is checked, not whose claim it is.
AuthorisedByAnyone(o, fence) == ops[o].ttl > 0

\* _validate_claim: the claim is not expired, its fencing token is the
\* latest one, and its owner and token are the stored ones.
Authorised(o, fence) ==
    /\ ops[o].ttl > 0
    /\ ops[o].fencing = fence
    /\ ops[o].holder = fence

Expired(op) ==
    /\ op.status \in {"CLAIMED", "DISPATCHING"}
    /\ op.holder # 0
    /\ op.ttl = 0

\* Mutant: an expired claim goes back to PENDING, dispatched or not.
RecoveredOpRequeues(op) ==
    IF ~Expired(op) THEN op ELSE Cleared([op EXCEPT !.status = "PENDING"])

\* Mutant: recovery forgets to clear the claim.
RecoveredOpKeepsClaim(op) ==
    IF ~Expired(op) THEN op
    ELSE IF op.status = "DISPATCHING"
         THEN [op EXCEPT !.status = "RECONCILIATION_REQUIRED",
                         !.recon = "REQUIRED"]
         ELSE [op EXCEPT !.status = "PENDING"]

\* recover_expired on one operation.
RecoveredOp(op) ==
    IF ~Expired(op) THEN op
    ELSE IF op.status = "DISPATCHING"
         THEN Cleared([op EXCEPT !.status = "RECONCILIATION_REQUIRED",
                                 !.recon = "REQUIRED"])
         ELSE Cleared([op EXCEPT !.status = "PENDING"])

Recovered == [o \in Ops |-> RecoveredOp(ops[o])]

\* _eligible, after recovery.
Eligible ==
    {o \in Ops : /\ Recovered[o].status \in {"PENDING", "RETRY_WAIT"}
                 /\ Recovered[o].delay = 0
                 /\ ProviderOf[o] \notin paused}

First(S) == {o \in S : \A q \in S : Priority[o] <= Priority[q]}

-----------------------------------------------------------------------------
(* The repository's operations.                                             *)

\* add_operation: a known id, or a key that is already in use, is refused.
\* OutboxOperatorService.clone_corrected adds its replacement this way.
AddOperation(o) ==
    /\ ops[o].status = "ABSENT"
    /\ \A q \in Ops : KeyOf[q] = KeyOf[o] => ops[q].status = "ABSENT"
    /\ ops' = [ops EXCEPT ![o] = [Absent EXCEPT !.status = "PENDING"]]
    /\ UNCHANGED paused

\* claim_next: recover every expired claim, then claim the first eligible.
ClaimNext(o) ==
    /\ o \in First(Eligible)
    /\ Recovered[o].fencing < MaxFence
    /\ ops' = [Recovered EXCEPT ![o] = Claimed(Recovered[o])]
    /\ UNCHANGED paused

\* recover_expired; also all that claim_next does when nothing is eligible.
RecoverExpired ==
    /\ ops' = Recovered
    /\ UNCHANGED paused

\* claim_reconciliation: no recovery, no regard for pauses or delays.
ClaimReconciliation(o) ==
    /\ o \in First({q \in Ops : ops[q].status = "RECONCILIATION_REQUIRED"})
    /\ ops[o].fencing < MaxFence
    /\ ops' = [ops EXCEPT ![o] = Claimed([ops[o] EXCEPT !.recon = "IN_PROGRESS"])]
    /\ UNCHANGED paused

\* Mutant: an expired claim can be renewed.
RenewClaimExpired(o, fence) ==
    /\ ops[o].fencing = fence
    /\ ops[o].holder = fence
    /\ ops' = [ops EXCEPT ![o].ttl = TTL]
    /\ UNCHANGED paused

RenewClaim(o, fence) ==
    /\ Authorised(o, fence)
    /\ ops' = [ops EXCEPT ![o].ttl = TTL]
    /\ UNCHANGED paused

ReleaseClaim(o, fence) ==
    /\ Authorised(o, fence)
    /\ ops[o].status = "CLAIMED"
    /\ ops' = [ops EXCEPT ![o] = [Cleared(ops[o]) EXCEPT !.status = "PENDING"]]
    /\ UNCHANGED paused

MarkDispatching(o, fence) ==
    /\ Authorised(o, fence)
    /\ ops[o].status = "CLAIMED"
    /\ ops' = [ops EXCEPT ![o].status = "DISPATCHING",
                          ![o].attemptCount = ops[o].attemptCount + 1,
                          ![o].attempts = Append(ops[o].attempts, "STARTED")]
    /\ UNCHANGED paused

\* mark_succeeded; a claim on a SUCCEEDED operation never validates, so the
\* early return for that status cannot be taken.
MaySucceed(op) ==
    \/ op.status = "DISPATCHING"
    \/ op.status = "CLAIMED" /\ op.recon = "IN_PROGRESS"

MarkSucceeded(o, fence) ==
    /\ Authorised(o, fence)
    /\ MaySucceed(ops[o])
    /\ ops' = [ops EXCEPT ![o] =
                 Cleared(Finished([ops[o] EXCEPT !.status = "SUCCEEDED",
                                                 !.recon = "RESOLVED"],
                                  "SUCCEEDED"))]
    /\ UNCHANGED paused

\* mark_retry_wait: dead letter once the attempts are used up.
MarkRetryWait(o, fence, delay) ==
    /\ Authorised(o, fence)
    /\ ops' = [ops EXCEPT ![o] =
                 IF ops[o].attemptCount >= MaxAttempts
                 THEN DeadLettered(ops[o])
                 ELSE Cleared(Finished([ops[o] EXCEPT !.status = "RETRY_WAIT",
                                                      !.delay = delay],
                                       "RETRY"))]
    /\ UNCHANGED paused

MarkReconciliationRequired(o, fence) ==
    /\ Authorised(o, fence)
    /\ ops' = [ops EXCEPT ![o] =
                 Cleared(Finished([ops[o] EXCEPT
                                     !.status = "RECONCILIATION_REQUIRED",
                                     !.recon = "REQUIRED"], "UNCERTAIN"))]
    /\ UNCHANGED paused

MarkDeadLetter(o, fence) ==
    /\ Authorised(o, fence)
    /\ ops' = [ops EXCEPT ![o] = DeadLettered(ops[o])]
    /\ UNCHANGED paused

\* Mutant: uncertain work can be cancelled too.
CancelOperationUncertain(o) ==
    /\ ops[o].status \in {"PENDING", "RETRY_WAIT", "RECONCILIATION_REQUIRED"}
    /\ ops' = [ops EXCEPT ![o].status = "CANCELLED"]
    /\ UNCHANGED paused

CancelOperation(o) ==
    /\ ops[o].status \in {"PENDING", "RETRY_WAIT"}
    /\ ops' = [ops EXCEPT ![o].status = "CANCELLED"]
    /\ UNCHANGED paused

AbandonOperation(o) ==
    /\ ops[o].status \notin {"ABSENT", "CLAIMED", "DISPATCHING", "SUCCEEDED"}
    /\ ops' = [ops EXCEPT ![o].status = "DEAD_LETTER"]
    /\ UNCHANGED paused

\* Mutant: an operator retry starts from a clean record.
RetryDeadLetterAfresh(o) ==
    /\ ops[o].status = "DEAD_LETTER"
    /\ ops' = [ops EXCEPT ![o].status = "PENDING", ![o].delay = 0,
                          ![o].attemptCount = 0, ![o].attempts = <<>>]
    /\ UNCHANGED paused

\* retry_dead_letter: available at once; the attempts already made count.
RetryDeadLetter(o) ==
    /\ ops[o].status = "DEAD_LETTER"
    /\ ops' = [ops EXCEPT ![o].status = "PENDING", ![o].delay = 0]
    /\ UNCHANGED paused

PauseProvider(p) == paused' = paused \cup {p} /\ UNCHANGED ops
ResumeProvider(p) == paused' = paused \ {p} /\ UNCHANGED ops

\* One unit of the clock.
Tick ==
    /\ ops' = [o \in Ops |->
                 [ops[o] EXCEPT
                    !.ttl = IF ops[o].ttl > 0 THEN ops[o].ttl - 1 ELSE 0,
                    !.delay = IF ops[o].delay > 0 THEN ops[o].delay - 1 ELSE 0]]
    /\ UNCHANGED paused

\* A call that presents the claim (o, fence).
ClaimCall(o, fence) ==
    \/ RenewClaim(o, fence)
    \/ ReleaseClaim(o, fence)
    \/ MarkDispatching(o, fence)
    \/ MarkSucceeded(o, fence)
    \/ \E d \in 0..MaxDelay : MarkRetryWait(o, fence, d)
    \/ MarkReconciliationRequired(o, fence)
    \/ MarkDeadLetter(o, fence)

OperatorCall(o) ==
    \/ CancelOperation(o)
    \/ AbandonOperation(o)
    \/ RetryDeadLetter(o)

Next ==
    \/ \E o \in Ops : AddOperation(o) \/ ClaimNext(o) \/ ClaimReconciliation(o)
    \/ \E o \in Ops : \E fence \in 1..ops[o].fencing : ClaimCall(o, fence)
    \/ \E o \in Ops : OperatorCall(o)
    \/ \E p \in Providers : PauseProvider(p) \/ ResumeProvider(p)
    \/ RecoverExpired
    \/ Tick

Spec == Init /\ [][Next]_repoVars

-----------------------------------------------------------------------------
(* Properties.                                                              *)

\* The type invariant: every operation is a well-formed record, its counters
\* are naturals, and the timers stay within their bounds.
TypeOK ==
    /\ ops \in [Ops -> OutboxOperation]
    /\ paused \subseteq Providers
    /\ \A o \in Ops : ops[o].ttl <= TTL /\ ops[o].delay <= MaxDelay

\* An operation is CLAIMED or DISPATCHING exactly while a claim is stored, and
\* the stored claim is the latest one handed out.  mark_retry_wait,
\* mark_reconciliation_required and mark_dead_letter check no status at all:
\* this is what keeps them from moving an operation that is not in work.
ClaimedIffHeld ==
    \A o \in Ops :
        /\ ops[o].status \in {"CLAIMED", "DISPATCHING"} <=> ops[o].holder # 0
        /\ ops[o].holder # 0 => ops[o].holder = ops[o].fencing
        /\ ops[o].ttl > 0 => ops[o].holder # 0

\* attempt_count agrees with the attempt history, and no claim starts two
\* attempts: an attempt needs a claim of its own, and an operation that is
\* claimed but not yet dispatching has a claim to spare.
AttemptsMatchClaims ==
    \A o \in Ops :
        /\ Len(ops[o].attempts) = ops[o].attemptCount
        /\ ops[o].attemptCount <= ops[o].fencing
        /\ ops[o].status = "CLAIMED" => ops[o].attemptCount < ops[o].fencing

\* While an operation is DISPATCHING its last attempt is open, and once it has
\* SUCCEEDED no last attempt is left open, whichever of the dispatch worker
\* and the reconciler settled it.
LastAttemptOpenWhileDispatching ==
    \A o \in Ops :
        LET h == ops[o].attempts
        IN  /\ ops[o].status = "DISPATCHING"
                 => h # <<>> /\ h[Len(h)] = "STARTED"
            /\ ops[o].status = "SUCCEEDED" /\ h # <<>>
                 => h[Len(h)] # "STARTED"

\* No two operations in the outbox share an idempotency key, whatever order
\* add_operation and clone_corrected were called in.
KeysUnique ==
    \A o, q \in Ops :
        /\ ops[o].status # "ABSENT"
        /\ ops[q].status # "ABSENT"
        /\ KeyOf[o] = KeyOf[q]
        => o = q

\* Authority that is lost never returns: once a claim that was handed out is
\* expired, released, settled or superseded, no later sequence of recoveries,
\* claims and renewals makes _validate_claim accept it again.
LostAuthorityStaysLost ==
    [][\A o \in Ops : \A fence \in 1..ops[o].fencing :
          ~Authorised(o, fence) => ~Authorised(o, fence)']_repoVars

\* SUCCEEDED is final: no late claim, operator call or recovery changes
\* anything in the record of an operation that succeeded.
SucceededIsFinal ==
    [][\A o \in Ops : ops[o].status = "SUCCEEDED" => ops'[o] = ops[o]]_repoVars

\* The attempt history is append-only: an attempt that was closed keeps its
\* outcome, and nothing (operator retries included) removes one.
HistoryIsKept ==
    [][\A o \in Ops :
         LET old == ops[o].attempts
             new == ops'[o].attempts
         IN  /\ Len(old) <= Len(new)
             /\ \A i \in 1..Len(old) :
                   old[i] # new[i] => old[i] = "STARTED" /\ i = Len(old)
      ]_repoVars

\* Recovery guesses nothing: a step that takes an operation out of
\* DISPATCHING without a valid claim leaves it RECONCILIATION_REQUIRED, with
\* its reconciliation REQUIRED.
UncertainWorkIsReconciled ==
    [][\A o \in Ops :
          /\ ops[o].status = "DISPATCHING"
          /\ ops[o].ttl = 0
          /\ ops'[o].status # "DISPATCHING"
          => /\ ops'[o].status = "RECONCILIATION_REQUIRED"
             /\ ops'[o].recon = "REQUIRED"]_repoVars
=============================================================================
