--------------------------- MODULE OutboxDispatch ---------------------------
(***************************************************************************)
(* Worker processes around the durable outbox: the dispatch worker          *)
(* (runtime/outbox/worker.py), the reconciliation worker                    *)
(* (runtime/outbox/reconciliation.py), the provider they call and the       *)
(* result application service (runtime/operations) of each process.         *)
(*                                                                          *)
(* A process runs one run_one() at a time, of either worker.  Each          *)
(* repository call, each provider call and each local result application is *)
(* one step, so other processes, the clock and the operator act in between. *)
(* An exception that leaves run_one() puts the process back to idle with    *)
(* its claim still stored in the repository.  The operation a worker reads  *)
(* from the SQLite repository is a copy: what reconciliation.py assigns to  *)
(* it directly does not reach the store.                                    *)
(***************************************************************************)
EXTENDS OutboxRepository

CONSTANTS
    Procs,         \* worker processes
    Mortal,        \* those of them that may crash
    Aggregates,    \* aggregate ids
    AggregateOf,   \* aggregate_id of each operation
    VersionOf,     \* aggregate_version of each operation
    Eventing       \* TRUE iff the workers have an event publisher, whose
                   \* transaction undoes a result application that fails

ASSUME DispatchAssumption ==
    /\ AggregateOf \in [Ops -> Aggregates]
    /\ VersionOf \in [Ops -> Nat]
    /\ Mortal \subseteq Procs
    /\ Eventing \in BOOLEAN

VARIABLES
    pc,        \* where each process is
    job,       \* the claim a process works under: operation, fencing token,
               \* and whether this run applied the result itself
    applied,   \* ResultApplicationService._applied of each process
    version,   \* ResultApplicationService._aggregate_versions
    executed   \* the operations the provider has carried out

procVars == <<pc, job, applied, version>>
vars == <<ops, paused, pc, job, applied, version, executed>>

Locations == {"down", "idle", "claimed", "calling", "result", "applied",
              "marked", "uncertain", "retry", "fatal",
              "querying", "absent", "found", "recorded"}

NoJob == [op |-> "none", fence |-> 0, fresh |-> FALSE]

NoVersions == [a \in Aggregates |-> 0]

DInit ==
    /\ Init
    /\ pc = [p \in Procs |-> "idle"]
    /\ job = [p \in Procs |-> NoJob]
    /\ applied = [p \in Procs |-> {}]
    /\ version = [p \in Procs |-> NoVersions]
    /\ executed = {}

Op(p) == job[p].op
Holding(p) == Authorised(job[p].op, job[p].fence)

Goto(p, l) == pc' = [pc EXCEPT ![p] = l]

\* run_one is over; the claim, if it is still stored, is not.
Return(p) ==
    /\ Goto(p, "idle")
    /\ job' = [job EXCEPT ![p] = NoJob]

\* A repository call with the claim of p: it does what it does when the claim
\* validates, and otherwise raises out of run_one.
Settle(p, Call) ==
    /\ Return(p)
    /\ \/ Holding(p) /\ Call
       \/ ~Holding(p) /\ UNCHANGED repoVars
    /\ UNCHANGED <<applied, version, executed>>

-----------------------------------------------------------------------------
(* OutboxWorker.run_one                                                     *)

Claim(p) ==
    /\ pc[p] = "idle"
    /\ \E o \in Ops :
          /\ ClaimNext(o)
          /\ job' = [job EXCEPT ![p] = [op |-> o, fence |-> ops'[o].fencing,
                                        fresh |-> FALSE]]
    /\ Goto(p, "claimed")
    /\ UNCHANGED <<applied, version, executed>>

\* claim_next returns None, after its recovery of expired claims.
ClaimNothing(p) ==
    /\ pc[p] = "idle"
    /\ Eligible = {}
    /\ RecoverExpired
    /\ UNCHANGED <<procVars, executed>>

\* The event of the claim cannot be published: that is before the try.
AnnounceFails(p) ==
    /\ pc[p] = "claimed"
    /\ Eventing
    /\ Return(p)
    /\ UNCHANGED <<repoVars, applied, version, executed>>

\* No handler, no provider or no capability for the operation.
LookupFails(p) ==
    /\ pc[p] = "claimed"
    /\ Goto(p, "fatal")
    /\ UNCHANGED <<repoVars, job, applied, version, executed>>

\* mark_dispatching; refused, the exception is classified as not retryable
\* and mark_dead_letter raises in turn.
StartDispatch(p) ==
    /\ pc[p] = "claimed"
    /\ \/ /\ MarkDispatching(job[p].op, job[p].fence)
          /\ Goto(p, "calling")
          /\ UNCHANGED job
       \/ /\ ~Holding(p)
          /\ Return(p)
          /\ UNCHANGED repoVars
    /\ UNCHANGED <<applied, version, executed>>

\* handler.dispatch, the operation carried out: a result, a timeout with the
\* answer lost, or an answer that the handler rejects as forged or invalid.
DispatchAccepted(p) ==
    /\ pc[p] = "calling"
    /\ executed' = executed \cup {Op(p)}
    /\ \E l \in {"result", "uncertain", "fatal"} : Goto(p, l)
    /\ UNCHANGED <<repoVars, job, applied, version>>

\* handler.dispatch, not carried out: a timeout, unavailability or a rate
\* limit, or an error that is not retryable.
DispatchRefused(p) ==
    /\ pc[p] = "calling"
    /\ \E l \in {"uncertain", "retry", "fatal"} : Goto(p, l)
    /\ UNCHANGED <<repoVars, job, applied, version, executed>>

\* result_guard raises: the worker has lost its authority to record results.
GuardFails(p) ==
    /\ pc[p] = "result"
    /\ Goto(p, "uncertain")
    /\ UNCHANGED <<repoVars, job, applied, version, executed>>

\* ResultApplicationService.apply for the process: a result applied before is
\* suppressed, a stale aggregate version raises.
Suppressed(p) == Op(p) \in applied[p]
Stale(p) == ~Suppressed(p) /\ version[p][AggregateOf[Op(p)]] # VersionOf[Op(p)]

ApplyEffect(p) ==
    /\ ~Stale(p)
    /\ applied' = [applied EXCEPT ![p] = applied[p] \cup {Op(p)}]
    /\ version' = IF Suppressed(p) THEN version
                  ELSE [version EXCEPT ![p][AggregateOf[Op(p)]] =
                                          VersionOf[Op(p)] + 1]
    /\ job' = [job EXCEPT ![p].fresh = ~Suppressed(p)]

ApplyResult(p) ==
    /\ pc[p] = "result"
    /\ \/ ApplyEffect(p) /\ Goto(p, "applied")
       \/ Stale(p) /\ Goto(p, "uncertain") /\ UNCHANGED <<job, applied, version>>
    /\ UNCHANGED <<repoVars, executed>>

\* Mutant: the result application is not among the snapshot targets.
UndoNothing(p) == UNCHANGED <<applied, version>>

\* RuntimeTransaction restores the snapshot of the result application.
Undo(p) ==
    IF Eventing /\ job[p].fresh
    THEN /\ applied' = [applied EXCEPT ![p] = applied[p] \ {Op(p)}]
         /\ version' = [version EXCEPT ![p][AggregateOf[Op(p)]] = VersionOf[Op(p)]]
    ELSE UNCHANGED <<applied, version>>

\* mark_succeeded, durable at once; refused, the application is undone when
\* there is a transaction, and mark_reconciliation_required and
\* mark_dead_letter raise.
Complete(p) ==
    /\ pc[p] = "applied"
    /\ \/ /\ MarkSucceeded(job[p].op, job[p].fence)
          /\ UNCHANGED <<applied, version>>
          /\ IF Eventing THEN Goto(p, "marked") /\ UNCHANGED job ELSE Return(p)
       \/ ~Holding(p) /\ UNCHANGED repoVars /\ Undo(p) /\ Return(p)
    /\ UNCHANGED executed

\* The transaction around the result commits its event, or the event cannot be
\* published or stored: then the application is undone, but not the mark, and
\* the calls that would report it raise for want of a claim.
Commit(p) ==
    /\ pc[p] = "marked"
    /\ Undo(p) \/ UNCHANGED <<applied, version>>
    /\ Return(p)
    /\ UNCHANGED <<repoVars, executed>>

\* The outcome is uncertain: a timeout, or a local failure after a result.
RequireReconciliation(p) ==
    /\ pc[p] = "uncertain"
    /\ Settle(p, MarkReconciliationRequired(job[p].op, job[p].fence))

ScheduleRetry(p) ==
    /\ pc[p] = "retry"
    /\ \E d \in 0..MaxDelay : Settle(p, MarkRetryWait(job[p].op, job[p].fence, d))

GiveUp(p) ==
    /\ pc[p] = "fatal"
    /\ Settle(p, MarkDeadLetter(job[p].op, job[p].fence))

-----------------------------------------------------------------------------
(* ReconciliationWorker.run_one                                             *)

ClaimUncertain(p) ==
    /\ pc[p] = "idle"
    /\ \E o \in Ops :
          /\ ClaimReconciliation(o)
          /\ job' = [job EXCEPT ![p] = [op |-> o, fence |-> ops'[o].fencing,
                                        fresh |-> FALSE]]
    /\ Goto(p, "querying")
    /\ UNCHANGED <<applied, version, executed>>

\* Mutant: an answer that is not a failure counts as success.
QueryOptimistic(p) ==
    /\ pc[p] = "querying"
    /\ \E l \in {"found", "fatal"} : Goto(p, l)
    /\ UNCHANGED <<repoVars, job, applied, version, executed>>

\* provider.reconcile: NOT_EXECUTED and SUCCEEDED are true of the provider;
\* it may also answer IN_PROGRESS ("uncertain"), or FAILED or UNVERIFIABLE
\* ("fatal").
Query(p) ==
    /\ pc[p] = "querying"
    /\ \E l \in {"uncertain", "fatal",
                 IF Op(p) \in executed THEN "found" ELSE "absent"} : Goto(p, l)
    /\ UNCHANGED <<repoVars, job, applied, version, executed>>

\* provider.reconcile raises.
QueryFails(p) ==
    /\ pc[p] = "querying"
    /\ Return(p)
    /\ UNCHANGED <<repoVars, applied, version, executed>>

\* NOT_EXECUTED: the claim is released and the operation is pending again.
ReleaseUnexecuted(p) ==
    /\ pc[p] = "absent"
    /\ Settle(p, ReleaseClaim(job[p].op, job[p].fence))

\* SUCCEEDED: apply; a stale aggregate version raises out of run_one.
ApplyFound(p) ==
    /\ pc[p] = "found"
    /\ \/ ApplyEffect(p) /\ Goto(p, "recorded")
       \/ Stale(p) /\ Return(p) /\ UNCHANGED <<applied, version>>
    /\ UNCHANGED <<repoVars, executed>>

CompleteFound(p) ==
    /\ pc[p] = "recorded"
    /\ Settle(p, MarkSucceeded(job[p].op, job[p].fence))

-----------------------------------------------------------------------------
(* Processes and operators.                                                 *)

\* The process dies: its claim stays in the repository, its memory is gone.
Crash(p) ==
    /\ p \in Mortal
    /\ pc[p] # "down"
    /\ Goto(p, "down")
    /\ job' = [job EXCEPT ![p] = NoJob]
    /\ applied' = [applied EXCEPT ![p] = {}]
    /\ version' = [version EXCEPT ![p] = NoVersions]
    /\ UNCHANGED <<repoVars, executed>>

\* Opening the repository recovers the claims that have expired.
Restart(p) ==
    /\ pc[p] = "down"
    /\ RecoverExpired
    /\ Goto(p, "idle")
    /\ UNCHANGED <<job, applied, version, executed>>

WorkerStep(p) ==
    \/ Claim(p) \/ ClaimNothing(p) \/ AnnounceFails(p) \/ LookupFails(p)
    \/ StartDispatch(p) \/ DispatchAccepted(p) \/ DispatchRefused(p)
    \/ GuardFails(p) \/ ApplyResult(p) \/ Complete(p) \/ Commit(p)
    \/ RequireReconciliation(p)
    \/ ScheduleRetry(p) \/ GiveUp(p)

ReconcilerStep(p) ==
    \/ ClaimUncertain(p) \/ Query(p) \/ QueryFails(p) \/ ReleaseUnexecuted(p)
    \/ ApplyFound(p) \/ CompleteFound(p)

Environment ==
    \/ \E o \in Ops : AddOperation(o) \/ OperatorCall(o)
    \/ \E r \in Providers : PauseProvider(r) \/ ResumeProvider(r)
    \/ Tick

DNext ==
    \/ \E p \in Procs : WorkerStep(p) \/ ReconcilerStep(p)
    \/ \E p \in Procs : Crash(p) \/ Restart(p)
    \/ Environment /\ UNCHANGED <<procVars, executed>>

DSpec == DInit /\ [][DNext]_vars

\* The same without an operator: operations are added, nobody touches them.
UnattendedNext ==
    \/ \E p \in Procs : WorkerStep(p) \/ ReconcilerStep(p)
    \/ \E p \in Procs : Crash(p) \/ Restart(p)
    \/ (Tick \/ \E o \in Ops : AddOperation(o)) /\ UNCHANGED <<procVars, executed>>

UnattendedSpec == DInit /\ [][UnattendedNext]_vars

-----------------------------------------------------------------------------
(* Properties.                                                              *)

\* The type invariant of the processes.
DTypeOK ==
    /\ pc \in [Procs -> Locations]
    /\ \A p \in Procs :
          /\ pc[p] \in {"idle", "down"} <=> job[p] = NoJob
          /\ job[p] # NoJob => Op(p) \in Ops /\ job[p].fence \in 1..MaxFence
    /\ applied \in [Procs -> SUBSET Ops]
    /\ version \in [Procs -> [Aggregates -> Nat]]
    /\ executed \subseteq Ops

\* At most one process at a time can change an operation: however claims
\* expire and are taken again, two processes never both hold a claim on it
\* that validates.
SingleWriter ==
    \A p, q \in Procs :
        /\ p # q
        /\ {pc[p], pc[q]} \cap {"idle", "down"} = {}
        /\ Op(p) = Op(q)
        => ~(Holding(p) /\ Holding(q))

\* A process whose claim still validates finds the operation in the status
\* its place in run_one() expects.  The marks that check no status rely on
\* it: a result is recorded only for an operation that is DISPATCHING, a
\* reconciliation verdict only for one that is CLAIMED for reconciliation.
StatusFollowsWorker ==
    \A p \in Procs :
        pc[p] \notin {"idle", "down"} /\ Holding(p) =>
            /\ pc[p] \in {"calling", "result", "applied", "retry"}
                 => ops[Op(p)].status = "DISPATCHING"
            /\ pc[p] = "claimed" => ops[Op(p)].status = "CLAIMED"
            /\ pc[p] \in {"querying", "absent", "found", "recorded"}
                 => /\ ops[Op(p)].status = "CLAIMED"
                    /\ ops[Op(p)].recon = "IN_PROGRESS"

\* The workers rest on the claim alone: at every place of run_one() it belongs
\* to one process, and it stands for the status that the marks do not check.
ClaimsAreFaithful == DTypeOK /\ SingleWriter /\ StatusFollowsWorker

\* An operation that the outbox calls SUCCEEDED was carried out by the
\* provider, and it was dispatched at least once: neither crash recovery nor
\* reconciliation guesses a success.
SucceededWasExecuted ==
    \A o \in Ops :
        ops[o].status = "SUCCEEDED" => o \in executed /\ ops[o].attemptCount > 0

\* An operation becomes SUCCEEDED only in a step of a process whose result
\* application service has applied its result.
SuccessNeedsApplication ==
    [][\A o \in Ops :
          ops[o].status # "SUCCEEDED" /\ ops'[o].status = "SUCCEEDED"
          => \E p \in Procs :
                pc[p] # "idle" /\ Op(p) = o /\ o \in applied[p]]_vars

\* Within a process the version of an aggregate counts the results applied to
\* it, and no two results were applied to the same version: the duplicate
\* suppression, the stale-version check and the rollback of a failed
\* application agree.
VersionsCountResults ==
    \A p \in Procs :
        /\ \A a \in Aggregates :
              version[p][a] = Cardinality({o \in applied[p] : AggregateOf[o] = a})
        /\ \A o, q \in applied[p] :
              AggregateOf[o] = AggregateOf[q] /\ VersionOf[o] = VersionOf[q]
              => o = q

\* With an event publisher a process never keeps a result whose operation it
\* failed to mark: what it has applied has SUCCEEDED, is being completed by
\* it now, or was found by reconciliation, which runs in no transaction.
FailedResultIsUndone ==
    \A p \in Procs :
        \A o \in applied[p] :
            \/ ops[o].status = "SUCCEEDED"
            \/ pc[p] \in {"applied", "recorded"} /\ Op(p) = o
            \/ ops[o].recon # "NONE"

\* The outbox and the results agree as far as the transaction reaches: what is
\* applied is counted once, and belongs to an operation that has succeeded or
\* is about to; and no operation is marked SUCCEEDED but by a process that has
\* its result applied at that moment.  Afterwards the result may be gone: the
\* mark is durable, and a commit that fails takes back the application only
\* (SucceededIsApplied, below).
ResultsAreApplied ==
    [](VersionsCountResults /\ FailedResultIsUndone) /\ SuccessNeedsApplication

\* What one would expect of the transaction around mark_succeeded, and the code
\* does not do: as long as no process has died, the result of an operation that
\* is SUCCEEDED is applied somewhere.
SucceededIsApplied ==
    \A o \in Ops : ops[o].status = "SUCCEEDED" =>
        \/ \E p \in Procs : o \in applied[p]
        \/ Mortal # {}

\* Attempts are bounded by maximum_attempts (docs/RETRY_POLICY.md: "Maximum
\* attempts move the operation to dead letter").  Only mark_retry_wait
\* compares the two.
AttemptsWithinMaximum == \A o \in Ops : ops[o].attemptCount <= MaxAttempts

PhaseOf ==
    [ABSENT |-> "absent", PENDING |-> "queued", RETRY_WAIT |-> "queued",
     CLAIMED |-> "held", DISPATCHING |-> "sent",
     RECONCILIATION_REQUIRED |-> "uncertain", SUCCEEDED |-> "succeeded",
     DEAD_LETTER |-> "dead", CANCELLED |-> "cancelled"]

Lifecycle ==
    INSTANCE OutboxLifecycle
    WITH phase <- [o \in Ops |-> PhaseOf[ops[o].status]], effect <- executed

\* The workers, the reconciler and the repository together implement the
\* abstract life cycle of an external operation.
ImplementsLifecycle == Lifecycle!Spec
=============================================================================
