# The AI Software Company OS runtime in TLA+

This directory holds TLA+ models of the runtime under `src/runtime/`, the TLC
configurations that check them on small instances, and TLAPS proofs of their
most important properties for every instance. `PROJECT.json` is the index: which
definition models which lines, what each run checks, which mutation of the code
breaks each property, and which hazard of the code each property is aimed at.

## 1. The system and its parts

ASCOS is a Python runtime that plans, executes, reviews and releases software
work through agents and external providers. `composition/container.py` wires the
in-memory factory together; around it stand services with stores of their own,
each reading what the one before it stored. The parts, the state they keep and
how they meet:

| Part | State | Operations | Meets |
|---|---|---|---|
| durable outbox (`outbox/`, `operations/`) | operations with status, claim (owner, token hash, expiry, fencing token), attempts, idempotency keys, provider pauses; per process: applied results and aggregate versions | add, claim, renew, release, mark dispatching / succeeded / retry / uncertain / dead, cancel, abandon, retry; `run_one` of the dispatch worker and of the reconciler | worker processes share one SQLite file; providers are called outside any transaction; result application runs in the event publisher's transaction |
| runtime persistence (`persistence/`) | lease row, fencing counter, state version, event stream, checkpoints; per process: a lease object, the in-memory runtime and its event log | acquire, renew, release, break; save, commit, restore; append events | every runtime process opens the same store; checkpoints capture all other services |
| provider health (`providers/health/`) | circuit state, counters, probe slots, version | allow, success, failure, disable, enable, reset | the probe service asks it around each probe, the router skips providers that are open or disabled; the outbox workers do not ask it |
| software factory (`engine/`, `agents/`, `orchestration/`, `execution/`, `workflows/`, `transactions/`, `events/`) | work items, agent states and capacity, assignments, executions, recovery records, workflows, staged events | submit, plan, assign, execute, recover, review, complete, release, cancel; agents come and go | one call chain inside an atomic domain operation, then an automatic checkpoint |
| managed execution (`managed_execution/`) | execution plan, operation, side-effect records, evidence and approvals | create, queue, execute, review, commit, push, open a pull request, reconcile | the coding providers, Git and GitHub |
| coding providers (`coding_providers/`) | operation, receipt, result, staged patch, cancellation | prepare, submit, poll, result, cancel, reconcile, apply and accept | a live or offline provider, one workspace |
| customer journey (`customer_application`, `_requirements`, `_prd`, `_roadmap`, `_estimate`) | one write-once file per document, bound by digests | the nine forms from product request to estimate | handlers of a web server share the files |
| customer fulfilment (`customer_execution`, `_delivery`, `_acceptance`, `_evidence`) | one record per service under its lock, the package, the decision | approve, run, review, deliver, preview, decide | a coding turn, the checkout, the remote branch, the preview workflow |
| digital twin and workforce agents (`digital_twin/`, `workforce_*/`) | intent and receipt per execution, one artifact per agent execution | run of each agent from CEO to orchestration | each agent reads the artifacts of those before it |
| product workspace, coding review, GitHub delivery, preview (`product_workspace/`, `coding_review/`, `github_delivery/`, `preview_deployment/`) | a worktree, one artifact per execution | prepare, review, deliver, deploy | one repository, GitHub, a preview platform |
| workers (`workers/`), tasks (`tasks/`), planning, project management, knowledge, releases, managed products, acceptance harnesses | records of their own | see section 6 | not modelled |

What is hard in this code, and where a test hardly reaches:

- claims and leases expire while their holder is in the middle of a call, and the
  holder comes back;
- methods read the clock, a row or a plan before they hold a write lock, or hold none;
- a provider's effect and the record of it are two steps with a crash in between;
- the answer to a dispatch is lost, and is asked for later by another process;
- in-memory results are rolled back while the repository is not, or the reverse, and a
  refused save leaves the memory of its process changed;
- two processes derive equal identifiers for different events;
- a write-once file is created first and filled next, and only the file that was
  created decides who came first;
- documents bind their predecessors by digest, while the predecessors are read
  long before the binding is written;
- the workspace a service has checked is a directory that anybody may edit, and a gate
  that looks at it does so in several commands.

`PROJECT.json` lists them one by one under `hazards`, each at its line.

## 2. Modules

### OutboxRepository
`outbox/repository.py`, `outbox/models.py`, and `outbox/providers/database.py`,
whose `_mutate` makes every method one `BEGIN IMMEDIATE` transaction; so an
action is one whole method. `ops[o]` is the stored record: `status`,
`recon` (reconciliation state), `holder` (the fencing token whose claim is
stored, 0 for none; owner and token hash are fresh per claim and so say no
more), `ttl` (ticks left to the claim), `fencing`, `attemptCount`, `attempts`
(outcomes, the last of them `STARTED` while it is open), `delay` (ticks until
`available_at`). Time is a `Tick` that counts `ttl` and `delay` down, which
keeps the state space finite without a bound on the clock.
`claim_next` first recovers every expired claim (`Recovered`), then takes the
first eligible operation by priority; the order among equals is the creation
time, left open here. `ClaimCall` lets anybody call any claim-taking method with
any fencing token handed out so far: late, repeated and misdirected calls
included. A call that raises changes nothing (the transaction rolls back) and is
not a step.

### OutboxDispatch
Extends the repository with worker processes. `pc[p]` is where process `p` is in
`OutboxWorker.run_one` or `ReconciliationWorker.run_one`, `job[p]` the claim it
works under, `applied` and `version` its `ResultApplicationService`, `executed`
the operations the provider has carried out. Repository calls, provider calls
and result applications are separate steps. An exception that leaves `run_one`
returns the process to idle with its claim still stored; the event of a claim that
cannot be published is one such (`AnnounceFails`). `Crash` loses the memory of the
process, `Restart` opens the repository again, which recovers expired claims.
With `Eventing` the result is applied in `event_publisher.atomic()`.
`mark_succeeded` is durable at once (`Complete`, then at `marked`), and the event and
the commit of the transaction come after it (`Commit`): when one of them fails, as
when the mark is refused, the application is undone (`Undo`), but the mark is not.
The reconciler applies results outside any transaction. The provider is external
and modelled as its callers see it: a dispatch may be carried out or not, may
time out either way, and `reconcile` tells the truth when it answers SUCCEEDED or
NOT_EXECUTED, or declines to say. `reconciliation_state` values that
`reconciliation.py` assigns to the operation object it read do not reach the
SQLite store, and are not in the model. No fairness is stated: `run` makes a given
number of polls, an exception ends it, the supervisor restarts nothing, and nothing in
the code schedules the reconciler.

### OutboxLifecycle
What the outbox promises about an operation, without claims, tokens or workers:
the allowed moves between phases, success only after an effect, effects only of
recorded operations, nothing undone. `OutboxDispatch!ImplementsLifecycle` is the
refinement, through `PhaseOf`.

### RuntimePersistence
`persistence/database/leases.py`, `persistence/database/provider.py` and
`persistence/service.py`. Connections are in autocommit mode: `acquire_lease` and
`commit_checkpoint` are one transaction each, `renew_lease` is a SELECT and an
UPDATE, and each of them reads the clock before its first statement
(`Begin...`, `ReadVersion`; the value is `seen`). `save_checkpoint` is three
steps: capture the state and choose an id, read the version, commit. An event's
id is its place and its type, as `EventPublisher.publish` derives it, its body
everything else; `commit_checkpoint` compares ids (`PrefixById`), and appends
what comes after the durable stream (`Extended`). A process may hold a lease or
none (`runtime_lease is None`), and may crash anywhere.

### CircuitBreaker
`providers/health/` with one record over the SQLite file that several processes
(`Nodes`) have open. A repository has all records in memory (`cache[n]`), reads them
there, and stores them in one UPDATE that compares the stored text with the text it
stored or loaded last; `current` is the set of processes for which the two are equal.
Memory changes before the UPDATE, so it stays changed when the UPDATE is refused or
fails and the call raises (`NotStored`), and a process that was refused once is refused
until it opens the file again (`Reopen`). `allow` on an expired circuit saves twice, as
half open (`HalfOpen`) and then as admitting the call (`Admit`); every other operation
saves once. A report that is not stored is lost: nobody repeats it. A process has one
thread, so only other processes come between the two saves; admitted calls overlap.
The in-memory repository is the case of one process whose writes succeed. `open_until`
is a number of ticks left. `probing` (the calls admitted half open that have not ended)
and `asked` (the processes told to enable the provider since they opened the file) are
history. No fairness is stated: nothing in the code makes anybody ask an open breaker.

### ManagedExecution
`managed_execution/service.py` over the documents of `storage.py`. A step is one
saved document or one external effect, so that a crash can fall between any two;
`local[p]` is where process `p` is in its method, with the plan, operation and
effect state it has read (`plan`, `oper`, `seen`), which a later save may write
back. The six kinds of effect share one protocol, as in the code: `Prepare`,
`Inspect`, `Start`, `Perform` (or `PerformRaises`, before or after the effect),
`Verify`, `Complete`, `Advance`. `Found` is what the five `_reconcile_*` methods
find. `reconcile_execution` walks the recorded effects through the same
inspections. `world` is what is outside the process: the workspace and the tasks
whose changes are in it, branch, commits, remote branch, pull requests and the
approvals listed in the newest one's body. `accept_provider_result` needs a
workspace without uncommitted changes, so a second task's result only comes by
`process_coding_result` itself (`ReportCodingResult`). A method that loads the plan and
saves it is two steps (`Hold`, `SavePlan`), and another process may cancel the plan in
between. Requests are in CONTROLLED_WRITE mode and writes are allowed; in any other
mode the service makes no effect.

### SoftwareDelivery
`workflows/service.py` with everything it calls: the engine's work items, the
agent registry, `orchestration/orchestrator.py`, `execution/service.py`,
`execution/recovery.py`, `transactions/` and the automatic checkpoints of
`persistence/service.py`. One step is one public call, because the services are
single-threaded and a joined call runs in its caller's transaction. `state` is
the record a checkpoint captures: per workflow its stage, work item, assignment,
agent, execution results and the stage its last event told (`logged`), and the
agents in registration order with their states. `Do` is
`atomic_domain_operation`: the commit with its checkpoint, the commit whose
checkpoint fails, or the rollback. `Refuse` is an operation that raises after it
has changed something. `config` makes both wirings of the container one model:
with and without an event publisher, with and without automatic checkpoints.
An operator registers, removes and changes agents; `Crash` starts a process with
the roster, `Restart` restores the newest checkpoint if its references resolve.
`prepare_work` finds nothing to do and is left out, as are `cancel_execution`
(only callable from inside an executor), restoring an older checkpoint by id, and
a caller's own transaction around several operations.

### CodingProviders
`coding_providers/service.py`, `patching.py` and the store. Every record is a file
replaced atomically and nothing protects a load and a later save from each other,
so each save, each provider call, and each file of a patch is a step, and
`frame[c]` holds what the caller has loaded. A provider remembers its tasks in its
own process (`tasks`), so a restart forgets them. `charges` counts live turns.
Live and offline operations share the workspace. Two pieces of history tell what nothing
in the code protects: `overlapped` has the operations on which two calls were under way
at once, `crossed` the pairs of different operations that were applied to the workspace
at the same time. A property that excuses either names it; two calls on different
operations, applying included, are otherwise not excused. The status that `Verify`
asks for and its reading of the files are one step: in between only an edit or a crossed
operation could write, which the properties excuse. `SpecFromEither` of the MC module
begins at `Init` or with both operations answered and not yet applied, so
that the bound on calls is spent on the patches.

### CustomerJourney
A chain of write-once documents, each bound to its predecessors by digest. A
handler shows a form (`Pages`), posts it (`Posts`: all reads of one request are one
step, then the checks and the new document), and writes: exclusive creation and
content are two steps, so a crash leaves a torn file that no retry replaces, while a
write that raises removes its file (`WriteDocFails`, `WriteDraftFails`). The roadmap of an
older version (`Legacy`) is compared and replaced by a rename, which may fail too
(`RenameTempFails`). The shown form keeps what it was rendered from, so stale
forms are posted too.

### CustomerFulfilment
Execution, delivery, acceptance, evidence and decision after the estimate. Each
service takes its lock, saves an intent status, causes an effect (coding turn,
commit, push, pull request, preview workflow), and saves the outcome; all of these
are steps with a crash possible after each, effects may fail before or after they
happen, and answers may be lost. Other people edit the workspace and the remote at any
time. The delivery adapter goes command by command: the check of the checkout
(`CheckAgain`), the remote lookups (`ProbeRemote`), `git add` (`StageFiles`), the commit.
The history variable `late` tells that the checkout changed between the check and
`git add`, where the code no longer looks. The decision is a file that is created and
then filled (`ReviewEvidence`, `WriteDecision`), outside any service's lock.

### DigitalTwin, WorkforceOutput, Workforce
`DigitalTwin` is `execute()` of the runtime all agents run in: lock, write-once
intent, provider, bounded tool gateway, write-once receipt. A tool call is two steps, so
that the authority may expire while the tool works (`InvokeTool`, `ReturnTool`), and
`Crash` ends any set of the callers. `WorkforceOutput` has
what each provider renders and the typed validation its output must pass
afterwards, operator by operator. `Workforce` is `run()` of the seven agent
services and the orchestration: which source artifacts a call needs, how they must
agree, and the artifact file. The clock (`now`) moves on at any time, up to
`MaxTime`. Budgets other than tool calls and output are constant
per execution; a call they refuse leaves no trace.

### ProductCoding, ProductDelivery
`ProductCoding` has the worktree (base, head, index, files), `prepare` with its Git
commands, and `review`, whose rounds patch, test and inspect the files command by
command under a command budget. `ProductDelivery` extends it with GitHub delivery
and preview deployment, which start from the artifacts of the review. There is no
lock and no intent: callers overlap, die between any two commands
and meet an edit by somebody else. The closing gate of a delivery is three steps, as it
looks: the status of both repositories, HEAD and its paths, the digests of the files
(`DeliverStatus`, `DeliverHead`, `DeliverConfirm`); a write that falls among them marks
the delivery `disturbed`. An artifact carries the commit it delivered, and the preview
deploys that commit or fails. The checks with which a call begins, before anything of
its own is done, are one step each.

## 3. Runs

| Run | Instance | Shows |
|---|---|---|
| `dispatch_race` | 2 processes that crash and restart, 1 operation with up to 4 claims or 2 operations on one aggregate version, 2 attempts, an operator, a publisher, renewed claims | claims are stored exactly while work is under way, lost authority stays lost, history is kept, uncertain work is reconciled first; a single writer and the status each worker expects; no guessed success; results applied with their rollback as far as the transaction reaches; the abstract life cycle is implemented |
| `persistence` | 2 processes, 2 acquisitions, 2 events of 2 types, 2 versions | fencing, takeover only after expiry, the stream only grows, every checkpoint loads |
| `breaker` | 2 processes over one file, 3 calls, operators, thresholds 1, 1 probe, 2 places | every call counted, capacity kept, a disabled record admits nothing, through saves that are refused and processes that are replaced |
| `software` | 2 requests, 2 agents (one takes both), 2 executions each, 2 disturbances | five services tell one story, rejected work is reworked, capacity is given back, an acknowledged end survives |
| `managed_crash` | 1 process, 2 tasks, 1 crash, 2 approvals, 2 evidences, interference | effects exactly once and as recorded, nothing unreviewed leaves, success has its delivery |
| `managed_processes` | 2 processes, one drives the execution, the other decides and cancels; 1 task | what is still done for an ended plan comes from methods that loaded it before its end |
| `providers` | 2 processes, a live and an offline operation, 2 files, 1 crash or edit; from the beginning, or from two answers to be applied | a live turn charged once and receipted, no patch accepted with a file left out, none written over another unless the two are applied at once |
| `coding_status` | the same from the beginning; violation expected | `reconcile` makes a failed turn's result one that is applied |
| `journey` | 2 handlers, 2 contents, 2 revisions, 1 crash | stored bindings hold under any interleaving, nothing published is lost, serial requests never block the chain |
| `fulfilment` | 2 tasks, 2 crashes, 2 edits | effects once and only on record, what is accepted was delivered, and was reviewed unless an edit fell before `git add`; doubt is final, requests return |
| `workforce` | 2 callers, 14 agent executions, a live one and a repeatable one with 2 tool calls each, expiry, 1 fault | receipts, artifacts and sources agree, one architecture, tools within authority, no second effect |
| `delivery` | 2 callers, 2 executions of each service, 2 orchestrations, 1 crash or edit | effects are made once and never adopted, artifacts agree with GitHub and the preview |

Several properties are conjunctions of named parts: `ClaimsAreFaithful`,
`ResultsAreApplied`, `EffectsAreExact`, `EffectsOnRecord`, `OnlyReviewedIsAccepted`,
`EffectsAreOwn`, `DeliveredIsBound`, `ChargedAndReceipted`, `ArtifactsAccountedFor`,
`StoredBindings`, `StagesAgree`. The type invariant of a module is one of the parts
where it has no line of its own.

**Bounds.** `MaxFence` bounds the claims of each operation, and the acquisitions of a
lease: two suffice for claim, expiry, takeover and the return of the first holder;
`dispatch_race` has four, so that a reconciliation and another dispatch follow. Its
`CONSTRAINT Bounded` trades depth for breadth: one operation has all four claims and any
crashes, two have two claims each and no crash once both are recorded, which shows a
stale result and a suppressed one. `RenewingSpec` adds `Renewal`: nothing in the
repository renews a claim, `renew_claim` is there for those who would. `TTL` and
`MaxDelay` are small because only the order of expiry and calls matters. `MaxVersion`,
`MaxEvents` and `MaxTime` allow two writers to commit alternately, with a lease expiring
between any two steps. Each bound is a conjunct of the action it limits. Two processes
are enough for every hazard listed: each is a race of one holder with one successor; the
proofs cover any number.

The breaker's thresholds are 1, so that one failure opens and one success closes; its
consecutive counters stop at the thresholds, the only values the code compares them
with. Two processes, of which one has two calls, give both the overlap within a process
and the file changed behind its memory. `MaxCrashes`, `MaxApprovals` and `MaxEvidence`
of ManagedExecution: one crash at any step already gives every half-finished method to a
retry, two approvals change the pull request's body, and a second evidence needs the
crash behind the first; two tasks are the least for which results can cover a plan in
part.

`MaxExecutions = 2` of SoftwareDelivery gives a failure with its retry, and a rejection
with its correction; two disturbances are an agent removed and a crash, or a failed
checkpoint and a crash. `MaxRevisions = 2` is one draft and the one that supersedes it.
`MaxCalls = 9` of CodingProviders lets both operations go from prepare to acceptance
with a retry; a call that begins while another is under way counts `OverlapCost = 4`, so
that at most two overlaps happen. From the second beginning six calls are left: the two
applications at once and a third call, or six in turn. `MaxRuns = 5` of ProductDelivery
is the chain of four services and one call more, of any of them. `MaxFaults = 1` (crash,
edit, or failed write) in the last three: a fault at any step leaves every intermediate
state to a retry. The Workforce instance is cut by `CONSTRAINT Independent`: callers
race on one execution of each kind of service and do not run unrelated executions at the
same time, since executions share no file but stored artifacts; the engineers come in
one order. Symmetry over interchangeable processes, handlers, event types, tasks or
workflows is used in the runs that check no liveness under fairness.

Deadlock is switched off where an instance stops at its bounds or the modelled
journey ends.

**Fairness.** Only `Spec` of CustomerFulfilment is fair: a request that has begun goes on
(its code has no wait but for effects, which return or raise), and a decision file that
has been created is filled. Nothing makes a customer post a form. The outbox and the
breaker have no fair specification, because the code gives none: a worker makes a given
number of polls and ends at an exception, its supervisor restarts nothing, nobody
schedules the reconciler, and nobody has to ask an open breaker.

**The finding.** `coding_status`: the tests of `apply_and_accept` list every
operation state but RESULT_AVAILABLE as refused, FAILED and TIMED_OUT among them,
and `result()` refuses a result that did not succeed. `reconcile` asks for
neither, and makes the receipt of a failed turn a result that is applied.

**Other disagreements met.** Each of these is a named definition that the code
violates; put into a configuration of the MC module named it gives the
counterexample.

| Definition | Where | What the documents say, and what happens |
|---|---|---|
| `AttemptsWithinMaximum` | OutboxDispatch (`UnattendedSpec`, `MaxAttempts = 2`) | docs/RETRY_POLICY.md:9-10; only `mark_retry_wait` compares with `maximum_attempts`, timeouts and reconciliations alternate beyond it |
| `SucceededIsApplied` | OutboxDispatch, `Mortal = {}` | the transaction of worker.py:62-70; `mark_succeeded` is durable, a failing event or commit after it takes back the application only |
| `RenewalIsVerified` | RuntimePersistence | docs/RUNTIME_LEASES.md:7; `renew_lease` updates by runtime id after it checked the identity in another statement |
| `CommandsAreAudited` | CircuitBreaker | docs/PROVIDER_HEALTH.md:6, repository.py:38; a command that raised has changed the memory, and a later save of the process stores it without an audit record |
| `ProbeConcurrencyBounded` | CircuitBreaker | docs/CIRCUIT_BREAKERS.md:3-4; a late failure frees the slot of a probe that is still out |
| `TerminalIsFinal` | ManagedExecution, `SpecOfOneDriver` | docs/MANAGED_EXECUTION_RECONCILIATION.md:14-15; a method saves the plan it loaded before another process cancelled it |
| `NoFalseDivergence` | ManagedExecution, one task, no crash | docs/MANAGED_EXECUTION_RECONCILIATION.md:23-25; a workspace with coding results is compared to the unmodified source |
| `ExactRetryReopens` | Workforce, `Expiry = MaxTime = 3` | docs/DEVOPS_ENGINEER_WORKFORCE_AGENT.md:68; a retry's request carries a new time and no longer matches |
| `ApprovedRevisionIsLatest` | CustomerJourney | docs/CUSTOMER_REQUIREMENTS_APPROVAL.md; an overlapping save lands behind the approval |
| `CommittedIsReviewed` | CustomerFulfilment | docs/CUSTOMER_GOVERNED_DELIVERY.md:46-49; an edit between the adapter's check and its `git add` is committed and pushed |
| `CommitHoldsDigests` | ProductDelivery | tests/test_github_delivery.py:292; another run restores the reviewed bytes between the closing status and the digests (github_delivery/service.py:372), and the artifact names files the remote does not hold |
| `DeliveredIsReviewed` | ProductDelivery | an edit during the review is stored and delivered as reviewed |
| `AcceptedPatchIsExact` | CodingProviders, `SpecFromEither` | docs/PROVIDER_RECONCILIATION.md:25-27; two operations applied at once replace each other's files (service.py:294, 337; patching.py:78), and one is accepted with the other's |
| `RetryIsPossible` | CodingProviders | a patch that fell back to PREPARED finds the workspace unclean because of its own staging files |
| `CheckpointsRestore` | SoftwareDelivery | docs/RUNTIME_PERSISTENCE.md:46-48; an agent removed with an assignment on record makes the next durable checkpoint one that restoration refuses |
| `RejectionIsDurable` | SoftwareDelivery | docs/RUNTIME_PERSISTENCE.md:50; `reject_work` is not among the automatic operations |

Properties that hold and are not in a standing run of their own, because of their time,
because they are parts of another or because a theorem covers them:
`ReviewedWorkIsDelivered` (ManagedExecution under `FairSpec`: one task, no crash, one
approval, no interference), `TypeOK`, `SucceededIsFinal`, `KeysUnique`,
`AttemptsMatchClaims` and `FencesAreUnique`. `FairSpec` of ManagedExecution assumes more
than the code gives: that a method that has begun goes on, that somebody retries
`create_commit`, `push_branch` and `create_draft_pull_request`, and that an effect tried
again and again succeeds in the end.

The models show further behaviours that a reader of the documents would not
expect, noted under `hazards` at their lines: `commit_checkpoint` judges a lease
by a time read before it waits for the lock; `save_checkpoint` takes the version
it expects from the store, and equal derived event ids hide different events;
`create_draft_pull_request` returns early once the number is recorded and never
completes a delivery interrupted between PR_CREATED and COMPLETED;
`approve_review` checks no phase; plans are written back without a version, over
another process's cancellation; a torn write-once file blocks its request for
ever, and a torn decision or package file blocks the decision; two processes that submit
one prepared live operation charge it twice; a process whose health record was refused
once is refused until it is started again, and a process that dies during a half-open
probe leaves the probe counted; timeouts and reconciliations of an operation may
alternate for ever; no claim is renewed and nothing is reconciled unless somebody
calls.

## 4. Proofs

Eight modules hold proofs that tlapm checks to the last leaf: OutboxDispatchProofs
for OutboxRepository and OutboxDispatch, PersistenceProofs for RuntimePersistence and
CustomerJourney, ProviderProofs for CircuitBreaker and CodingProviders, and one beside
each of SoftwareDelivery, ManagedExecution, CustomerFulfilment, ProductDelivery and
Workforce. They assume the named ASSUMEs of the modules (the bounds are naturals, the
parameters functions on the given sets, the workflows finite in number, the answers
those of `ProviderResultStatus`, None is no stored value), which TLC evaluates in
every run, and hold for any sets of operations, providers, processes, callers, tasks,
paths, plans, workflows and agents, and any number of crashes and edits. A theorem
that needs more names it: `OneProcess` or `Eventing`, below.

*OutboxRepository.* The invariant is stated per record: `OpOK` holds what makes
one record sound (a claim is stored exactly while it is CLAIMED or DISPATCHING
and then under the newest fencing token, attempts number `attemptCount`, at most
as many as there were claims, the last one open while it dispatches), so that each
method is one lemma about one record and `IInv` lifts it to all of them; the keys
of recorded operations differ. `LostAuthority`, `SucceededFinal`, `HistoryKept`
and `UncertainReconciled` are action properties proved from it, action by action.

*OutboxDispatch.* A worker goes on with a job it read from a repository that others
change meanwhile. `DIInv` adds to the repository's invariant three facts of each
process, stated over values so that a step of one process is one lemma about its own new
values and one about what it does to the records of the others (`Progress`, `Silent`).
`Place`: the token in hand was handed out for that operation, and as long as its claim
validates the record has the status that the worker's next call expects; a result in
hand is of an executed operation. `Ledger`: the version of an aggregate counts the
results applied to it. `Returned`: no result is kept of an operation that was not
marked. `Own`: no two processes were handed one claim. `ClaimsFaithful` and
`SuccessExecuted` follow. `ResultsAgree` assumes `Eventing`: `Returned` is the event
publisher's transaction, and without a publisher the code applies a result and may then
fail to record it. It says that no result outlives a refused mark, and that a mark is
made only by a process that has the result applied at that moment; it does not say that
the result stays, since the commit after the mark may fail (`SucceededIsApplied` of
section 3). `LifecycleImplemented` is the refinement: the initial state maps to the
initial state of OutboxLifecycle, and each repository method, worker step and recovery
to one of its moves or a stutter.

*RuntimePersistence.* `TypeOK`, `FencesAreUnique`, `CommitsFollowFences` and
`EveryCheckpointLoads` are not inductive together: a commit needs that no stored
checkpoint was committed under a token beyond the counter (`CommitsBelowCounter`), and
takeover needs that no process has seen the future (`SeenIsPast`). `LeaseChanges` and
`HistoryChanges` say once which steps touch which part of the store; `ExtendedStream` is
the lemma about sequences behind `StreamAppendOnly` and `CheckpointsLoad`.

*CircuitBreaker.* `Good` is what every record satisfies, stored or in a memory: its shape,
`disabled` agreeing with the status, and the places it has in use, one fewer when the
circuit is open. `MemoryOK` says what the memory of a process that may still store (one
of `current`) has in common with the record: it counts every call that is out, and is
disabled when the record is, unless the process was told to enable. A stored save makes
its process the only one in `current`, so each process that was behind is refused. Two
calls of one process are never both between their two saves (`OneAdmitting`), and such a
call finds in memory what it saved first (`StillAdmissible`). `BreakerInvHolds` proves
the invariant action by action, for any number of processes and calls; `CallsCounted`,
`CapacityKept` and `DisableIsRespected` follow.

*SoftwareDelivery.* `StagesAgree`, `AgentsAreAccounted` and `AcknowledgedEndStays`
are parts of one invariant, `IInv`: the live state is `Sound`, and so is the latest
checkpoint, which is an earlier live state and may become the live one again. A
call replaces one workflow's entry (`Replaces`), or the entry and one agent's state
(`Shifts`); each builder of a new state is one lemma about what it replaces, and
each operation one lemma that the entry it leaves agrees (`FlowOK`).
`DoPreserves` then covers commit, failed commit and failed checkpoint for all of
them. `TakesCapacity` and `ReturnsCapacity` count the active assignments of an
agent as the cardinality of a set that gains or loses one workflow, and
`SelectsEligible` shows that `select_agent` has an answer: `RanksFirst` is a total
preorder and a finite set has a first element under one (`FiniteHasFirst`). An end
needs `ended` within the checkpoint's own ends, since that is what a restart shows.

*ManagedExecution.* `EndedPlansLeftAlone` holds for any number of processes: `EndInv`
says that a method that could still save the plan or cause an effect has asked for a
plan that had not ended, so a step that disturbs an ended plan is such a method's. The
other three theorems assume `OneProcess`, as `managed_crash` has it: the documents have
no version and nothing locks them, so a second process may write an old plan back (a
hazard listed, and `TerminalIsFinal` of section 3). `MEInv` says of the documents that
the evidence in force is approved before anything leaves (`Reviewed`) and that each
record of the delivery comes after the one before it is complete (`Delivery`), of the
world that a completed record's effect is there (`Exact`), and of a process in the
middle of a method (`Method`) that the copies it will write back are what is stored
(`Current`), that an effect under way is not yet in the operation (`Effecting`), and
that what it inspected is still so when it performs (`Observed`). `ExactEffects`,
`ReviewedLeaves` and `SucceededDelivered` follow.

*CustomerJourney.* A handler reads the chain, builds a document and writes it later.
`CJInv` says of each document, stored or still in a handler's hands, that its sources
are stored (`Bound`): they are write-once, so no other request can take them away,
which gives `BindingsStored`. Two sources may be replaced, the latest revision and the
legacy roadmap; what binds them (`SerialBound`) holds until two requests have
overlapped, and `SerialConsistent` follows. A file that was created and not filled
belongs to one handler (`Exclusive`); a step that writes one leaves the others what they
rely on (`SourcesStay`, `LeavesOthers`), so each action is proved for its own handler.
`PublishedKept` is proved from the same invariant, action by action.

*CustomerFulfilment.* `CFInv` has one part per service (`ExecutionOK`, `DeliveryOK`,
`AcceptanceOK`), each a table of which step of a request goes with which stored status
and which effects; the parts meet in the fact that a review that was delivered, and a
delivery that was accepted, do not change any more. A step of one service is a frame
lemma for the others. `AcceptedDelivered` and `ReviewedAccepted` hold whatever is edited
and whenever. The second excuses, in the property itself, a checkout that changed
between the adapter's check and its `git add` (`late`); from the check to `git add` the
invariant carries that the checkout is as reviewed or `late` is set.

*ProductDelivery.* There is no lock, so `PDInv` says of each caller what the others
cannot take from it. A stored artifact stays as it is; an artifact file that was created
and not filled belongs to one caller (`OneWriter`); the caller that has made the first
commit above the base is the only one that can push (`OneDelivery`: HEAD is above the
base, so a second delivery's commit has depth 2 and is refused); and a changed file
leaves a mark on every coding run under way, so that an unmarked run still has under its
hands the files that passed QA and Security. `Undisturbed(d)` collects what a step of
somebody else may show caller `d`, `CallerStays` proves that `d` then still has what it
relies on, and each action is proved for its own caller only. The closing gate's three
looks are three steps of `CallerStays`: what the status and HEAD have shown lasts until
the artifact is saved or the delivery is marked `disturbed`, and `DeliveredBound`
equates the artifact's files with the commit's only for an unmarked one (its commit,
branch and pull request agree in any case). `EffectsOwn`, `DeliveredBound` and
`UndisturbedReviewed` follow. Proving this showed that commits may be deeper than 2 with
three callers (refused deliveries leave theirs behind), which the type of the model had
excluded; `Commits` now has any depth.

*Workforce* (with DigitalTwin and WorkforceOutput). `IInv` has a part for the files of
each execution, one for each caller at its step and one for two callers at once. No two
callers hold one execution's lock, and the receipt of a holder does not change under it
(`NoSecondEffect`). What a provider reports, `evidence`, is what its gateway has counted
since it was called, so the receipt of a run that nobody interrupted has the calls of
all of them (`ToolsWithinAuthority`); a call after a failed attempt is a new provider
run, whence the product with `provided`. An artifact never changes once it is whole, so
the sources a caller has resolved stay `Grounded`: one artifact of each agent upstream,
stored, and with the architecture they were made from among them. That last part is
what the steps of `_validate_sources` add up to, and `OneArchitecture` follows; the
intent fixes the sources, so what an earlier attempt asked for is grounded too, and
what comes back from a receipt can be stored (`ArtifactsAccountedFor`).

*CodingProviders.* Nothing keeps two processes from working on one operation, and then
the records, the charge and the patch may disagree in every way the hazards list; so the
service's promises are for an operation that is not `overlapped`. `Apart` is what makes
that usable: two callers in a call on one operation have overlapped on it, hence a
caller of an operation that is not `overlapped` is alone with its records. Calls on
other operations are not excused: they share nothing but the workspace, and `Crossing`
records those that are both applied at a time. `IInv` then has two layers. What holds
even of overlapped callers (`RecordsOK`, `FrameOK`) is shape, and that a record once
there is never taken away (`Kept`); it survives any step of another caller. What holds
of an undisturbed one relates its frame to the world: before a live turn is sent nothing
is charged and no receipt is there, and whatever goes on from a submission has in hand
the record as stored, with the receipt of its result (`SubmissionOK`, `PaidFor`); and of
the patch, that each replaced file shows the answer or an edit and each file still to be
replaced is as committed, or that either has the result of a crossed operation
(`PatchOK`). A step in the middle of a call serves its own operation and writes no file
but with the result it applies (`Serves`). `ServiceKeeps` reduces an action to its own
caller, operation and frame, `BeginKeeps` covers the eight ways to begin a call, each of
which undoes the quiet of whoever is in one. `ChargedAndReceipted` and
`AcceptedPatchIsWhole` follow, and `NothingIsOverwritten` because at "replace" a caller
can only replace (`OnlyReplaces`) a file that `PatchOK` says is as committed or crossed.
A restart may fall between any two of these steps, and so may an edit or a commit.

Only model-checked are the liveness properties (`RequestsReturn`, and
`ReviewedWorkIsDelivered` outside the standing runs), which rest on fairness and ENABLED
and are out of this prover's reach. Every safety property and every action property of the
passing runs is a theorem; what the theorems assume beyond the modules' ASSUMEs is named
above. The theorems are about the modules' own specifications: `Renewal` (of
`dispatch_race`) and the second beginning (of `providers`) are additions of the MC
modules that only TLC checks.

## 5. Plan

1. Done: OutboxRepository, OutboxLifecycle, OutboxDispatch, RuntimePersistence,
   CircuitBreaker, ManagedExecution, SoftwareDelivery, CodingProviders,
   CustomerJourney, CustomerFulfilment, DigitalTwin, WorkforceOutput, Workforce,
   ProductCoding, ProductDelivery; the proofs of section 4.
2. Worker registry (heartbeats against stale scans, graceful shutdown, the reload
   after a refused SQLite save), external tasks with their review decisions,
   customer authentication, managed product services.
3. The PostgreSQL repositories as a further implementation of OutboxLifecycle on
   row locks.

## 6. Not modelled

Prompt and document generation, formatting, HTTP, subprocess and browser drivers are I/O
or pure conversions; the models say what such a call may do to the world. Payload
validation and redaction decide only whether a call is accepted. Corrupted database
rows, schema migration and recovery mode are outside the persistence model. The file
checkpoint provider is documented as single-process. The PostgreSQL repositories repeat
the contracts modelled here on row locks. Planning, project management and knowledge are
single-writer stores around pure functions. Requirements, product delivery and release
services have approval chains of the shape of CustomerJourney. Acceptance and pilot
harnesses script the services modelled here and keep no protocol of their own.
`PROJECT.json` gives the reason for every component.
