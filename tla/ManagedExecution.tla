-------------------------- MODULE ManagedExecution --------------------------
(***************************************************************************)
(* One execution plan of ManagedProductExecutionService                     *)
(* (runtime/managed_execution): its request, approvals and phases, the      *)
(* durable record of each external effect (runtime mappings, workspace,     *)
(* branch, commit, push, draft pull request), the coding results, gates and *)
(* review evidence, and the file system, Git and GitHub they act on.        *)
(*                                                                          *)
(* A method is a sequence of steps: a step is one save of a JSON document   *)
(* (ManagedExecutionStore._save replaces a file atomically) or one external *)
(* effect.  What a method has read it keeps, so a later save may write back *)
(* an old plan or operation.  A process may crash between any two steps.    *)
(*                                                                          *)
(* Data abstraction.  Identities that a plan determines (ids, paths, refs,  *)
(* messages, markers) are fixed; an expected identity that can change is    *)
(* the pull request's body, which lists the approvals.  The digest of a     *)
(* review evidence is its number.  Requests are in CONTROLLED_WRITE mode    *)
(* and every call passes allow_product_write; actors are human.             *)
(***************************************************************************)
EXTENDS Integers, FiniteSets

CONSTANTS
    Procs,             \* processes that call the service
    Tasks,             \* the tasks of the plan
    Interference,      \* TRUE: somebody else may push to the feature branch, or
                       \* report changes that are not in the workspace
    MaxCrashes, MaxApprovals, MaxEvidence

ASSUME ExecutionAssumption ==
    /\ Tasks # {} /\ IsFiniteSet(Tasks)
    /\ Interference \in BOOLEAN
    /\ MaxCrashes \in Nat /\ MaxApprovals \in Nat /\ MaxEvidence \in Nat

VARIABLES
    plan,              \* plans/: status, approval of the plan and of its review
    oper,              \* operations/: phase, and what has been submitted and done
    effects,           \* repository-effects/: the record of each kind of effect
    docs,              \* the other documents
    tasks,             \* the project manager's status of each task
    world,             \* workspace, Git, remote and GitHub
    local,             \* where each process is, and what it has read
    crashes            \* number of crashes so far

vars == <<plan, oper, effects, docs, tasks, world, local, crashes>>

Kinds == {"MAPPING", "WORKSPACE", "BRANCH", "COMMIT", "PUSH", "PR"}

Terminal == {"FAILED", "CANCELLED", "SUCCEEDED", "REJECTED", "RECONCILIATION_REQUIRED"}

NoPlan == [status |-> "ABSENT", approved |-> FALSE, reviewed |-> 0]
NoOperation ==
    [phase |-> "ABSENT", submitted |-> {}, commit |-> FALSE, pushed |-> FALSE,
     pr |-> FALSE, approvals |-> 0]
Idle ==
    [at |-> "idle", kind |-> "NONE", task |-> "NONE", plan |-> NoPlan,
     oper |-> NoOperation, seen |-> "ABSENT", found |-> FALSE,
     reconciling |-> FALSE, todo |-> {}]

Init ==
    /\ plan = NoPlan
    /\ oper = NoOperation
    /\ effects = [k \in Kinds |-> [state |-> "ABSENT", identity |-> 0]]
    /\ docs = [requested |-> FALSE, mapped |-> {}, workspace |-> FALSE,
               accepted |-> {}, gates |-> "none", evidence |-> 0]
    /\ tasks = [t \in Tasks |-> "TODO"]
    /\ world = [workspace |-> "none", applied |-> {}, branch |-> FALSE,
                commits |-> 0, remote |-> "none", prs |-> 0, body |-> 0,
                disturbed |-> FALSE]
    /\ local = [p \in Procs |-> Idle]
    /\ crashes = 0

-----------------------------------------------------------------------------
(* How a method goes on. *)
At(p, step) == local[p].at = step
Goto(p, step) == local' = [local EXCEPT ![p].at = step]
Done(p) == local' = [local EXCEPT ![p] = Idle]

\* A method begins: it loads the plan and the operation.
Begin(p, step, kind) ==
    /\ At(p, "idle")
    /\ local' = [local EXCEPT ![p] = [Idle EXCEPT !.at = step, !.kind = kind,
                                                  !.plan = plan, !.oper = oper]]

\* A reconciliation goes on with the next effect, any other method returns.
Return(p) ==
    IF local[p].reconciling THEN Goto(p, "reconcile") ELSE Done(p)

AllowedAfterTerminal(phases) ==
    /\ plan.approved
    /\ oper.phase \in phases

\* _require_execution_allowed
Allowed(phases) ==
    /\ plan.status \notin Terminal
    /\ plan.approved
    /\ oper.phase \in phases

-----------------------------------------------------------------------------
(***************************************************************************)
(* The request, the plan and its approval.                                  *)
(***************************************************************************)
\* validate_execution_request, for a proposal that is approved and materialised
Eligible == \A t \in Tasks : tasks[t] = "TODO" /\ t \notin docs.mapped

CreateRequest(p) ==
    /\ At(p, "idle") /\ ~docs.requested /\ Eligible
    /\ docs' = [docs EXCEPT !.requested = TRUE]
    /\ UNCHANGED <<plan, oper, effects, tasks, world, local, crashes>>

\* A method holds the plan it has made of the one it loaded, to save it next.
Hold(p, step, made) ==
    /\ At(p, "idle")
    /\ local' = [local EXCEPT ![p] = [Idle EXCEPT !.at = step, !.plan = made]]
    /\ UNCHANGED <<plan, oper, effects, docs, tasks, world, crashes>>

GeneratePlan(p) ==
    /\ docs.requested /\ Eligible /\ plan.status = "ABSENT"
    /\ Hold(p, "generate", [NoPlan EXCEPT !.status = "AWAITING_APPROVAL"])

GenerateOperation(p) ==
    /\ At(p, "operation")
    /\ oper' = [NoOperation EXCEPT !.phase = "PREPARED"]
    /\ Done(p)
    /\ UNCHANGED <<plan, effects, docs, tasks, world, crashes>>

DecidePlan(p) ==
    /\ plan.status = "AWAITING_APPROVAL"
    /\ \/ Hold(p, "decide", [plan EXCEPT !.status = "APPROVED", !.approved = TRUE])
       \/ Hold(p, "decide", [plan EXCEPT !.status = "REJECTED"])

\* save_plan of a new plan or of a decision, and what the method does next;
\* cancel_execution has no operation to go on with before there is one.
Onto(step) ==
    CASE step = "generate" -> "operation"
      [] step = "approve" -> "approved"
      [] step = "cancel" /\ oper.phase # "ABSENT" -> "cancelled"
      [] OTHER -> "idle"

SavePlan(p) ==
    /\ local[p].at \in {"generate", "decide", "approve", "cancel"}
    /\ plan' = local[p].plan
    /\ Goto(p, Onto(local[p].at))
    /\ UNCHANGED <<oper, effects, docs, tasks, world, crashes>>

-----------------------------------------------------------------------------
(***************************************************************************)
(* External effects.  Each kind follows the same protocol: prepare the      *)
(* record, inspect the world, start, perform, verify, complete the record   *)
(* and advance the operation.                                               *)
(***************************************************************************)
CreateRuntimeWork(p) ==
    /\ Allowed({"PREPARED", "RUNTIME_CREATED"})
    /\ Begin(p, "prepare", "MAPPING")
    /\ UNCHANGED <<plan, oper, effects, docs, tasks, world, crashes>>

PrepareWorkspace(p) ==
    /\ Allowed({"PREPARED", "RUNTIME_CREATED", "WORKSPACE_READY"})
    /\ Begin(p, "prepare", "WORKSPACE")
    /\ UNCHANGED <<plan, oper, effects, docs, tasks, world, crashes>>

CreateFeatureBranch(p) ==
    /\ Allowed({"WORKSPACE_READY", "BRANCH_READY", "RUNTIME_CREATED"})
    /\ docs.workspace
    /\ Begin(p, "prepare", "BRANCH")
    /\ UNCHANGED <<plan, oper, effects, docs, tasks, world, crashes>>

\* _verified_evidence and _require_review_approval
ReviewApproved == docs.evidence > 0 /\ plan.reviewed = docs.evidence

\* git status: the changes made in the workspace, until they are committed.
ChangedPaths == IF world.commits = 0 THEN world.applied ELSE {}

\* status.changed_paths are exactly the paths of the evidence
OnlyReviewedChanges == ChangedPaths = Tasks

CreateCommit(p) ==
    /\ Allowed({"REVIEW_APPROVED", "COMMIT_CREATED"})
    /\ ~oper.commit /\ docs.workspace /\ ReviewApproved
    /\ effects["COMMIT"].state = "ABSENT" => OnlyReviewedChanges
    /\ Begin(p, "prepare", "COMMIT")
    /\ UNCHANGED <<plan, oper, effects, docs, tasks, world, crashes>>

PushBranch(p) ==
    /\ Allowed({"COMMIT_CREATED", "PUSH_COMPLETED"})
    /\ ~oper.pushed /\ oper.commit /\ docs.workspace /\ ReviewApproved
    /\ Begin(p, "prepare", "PUSH")
    /\ UNCHANGED <<plan, oper, effects, docs, tasks, world, crashes>>

CreateDraftPullRequest(p) ==
    /\ Allowed({"PUSH_COMPLETED", "PR_CREATED"})
    /\ ~oper.pr /\ oper.pushed /\ ReviewApproved
    /\ Begin(p, "prepare", "PR")
    /\ UNCHANGED <<plan, oper, effects, docs, tasks, world, crashes>>

\* The method keeps the record it has loaded or made.
Inspecting(p, state) ==
    local' = [local EXCEPT ![p].at = "inspect", ![p].seen = state]

\* The states from which an effect is not tried again.
Refused == {"RECONCILIATION_REQUIRED"}

\* _prepare_effect
Prepare(p) ==
    LET k == local[p].kind
        identity == IF k = "PR" THEN local[p].oper.approvals ELSE 0
    IN  /\ At(p, "prepare")
        /\ \/ /\ effects[k].state = "ABSENT"
              /\ effects' = [effects EXCEPT ![k] = [state |-> "PREPARED",
                                                    identity |-> identity]]
              /\ Inspecting(p, "PREPARED")
           \/ /\ effects[k].state # "ABSENT"
              /\ IF effects[k].identity # identity THEN Goto(p, "diverge")
                 ELSE IF effects[k].state \in Refused THEN Done(p)
                 ELSE Inspecting(p, effects[k].state)
              /\ UNCHANGED effects
        /\ UNCHANGED <<plan, oper, docs, tasks, world, crashes>>

\* _expected_pr_body lists the approvals: those of the operation a method has
\* loaded, and in a reconciliation those of the operation at that moment.
Body(p) == IF local[p].reconciling THEN oper.approvals ELSE local[p].oper.approvals

\* What _reconcile_workspace, _reconcile_branch, _reconcile_commit,
\* _reconcile_push and _reconcile_pr find.
Found(p, k) ==
    CASE k = "WORKSPACE" ->
           IF world.workspace = "none" THEN "missing"
           ELSE IF world.workspace = "copied" /\ world.applied = {} THEN "exact"
           ELSE "divergent"
      [] k = "BRANCH" ->
           IF ~world.branch THEN "missing"
           ELSE IF world.commits = 0 THEN "exact" ELSE "divergent"
      [] k = "COMMIT" ->
           IF world.commits = 0 THEN "missing"
           ELSE IF world.commits = 1 THEN "exact" ELSE "divergent"
      [] k = "PUSH" ->
           IF world.remote = "none" THEN "missing"
           ELSE IF world.remote = "commit" THEN "exact" ELSE "divergent"
      [] k = "PR" ->
           IF world.prs = 0 THEN "missing"
           ELSE IF /\ world.prs = 1 /\ world.body = Body(p)
                   /\ world.remote = "commit" THEN "exact" ELSE "divergent"
      [] OTHER -> "missing"

\* The conditions checked between the inspection and the start of an effect.
Ready(k) ==
    CASE k = "BRANCH" -> ChangedPaths = {}
      [] k = "COMMIT" -> OnlyReviewedChanges
      [] OTHER -> TRUE

Recording(p, k, found) ==
    local' = [local EXCEPT ![p].at = IF k = "WORKSPACE" THEN "record" ELSE "complete",
                           ![p].found = found]

InspectedWithoutPR(p, k) ==
    IF k = "PR" /\ ~local[p].reconciling THEN "missing" ELSE Found(p, k)

\* The inspection that comes before an effect is performed.
Inspected(p, k) == Found(p, k)

Inspect(p) ==
    LET k == local[p].kind
    IN  /\ At(p, "inspect")
        /\ \/ k = "MAPPING" /\ Goto(p, "map")
           \/ k # "MAPPING" /\ Inspected(p, k) = "exact" /\ Recording(p, k, TRUE)
           \/ k # "MAPPING" /\ Inspected(p, k) = "divergent" /\ Goto(p, "diverge")
           \/ /\ k # "MAPPING" /\ Inspected(p, k) = "missing"
              /\ IF local[p].reconciling \/ ~Ready(k) THEN Return(p) ELSE Goto(p, "start")
        /\ UNCHANGED <<plan, oper, effects, docs, tasks, world, crashes>>

MapTask(p) ==
    /\ At(p, "map")
    /\ \/ /\ \E t \in Tasks \ docs.mapped :
                docs' = [docs EXCEPT !.mapped = @ \cup {t}]
          /\ UNCHANGED local
       \/ docs.mapped = Tasks /\ Goto(p, "complete") /\ UNCHANGED docs
    /\ UNCHANGED <<plan, oper, effects, tasks, world, crashes>>

\* _start_effect
Start(p) ==
    /\ At(p, "start")
    /\ effects' = IF local[p].seen = "COMPLETED" THEN effects
                  ELSE [effects EXCEPT ![local[p].kind].state = "IN_PROGRESS"]
    /\ Goto(p, "perform")
    /\ UNCHANGED <<plan, oper, docs, tasks, world, crashes>>

\* The world after the effect; a push does not replace what others pushed.
Performed(p, k) ==
    CASE k = "WORKSPACE" -> [world EXCEPT !.workspace = "partial"]
      [] k = "BRANCH" -> [world EXCEPT !.branch = TRUE]
      [] k = "COMMIT" -> [world EXCEPT !.commits = @ + 1]
      [] k = "PUSH" -> [world EXCEPT !.remote = "commit"]
      [] k = "PR" -> [world EXCEPT !.prs = @ + 1, !.body = Body(p)]

Perform(p) ==
    /\ At(p, "perform")
    /\ local[p].kind = "PUSH" => world.remote # "foreign"
    /\ world' = Performed(p, local[p].kind)
    /\ Goto(p, IF local[p].kind = "WORKSPACE" THEN "copy" ELSE "verify")
    /\ UNCHANGED <<plan, oper, effects, docs, tasks, crashes>>

CopySource(p) ==
    /\ At(p, "copy")
    /\ world' = [world EXCEPT !.workspace = "copied"]
    /\ Goto(p, "verify")
    /\ UNCHANGED <<plan, oper, effects, docs, tasks, crashes>>

\* The call raises: before it had its effect, after it, or half way.
PerformRaises(p) ==
    /\ \/ At(p, "perform") /\ world' = world
       \/ /\ At(p, "perform") /\ local[p].kind \notin {"WORKSPACE", "PUSH"}
          /\ world' = Performed(p, local[p].kind)
       \/ /\ At(p, "perform") /\ local[p].kind = "PUSH" /\ world.remote # "foreign"
          /\ world' = Performed(p, "PUSH")
       \/ At(p, "copy") /\ world' = [world EXCEPT !.disturbed = TRUE]
    /\ Goto(p, "uncertain")
    /\ UNCHANGED <<plan, oper, effects, docs, tasks, crashes>>

\* _uncertain_effect
Uncertain(p) ==
    /\ At(p, "uncertain")
    /\ effects' = [effects EXCEPT ![local[p].kind].state = "UNCERTAIN"]
    /\ Done(p)
    /\ UNCHANGED <<plan, oper, docs, tasks, world, crashes>>

\* The effect is inspected once more before it counts as completed.
Verify(p) ==
    /\ At(p, "verify")
    /\ IF Found(p, local[p].kind) = "exact"
       THEN Recording(p, local[p].kind, local[p].kind = "PR")
       ELSE Goto(p, "diverge")
    /\ UNCHANGED <<plan, oper, effects, docs, tasks, world, crashes>>

RecordWorkspace(p) ==
    /\ At(p, "record")
    /\ docs' = [docs EXCEPT !.workspace = TRUE]
    /\ Goto(p, "complete")
    /\ UNCHANGED <<plan, oper, effects, tasks, world, crashes>>

\* _complete_effect
Complete(p) ==
    /\ At(p, "complete")
    /\ effects' = [effects EXCEPT ![local[p].kind].state = "COMPLETED"]
    /\ Goto(p, "advance")
    /\ UNCHANGED <<plan, oper, docs, tasks, world, crashes>>

Advanced(k, operation) ==
    CASE k = "MAPPING" -> [operation EXCEPT !.phase = "RUNTIME_CREATED"]
      [] k = "WORKSPACE" -> [operation EXCEPT !.phase = "WORKSPACE_READY"]
      [] k = "BRANCH" -> [operation EXCEPT !.phase = "BRANCH_READY"]
      [] k = "COMMIT" -> [operation EXCEPT !.phase = "COMMIT_CREATED", !.commit = TRUE]
      [] k = "PUSH" -> [operation EXCEPT !.phase = "PUSH_COMPLETED", !.pushed = TRUE]
      [] k = "PR" -> [operation EXCEPT !.phase = "PR_CREATED", !.pr = TRUE]

CreatedForgotten(next) == oper

\* _reconcile_pr completes the operation it has just saved.
Created(next) == next

\* _phase and the reconciliations reload the operation; create_commit and
\* push_branch write back the one they loaded when they began.
Advance(p) ==
    LET k == local[p].kind
        kept == k \in {"COMMIT", "PUSH"} /\ ~local[p].found
        next == Advanced(k, IF kept THEN local[p].oper ELSE oper)
    IN  /\ At(p, "advance")
        /\ oper' = next
        /\ IF k = "PR"
           THEN local' = [local EXCEPT ![p].at = "finish", ![p].oper = Created(next)]
           ELSE Return(p)
        /\ UNCHANGED <<plan, effects, docs, tasks, world, crashes>>

Finish(p) ==
    /\ At(p, "finish")
    /\ oper' = [local[p].oper EXCEPT !.phase = "COMPLETED"]
    /\ Goto(p, "succeed")
    /\ UNCHANGED <<plan, effects, docs, tasks, world, crashes>>

Succeed(p) ==
    /\ At(p, "succeed")
    /\ plan' = [local[p].plan EXCEPT !.status = "SUCCEEDED"]
    /\ Return(p)
    /\ UNCHANGED <<oper, effects, docs, tasks, world, crashes>>

\* _effect_reconciliation: the effect, then the phase, then the plan.
DivergeEffect(p) ==
    /\ At(p, "diverge")
    /\ effects' = [effects EXCEPT ![local[p].kind].state = "RECONCILIATION_REQUIRED"]
    /\ Goto(p, "diverge phase")
    /\ UNCHANGED <<plan, oper, docs, tasks, world, crashes>>

DivergePhase(p) ==
    /\ At(p, "diverge phase")
    /\ oper' = [oper EXCEPT !.phase = "RECONCILIATION_REQUIRED"]
    /\ Goto(p, "diverge plan")
    /\ UNCHANGED <<plan, effects, docs, tasks, world, crashes>>

DivergePlan(p) ==
    /\ At(p, "diverge plan")
    /\ plan' = [local[p].plan EXCEPT !.status = "RECONCILIATION_REQUIRED"]
    /\ Done(p)
    /\ UNCHANGED <<oper, effects, docs, tasks, world, crashes>>

\* reconcile_execution loads the recorded effects and inspects them in the order
\* of their hashed ids; it stops at one that requires reconciliation.
ReconcileExecution(p) ==
    /\ At(p, "idle") /\ oper.phase # "ABSENT"
    /\ local' = [local EXCEPT ![p] =
           [Idle EXCEPT !.at = "reconcile", !.reconciling = TRUE, !.plan = plan,
                        !.oper = oper,
                        !.todo = {IF effects[k].state = "RECONCILIATION_REQUIRED"
                                  THEN "STOP" ELSE k :
                                  k \in {x \in Kinds : effects[x].state # "ABSENT"}}]]
    /\ UNCHANGED <<plan, oper, effects, docs, tasks, world, crashes>>

ReconcileEffect(p) ==
    /\ At(p, "reconcile")
    /\ \/ \E k \in local[p].todo :
            IF k = "STOP" THEN Done(p)
            ELSE local' = [local EXCEPT
                     ![p].todo = @ \ {k}, ![p].kind = k,
                     ![p].at = IF k = "MAPPING" THEN "reconcile" ELSE "inspect"]
       \/ local[p].todo = {} /\ Done(p)
    /\ UNCHANGED <<plan, oper, effects, docs, tasks, world, crashes>>

-----------------------------------------------------------------------------
(***************************************************************************)
(* Coding, quality gates, review.                                           *)
(***************************************************************************)
SubmitCodingTask(p, t) ==
    /\ Allowed({"BRANCH_READY", "RUNTIME_CREATED", "CODING_SUBMITTED"})
    /\ At(p, "idle")
    /\ oper' = IF t \in oper.submitted THEN oper
               ELSE [oper EXCEPT !.submitted = @ \cup {t}, !.phase = "CODING_SUBMITTED"]
    /\ local' = [local EXCEPT ![p] = [Idle EXCEPT !.at = "start task", !.task = t]]
    /\ UNCHANGED <<plan, effects, docs, tasks, world, crashes>>

StartTask(p) ==
    /\ At(p, "start task")
    /\ tasks' = [tasks EXCEPT ![local[p].task] = IF @ = "TODO" THEN "IN_PROGRESS" ELSE @]
    /\ Done(p)
    /\ UNCHANGED <<plan, oper, effects, docs, world, crashes>>

\* accept_provider_result applies the provider's patch to a clean workspace and
\* hands the observed changes to process_coding_result.
AcceptProviderResult(p, t) ==
    /\ At(p, "idle") /\ t \in oper.submitted
    /\ docs.workspace /\ world.branch /\ ChangedPaths = {}
    /\ world' = [world EXCEPT !.applied = @ \cup {t}]
    /\ local' = [local EXCEPT ![p] = [Idle EXCEPT !.at = "result", !.task = t]]
    /\ UNCHANGED <<plan, oper, effects, docs, tasks, crashes>>

\* process_coding_result is called directly, for changes made in the workspace
\* or, with interference, for changes that are not there.
ReportCodingResult(p, t) ==
    /\ At(p, "idle") /\ t \in oper.submitted
    /\ \/ docs.workspace /\ world' = [world EXCEPT !.applied = @ \cup {t}]
       \/ Interference /\ UNCHANGED world
    /\ local' = [local EXCEPT ![p] = [Idle EXCEPT !.at = "result", !.task = t]]
    /\ UNCHANGED <<plan, oper, effects, docs, tasks, crashes>>

ResultPhases == {"CODING_SUBMITTED", "CODING_COMPLETED", "BRANCH_READY", "RUNTIME_CREATED"}

\* A result is accepted once.  A different result for the task, or one that has
\* the provider operation of another task, is a divergence.
ProcessCodingResult(p) ==
    LET t == local[p].task
        expected == Allowed(ResultPhases) /\ t \in oper.submitted
    IN  /\ At(p, "result")
        /\ \/ /\ expected /\ t \notin docs.accepted
              /\ docs' = [docs EXCEPT !.accepted = @ \cup {t}]
              /\ local' = [local EXCEPT ![p].at = "accepted", ![p].oper = oper]
              /\ UNCHANGED world
           \/ /\ expected /\ docs.accepted # {}
              /\ local' = [local EXCEPT ![p].at = "diverge phase", ![p].plan = plan]
              /\ world' = [world EXCEPT !.disturbed = TRUE]
              /\ UNCHANGED docs
           \/ /\ ~expected \/ t \in docs.accepted
              /\ Done(p)
              /\ UNCHANGED <<docs, world>>
        /\ UNCHANGED <<plan, oper, effects, tasks, crashes>>

AcceptedOperation(p) ==
    /\ At(p, "accepted")
    /\ oper' = [local[p].oper EXCEPT !.phase = "CODING_COMPLETED"]
    /\ Done(p)
    /\ UNCHANGED <<plan, effects, docs, tasks, world, crashes>>

\* A result that did not succeed blocks the task and fails the operation.
FailedCodingResult(p, t) ==
    /\ Allowed(ResultPhases) /\ t \in oper.submitted
    /\ At(p, "idle")
    /\ tasks' = [tasks EXCEPT ![t] = IF @ \in {"TODO", "IN_PROGRESS"} THEN "BLOCKED" ELSE @]
    /\ local' = [local EXCEPT ![p] = [Idle EXCEPT !.at = "fail"]]
    /\ UNCHANGED <<plan, oper, effects, docs, world, crashes>>

FailOperation(p) ==
    /\ At(p, "fail")
    /\ oper' = [oper EXCEPT !.phase = "FAILED"]
    /\ Done(p)
    /\ UNCHANGED <<plan, effects, docs, tasks, world, crashes>>

\* Results that exist are returned as they are.
RunQualityGates(p) ==
    /\ Allowed({"CODING_COMPLETED", "QUALITY_GATES_COMPLETED"})
    /\ At(p, "idle") /\ docs.gates = "none" /\ docs.workspace
    /\ \/ docs' = [docs EXCEPT !.gates = "passed"] /\ Goto(p, "gated")
       \/ docs' = [docs EXCEPT !.gates = "failed"] /\ UNCHANGED local
    /\ UNCHANGED <<plan, oper, effects, tasks, world, crashes>>

GatedOperation(p) ==
    /\ At(p, "gated")
    /\ oper' = [oper EXCEPT !.phase = "QUALITY_GATES_COMPLETED"]
    /\ Done(p)
    /\ UNCHANGED <<plan, effects, docs, tasks, world, crashes>>

CoveredPartly == docs.accepted # {}

\* The accepted coding results exactly cover the planned tasks.
Covered == docs.accepted = Tasks

GenerateReviewEvidence(p) ==
    /\ Allowed({"QUALITY_GATES_COMPLETED"})
    /\ docs.gates = "passed" /\ Covered
    /\ effects["BRANCH"].state # "ABSENT"
    /\ docs.evidence < MaxEvidence
    /\ Begin(p, "evidence", "NONE")
    /\ docs' = [docs EXCEPT !.evidence = @ + 1]
    /\ UNCHANGED <<plan, oper, effects, tasks, world, crashes>>

EvidenceOperation(p) ==
    /\ At(p, "evidence")
    /\ oper' = [oper EXCEPT !.phase = "REVIEW_REQUIRED"]
    /\ Goto(p, "evidence plan")
    /\ UNCHANGED <<plan, effects, docs, tasks, world, crashes>>

EvidencePlan(p) ==
    /\ At(p, "evidence plan")
    /\ plan' = [local[p].plan EXCEPT !.status = "REVIEW_REQUIRED"]
    /\ Done(p)
    /\ UNCHANGED <<oper, effects, docs, tasks, world, crashes>>

\* The plan keeps its status, so a review can be decided again.
ApproveReview(p) ==
    /\ plan.status = "REVIEW_REQUIRED" /\ docs.evidence > 0
    /\ oper.approvals < MaxApprovals
    /\ Hold(p, "approve", [plan EXCEPT !.approved = TRUE, !.reviewed = docs.evidence])

ApprovedOperation(p) ==
    /\ At(p, "approved")
    /\ oper' = [oper EXCEPT !.phase = "REVIEW_APPROVED", !.approvals = @ + 1]
    /\ Goto(p, "complete tasks")
    /\ UNCHANGED <<plan, effects, docs, tasks, world, crashes>>

CompleteTasks(p) ==
    /\ At(p, "complete tasks")
    /\ tasks' = [t \in Tasks |-> IF t \in oper.submitted /\ tasks[t] = "IN_PROGRESS"
                                 THEN "DONE" ELSE tasks[t]]
    /\ Done(p)
    /\ UNCHANGED <<plan, oper, effects, docs, world, crashes>>

\* reject_review and request_correction
RejectReview(p) ==
    /\ plan.status = "REVIEW_REQUIRED" /\ docs.evidence > 0
    /\ Hold(p, "decide", [plan EXCEPT !.status = "FAILED"])

CancelExecution(p) ==
    /\ plan.status \notin Terminal \cup {"ABSENT"}
    /\ Hold(p, "cancel", [plan EXCEPT !.status = "CANCELLED"])

CancelOperation(p) ==
    /\ At(p, "cancelled")
    /\ oper' = [oper EXCEPT !.phase = "CANCELLED"]
    /\ Done(p)
    /\ UNCHANGED <<plan, effects, docs, tasks, world, crashes>>

-----------------------------------------------------------------------------
Crash(p) ==
    /\ ~At(p, "idle") /\ crashes < MaxCrashes
    /\ crashes' = crashes + 1
    /\ Done(p)
    /\ UNCHANGED <<plan, oper, effects, docs, tasks, world>>

Interfere ==
    /\ Interference /\ world.remote # "foreign"
    /\ world' = [world EXCEPT !.remote = "foreign", !.disturbed = TRUE]
    /\ UNCHANGED <<plan, oper, effects, docs, tasks, local, crashes>>

\* Somebody works on the execution: the calls that take it forward.
Drive(p) ==
    \/ CreateRequest(p) \/ GeneratePlan(p)
    \/ CreateRuntimeWork(p) \/ PrepareWorkspace(p) \/ CreateFeatureBranch(p)
    \/ \E t \in Tasks : SubmitCodingTask(p, t) \/ AcceptProviderResult(p, t)
    \/ RunQualityGates(p) \/ GenerateReviewEvidence(p)
    \/ CreateCommit(p) \/ PushBranch(p) \/ CreateDraftPullRequest(p)

Decide(p) ==
    \/ DecidePlan(p) \/ ApproveReview(p) \/ RejectReview(p) \/ CancelExecution(p)
    \/ ReconcileExecution(p)
    \/ \E t \in Tasks : ReportCodingResult(p, t) \/ FailedCodingResult(p, t)

\* A method that has begun goes on to its end.
Continue(p) ==
    \/ SavePlan(p) \/ GenerateOperation(p)
    \/ Prepare(p) \/ Inspect(p) \/ MapTask(p) \/ Start(p) \/ Perform(p)
    \/ CopySource(p) \/ Uncertain(p) \/ Verify(p) \/ RecordWorkspace(p)
    \/ Complete(p) \/ Advance(p) \/ Finish(p) \/ Succeed(p)
    \/ DivergeEffect(p) \/ DivergePhase(p) \/ DivergePlan(p)
    \/ ReconcileEffect(p)
    \/ StartTask(p) \/ ProcessCodingResult(p) \/ AcceptedOperation(p)
    \/ FailOperation(p) \/ GatedOperation(p)
    \/ EvidenceOperation(p) \/ EvidencePlan(p)
    \/ ApprovedOperation(p) \/ CompleteTasks(p) \/ CancelOperation(p)

Next ==
    \/ \E p \in Procs : Drive(p) \/ Decide(p) \/ Continue(p) \/ PerformRaises(p) \/ Crash(p)
    \/ Interfere

Spec == Init /\ [][Next]_vars

\* The delivery is retried until it ends, a method that has begun goes on, and
\* an effect that is tried again and again succeeds in the end.
FairSpec ==
    /\ Spec
    /\ \A p \in Procs : /\ WF_vars(Continue(p))
                        /\ SF_vars(Perform(p))
                        /\ SF_vars(CreateCommit(p))
                        /\ SF_vars(PushBranch(p))
                        /\ SF_vars(CreateDraftPullRequest(p))

-----------------------------------------------------------------------------
(***************************************************************************)
(* Properties.                                                              *)
(***************************************************************************)
Phases ==
    {"ABSENT", "PREPARED", "RUNTIME_CREATED", "WORKSPACE_READY", "BRANCH_READY",
     "CODING_SUBMITTED", "CODING_COMPLETED", "QUALITY_GATES_COMPLETED",
     "REVIEW_REQUIRED", "REVIEW_APPROVED", "COMMIT_CREATED", "PUSH_COMPLETED",
     "PR_CREATED", "COMPLETED", "FAILED", "CANCELLED", "RECONCILIATION_REQUIRED"}

Plans ==
    [status : Terminal \cup {"ABSENT", "AWAITING_APPROVAL", "APPROVED", "REVIEW_REQUIRED"},
     approved : BOOLEAN, reviewed : 0..MaxEvidence]
Operations ==
    [phase : Phases, submitted : SUBSET Tasks, commit : BOOLEAN, pushed : BOOLEAN,
     pr : BOOLEAN, approvals : 0..MaxApprovals]

TypeOK ==
    /\ plan \in Plans
    /\ oper \in Operations
    /\ effects \in [Kinds -> [state : {"ABSENT", "PREPARED", "IN_PROGRESS", "COMPLETED",
                                       "UNCERTAIN", "RECONCILIATION_REQUIRED"},
                              identity : 0..MaxApprovals]]
    /\ docs \in [requested : BOOLEAN, mapped : SUBSET Tasks, workspace : BOOLEAN,
                 accepted : SUBSET Tasks, gates : {"none", "passed", "failed"},
                 evidence : 0..MaxEvidence]
    /\ tasks \in [Tasks -> {"TODO", "IN_PROGRESS", "DONE", "BLOCKED"}]
    /\ world.commits \in Nat /\ world.prs \in Nat /\ world.applied \subseteq Tasks
    /\ crashes \in 0..MaxCrashes

\* However often a process crashes between an effect and its record, and
\* however often calls raise after they had their effect, the retries create
\* no second commit and no second pull request.
EffectsAtMostOnce == world.commits <= 1 /\ world.prs <= 1

\* "Completion is persisted only after exact inspection": a record is
\* COMPLETED only when its effect is really there.
CompletedEffectsExist ==
    \A k \in Kinds : effects[k].state = "COMPLETED" =>
        CASE k = "MAPPING" -> docs.mapped = Tasks
          [] k = "WORKSPACE" -> docs.workspace /\ world.workspace = "copied"
          [] k = "BRANCH" -> world.branch
          [] k = "COMMIT" -> world.commits = 1
          [] k = "PUSH" -> world.remote # "none"
          [] k = "PR" -> world.prs = 1

\* Effects and their records match: however crashes, exceptions, retries and
\* reconciliations fall, none is doubled and none is claimed without being there.
EffectsAreExact == TypeOK /\ EffectsAtMostOnce /\ CompletedEffectsExist

\* Nothing leaves the workspace, and no task is done, before every planned task
\* has an accepted result, the gates have passed and a human has approved the
\* evidence that is in force.
OnlyReviewedWorkLeaves ==
    world.commits > 0 \/ world.remote = "commit" \/ world.prs > 0
        \/ (\E t \in Tasks : tasks[t] = "DONE")
    => /\ docs.accepted = Tasks /\ docs.gates = "passed"
       /\ docs.evidence > 0 /\ plan.reviewed = docs.evidence

\* The plan stays terminal, and no commit, branch or pull request is made.
Final ==
    /\ plan'.status \in Terminal
    /\ world'.commits = world.commits /\ world'.prs = world.prs
    /\ world'.branch = world.branch

\* A method that is under way with a plan it has loaded before the plan's end.
Earlier(p) ==
    /\ ~At(p, "idle") /\ local'[p] # local[p]
    /\ local[p].plan.status \notin Terminal \cup {"ABSENT"}

\* _require_execution_allowed is asked once, when a method begins, and documents
\* have neither version nor lock: a plan's end stops every method that begins
\* after it, in whatever process, but none that began before.  Only those bring
\* an ended plan back or perform an effect for it.
EndedPlansAreLeftAlone ==
    [][plan.status \in Terminal => Final \/ \E p \in Procs : Earlier(p)]_vars

\* "FAILED, CANCELLED, SUCCEEDED, REJECTED, SUPERSEDED, and
\* RECONCILIATION_REQUIRED cannot re-enter ordinary execution"
\* (docs/MANAGED_EXECUTION_RECONCILIATION.md).  With two processes they can: the
\* one saves the plan it loaded before the other cancelled it.
TerminalIsFinal == [][plan.status \in Terminal => Final]_vars

\* A succeeded plan has its whole delivery on record: the commit, the push and
\* the pull request, in the operation and as completed effects.
SucceededIsDelivered ==
    plan.status = "SUCCEEDED" =>
        /\ oper.commit /\ oper.pushed /\ oper.pr
        /\ \A k \in {"COMMIT", "PUSH", "PR"} :
              effects[k].state \in {"COMPLETED", "RECONCILIATION_REQUIRED"}

\* "Missing state may be retried from durable intent"
\* (docs/MANAGED_EXECUTION_RECONCILIATION.md): without crashes, an execution
\* whose review is approved comes to its end when create_commit, push_branch
\* and create_draft_pull_request are retried, whatever calls raise on the way.
ReviewedWorkIsDelivered ==
    (oper.phase = "REVIEW_APPROVED" /\ plan.status = "REVIEW_REQUIRED")
        ~> plan.status \in Terminal

\* "Exact state is reused. [...] Divergent or multiple state [...] becomes
\* RECONCILIATION_REQUIRED" (docs/MANAGED_EXECUTION_RECONCILIATION.md): an
\* execution nobody has disturbed is not declared divergent.
NoFalseDivergence ==
    oper.phase = "RECONCILIATION_REQUIRED" => world.disturbed
=============================================================================
