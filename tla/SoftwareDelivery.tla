-------------------------- MODULE SoftwareDelivery --------------------------
(***************************************************************************)
(* The in-memory software factory: SoftwareDeliveryWorkflowService over    *)
(* the runtime engine (work items), the agent registry, the orchestrator   *)
(* (assignments), the execution and recovery services, the transactions    *)
(* that make one workflow operation atomic over all of them, and the       *)
(* automatic checkpoints taken after it.  One step is one public call: the *)
(* services are single-threaded and a joined call runs inside its caller's *)
(* transaction, so what can go wrong between two calls is a refusal, a     *)
(* failed commit, a failed checkpoint, an operator changing the agents, or *)
(* the end of the process.                                                 *)
(*                                                                         *)
(* `state' is everything a checkpoint captures.  Only what calls decide on *)
(* is kept: titles, payloads, reasons and times are left out, and the      *)
(* event stream is represented by the stage the last workflow event told.  *)
(***************************************************************************)
EXTENDS Integers, Sequences, SequencesExt, FiniteSets

CONSTANTS
  Workflows,      \* the delivery requests that may be submitted
  Agents,         \* the agents that may be registered
  Roster,         \* the agents a new process registers, in order
  MaxParallel,    \* AgentMetadata.max_parallel_tasks
  Priority,       \* AgentMetadata.priority
  Suits,          \* the agents with a request's role and capabilities
  MaxExecutions,  \* bound: executions of one work item
  MaxDisturbances, \* bound: operator calls, failed checkpoints and crashes
  None

ASSUME RosterAssumption ==
  /\ IsFiniteSet(Workflows)
  /\ Roster \in Seq(Agents) /\ IsInjective(Roster)
ASSUME CapacityAssumption ==
  /\ MaxParallel \in [Agents -> Nat \ {0}]
  /\ Priority \in [Agents -> Int]
  /\ Suits \in [Workflows -> SUBSET Agents]

VARIABLES
  state,       \* the live state of every service
  config,      \* eventing_enabled and automatic_checkpoint_policy
  checkpoint,  \* the payload of the latest checkpoint, or None
  up,          \* the process runs
  ended,       \* workflows whose end was acknowledged with a checkpoint (ghost)
  disturbed    \* spent of MaxDisturbances

vars == <<state, config, checkpoint, up, ended, disturbed>>

Disturb == disturbed < MaxDisturbances /\ disturbed' = disturbed + 1

-----------------------------------------------------------------------------
WorkflowStage == {"INTAKE", "PLANNING", "READY", "ASSIGNED", "EXECUTING", "REVIEW",
                  "APPROVAL", "COMPLETED", "RELEASED", "FAILED", "CANCELLED"}
LifecycleState == {"CREATED", "READY", "ASSIGNED", "RUNNING", "REVIEW", "APPROVED",
                   "REJECTED", "COMPLETED", "RELEASED"}
AssignmentStatus == {"ACTIVE", "COMPLETED", "CANCELLED"}

ALLOWED_STAGE_TRANSITIONS ==
  [INTAKE |-> {"PLANNING", "CANCELLED"}, PLANNING |-> {"READY", "CANCELLED"},
   READY |-> {"ASSIGNED", "CANCELLED"}, ASSIGNED |-> {"EXECUTING", "CANCELLED"},
   EXECUTING |-> {"REVIEW", "FAILED", "CANCELLED"}, REVIEW |-> {"APPROVAL", "EXECUTING"},
   APPROVAL |-> {"COMPLETED"}, COMPLETED |-> {"RELEASED"}, RELEASED |-> {},
   FAILED |-> {"ASSIGNED", "REVIEW", "FAILED", "CANCELLED"}, CANCELLED |-> {}]

LIFECYCLE_TRANSITIONS ==
  [CREATED |-> {"READY"}, READY |-> {"ASSIGNED"}, ASSIGNED |-> {"READY", "RUNNING"},
   RUNNING |-> {"REVIEW"}, REVIEW |-> {"APPROVED", "REJECTED"}, REJECTED |-> {"RUNNING"},
   APPROVED |-> {"COMPLETED"}, COMPLETED |-> {"RELEASED"}, RELEASED |-> {}]

AGENT_STATE_TRANSITIONS ==
  [REGISTERED |-> {"AVAILABLE", "OFFLINE", "DISABLED"},
   AVAILABLE |-> {"BUSY", "OFFLINE", "DISABLED"},
   BUSY |-> {"AVAILABLE", "OFFLINE", "DISABLED"},
   OFFLINE |-> {"AVAILABLE", "DISABLED"}, DISABLED |-> {}]

AUTOMATIC_OPERATIONS == {"submit_request", "assign_work", "execute_work",
  "recover_failed_execution", "approve_work", "complete_work", "release_work",
  "cancel_workflow"}

-----------------------------------------------------------------------------
(* A workflow with its work item, its one assignment and the results of    *)
(* its executions; `rejection' counts the executions at its last rejection *)
(* (ghost).  The agents are kept in registration order with their states;  *)
(* `touched' are those an operator changed (ghost).                        *)

SoftwareDeliveryWorkflow ==
  [stage : WorkflowStage \cup {None}, item : LifecycleState \cup {None},
   assignment : AssignmentStatus \cup {None}, agent : Agents \cup {None},
   runs : Seq({"SUCCEEDED", "FAILED"}), rejection : Nat,
   logged : WorkflowStage \cup {None}]

States ==
  [flow : [Workflows -> SoftwareDeliveryWorkflow], agents : Seq(Agents),
   condition : [Agents -> DOMAIN AGENT_STATE_TRANSITIONS \cup {None}],
   touched : SUBSET Agents]

ASSUME NoneAssumption ==
  None \notin WorkflowStage \cup LifecycleState \cup AssignmentStatus \cup States

Unsubmitted == [stage |-> None, item |-> None, assignment |-> None, agent |-> None,
                runs |-> <<>>, rejection |-> 0, logged |-> None]

NewProcess == [flow |-> [w \in Workflows |-> Unsubmitted],
               agents |-> Roster,
               condition |-> [a \in Agents |->
                 IF a \in Range(Roster) THEN "AVAILABLE" ELSE None],
               touched |-> {}]

Registered(s, a) == a \in Range(s.agents)
Active(s, a) == {w \in Workflows : s.flow[w].agent = a /\ s.flow[w].assignment = "ACTIVE"}
Position(s, a) == CHOOSE i \in DOMAIN s.agents : s.agents[i] = a

(* SoftwareDeliveryWorkflow.move_to, and the event that tells the stage.    *)
MayMove(s, w, stage) == stage \in ALLOWED_STAGE_TRANSITIONS[s.flow[w].stage]
MoveTo(s, w, stage) == [s EXCEPT !.flow[w].stage = stage]
Publish(s, w) ==
  IF config.eventing THEN [s EXCEPT !.flow[w].logged = s.flow[w].stage] ELSE s
Tell(s, w, stage) == Publish(MoveTo(s, w, stage), w)

(* RuntimeEngine.change_work_item_state and recover_work_item_state.        *)
MayChange(s, w, new) == new \in LIFECYCLE_TRANSITIONS[s.flow[w].item]
ChangeItem(s, w, new) == [s EXCEPT !.flow[w].item = new]
RecoverItem(s, w) == ChangeItem(s, w, "ASSIGNED")

(* Orchestrator.select_agent: the eligible agents, and the first by        *)
(* priority, load and order of registration.                               *)
Eligible(s, w) == {a \in Range(s.agents) \cap Suits[w] :
                     /\ Cardinality(Active(s, a)) < MaxParallel[a]
                     /\ s.condition[a] = "AVAILABLE"}
Load(s, a) == Cardinality(Active(s, a))
RanksFirst(s, a, b) ==
  \/ Priority[a] > Priority[b]
  \/ Priority[a] = Priority[b] /\ Load(s, a) < Load(s, b)
  \/ Priority[a] = Priority[b] /\ Load(s, a) = Load(s, b) /\ Position(s, a) <= Position(s, b)
SelectAgent(s, w) == CHOOSE a \in Eligible(s, w) : \A b \in Eligible(s, w) : RanksFirst(s, a, b)

(* Orchestrator.assign_work_item, with the agent that becomes BUSY when it  *)
(* holds its last parallel task, and _release_agent_capacity.              *)
Assign(s, w) ==
  LET a == SelectAgent(s, w)
      full == Load(s, a) + 1 = MaxParallel[a]
  IN [ChangeItem(s, w, "ASSIGNED") EXCEPT
        !.flow[w].assignment = "ACTIVE", !.flow[w].agent = a,
        !.condition[a] = IF full THEN "BUSY" ELSE @]

ReleaseNothing(s, a) == s

ReleaseAgentCapacity(s, a) ==
  IF s.condition[a] = "BUSY" /\ Load(s, a) < MaxParallel[a]
  THEN [s EXCEPT !.condition[a] = "AVAILABLE"] ELSE s

(* complete_assignment and cancel_assignment: both need the agent to be    *)
(* registered still.                                                       *)
CompleteAssignment(s, w) ==
  ReleaseAgentCapacity([ChangeItem(s, w, "COMPLETED") EXCEPT !.flow[w].assignment = "COMPLETED"],
                       s.flow[w].agent)
CancelAssignment(s, w) ==
  ReleaseAgentCapacity([ChangeItem(s, w, "READY") EXCEPT !.flow[w].assignment = "CANCELLED"],
                       s.flow[w].agent)

(* ExecutionService._execute from the moment an executor was selected: the *)
(* item runs, and the result decides where it stops.                       *)
Executed(s, w, result) ==
  [ChangeItem(s, w, IF result = "SUCCEEDED" THEN "REVIEW" ELSE "RUNNING") EXCEPT
     !.flow[w].runs = Append(@, result)]

-----------------------------------------------------------------------------
(* RuntimeTransaction._restore puts back every object the snapshot          *)
(* providers named, whichever service owns it, and drops the staged events. *)
RestoredButWorkflows(before, after) ==
  [before EXCEPT !.flow = [w \in Workflows |->
     [before.flow[w] EXCEPT !.stage = after.flow[w].stage]]]

Restored(before, after) == before

(* An operation that raised after it had changed something.  A FAILED      *)
(* execution is not one of these: its transaction commits.  Without an      *)
(* event publisher there is no transaction and the changes stay.           *)
RolledBack(after) ==
  /\ state' = IF config.eventing THEN Restored(state, after) ELSE after
  /\ UNCHANGED <<checkpoint, ended, disturbed>>

Ended(s) == {w \in Workflows : s.flow[w].stage \in {"RELEASED", "CANCELLED"}}

(* A checkpoint of the state the operation found. *)
AfterOperationStale(name, after) ==
  IF config.eventing /\ config.automatic /\ name \in AUTOMATIC_OPERATIONS
  THEN checkpoint' = state /\ ended' = Ended(after) /\ UNCHANGED disturbed
  ELSE UNCHANGED <<checkpoint, ended, disturbed>>

(* RuntimePersistenceService.after_atomic_operation, after the commit.  A   *)
(* failed checkpoint raises PersistenceCommitError; the commit stays.       *)
AfterAtomicOperation(name, after) ==
  IF config.eventing /\ config.automatic /\ name \in AUTOMATIC_OPERATIONS
  THEN \/ /\ checkpoint' = after
          /\ ended' = Ended(after)
          /\ UNCHANGED disturbed
       \/ Disturb /\ UNCHANGED <<checkpoint, ended>>
  ELSE UNCHANGED <<checkpoint, ended, disturbed>>

(* atomic_domain_operation: commit, or fail to add the events and restore. *)
Do(name, after) ==
  /\ up
  /\ \/ /\ state' = after
        /\ AfterAtomicOperation(name, after)
     \/ config.eventing /\ RolledBack(after)
  /\ UNCHANGED <<config, up>>

Refuse(after) == up /\ RolledBack(after) /\ UNCHANGED <<config, up>>

-----------------------------------------------------------------------------
(* SoftwareDeliveryWorkflowService.                                        *)

SubmitRequest(w) ==
  /\ state.flow[w].stage = None
  /\ Do("submit_request", Tell(ChangeItem(state, w, "CREATED"), w, "INTAKE"))

(* prepare_work finds nothing to do: no call leaves a workflow PLANNING.    *)
PlanRequest(w) ==
  /\ state.flow[w].stage = "INTAKE"
  /\ MayMove(state, w, "PLANNING") /\ MayChange(state, w, "READY")
  /\ Do("plan_request", Tell(ChangeItem(MoveTo(state, w, "PLANNING"), w, "READY"), w, "READY"))

AssignWork(w) ==
  /\ state.flow[w].stage = "READY"
  /\ MayMove(state, w, "ASSIGNED") /\ MayChange(state, w, "ASSIGNED")
  /\ Eligible(state, w) # {}
  /\ Do("assign_work", Tell(Assign(state, w), w, "ASSIGNED"))

(* A correction and a first execution differ in the item state they need.  *)
Started(w) ==
  IF state.flow[w].stage = "ASSIGNED" THEN Tell(state, w, "EXECUTING") ELSE Publish(state, w)

ExecuteWork(w) ==
  LET flow == state.flow[w] IN
  /\ flow.stage \in {"ASSIGNED", "EXECUTING"}
  /\ flow.item \in {"ASSIGNED", "REJECTED"}
  /\ Len(flow.runs) < MaxExecutions
  /\ \/ \E result \in {"SUCCEEDED", "FAILED"} :
          /\ Registered(state, flow.agent)
          /\ Do("execute_work",
               Tell(Executed(Started(w), w, result), w,
                    IF result = "SUCCEEDED" THEN "REVIEW" ELSE "FAILED"))
     \/ Refuse(Started(w))    \* the agent is gone, or no executor suits it

ApproveWork(w) ==
  /\ state.flow[w].stage = "REVIEW" /\ state.flow[w].item = "REVIEW"
  /\ MayMove(state, w, "APPROVAL") /\ MayChange(state, w, "APPROVED")
  /\ Do("approve_work", Tell(ChangeItem(state, w, "APPROVED"), w, "APPROVAL"))

RejectWork(w) ==
  /\ state.flow[w].stage = "REVIEW"
  /\ MayMove(state, w, "EXECUTING") /\ MayChange(state, w, "REJECTED")
  /\ Do("reject_work", Tell([ChangeItem(state, w, "REJECTED") EXCEPT
       !.flow[w].rejection = Len(state.flow[w].runs)], w, "EXECUTING"))

CompleteWork(w) ==
  LET flow == state.flow[w] IN
  /\ flow.stage = "APPROVAL" /\ flow.item = "APPROVED"
  /\ flow.assignment = "ACTIVE" /\ Registered(state, flow.agent)
  /\ Do("complete_work", Tell(CompleteAssignment(state, w), w, "COMPLETED"))

ReleaseWork(w) ==
  /\ state.flow[w].stage = "COMPLETED" /\ state.flow[w].item = "COMPLETED"
  /\ MayMove(state, w, "RELEASED") /\ MayChange(state, w, "RELEASED")
  /\ Do("release_work", Tell(ChangeItem(state, w, "RELEASED"), w, "RELEASED"))

(* ExecutionRecoveryService._validate_recoverable.                         *)
Recoverable(w) ==
  LET flow == state.flow[w] IN
  /\ flow.stage = "FAILED"
  /\ Last(flow.runs) = "FAILED"
  /\ flow.assignment = "ACTIVE" /\ flow.item = "RUNNING"

(* RecoverFailedExecution: retry it, reset it to ASSIGNED, or cancel.      *)
RetryFailedExecution(w) ==
  /\ Recoverable(w) /\ Registered(state, state.flow[w].agent)
  /\ Len(state.flow[w].runs) < MaxExecutions
  /\ \E result \in {"SUCCEEDED", "FAILED"} :
       LET after == Executed(RecoverItem(state, w), w, result) IN
       Do("recover_failed_execution",
          IF result = "SUCCEEDED" THEN Tell(after, w, "REVIEW") ELSE Publish(after, w))

ResetFailedExecution(w) ==
  /\ Recoverable(w) /\ MayMove(state, w, "ASSIGNED")
  /\ Do("recover_failed_execution", Tell(RecoverItem(state, w), w, "ASSIGNED"))

CancelFailedAssignment(w, name) ==
  /\ Recoverable(w) /\ Registered(state, state.flow[w].agent)
  /\ Do(name, Tell(CancelAssignment(RecoverItem(state, w), w), w, "CANCELLED"))

CancelWorkflow(w) ==
  \/ /\ state.flow[w].stage \in {"INTAKE", "READY"} /\ MayMove(state, w, "CANCELLED")
     /\ Do("cancel_workflow", Tell(state, w, "CANCELLED"))
  \/ /\ state.flow[w].stage = "ASSIGNED" /\ state.flow[w].item = "ASSIGNED"
     /\ Registered(state, state.flow[w].agent)
     /\ Do("cancel_workflow", Tell(CancelAssignment(state, w), w, "CANCELLED"))
  \/ CancelFailedAssignment(w, "cancel_workflow")

-----------------------------------------------------------------------------
(* AgentRegistry, called by an operator.  Nothing here is an automatic      *)
(* operation, and remove_agent looks at no assignment.                     *)
Operate(after) ==
  /\ up /\ Disturb
  /\ state' = after
  /\ UNCHANGED <<config, checkpoint, up, ended>>

UpdateAgentState(a, new) ==
  /\ Registered(state, a) /\ new \in AGENT_STATE_TRANSITIONS[state.condition[a]]
  /\ Operate([state EXCEPT !.condition[a] = new, !.touched = @ \cup {a}])

RemoveAgent(a) ==
  /\ Registered(state, a)
  /\ Operate([state EXCEPT !.agents = RemoveAt(@, Position(state, a)),
                           !.condition[a] = None, !.touched = @ \cup {a}])

RegisterAgent(a) ==
  /\ ~Registered(state, a)
  /\ Operate([state EXCEPT !.agents = Append(@, a), !.condition[a] = "REGISTERED",
                           !.touched = @ \cup {a}])

-----------------------------------------------------------------------------
(* RuntimePersistenceService.save_checkpoint called by hand, and a new      *)
(* process that restores the latest checkpoint.  Restoration refuses a      *)
(* payload whose references do not resolve (_validate_references); of       *)
(* these only the agent of an assignment can be missing.                   *)
SaveCheckpoint ==
  /\ up /\ Disturb
  /\ checkpoint' = state /\ ended' = Ended(state)
  /\ UNCHANGED <<state, config, up>>

Crash ==
  /\ up /\ Disturb
  /\ up' = FALSE
  /\ state' = NewProcess
  /\ UNCHANGED <<config, checkpoint, ended>>

Restorable(payload) ==
  \A w \in Workflows : payload.flow[w].assignment # None => Registered(payload, payload.flow[w].agent)

Restart ==
  /\ ~up
  /\ \/ checkpoint = None /\ UNCHANGED state
     \/ checkpoint # None /\ Restorable(checkpoint) /\ state' = checkpoint
  /\ up' = TRUE
  /\ UNCHANGED <<config, checkpoint, ended, disturbed>>

-----------------------------------------------------------------------------
Init ==
  /\ state = NewProcess
  /\ config \in [eventing : BOOLEAN, automatic : BOOLEAN]
  /\ checkpoint = None
  /\ up = TRUE
  /\ ended = {}
  /\ disturbed = 0

WorkflowStep(w) ==
  \/ SubmitRequest(w) \/ PlanRequest(w) \/ AssignWork(w) \/ ExecuteWork(w)
  \/ ApproveWork(w) \/ RejectWork(w) \/ CompleteWork(w) \/ ReleaseWork(w)
  \/ RetryFailedExecution(w) \/ ResetFailedExecution(w)
  \/ CancelFailedAssignment(w, "recover_failed_execution") \/ CancelWorkflow(w)

OperatorStep ==
  \E a \in Agents :
    \/ \E new \in {"AVAILABLE", "BUSY", "OFFLINE", "DISABLED"} : UpdateAgentState(a, new)
    \/ RemoveAgent(a) \/ RegisterAgent(a)

Next ==
  \/ \E w \in Workflows : WorkflowStep(w)
  \/ OperatorStep
  \/ SaveCheckpoint \/ Crash \/ Restart

Spec == Init /\ [][Next]_vars

-----------------------------------------------------------------------------
TypeOK ==
  /\ config \in [eventing : BOOLEAN, automatic : BOOLEAN]
  /\ up \in BOOLEAN /\ ended \in SUBSET Workflows
  /\ state \in States

(* What its item, its assignment and its last execution have to be in every *)
(* stage of a workflow.  A refused execution leaves the workflow EXECUTING  *)
(* over an item still ASSIGNED, where nothing rolls it back.                *)
LastRun(flow) == IF flow.runs = <<>> THEN None ELSE Last(flow.runs)

Agrees(flow) ==
  /\ flow.stage = None => flow = Unsubmitted
  /\ flow.stage # "PLANNING"
  /\ flow.stage = "INTAKE" => flow.item = "CREATED" /\ flow.assignment = None
  /\ flow.stage = "READY" => flow.item = "READY" /\ flow.assignment = None
  /\ flow.stage = "ASSIGNED" => flow.item = "ASSIGNED"
  /\ flow.stage = "EXECUTING" =>
       \/ flow.item = "REJECTED" /\ LastRun(flow) = "SUCCEEDED"
       \/ flow.item = "ASSIGNED"
  /\ flow.stage = "REVIEW" => flow.item = "REVIEW" /\ LastRun(flow) = "SUCCEEDED"
  /\ flow.stage = "FAILED" => flow.item = "RUNNING" /\ LastRun(flow) = "FAILED"
  /\ flow.stage = "APPROVAL" => flow.item = "APPROVED"
  /\ flow.stage \in {"ASSIGNED", "EXECUTING", "REVIEW", "FAILED", "APPROVAL"} =>
       flow.assignment = "ACTIVE"
  /\ flow.stage \in {"COMPLETED", "RELEASED"} =>
       flow.item = flow.stage /\ flow.assignment = "COMPLETED"
  /\ flow.stage = "CANCELLED" =>
       flow.item \in {"CREATED", "READY"} /\ flow.assignment \in {None, "CANCELLED"}

(* With an event publisher every operation is atomic, and has told its stage. *)
Told(flow) ==
  flow.logged = flow.stage /\ ~(flow.stage = "EXECUTING" /\ flow.item = "ASSIGNED")

(* Capacity is counted twice, by the assignments and by the agent's state.  *)
(* No agent holds more active assignments than it may, and one no operator  *)
(* changed is BUSY exactly while it is full: every way out of an           *)
(* assignment gives the capacity back.                                     *)
AgentsAreAccounted ==
  \A a \in Agents :
    /\ Load(state, a) <= MaxParallel[a]
    /\ a \in Range(state.agents) \ state.touched =>
         state.condition[a] = IF Load(state, a) = MaxParallel[a] THEN "BUSY" ELSE "AVAILABLE"

(* What leaves review as approved was executed successfully after the last  *)
(* rejection: a correction cannot be skipped by failing, recovering,       *)
(* resetting or restarting.                                                *)
RejectedIsReworked ==
  \A w \in Workflows : LET flow == state.flow[w] IN
    flow.stage \in {"REVIEW", "APPROVAL", "COMPLETED", "RELEASED"} =>
      Len(flow.runs) > flow.rejection /\ LastRun(flow) = "SUCCEEDED"

(* The workflow, its work item, its assignment, its last execution and its *)
(* last event are kept by five services; after every call, refusal, failed *)
(* commit and restart they tell one story, and no rejection is skipped.    *)
StagesAgree ==
  /\ TypeOK /\ RejectedIsReworked
  /\ \A w \in Workflows : LET flow == state.flow[w] IN
       Agrees(flow) /\ (config.eventing => Told(flow))

(* A release or a cancellation whose automatic checkpoint was acknowledged  *)
(* is not undone by a crash, a failed checkpoint or a restart.             *)
AcknowledgedEndStays == up => ended \subseteq Ended(state)

(* Two properties the code does not have; the README tells why.            *)
(* A checkpoint reported COMMITTED_DURABLE can be restored.                *)
CheckpointsRestore == checkpoint # None => Restorable(checkpoint)

(* With automatic checkpoints a rejection that returned normally is in the  *)
(* latest checkpoint.                                                      *)
RejectionIsDurable ==
  [][\A w \in Workflows :
       /\ config.automatic /\ up /\ disturbed' = disturbed
       /\ state'.flow[w].rejection > state.flow[w].rejection
       => checkpoint' = state']_vars
=============================================================================
