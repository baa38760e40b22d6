-------------------------- MODULE CodingProviders --------------------------
(* The coding provider service (runtime/coding_providers): a durable intent  *)
(* around one coding task of a provider, its polling, result, cancellation   *)
(* and reconciliation, and the patch that its result makes to the workspace. *)
(* Every record is a file that is replaced atomically; no lock and no version*)
(* protects it, so a method that loads a record and saves it later writes    *)
(* back what it loaded.  A provider remembers its tasks in its own process.  *)
EXTENDS Naturals, FiniteSets, Sequences

CONSTANTS
  Ops,         \* provider operations of one plan, all in the same workspace
  LiveOps,     \* those sent to a live provider; the others go to the offline one
  Callers,     \* processes that use the service
  Paths,       \* paths that every result changes
  Statuses,    \* result statuses a live provider answers with
  Committed, Edited, None,   \* content of a file: of the HEAD, or somebody's edit
  MaxCalls, OverlapCost, MaxFaults
    \* bounds of the model: calls begun, where one that begins during another counts
    \* as OverlapCost; crashes and edits

\* ProviderResultStatus.
ResultStatuses ==
  {"SUCCEEDED", "FAILED_RETRYABLE", "FAILED_PERMANENT", "TIMED_OUT", "CANCELLED"}

ASSUME ProvidersAssumption ==
  LiveOps \subseteq Ops /\ "SUCCEEDED" \in Statuses /\ Statuses \subseteq ResultStatuses

VARIABLES
  operation, result, receipt, effect, cancellation,   \* the store, per operation
  files, base, commits,   \* the workspace, the files of its HEAD, commits made
  staged,                 \* operations with files in the staging directory
  tasks,                  \* caller -> tasks its provider remembers
  charges,                \* operation -> turns charged by the live provider
  pc, frame,              \* step of each caller and what it has loaded
  overlapped,             \* operations that two callers have worked on at once
  crossed,                \* pairs of operations that were applied at the same time
  edited,                 \* has somebody else changed a file
  calls, faults

store == <<operation, result, receipt, effect, cancellation>>
workspace == <<files, base, commits, staged>>
provider == <<tasks, charges>>
history == <<overlapped, crossed, edited, calls, faults>>
vars == <<store, workspace, provider, pc, frame, history>>

BaseFiles == [p \in Paths |-> Committed]

Init ==
  /\ operation = [o \in Ops |-> None] /\ result = [o \in Ops |-> None]
  /\ receipt = [o \in Ops |-> None] /\ effect = [o \in Ops |-> None]
  /\ cancellation = [o \in Ops |-> None]
  /\ files = BaseFiles /\ base = BaseFiles /\ commits = 0 /\ staged = {}
  /\ tasks = [c \in Callers |-> << >>] /\ charges = [o \in Ops |-> 0]
  /\ pc = [c \in Callers |-> "idle"] /\ frame = [c \in Callers |-> None]
  /\ overlapped = {} /\ crossed = {} /\ edited = FALSE /\ calls = 0 /\ faults = 0

-----------------------------------------------------------------------------
(* Calls.  frame[c] holds the operation a caller serves and the records it   *)
(* has loaded.                                                               *)

Frame(o) == [op |-> o, record |-> operation[o], result |-> result[o],
             effect |-> effect[o], done |-> << >>]

\* The steps that replace one record of the store, the operation or the effect.
SavesOperation ==
  UNCHANGED <<result, receipt, effect, cancellation, workspace, provider, history>>
SavesEffect ==
  UNCHANGED <<operation, result, receipt, cancellation, workspace, provider, history>>

Op(c) == frame[c].op
Record(c) == frame[c].record

Goto(c, label) == pc' = [pc EXCEPT ![c] = label]

\* The method returns or raises.
Return(c) == Goto(c, "idle") /\ frame' = [frame EXCEPT ![c] = None]

Busy == {c \in Callers : pc[c] # "idle"}

\* The steps of an application of a patch.
ApplySteps ==
  {"apply", "staging", "stage", "replace", "completed", "patchFailed", "applied",
   "verify", "accept", "acceptOperation", "reconcilePatch"}

Begin(c, o, label) ==
  /\ pc[c] = "idle"
  /\ calls' = calls + IF Busy = {} THEN 1 ELSE OverlapCost
  /\ calls' <= MaxCalls
  /\ Goto(c, label)
  /\ frame' = [frame EXCEPT ![c] = Frame(o)]
  /\ overlapped' = overlapped \cup ({o} \cap {Op(d) : d \in Busy})
  /\ crossed' = crossed \cup
       {{o, Op(d)} : d \in {e \in Busy : /\ label = "apply"
                                         /\ pc[e] \in ApplySteps /\ Op(e) # o}}
  /\ UNCHANGED <<store, workspace, provider, edited, faults>>

\* _require_state: a method that refuses the state leaves no trace.
InState(o, states) == operation[o] # None /\ operation[o].state \in states

\* save_operation(replace(operation, ...)): what was loaded, with a new state.
SaveOperation(c, record) == operation' = [operation EXCEPT ![Op(c)] = record]
SaveState(c, state) == SaveOperation(c, [Record(c) EXCEPT !.state = state])

\* _reconciliation saves the state and raises.
Reconciliation(c) == SaveState(c, "RECONCILIATION_REQUIRED") /\ Return(c)

SaveEffect(c, value) ==
  /\ effect' = [effect EXCEPT ![Op(c)] = value]
  /\ frame' = [frame EXCEPT ![c].effect = value]

\* _verify_receipt: the receipt is of this result; both are stored under the
\* operation they belong to.
ReceiptMatches(stored, answer) == stored.task = answer.task /\ stored.digest = answer

-----------------------------------------------------------------------------
(* prepare and submit.                                                       *)

\* An operation that is there is returned.
PrepareBegin(c, o) == operation[o] = None /\ Begin(c, o, "prepare")

PrepareSave(c) ==
  /\ pc[c] = "prepare"
  /\ SaveOperation(c, [state |-> "PREPARED", task |-> None, reference |-> FALSE])
  /\ Return(c)
  /\ SavesOperation

SubmitBeginResending(c, o) ==
  \/ InState(o, {"PREPARED", "UNCERTAIN"}) /\ Begin(c, o, "submit")
  \/ InState(o, {"SUBMITTED"}) /\ Begin(c, o, "reconcile")

SubmitBegin(c, o) ==
  \/ InState(o, {"PREPARED"}) /\ Begin(c, o, "submit")
  \/ InState(o, {"UNCERTAIN", "SUBMITTED"}) /\ Begin(c, o, "reconcile")

SubmitIntent(c) ==
  /\ pc[c] = "submit"
  /\ SaveState(c, "SUBMISSION_IN_PROGRESS")
  /\ Goto(c, "invoke")
  /\ frame' = [frame EXCEPT ![c].record.state = "SUBMISSION_IN_PROGRESS"]
  /\ SavesOperation

Answers(o, n) ==
  {[op |-> o, task |-> <<o \in LiveOps, n>>, status |-> status] :
     status \in IF o \in LiveOps THEN Statuses ELSE {"SUCCEEDED"}}

\* The offline provider remembers one task per idempotency key and numbers them
\* in its process.
Known(c, o) == {i \in DOMAIN tasks[c] : tasks[c][i].op = o}
OfflineTasks(c) == Cardinality({i \in DOMAIN tasks[c] : tasks[c][i].op \notin LiveOps})

SubmitOffline(c) ==
  /\ pc[c] = "invoke" /\ Op(c) \notin LiveOps
  /\ LET known == Known(c, Op(c)) IN
       \E answer \in IF known # {} THEN {tasks[c][i] : i \in known}
                                   ELSE Answers(Op(c), OfflineTasks(c) + 1) :
         /\ tasks' = [tasks EXCEPT ![c] = IF known # {} THEN @ ELSE Append(@, answer)]
         /\ frame' = [frame EXCEPT ![c].record.task = answer.task]
  /\ Goto(c, "submitted")
  /\ UNCHANGED <<store, workspace, charges, history>>

\* A turn of the live provider: it fails before or after it was charged (a lost,
\* oversized or malformed answer), or answers.
SubmitLive(c) ==
  /\ pc[c] = "invoke" /\ Op(c) \in LiveOps
  /\ \/ /\ Goto(c, "uncertain")
        /\ charges' \in {charges, [charges EXCEPT ![Op(c)] = @ + 1]}
        /\ UNCHANGED frame
     \/ /\ charges' = [charges EXCEPT ![Op(c)] = @ + 1]
        /\ \E answer \in Answers(Op(c), charges[Op(c)] + 1) :
             frame' = [frame EXCEPT ![c].result = answer, ![c].record.task = answer.task]
        /\ Goto(c, "sink")
  /\ UNCHANGED <<store, workspace, tasks, history>>

\* The response sink saves the result and then the receipt; either may fail.
SinkResult(c) ==
  /\ pc[c] = "sink"
  /\ \/ result' = [result EXCEPT ![Op(c)] = frame[c].result] /\ Goto(c, "receipt")
     \/ UNCHANGED result /\ Goto(c, "uncertain")
  /\ UNCHANGED <<operation, receipt, effect, cancellation, workspace, provider, frame, history>>

Receipt(answer) == [task |-> answer.task, digest |-> answer]

SinkReceipt(c) ==
  /\ pc[c] = "receipt"
  /\ \/ /\ receipt' = [receipt EXCEPT ![Op(c)] = Receipt(frame[c].result)]
        /\ tasks' = [tasks EXCEPT ![c] = Append(@, frame[c].result)]
        /\ Goto(c, "submitted")
     \/ UNCHANGED <<receipt, tasks>> /\ Goto(c, "uncertain")
  /\ UNCHANGED <<operation, result, effect, cancellation, workspace, charges, frame, history>>

\* The provider raised: the task, if any, is not known.
SubmitUncertain(c) ==
  /\ pc[c] = "uncertain"
  /\ SaveOperation(c, [Record(c) EXCEPT !.state = "UNCERTAIN", !.task = None])
  /\ Return(c)
  /\ SavesOperation

\* A live answer counts only with its durable receipt.
SubmitVerified(c) ==
  LET o == Op(c) IN
    o \in LiveOps =>
      /\ receipt[o] # None /\ result[o] # None
      /\ ReceiptMatches(receipt[o], result[o]) /\ receipt[o].task = Record(c).task

SubmitSave(c) ==
  /\ pc[c] = "submitted"
  /\ IF SubmitVerified(c)
       THEN SaveState(c, "SUBMITTED") /\ Return(c)
       ELSE SaveOperation(c, [Record(c) EXCEPT !.state = "RECONCILIATION_REQUIRED",
                                               !.task = None]) /\ Return(c)
  /\ SavesOperation

-----------------------------------------------------------------------------
(* poll and result.                                                          *)

\* The task of that identifier in this process, whosever it is.
Task(c, id) == {tasks[c][i] : i \in {j \in DOMAIN tasks[c] : tasks[c][j].task = id}}

PollBegin(c, o) ==
  InState(o, {"SUBMITTED", "RUNNING", "RESULT_AVAILABLE"}) /\ Begin(c, o, "poll")

PolledState(status) == IF status = "SUCCEEDED" THEN "RESULT_AVAILABLE" ELSE status

\* A task that this process does not remember raises; progress of another
\* operation needs reconciliation.
PollSave(c) ==
  /\ pc[c] = "poll"
  /\ LET found == Task(c, Record(c).task) IN
       IF found = {} THEN UNCHANGED operation
       ELSE \E task \in found :
              SaveState(c, IF task.op = Op(c) THEN PolledState(task.status)
                                              ELSE "RECONCILIATION_REQUIRED")
  /\ Return(c)
  /\ SavesOperation

ResultBegin(c, o) == InState(o, {"RESULT_AVAILABLE"}) /\ Begin(c, o, "result")

\* The result is this operation's, succeeded and within the size limit, or it needs
\* reconciliation; over the budget it raises.
ResultCheck(c) ==
  /\ pc[c] = "result"
  /\ LET found == Task(c, Record(c).task) IN
       IF found = {} THEN Return(c) /\ UNCHANGED operation
       ELSE \E task \in found :
         \/ Return(c) /\ UNCHANGED operation
         \/ Reconciliation(c)
         \/ /\ task.op = Op(c) /\ task.status = "SUCCEEDED"
            /\ \/ Return(c) /\ UNCHANGED operation
               \/ /\ Op(c) \in LiveOps =>
                       receipt[Op(c)] # None /\ ReceiptMatches(receipt[Op(c)], task)
                  /\ Goto(c, "saveResult") /\ UNCHANGED operation
                  /\ frame' = [frame EXCEPT ![c].result = task]
  /\ SavesOperation

SaveResult(c) ==
  /\ pc[c] = "saveResult"
  /\ result' = [result EXCEPT ![Op(c)] = frame[c].result]
  /\ Goto(c, "saveReceipt")
  /\ UNCHANGED <<operation, receipt, effect, cancellation, workspace, provider, frame, history>>

SaveReceipt(c) ==
  /\ pc[c] = "saveReceipt"
  /\ receipt' = [receipt EXCEPT ![Op(c)] = Receipt(frame[c].result)]
  /\ Goto(c, "reference")
  /\ UNCHANGED <<operation, result, effect, cancellation, workspace, provider, frame, history>>

SaveReference(c) ==
  /\ pc[c] = "reference"
  /\ SaveOperation(c, [Record(c) EXCEPT !.reference = TRUE])
  /\ Return(c)
  /\ SavesOperation

-----------------------------------------------------------------------------
(* reconcile, which no state refuses.                                        *)

ReconcileBegin(c, o) == operation[o] # None /\ Begin(c, o, "reconcile")

\* What a durable receipt makes of an operation.
Reconciled(record, stored) ==
  [record EXCEPT !.state = "RESULT_AVAILABLE", !.task = stored.task, !.reference = TRUE]

\* A durable receipt decides; without one a live task cannot be looked up, and
\* an offline one must be the task that is remembered under the key.
ReconcileSave(c) ==
  LET o == Op(c)
      matches == {tasks[c][i].task : i \in Known(c, o)} \cap
                 (IF Record(c).task = None THEN {tasks[c][i].task : i \in Known(c, o)}
                                           ELSE {Record(c).task})
  IN
    /\ pc[c] = "reconcile"
    /\ IF receipt[o] # None
         THEN IF ReceiptMatches(receipt[o], result[o])
                THEN SaveOperation(c, Reconciled(Record(c), receipt[o]))
                ELSE SaveState(c, "RECONCILIATION_REQUIRED")
         ELSE IF o \in LiveOps \/ matches = {}
                THEN SaveState(c, "RECONCILIATION_REQUIRED")
                ELSE \E task \in matches :
                       SaveOperation(c, [Record(c) EXCEPT !.state = "SUBMITTED",
                                                          !.task = task])
    /\ Return(c)
    /\ SavesOperation

-----------------------------------------------------------------------------
(* cancel and reconcile_cancellation.                                        *)

\* Only the offline provider can cancel.
CancelBegin(c, o) ==
  /\ o \notin LiveOps /\ InState(o, {"SUBMITTED", "RUNNING"})
  /\ Begin(c, o, "cancelIntent")

SaveCancellation(c, state) ==
  cancellation' = [cancellation EXCEPT ![Op(c)] =
                     [state |-> state, task |-> Record(c).task]]

CancelIntent(c) ==
  /\ pc[c] = "cancelIntent"
  /\ SaveCancellation(c, "CANCELLATION_PREPARED") /\ Goto(c, "cancelRequest")
  /\ UNCHANGED <<operation, result, receipt, effect, workspace, provider, frame, history>>

CancelRequest(c) ==
  /\ pc[c] = "cancelRequest"
  /\ SaveState(c, "CANCELLATION_REQUESTED") /\ Goto(c, "cancelProgress")
  /\ UNCHANGED <<result, receipt, effect, cancellation, workspace, provider, frame, history>>

CancelProgress(c) ==
  /\ pc[c] = "cancelProgress"
  /\ SaveCancellation(c, "CANCELLATION_IN_PROGRESS") /\ Goto(c, "cancelTask")
  /\ UNCHANGED <<operation, result, receipt, effect, workspace, provider, frame, history>>

\* The provider's task becomes CANCELLED, or the provider does not know it; then
\* the operation is loaded again for reconcile_cancellation.
CancelTask(c) ==
  /\ pc[c] = "cancelTask"
  /\ IF Task(c, Record(c).task) = {}
       THEN /\ SaveCancellation(c, "CANCELLATION_UNCERTAIN")
            /\ Return(c) /\ UNCHANGED tasks
       ELSE /\ tasks' = [tasks EXCEPT ![c] =
                 [i \in DOMAIN @ |-> IF @[i].task = Record(c).task
                                       THEN [@[i] EXCEPT !.status = "CANCELLED"] ELSE @[i]]]
            /\ Goto(c, "cancelStatus")
            /\ frame' = [frame EXCEPT ![c] = Frame(Op(c))]
            /\ UNCHANGED cancellation
  /\ UNCHANGED <<operation, result, receipt, effect, workspace, charges, history>>

ReconcileCancellationBegin(c, o) ==
  cancellation[o] # None /\ Begin(c, o, "cancelStatus")

\* CANCELLED confirms the cancellation, a success wins over it, and anything else
\* is left to an operator.
CancelStatus(c) ==
  /\ pc[c] = "cancelStatus"
  /\ LET statuses == {task.status : task \in Task(c, cancellation[Op(c)].task)}
         Settle(state) == cancellation' = [cancellation EXCEPT ![Op(c)].state = state]
     IN
       CASE statuses = {"CANCELLED"} ->
              /\ Settle("CANCELLATION_CONFIRMED")
              /\ Goto(c, "cancelled") /\ UNCHANGED <<operation, frame>>
         [] statuses = {"SUCCEEDED"} ->
              /\ SaveState(c, "RESULT_AVAILABLE") /\ Return(c)
              /\ UNCHANGED cancellation
         [] OTHER ->
              /\ Settle("CANCELLATION_RECONCILIATION_REQUIRED")
              /\ Return(c) /\ UNCHANGED operation
  /\ UNCHANGED <<result, receipt, effect, workspace, provider, history>>

CancelSave(c) ==
  /\ pc[c] = "cancelled"
  /\ SaveState(c, "CANCELLED") /\ Return(c)
  /\ SavesOperation

-----------------------------------------------------------------------------
(* apply_and_accept: the result becomes a patch of the workspace.            *)

Changed == {p \in Paths : files[p] # base[p]}
CleanUnread == staged = {}

Clean == Changed = {} /\ staged = {}

\* Git sees exactly the paths of the patch; staged files are untracked paths.
ObservedIsPatch == Changed = Paths /\ staged = {}

ApplyBegin(c, o) ==
  /\ InState(o, {"RESULT_AVAILABLE"}) /\ result[o] # None /\ receipt[o] # None
  /\ Begin(c, o, "apply")

\* The first time the intent is stored, for a clean workspace.  An intent that is
\* there must be for this result on this commit; one that has started is
\* reconciled, one that has not needs a clean workspace again.
ApplyCheck(c) ==
  LET o == Op(c)
      answer == frame[c].result
      found == effect[o]
  IN
    /\ pc[c] = "apply"
    /\ IF ~Record(c).reference \/ ~ReceiptMatches(receipt[o], answer)
         THEN Reconciliation(c) /\ UNCHANGED effect
         ELSE /\ UNCHANGED operation
              /\ IF found = None
                   THEN IF Clean
                     THEN /\ SaveEffect(c, [state |-> "PREPARED", result |-> answer,
                                            commit |-> commits, completed |-> {},
                                            manifest |-> None])
                          /\ Goto(c, "staging")
                     ELSE Return(c) /\ UNCHANGED effect
                 ELSE IF found.result # answer \/ found.commit # commits
                   THEN /\ effect' = [effect EXCEPT ![o].state = "RECONCILIATION_REQUIRED"]
                        /\ Return(c)
                 ELSE /\ UNCHANGED effect
                      /\ IF found.state # "PREPARED"
                           THEN /\ Goto(c, "reconcilePatch")
                                /\ frame' = [frame EXCEPT ![c].effect = found]
                         ELSE IF Clean
                           THEN /\ Goto(c, "staging")
                                /\ frame' = [frame EXCEPT ![c].effect = found]
                           ELSE Return(c)
    /\ UNCHANGED <<result, receipt, cancellation, workspace, provider, history>>

StageIntent(c) ==
  /\ pc[c] = "staging"
  /\ SaveEffect(c, [frame[c].effect EXCEPT !.state = "STAGING"])
  /\ Goto(c, "stage")
  /\ SavesEffect

\* Validate every path and write the stage files; a refusal or a failed write
\* leaves what was staged so far.
Stage(c) ==
  /\ pc[c] = "stage"
  /\ \/ staged' = staged \cup {Op(c)} /\ Goto(c, "replace")
     \/ staged' \in {staged, staged \cup {Op(c)}} /\ Goto(c, "patchFailed")
  /\ UNCHANGED <<store, files, base, commits, provider, frame, history>>

Done(c) == {frame[c].done[i] : i \in DOMAIN frame[c].done}

\* os.replace, one path after the other; the last one empties the staging directory.
ReplaceFile(c) ==
  /\ pc[c] = "replace"
  /\ \/ \E p \in Paths \ Done(c) :
          /\ files' = [files EXCEPT ![p] = frame[c].result]
          /\ staged' = IF Done(c) \cup {p} = Paths THEN staged \ {Op(c)} ELSE staged
          /\ frame' = [frame EXCEPT ![c].done = Append(@, p)]
          /\ Goto(c, "completed")
     \/ Goto(c, "patchFailed") /\ UNCHANGED <<files, staged, frame>>
  /\ UNCHANGED <<store, base, commits, provider, history>>

\* The callback checkpoints the path on the effect as it is stored now.
Completed(c) ==
  /\ pc[c] = "completed"
  /\ effect' = [effect EXCEPT ![Op(c)].state = "APPLYING",
                              ![Op(c)].completed = @ \cup {frame[c].done[Len(frame[c].done)]}]
  /\ Goto(c, IF Done(c) = Paths THEN "applied" ELSE "replace")
  /\ UNCHANGED <<operation, result, receipt, cancellation, workspace, provider, frame, history>>

PatchFailed(c) ==
  /\ pc[c] = "patchFailed"
  /\ effect' = [effect EXCEPT ![Op(c)].state = "UNCERTAIN"]
  /\ Return(c)
  /\ SavesEffect

Applied(c) ==
  /\ pc[c] = "applied"
  /\ SaveEffect(c, [effect[Op(c)] EXCEPT !.state = "APPLIED"])
  /\ Goto(c, "verify")
  /\ SavesEffect

\* Git must show the applied paths and no other; the manifest takes the files as
\* they are now.
Verify(c) ==
  /\ pc[c] = "verify"
  /\ IF ObservedIsPatch
       THEN /\ SaveEffect(c, [frame[c].effect EXCEPT !.state = "VERIFIED",
                                                     !.manifest = files])
            /\ Goto(c, "accept")
       ELSE /\ effect' = [effect EXCEPT ![Op(c)] =
                            [frame[c].effect EXCEPT !.state = "RECONCILIATION_REQUIRED"]]
            /\ Return(c)
  /\ SavesEffect

AcceptEffect(c) ==
  /\ pc[c] = "accept"
  /\ SaveEffect(c, [frame[c].effect EXCEPT !.state = "ACCEPTED"])
  /\ Goto(c, "acceptOperation")
  /\ SavesEffect

AcceptOperation(c) ==
  /\ pc[c] = "acceptOperation"
  /\ SaveState(c, "RESULT_ACCEPTED") /\ Return(c)
  /\ SavesOperation

\* _reconcile_patch, the four outcomes: nothing applied (reset for an explicit
\* retry), recorded replacements missing, partly applied or divergent, and
\* exactly applied (accepted, if the manifest it may have is the same).
Matching(c) == {p \in Paths : files[p] = frame[c].result}

PatchOutcomePartial(c) ==
  LET stored == frame[c].effect IN
    CASE Matching(c) = {} -> IF stored.completed = {} THEN "reset" ELSE "required"
      [] stored.manifest \in {None, files} -> "accepted"
      [] OTHER -> "required"

PatchOutcome(c) ==
  LET stored == frame[c].effect IN
    CASE Matching(c) = {} -> IF stored.completed = {} THEN "reset" ELSE "required"
      [] Matching(c) = Paths /\ ObservedIsPatch /\ stored.manifest \in {None, files} ->
           "accepted"
      [] OTHER -> "required"

ReconcilePatch(c) ==
  LET stored == frame[c].effect
      outcome == PatchOutcome(c)
  IN
    /\ pc[c] = "reconcilePatch"
    /\ \/ /\ outcome = "reset"
          /\ effect' = [effect EXCEPT ![Op(c)] =
                          [stored EXCEPT !.state = "PREPARED", !.completed = {}]]
          /\ Return(c)
       \/ /\ outcome = "required"
          /\ effect' = [effect EXCEPT ![Op(c)] =
                          [stored EXCEPT !.state = "RECONCILIATION_REQUIRED"]]
          /\ Return(c)
       \/ /\ outcome = "accepted"
          /\ SaveEffect(c, [stored EXCEPT !.state = "ACCEPTED", !.manifest = files,
                                          !.completed = Paths])
          /\ Goto(c, "acceptOperation")
    /\ SavesEffect

-----------------------------------------------------------------------------
(* The environment.                                                          *)

\* A process ends, in a call or between two, and its provider forgets its tasks.
Restart(c) ==
  /\ faults < MaxFaults /\ (pc[c] # "idle" \/ tasks[c] # << >>)
  /\ tasks' = [tasks EXCEPT ![c] = << >>]
  /\ Return(c)
  /\ faults' = faults + 1
  /\ UNCHANGED <<store, workspace, charges, overlapped, crossed, edited, calls>>

\* Somebody changes a file of the workspace, or puts it back.
EditFile ==
  /\ faults < MaxFaults
  /\ \E p \in Paths : \E content \in {Edited, base[p]} \ {files[p]} :
       files' = [files EXCEPT ![p] = content]
  /\ edited' = TRUE /\ faults' = faults + 1
  /\ UNCHANGED <<store, base, commits, staged, provider, pc, frame, overlapped, crossed, calls>>

\* The delivery commits the patch that was accepted.
Commit ==
  /\ Changed # {} /\ commits < Cardinality(Ops)
  /\ \E o \in Ops : InState(o, {"RESULT_ACCEPTED"})
  /\ base' = files /\ commits' = commits + 1
  /\ UNCHANGED <<store, files, staged, provider, pc, frame, history>>

CallStep(c) ==
  \/ \E o \in Ops : \/ PrepareBegin(c, o) \/ SubmitBegin(c, o) \/ PollBegin(c, o)
                    \/ ResultBegin(c, o) \/ ReconcileBegin(c, o) \/ CancelBegin(c, o)
                    \/ ReconcileCancellationBegin(c, o) \/ ApplyBegin(c, o)
  \/ PrepareSave(c) \/ SubmitIntent(c) \/ SubmitOffline(c) \/ SubmitLive(c)
  \/ SinkResult(c) \/ SinkReceipt(c) \/ SubmitUncertain(c) \/ SubmitSave(c)
  \/ PollSave(c) \/ ResultCheck(c) \/ SaveResult(c) \/ SaveReceipt(c) \/ SaveReference(c)
  \/ ReconcileSave(c)
  \/ CancelIntent(c) \/ CancelRequest(c) \/ CancelProgress(c) \/ CancelTask(c)
  \/ CancelStatus(c) \/ CancelSave(c)
  \/ ApplyCheck(c) \/ StageIntent(c) \/ Stage(c) \/ ReplaceFile(c) \/ Completed(c)
  \/ PatchFailed(c) \/ Applied(c) \/ Verify(c) \/ AcceptEffect(c) \/ AcceptOperation(c)
  \/ ReconcilePatch(c)

Next == (\E c \in Callers : CallStep(c) \/ Restart(c)) \/ EditFile \/ Commit

Spec == Init /\ [][Next]_vars

-----------------------------------------------------------------------------
(* Properties.                                                               *)

TaskIds == BOOLEAN \X Nat
Results == [op : Ops, task : TaskIds, status : Statuses \cup {"SUCCEEDED", "CANCELLED"}]
Files == [Paths -> Results \cup {Committed, Edited}]
OperationStates ==
  {"PREPARED", "SUBMISSION_IN_PROGRESS", "SUBMITTED", "RESULT_AVAILABLE",
   "RESULT_ACCEPTED", "CANCELLATION_REQUESTED", "CANCELLED", "UNCERTAIN",
   "RECONCILIATION_REQUIRED"} \cup (Statuses \ {"SUCCEEDED"})

Operations ==
  [state : OperationStates, task : TaskIds \cup {None}, reference : BOOLEAN]
Receipts == [task : TaskIds, digest : Results]

\* None stands for a file that is not there, and is no record.
ASSUME NoneAssumption == None \notin Operations \cup Results \cup Receipts

\* Every record has the shape that its store loads, and is of its operation.
TypeOK ==
  /\ files \in Files /\ base \in Files /\ staged \subseteq Ops
  /\ \A o \in Ops :
       /\ operation[o] # None => operation[o] \in Operations
       /\ result[o] # None => result[o] \in Results /\ result[o].op = o
       /\ receipt[o] # None => receipt[o] \in Receipts
       /\ effect[o] # None => effect[o].result \in Results /\ effect[o].result.op = o

\* A live turn is charged once, however its answer, its receipt or the process is
\* lost: an uncertain submission is reconciled and never sent again.  Nothing
\* protects two processes that work on one operation at the same time.
ChargedOnce == \A o \in LiveOps : o \notin overlapped => charges[o] <= 1

\* An operation that goes on from a live submission has the durable receipt and
\* result of the very task it names.
SubmittedIsReceipted ==
  \A o \in LiveOps :
    InState(o, {"SUBMITTED", "RESULT_AVAILABLE", "RESULT_ACCEPTED"}) =>
      /\ receipt[o] # None /\ result[o] # None
      /\ o \notin overlapped =>
           ReceiptMatches(receipt[o], result[o]) /\ receipt[o].task = operation[o].task

\* A live turn is paid for once, and what goes on from it is on durable record.
ChargedAndReceipted == TypeOK /\ ChargedOnce /\ SubmittedIsReceipted

\* Nothing keeps two processes from applying two operations to the workspace at the
\* same time; each of them may then leave its files in place of the other's.
CrossedAt(o, content) == content \in Results /\ {o, content.op} \in crossed

\* An accepted patch is whole: its manifest has every file of the result, or what
\* somebody else put there meanwhile, by an edit or by applying an operation at the
\* same time, but never a file that was left out; neither a crash between two
\* replacements nor a retry makes it so.  Two calls on the operation itself at the
\* same time are left out.
AcceptedPatchIsWhole ==
  \A o \in Ops :
    effect[o] # None /\ o \notin overlapped =>
      (effect[o].state = "ACCEPTED" =>
         \A p \in Paths : LET content == effect[o].manifest[p] IN
           \/ content = effect[o].result
           \/ edited /\ content = Edited
           \/ CrossedAt(o, content))

\* A patch is only written over committed files: neither a retry after a crash nor
\* the next operation writes over a patch that is already there.  Left out are two
\* calls on the operation itself at the same time, a workspace that somebody edits,
\* and the files of an operation that was applied at the same time.
NothingIsOverwritten ==
  [][\A c \in Callers :
       pc[c] = "replace" /\ pc'[c] = "completed" /\ ~edited /\ Op(c) \notin overlapped =>
         \A p \in Paths : files'[p] # files[p] =>
           files[p] = base[p] \/ CrossedAt(Op(c), files[p])]_vars

\* What the documentation of patch reconciliation says: only exactly applied files
\* are adopted, and a divergent application is left to an operator.
AcceptedPatchIsExact ==
  \A o \in Ops :
    effect[o] # None /\ o \notin overlapped /\ ~edited =>
      (effect[o].state = "ACCEPTED" =>
         \A p \in Paths : effect[o].manifest[p] = effect[o].result)

\* What the tests of apply_and_accept say of a provider that reported a failure:
\* its result is not applied.
FailedIsNotApplied ==
  \A o \in Ops : effect[o] # None => effect[o].result.status = "SUCCEEDED"

\* What the documentation of patch reconciliation says: a patch of which no file
\* was applied may be retried, which needs a clean workspace.
RetryIsPossible ==
  \A o \in Ops :
    effect[o] # None /\ Busy = {} /\ ~edited /\ Changed = {} =>
      (effect[o].state = "PREPARED" => Clean)
=============================================================================
