-------------------------- MODULE CustomerFulfilment --------------------------
(***************************************************************************)
(* What follows an estimated customer request: the execution plan and its  *)
(* one coding turn (runtime/customer_execution), the review and the draft  *)
(* pull request (customer_delivery), the preview and its browser run       *)
(* (customer_acceptance), the evidence package and the customer's decision *)
(* (customer_evidence).                                                    *)
(*                                                                         *)
(* Each of the first three services keeps one record in one file, changes  *)
(* it under a lock of its own and saves an intent status before each       *)
(* effect on the world: a provider turn, a commit, a push, a pull request, *)
(* a preview workflow.  The process may crash between any two steps; the   *)
(* workspace and the remote branch may be changed by other people; the     *)
(* planning documents (module CustomerJourney) may stop being readable.    *)
(*                                                                         *)
(* Abstractions.  Digests of a record are the record; the text of a patch  *)
(* is one of "patch" and "edited".  Forms are left out: every record is    *)
(* created once, and the digest a form must quote (of the scope, the       *)
(* review or the approval) never changes afterwards.                       *)
(***************************************************************************)
EXTENDS Naturals

CONSTANTS NTasks,        \* tasks of the execution plan
          MaxCrashes,    \* bound on process crashes
          MaxEdits       \* bound on changes made by other people

ASSUME FulfilmentAssumption == /\ NTasks \in Nat \ {0}
                               /\ MaxCrashes \in Nat
                               /\ MaxEdits \in Nat

VARIABLES authority,   \* the planning chain passes its checks
          file,        \* the record of each service
          temp,        \* a temporary file lies beside the record
          call,        \* the request each service's lock is held for
          browserPlan, \* the acceptance's write-once browser plan exists
          package,     \* the evidence package
          decision,    \* the file of the customer's decision
          answer,      \* the decision being written into it
          workspace,   \* the product checkout: its commit and its changes
          remote,      \* the content of the delivery branch
          effects,     \* how often each effect was caused
          preview,     \* the content the preview runs
          late,        \* the checkout was changed between the adapter's check
                       \* of it and its git add
          crashes, edits

stores == <<file, temp, browserPlan, package, decision, answer>>
world == <<workspace, remote, effects, preview>>
faults == <<authority, late, crashes, edits>>
vars == <<stores, world, faults, call>>

Services == {"execution", "delivery", "acceptance"}
Tasks == 1..NTasks
Patches == {"patch", "edited"}
Effects == {"turn", "commit", "push", "pull", "workflow"}

Absent == [status |-> "ABSENT"]
Torn == [status |-> "TORN"]

CustomerExecutionTaskStatus ==
  {"PENDING", "EXECUTING", "REVIEW_REQUIRED", "RECONCILIATION_REQUIRED"}

CustomerExecutionPlan ==
  [status: {"AWAITING_APPROVAL", "APPROVED", "EXECUTING", "REVIEW_REQUIRED",
            "RECONCILIATION_REQUIRED"},
   tasks: [Tasks -> CustomerExecutionTaskStatus],
   commit: {"base"} \cup Patches]

CustomerDeliveryReview ==
  [status: {"AWAITING_REVIEW", "REVIEW_APPROVED", "DELIVERY_IN_PROGRESS",
            "DRAFT_PR_CREATED", "RECONCILIATION_REQUIRED"},
   plan: CustomerExecutionPlan,
   content: Patches,
   commit: {"none"} \cup Patches]

CustomerAcceptanceRecord ==
  [status: {"AWAITING_APPROVAL", "APPROVED", "EXECUTION_IN_PROGRESS",
            "EVIDENCE_READY", "RECONCILIATION_REQUIRED"},
   delivery: CustomerDeliveryReview]

CustomerPreviewEvidencePackage ==
  [status: {"READY"}, content: Patches, passed: BOOLEAN]

CustomerPreviewReview == [status: {"ACCEPT", "REQUEST_CHANGES"}]

Idle == [pc |-> "idle", value |-> Absent, then |-> "idle"]

-----------------------------------------------------------------------------
(* Reading.  A record's directory must hold nothing but the record, so a   *)
(* temporary file makes every read raise.                                  *)

Readable(s) == file[s] # Torn /\ ~temp[s]

Status(s) == file[s].status

LoadPlan == Readable("execution")

LoadReview == Readable("delivery")

LoadAcceptance == Readable("acceptance")

LoadPackage == package.status = "READY"

FindPlan == authority /\ LoadPlan

FindReview == FindPlan /\ LoadReview

(* view/_authority: the planning chain, read again on every request.       *)
RequireCurrentAuthority == authority

RequireSameWorkspace ==
  /\ workspace.head = file["execution"].commit
  /\ workspace.changes = "clean"

RequireReviewPlan == FindPlan /\ Status("execution") = "REVIEW_REQUIRED"

RequirePlanBinding == file["delivery"].plan = file["execution"]

(* _source: the accepted patch is what the workspace holds, on top of the  *)
(* commit the plan was made for.                                           *)
Source ==
  /\ workspace.head = file["execution"].commit
  /\ workspace.changes = "patch"

VerifyWorkspaceHead == workspace.head = file["delivery"].plan.commit

VerifyWorkspace ==
  /\ workspace.head = file["delivery"].plan.commit
  /\ workspace.changes = file["delivery"].content

(* The branch and the pull request must not exist yet.                     *)
Undelivered == remote = "none" /\ effects["pull"] = 0

Preflight == VerifyWorkspace /\ Undelivered

RequireDelivery == FindReview /\ Status("delivery") = "DRAFT_PR_CREATED"

RequireBinding == file["acceptance"].delivery = file["delivery"]

(* The pull request is still open at the delivered commit.                 *)
PreviewPreflight == effects["pull"] > 0 /\ remote = file["delivery"].commit

-----------------------------------------------------------------------------
(* The stores' create and replace, one system call at a time.              *)

Free(s) == call[s].pc = "idle"

Goto(s, pc) == call' = [call EXCEPT ![s] = [Idle EXCEPT !.pc = pc]]

Return(s) == Goto(s, "idle")

Create(s, value) ==
  call' = [call EXCEPT ![s] = [pc |-> "create", value |-> value, then |-> "idle"]]

Replace(s, value, then) ==
  call' = [call EXCEPT ![s] = [pc |-> "replace", value |-> value, then |-> then]]

CreateFile(s) ==
  /\ call[s].pc = "create"
  /\ IF Status(s) = "ABSENT" /\ ~temp[s]
     THEN /\ file' = [file EXCEPT ![s] = Torn]
          /\ call' = [call EXCEPT ![s].pc = "fill"]
     ELSE UNCHANGED file /\ Return(s)
  /\ UNCHANGED <<temp, browserPlan, package, decision, answer, world, faults>>

FillFile(s) ==
  /\ call[s].pc = "fill"
  /\ \/ file' = [file EXCEPT ![s] = call[s].value]
     \/ file' = [file EXCEPT ![s] = Absent]        \* the write raised
  /\ Return(s)
  /\ UNCHANGED <<temp, browserPlan, package, decision, answer, world, faults>>

MakeTemp(s) ==
  /\ call[s].pc = "replace"
  /\ temp' = [temp EXCEPT ![s] = TRUE]
  /\ call' = [call EXCEPT ![s].pc = "rename"]
  /\ UNCHANGED <<file, browserPlan, package, decision, answer, world, faults>>

RenameTemp(s) ==
  /\ call[s].pc = "rename"
  /\ file' = [file EXCEPT ![s] = call[s].value]
  /\ temp' = [temp EXCEPT ![s] = FALSE]
  /\ Goto(s, call[s].then)
  /\ UNCHANGED <<browserPlan, package, decision, answer, world, faults>>

ReplaceFailsRetried(s) ==
  /\ call[s].pc = "rename"
  /\ temp' = [temp EXCEPT ![s] = FALSE]
  /\ call' = [call EXCEPT ![s].pc = "replace"]
  /\ UNCHANGED <<file, browserPlan, package, decision, answer, world, faults>>

(* replace raises and removes its temporary file.  A request whose effect  *)
(* is behind it goes on to record RECONCILIATION_REQUIRED; any other ends. *)
ReplaceFails(s) ==
  /\ call[s].pc = "rename"
  /\ temp' = [temp EXCEPT ![s] = FALSE]
  /\ IF call[s].value.status \in {"REVIEW_REQUIRED", "DRAFT_PR_CREATED", "EVIDENCE_READY"}
     THEN Goto(s, "failed")
     ELSE Return(s)
  /\ UNCHANGED <<file, browserPlan, package, decision, answer, world, faults>>

Cause(e) == effects' = [effects EXCEPT ![e] = @ + 1]

(* An effect raises: the except branch of every service.                   *)
EffectFails(s) ==
  /\ call[s].pc \in {"submit", "apply", "check", "probe", "add", "commit", "push", "verify",
                     "pull", "deploy", "dispatch", "browser", "publish"}
  /\ Goto(s, "failed")
  /\ UNCHANGED <<stores, world, faults>>

-----------------------------------------------------------------------------
(* customer_execution                                                      *)

PlanExecution ==
  /\ Free("execution")
  /\ RequireCurrentAuthority
  /\ workspace.changes = "clean"
  /\ Create("execution", [status |-> "AWAITING_APPROVAL",
                          tasks |-> [t \in Tasks |-> "PENDING"],
                          commit |-> workspace.head])
  /\ UNCHANGED <<stores, world, faults>>

ApproveExecution ==
  /\ Free("execution")
  /\ LoadPlan /\ Status("execution") = "AWAITING_APPROVAL"
  /\ RequireCurrentAuthority /\ RequireSameWorkspace
  /\ Replace("execution", [file["execution"] EXCEPT !.status = "APPROVED"], "idle")
  /\ UNCHANGED <<stores, world, faults>>

TaskInState(t, status, planStatus) ==
  [file["execution"] EXCEPT !.tasks[t] = status, !.status = planStatus]

FirstPending(t) ==
  /\ file["execution"].tasks[t] = "PENDING"
  /\ \A u \in 1..t-1 : file["execution"].tasks[u] # "PENDING"

Executing(t) == file["execution"].tasks[t] = "EXECUTING"

ExecutableAgain ==
  /\ LoadPlan
  /\ Status("execution") \in {"APPROVED", "EXECUTING", "RECONCILIATION_REQUIRED"}

Executable == LoadPlan /\ Status("execution") = "APPROVED"

ExecuteNext ==
  /\ Free("execution")
  /\ Executable
  /\ RequireCurrentAuthority /\ RequireSameWorkspace
  /\ \E t \in Tasks :
       /\ FirstPending(t)
       /\ Replace("execution", TaskInState(t, "EXECUTING", "EXECUTING"), "submit")
  /\ UNCHANGED <<stores, world, faults>>

(* The adapter's provider turn, and the application of its patch.          *)
SubmitTurn ==
  /\ call["execution"].pc = "submit"
  /\ Cause("turn")
  /\ Goto("execution", "apply")
  /\ UNCHANGED <<stores, workspace, remote, preview, faults>>

ApplyPatch ==
  /\ call["execution"].pc = "apply"
  /\ workspace.changes = "clean"
  /\ workspace' = [workspace EXCEPT !.changes = "patch"]
  /\ \/ \E t \in Tasks :
          /\ Executing(t)
          /\ Replace("execution", TaskInState(t, "REVIEW_REQUIRED", "REVIEW_REQUIRED"), "idle")
     \/ Goto("execution", "failed")       \* the applied patch is not accepted
  /\ UNCHANGED <<stores, remote, effects, preview, faults>>

RecordExecutionFailure ==
  /\ call["execution"].pc = "failed"
  /\ \E t \in Tasks :
       /\ Executing(t)
       /\ Replace("execution",
            TaskInState(t, "RECONCILIATION_REQUIRED", "RECONCILIATION_REQUIRED"), "idle")
  /\ UNCHANGED <<stores, world, faults>>

-----------------------------------------------------------------------------
(* customer_delivery                                                       *)

PrepareDelivery ==
  /\ Free("delivery")
  /\ RequireReviewPlan /\ Source
  /\ Create("delivery", [status |-> "AWAITING_REVIEW", plan |-> file["execution"],
                         content |-> workspace.changes, commit |-> "none"])
  /\ UNCHANGED <<stores, world, faults>>

ApproveDelivery ==
  /\ Free("delivery")
  /\ RequireReviewPlan
  /\ LoadReview /\ Status("delivery") = "AWAITING_REVIEW"
  /\ RequirePlanBinding /\ Source
  /\ Replace("delivery", [file["delivery"] EXCEPT !.status = "REVIEW_APPROVED"], "idle")
  /\ UNCHANGED <<stores, world, faults>>

Deliver ==
  /\ Free("delivery")
  /\ RequireReviewPlan
  /\ LoadReview /\ Status("delivery") = "REVIEW_APPROVED"
  /\ RequirePlanBinding /\ Source /\ Preflight
  /\ Replace("delivery", [file["delivery"] EXCEPT !.status = "DELIVERY_IN_PROGRESS"], "check")
  /\ UNCHANGED <<stores, world, faults>>

(* deliver() of the adapter, one command at a time: the checkout is checked*)
(* again, then the remote and GitHub are asked, then git add takes whatever*)
(* the reviewed paths hold by then.                                        *)
CheckAgain ==
  /\ call["delivery"].pc = "check"
  /\ Goto("delivery", IF VerifyWorkspace THEN "probe" ELSE "failed")
  /\ UNCHANGED <<stores, world, faults>>

ProbeRemote ==
  /\ call["delivery"].pc = "probe"
  /\ Goto("delivery", IF Undelivered THEN "add" ELSE "failed")
  /\ UNCHANGED <<stores, world, faults>>

StageFiles ==
  /\ call["delivery"].pc = "add"
  /\ call' = [call EXCEPT !["delivery"] =
                [pc |-> "commit", value |-> workspace.changes, then |-> "idle"]]
  /\ UNCHANGED <<stores, world, faults>>

Commit ==
  /\ call["delivery"].pc = "commit"
  /\ workspace' = [head |-> call["delivery"].value,
                   changes |-> IF workspace.changes = call["delivery"].value
                               THEN "clean" ELSE workspace.changes]
  /\ Cause("commit")
  /\ Goto("delivery", "push")
  /\ UNCHANGED <<stores, remote, preview, faults>>

Push ==
  /\ call["delivery"].pc = "push"
  /\ remote = "none"
  /\ remote' = workspace.head
  /\ Cause("push")
  /\ Goto("delivery", "verify")
  /\ UNCHANGED <<stores, workspace, preview, faults>>

VerifyPush ==
  /\ call["delivery"].pc = "verify"
  /\ Goto("delivery", IF remote = workspace.head THEN "pull" ELSE "failed")
  /\ UNCHANGED <<stores, world, faults>>

(* The draft pull request, and the last check that the checkout is clean.  *)
OpenPullRequest ==
  /\ call["delivery"].pc = "pull"
  /\ Cause("pull")
  /\ \/ /\ workspace.changes = "clean"
        /\ Replace("delivery", [file["delivery"] EXCEPT !.status = "DRAFT_PR_CREATED",
                                                       !.commit = workspace.head], "idle")
     \/ Goto("delivery", "failed")        \* the answer is lost or differs
  /\ UNCHANGED <<stores, workspace, remote, preview, faults>>

RecordDeliveryRetry ==
  /\ call["delivery"].pc = "failed"
  /\ Replace("delivery", [file["delivery"] EXCEPT !.status = "REVIEW_APPROVED"], "idle")
  /\ UNCHANGED <<stores, world, faults>>

RecordDeliveryFailure ==
  /\ call["delivery"].pc = "failed"
  /\ Replace("delivery", [file["delivery"] EXCEPT !.status = "RECONCILIATION_REQUIRED"], "idle")
  /\ UNCHANGED <<stores, world, faults>>

-----------------------------------------------------------------------------
(* customer_acceptance and customer_evidence                               *)

(* prepare saves the browser plan first.  The plan carries the time, so a  *)
(* second prepare never matches the saved one and raises.                  *)
PrepareAcceptance ==
  /\ Free("acceptance")
  /\ RequireDelivery
  /\ ~browserPlan
  /\ browserPlan' = TRUE
  /\ Create("acceptance", [status |-> "AWAITING_APPROVAL", delivery |-> file["delivery"]])
  /\ UNCHANGED <<file, temp, package, decision, answer, world, faults>>

ApproveAcceptance ==
  /\ Free("acceptance")
  /\ RequireDelivery
  /\ LoadAcceptance /\ Status("acceptance") = "AWAITING_APPROVAL"
  /\ RequireBinding
  /\ Replace("acceptance", [file["acceptance"] EXCEPT !.status = "APPROVED"], "idle")
  /\ UNCHANGED <<stores, world, faults>>

ExecuteAcceptance ==
  /\ Free("acceptance")
  /\ RequireDelivery
  /\ LoadAcceptance /\ Status("acceptance") = "APPROVED"
  /\ RequireBinding /\ browserPlan /\ PreviewPreflight
  /\ Replace("acceptance", [file["acceptance"] EXCEPT !.status = "EXECUTION_IN_PROGRESS"],
             "deploy")
  /\ UNCHANGED <<stores, world, faults>>

(* deploy: the checks again, one workflow dispatched on the branch as it   *)
(* is by then, and the run refused unless it built the delivered commit.   *)
CheckPreview ==
  /\ call["acceptance"].pc = "deploy"
  /\ Goto("acceptance", IF PreviewPreflight THEN "dispatch" ELSE "failed")
  /\ UNCHANGED <<stores, world, faults>>

RunBuiltDelivered == remote = file["delivery"].commit

DeployPreview ==
  /\ call["acceptance"].pc = "dispatch"
  /\ Cause("workflow")
  /\ preview' = remote
  /\ Goto("acceptance", IF RunBuiltDelivered THEN "browser" ELSE "failed")
  /\ UNCHANGED <<stores, workspace, remote, faults>>

BrowserRun ==
  /\ call["acceptance"].pc = "browser"
  /\ \E passed \in BOOLEAN :
       call' = [call EXCEPT !["acceptance"] =
                  [pc |-> "publish", then |-> "idle",
                   value |-> [status |-> "READY", content |-> preview, passed |-> passed]]]
  /\ UNCHANGED <<stores, world, faults>>

(* publish: the evidence package is written once, and the acceptance is    *)
(* marked ready afterwards.                                                *)
PublishEvidence ==
  /\ call["acceptance"].pc = "publish"
  /\ RequireCurrentAuthority
  /\ package = Absent
  /\ package' = Torn
  /\ call' = [call EXCEPT !["acceptance"].pc = "write"]
  /\ UNCHANGED <<file, temp, browserPlan, decision, answer, world, faults>>

WritePackage ==
  /\ call["acceptance"].pc = "write"
  /\ \/ /\ package' = call["acceptance"].value
        /\ Replace("acceptance", [file["acceptance"] EXCEPT !.status = "EVIDENCE_READY"], "idle")
     \/ package' = Absent /\ Goto("acceptance", "failed")     \* the write raised
  /\ UNCHANGED <<file, temp, browserPlan, decision, answer, world, faults>>

RecordAcceptanceFailure ==
  /\ call["acceptance"].pc = "failed"
  /\ Replace("acceptance", [file["acceptance"] EXCEPT !.status = "RECONCILIATION_REQUIRED"],
             "idle")
  /\ UNCHANGED <<stores, world, faults>>

(* review: the decision's file is created where there is none, and filled  *)
(* by the same request.                                                    *)
ReviewEvidence(d) ==
  /\ RequireCurrentAuthority
  /\ LoadPackage
  /\ decision = "none"
  /\ d = "ACCEPT" => package.passed
  /\ decision' = "torn"
  /\ answer' = d
  /\ UNCHANGED <<file, temp, browserPlan, package, world, faults, call>>

WriteDecision ==
  /\ answer # "none"
  /\ decision' \in {answer, "none"}        \* written, or the write raised
  /\ answer' = "none"
  /\ UNCHANGED <<file, temp, browserPlan, package, world, faults, call>>

-----------------------------------------------------------------------------
(* The environment.                                                        *)

(* Somebody changes files of the checkout.                                 *)
EditWorkspace ==
  /\ edits < MaxEdits
  /\ workspace' = [workspace EXCEPT !.changes = "edited"]
  /\ late' = (late \/ call["delivery"].pc \in {"probe", "add"})
  /\ edits' = edits + 1
  /\ UNCHANGED <<stores, remote, effects, preview, authority, crashes, call>>

(* Somebody pushes to the delivery branch.                                 *)
EditRemote ==
  /\ edits < MaxEdits
  /\ remote # "none"
  /\ remote' = "foreign"
  /\ edits' = edits + 1
  /\ UNCHANGED <<stores, workspace, effects, preview, authority, late, crashes, call>>

(* A late requirements revision makes the planning chain unreadable.       *)
LoseAuthority ==
  /\ edits < MaxEdits
  /\ authority
  /\ authority' = FALSE
  /\ edits' = edits + 1
  /\ UNCHANGED <<stores, world, late, crashes, call>>

Crash ==
  /\ crashes < MaxCrashes
  /\ answer # "none" \/ \E s \in Services : ~Free(s)
  /\ crashes' = crashes + 1
  /\ call' = [s \in Services |-> Idle]
  /\ answer' = "none"
  /\ UNCHANGED <<file, temp, browserPlan, package, decision, world, authority, late, edits>>

-----------------------------------------------------------------------------
Init ==
  /\ authority = TRUE
  /\ file = [s \in Services |-> Absent]
  /\ temp = [s \in Services |-> FALSE]
  /\ call = [s \in Services |-> Idle]
  /\ browserPlan = FALSE
  /\ package = Absent
  /\ decision = "none" /\ answer = "none"
  /\ workspace = [head |-> "base", changes |-> "clean"]
  /\ remote = "none"
  /\ effects = [e \in Effects |-> 0]
  /\ preview = "none"
  /\ late = FALSE
  /\ crashes = 0 /\ edits = 0

(* The three dashboards and the evidence page, one action per form.        *)
ExecutionForms == PlanExecution \/ ApproveExecution \/ ExecuteNext

DeliveryForms == PrepareDelivery \/ ApproveDelivery \/ Deliver

AcceptanceForms == PrepareAcceptance \/ ApproveAcceptance \/ ExecuteAcceptance

EvidenceForms == \E d \in CustomerPreviewReview : ReviewEvidence(d.status)

(* Steps a request takes by itself once it holds its service's lock.       *)
Continue(s) ==
  \/ CreateFile(s) \/ FillFile(s) \/ MakeTemp(s) \/ RenameTemp(s)
  \/ ReplaceFails(s) \/ EffectFails(s)
  \/ /\ s = "execution"
     /\ SubmitTurn \/ ApplyPatch \/ RecordExecutionFailure
  \/ /\ s = "delivery"
     /\ \/ CheckAgain \/ ProbeRemote \/ StageFiles \/ Commit \/ Push \/ VerifyPush
        \/ OpenPullRequest \/ RecordDeliveryFailure
  \/ /\ s = "acceptance"
     /\ \/ CheckPreview \/ DeployPreview \/ BrowserRun \/ PublishEvidence \/ WritePackage
        \/ RecordAcceptanceFailure

Environment == EditWorkspace \/ EditRemote \/ LoseAuthority \/ Crash

Next ==
  \/ ExecutionForms \/ DeliveryForms \/ AcceptanceForms \/ EvidenceForms
  \/ \E s \in Services : Continue(s)
  \/ WriteDecision
  \/ Environment

(* A request that has started keeps running until it returns; nothing      *)
(* makes a customer post a form.                                           *)
Spec == /\ Init /\ [][Next]_vars
        /\ \A s \in Services : WF_vars(Continue(s))
        /\ WF_vars(WriteDecision)

-----------------------------------------------------------------------------
(* Every record is one its store can load again, and a plan under way      *)
(* agrees with its tasks: one task is in the plan's state, the others have *)
(* not been started (the code runs one task of a plan, then reviews it).   *)
TypeOK ==
  /\ Status("execution") \in {"EXECUTING", "REVIEW_REQUIRED", "RECONCILIATION_REQUIRED"} =>
       \E t \in Tasks : file["execution"].tasks =
         [u \in Tasks |-> IF u = t THEN Status("execution") ELSE "PENDING"]
  /\ file["execution"] \in CustomerExecutionPlan \cup {Absent, Torn}
  /\ file["delivery"] \in CustomerDeliveryReview \cup {Absent, Torn}
  /\ file["acceptance"] \in CustomerAcceptanceRecord \cup {Absent, Torn}
  /\ package \in CustomerPreviewEvidencePackage \cup {Absent, Torn}
  /\ decision \in {"none", "torn"} \cup {d.status : d \in CustomerPreviewReview}

(* Each effect on the world happens at most once per customer request,     *)
(* whatever is posted twice, fails half way or is retried after a crash:   *)
(* one coding turn, one commit, one push, one pull request, one preview.   *)
EffectsAtMostOnce == \A e \in Effects : effects[e] <= 1

(* The intent is on record before the effect: if an effect has happened,   *)
(* the service's stored record does not invite anyone to cause it again.   *)
(* This is what a restarted process relies on.                             *)
EffectsOnRecord ==
  /\ TypeOK /\ EffectsAtMostOnce
  /\ effects["turn"] > 0 =>
       Status("execution") \in {"EXECUTING", "REVIEW_REQUIRED", "RECONCILIATION_REQUIRED"}
  /\ effects["commit"] > 0 =>
       Status("delivery") \in {"DELIVERY_IN_PROGRESS", "DRAFT_PR_CREATED",
                               "RECONCILIATION_REQUIRED"}
  /\ effects["workflow"] > 0 =>
       Status("acceptance") \in {"EXECUTION_IN_PROGRESS", "EVIDENCE_READY",
                                 "RECONCILIATION_REQUIRED"}

(* Drift of the checkout after the review "prevents approval or delivery"  *)
(* (docs/CUSTOMER_GOVERNED_DELIVERY.md): what the adapter commits is what  *)
(* the customer was shown and approved.  The code looks before git add and *)
(* not after, so an edit between the two is committed and pushed.          *)
CommittedIsReviewed ==
  effects["commit"] > 0 => workspace.head = file["delivery"].content

(* A customer who accepts has accepted what was delivered: all the required*)
(* evidence passed, it was taken from a preview of the delivered commit,   *)
(* one pull request carries that commit, and nothing else is on record.    *)
AcceptedIsDelivered ==
  decision = "ACCEPT" =>
    /\ package.passed
    /\ package.content = file["delivery"].commit
    /\ file["delivery"].commit = workspace.head
    /\ Status("delivery") = "DRAFT_PR_CREATED" /\ effects["pull"] = 1

(* What the customer accepts is what was delivered, and what was delivered *)
(* is what was reviewed, across the three services, the shared checkout    *)
(* and every edit of it, unless an edit fell between the adapter's check   *)
(* of the checkout and its git add.                                        *)
OnlyReviewedIsAccepted == AcceptedIsDelivered /\ (late \/ CommittedIsReviewed)

(* A request always ends and releases its service's lock, with its intent  *)
(* settled or left in doubt, unless the process dies.                      *)
RequestsReturn ==
  /\ \A s \in Services : ~Free(s) ~> Free(s)
  /\ answer # "none" ~> answer = "none"

EffectsOf == [execution |-> {"turn"}, delivery |-> {"commit", "push", "pull"},
              acceptance |-> {"workflow"}]

InDoubt(s) ==
  \/ Status(s) = "RECONCILIATION_REQUIRED"
  \/ /\ Status(s) \in {"EXECUTING", "DELIVERY_IN_PROGRESS", "EXECUTION_IN_PROGRESS"}
     /\ Free(s)

(* An effect in doubt is never retried: once a record asks for             *)
(* reconciliation, or its intent was left behind by a crash, no request    *)
(* changes the record or causes another effect for it.                     *)
DoubtIsFinal ==
  [][\A s \in Services : InDoubt(s) =>
       /\ file'[s] = file[s]
       /\ \A e \in EffectsOf[s] : effects'[e] = effects[e]]_vars
=============================================================================
