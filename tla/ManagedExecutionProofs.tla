----------------------- MODULE ManagedExecutionProofs -----------------------
(***************************************************************************)
(* Proofs about ManagedExecution for any tasks, bounds and interference.    *)
(*                                                                          *)
(* The first part is for one process that calls the service at a time.  Its *)
(* invariant MEInv says what the documents and the world agree on           *)
(* (Reviewed, Delivery, Exact), and what a method may rely on at each of    *)
(* its steps (Method): the plan and the operation it has loaded are still   *)
(* those that are stored, and what it has inspected is still so when it     *)
(* performs its effect.                                                     *)
(*                                                                          *)
(* With two processes that is not so, for the documents have no version and *)
(* no lock.  The last part says of any number of processes what is left     *)
(* when a plan has ended: EndInv.                                           *)
(***************************************************************************)
EXTENDS ManagedExecution, TLAPS

\* The service is called by one process at a time.
OneProcess == \A p, q \in Procs : p = q

EffectStates ==
    {"ABSENT", "PREPARED", "IN_PROGRESS", "COMPLETED", "UNCERTAIN",
     "RECONCILIATION_REQUIRED"}

\* The steps of an effect: before it is performed, while it is, and after.
Trying == {"prepare", "inspect", "map", "start", "perform"}
Underway == Trying \cup {"copy", "verify", "uncertain"}
Recorded == {"record", "complete", "advance"}
Ending == {"finish", "succeed", "diverge", "diverge phase", "diverge plan"}

\* The steps of the other methods.
Other == {"idle", "operation", "reconcile", "start task", "result", "accepted",
          "fail", "gated", "evidence", "evidence plan", "approved",
          "complete tasks", "cancelled", "generate", "decide", "approve", "cancel"}

Steps == Underway \cup Recorded \cup Ending \cup Other

Delivering == {"COMMIT", "PUSH", "PR"}

Methods ==
    [at : Steps, kind : Kinds \cup {"NONE"}, task : Tasks \cup {"NONE"},
     plan : Plans, oper : Operations, seen : EffectStates, found : BOOLEAN,
     reconciling : BOOLEAN, todo : SUBSET (Kinds \cup {"STOP"})]

Worlds ==
    [workspace : {"none", "partial", "copied"}, applied : SUBSET Tasks,
     branch : BOOLEAN, commits : {0, 1}, remote : {"none", "commit", "foreign"},
     prs : {0, 1}, body : Nat, disturbed : BOOLEAN]

Types ==
    /\ TypeOK
    /\ world \in Worlds
    /\ local \in [Procs -> Methods]

-----------------------------------------------------------------------------
(* The documents and the world.                                             *)

Leaves ==
    \/ world.commits > 0 \/ world.remote = "commit" \/ world.prs > 0
    \/ \E t \in Tasks : tasks[t] = "DONE"

\* The evidence in force is approved.
InForce == docs.evidence > 0 /\ plan.reviewed = docs.evidence

\* The gates have passed before there is evidence, evidence comes before its
\* approval, and once QUALITY_GATES_COMPLETED is left it does not come back:
\* no new evidence overtakes an approval.
Reviewed ==
    /\ docs.evidence > 0 => docs.gates = "passed" /\ docs.accepted = Tasks
    /\ docs.evidence = 0 => plan.reviewed = 0
    /\ plan.status = "REVIEW_REQUIRED" => docs.evidence > 0
    /\ oper.phase = "QUALITY_GATES_COMPLETED"
         => plan.reviewed = 0 /\ plan.status # "REVIEW_REQUIRED"
    /\ Leaves => InForce

Ended(k) == effects[k].state \in {"COMPLETED", "RECONCILIATION_REQUIRED"}

\* The operation and the records of the delivery: each is made after the one
\* before it is complete.
Delivery ==
    /\ effects["PUSH"].state # "ABSENT" => oper.commit
    /\ effects["PR"].state # "ABSENT" => oper.pushed
    /\ oper.pushed => oper.commit
    /\ oper.pr => oper.pushed
    /\ oper.commit => Ended("COMMIT")
    /\ oper.pushed => Ended("PUSH")
    /\ oper.pr => Ended("PR")
    /\ plan.status = "SUCCEEDED" => oper.pr
    /\ plan.status = "ABSENT" => oper = NoOperation /\ ~plan.approved
    /\ oper.phase = "ABSENT" => oper = NoOperation /\ docs.evidence = 0

\* The effect of kind k is there.
There(k) ==
    /\ k = "MAPPING" => docs.mapped = Tasks
    /\ k = "WORKSPACE" => docs.workspace /\ world.workspace = "copied"
    /\ k = "BRANCH" => world.branch
    /\ k = "COMMIT" => world.commits = 1
    /\ k = "PUSH" => world.remote # "none"
    /\ k = "PR" => world.prs = 1

Exact == \A k \in Kinds : effects[k].state = "COMPLETED" => There(k)

-----------------------------------------------------------------------------
(* What the method m relies on.                                             *)

\* Its copies are what is stored, where it will write them back.
Current(m) ==
    /\ m.at \in Underway \cup Recorded \cup Ending \cup {"reconcile", "evidence",
                                                         "evidence plan"}
         => m.plan.approved = plan.approved /\ m.plan.reviewed = plan.reviewed
    /\ \/ m.at \in Underway \cup Recorded \cup {"diverge"} /\ ~m.reconciling
       \/ m.at \in {"accepted", "finish"}
       => m.oper = oper
    /\ m.at \in Recorded /\ m.reconciling => m.found
    /\ m.at \notin {"idle", "generate"} => plan.status # "ABSENT"
    /\ m.at = "operation" => oper = NoOperation
    /\ m.at \notin {"idle", "operation", "generate", "decide", "cancel"}
         => oper.phase # "ABSENT"

\* An effect under way: its record exists, it is not performed in a
\* reconciliation, and the operation does not have it yet.
Effecting(m) ==
    /\ m.at \in Underway \cup Recorded \cup {"diverge"} => m.kind \in Kinds
    /\ m.at \in (Underway \cup Recorded \cup {"diverge"}) \ {"prepare"}
         => effects[m.kind].state # "ABSENT"
    /\ m.at = "reconcile" => m.reconciling
    /\ m.reconciling =>
         /\ m.at \in Underway \cup Recorded \cup Ending \cup {"reconcile"}
         /\ \A k \in m.todo \cap Kinds : effects[k].state # "ABSENT"
    /\ m.at \in Underway /\ m.reconciling => m.at = "inspect" /\ m.kind # "MAPPING"
    /\ m.at \in Underway /\ ~m.reconciling =>
         /\ m.kind = "COMMIT" => ~oper.commit
         /\ m.kind = "PUSH" => oper.commit /\ ~oper.pushed
         /\ m.kind = "PR" => oper.pushed /\ ~oper.pr
    /\ m.at \in Trying /\ ~m.reconciling =>
         /\ plan.status \notin Terminal
         /\ m.kind \in Delivering => InForce

\* What was inspected is still so when the effect is performed and recorded.
Observed(m) ==
    /\ m.at \in {"start", "perform"} =>
         /\ m.kind # "MAPPING"
         /\ m.kind = "WORKSPACE" => world.workspace = "none"
         /\ m.kind = "COMMIT" => world.commits = 0
         /\ m.kind = "PR" => world.prs = 0
    /\ m.at = "copy" => m.kind = "WORKSPACE" /\ world.workspace # "copied"
    /\ m.at = "map" => m.kind = "MAPPING"
    /\ m.at = "verify" => m.kind # "MAPPING"
    /\ m.at = "record" => m.kind = "WORKSPACE" /\ world.workspace = "copied"
    /\ m.at = "complete" => There(m.kind)
    /\ m.at = "advance" => effects[m.kind].state = "COMPLETED"
    /\ m.at \in {"finish", "succeed"} => oper.pr

\* The other methods: results, gates, evidence, review.
Reviewing(m) ==
    /\ m.at \in {"start task", "result"} => m.task \in Tasks
    /\ m.at = "gated" => docs.evidence = 0
    /\ m.at \in {"evidence", "evidence plan"} =>
         docs.evidence > 0 /\ plan.status \notin Terminal /\ plan.reviewed = 0
    /\ m.at = "evidence plan" => oper.phase # "QUALITY_GATES_COMPLETED"
    /\ m.at \in {"approved", "complete tasks"} => InForce
    /\ m.at \in {"approve", "approved"} => oper.approvals < MaxApprovals
    /\ m.at \in {"generate", "decide", "cancel"} => m.plan.reviewed = plan.reviewed
    /\ m.at = "generate" => plan.status = "ABSENT" /\ m.plan.status = "AWAITING_APPROVAL"
    /\ m.at \in {"decide", "cancel"}
         => m.plan.status \in {"APPROVED", "REJECTED", "FAILED", "CANCELLED"}
    /\ m.at = "approve" =>
         /\ plan.status = "REVIEW_REQUIRED" /\ m.plan.status = "REVIEW_REQUIRED"
         /\ docs.evidence > 0 /\ m.plan.reviewed = docs.evidence

Method(m) == Current(m) /\ Effecting(m) /\ Observed(m) /\ Reviewing(m)

\* The inductive invariant.
MEInv ==
    /\ Types /\ Reviewed /\ Delivery /\ Exact
    /\ \A p \in Procs : Method(local[p])

-----------------------------------------------------------------------------
(* What steps have in common.                                               *)

documents == <<plan, oper, effects, docs, tasks, world>>

\* The method m goes on with step s.
Onward(m, s) == [m EXCEPT !.at = s]

LEMMA Constants ==
    /\ MaxCrashes \in Nat /\ MaxApprovals \in Nat /\ MaxEvidence \in Nat
    /\ "NONE" \notin Kinds /\ "STOP" \notin Kinds
  BY ExecutionAssumption DEF Kinds

LEMMA StepNames ==
    /\ Trying \subseteq Underway /\ Underway \subseteq Steps
    /\ Recorded \subseteq Steps /\ Ending \subseteq Steps /\ Other \subseteq Steps
    /\ Underway \cap Recorded = {} /\ Underway \cap Ending = {}
    /\ Recorded \cap Ending = {} /\ Other \cap (Underway \cup Recorded \cup Ending) = {}
  BY DEF Steps, Trying, Underway, Recorded, Ending, Other

LEMMA OnwardFields ==
    ASSUME NEW m \in Methods, NEW s \in Steps
    PROVE  LET n == Onward(m, s)
           IN  /\ n \in Methods /\ n.at = s /\ n.kind = m.kind /\ n.task = m.task
               /\ n.plan = m.plan /\ n.oper = m.oper /\ n.seen = m.seen
               /\ n.found = m.found /\ n.reconciling = m.reconciling
               /\ n.todo = m.todo
  BY DEF Onward, Methods

LEMMA IdleFields ==
    /\ Idle \in Methods /\ Idle.at = "idle" /\ ~Idle.reconciling
    /\ NoOperation \in Operations /\ NoOperation.phase = "ABSENT"
    /\ ~NoOperation.commit /\ ~NoOperation.pushed /\ ~NoOperation.pr
    /\ NoOperation.submitted = {} /\ NoOperation.approvals = 0
    /\ NoPlan \in Plans /\ NoPlan.status = "ABSENT" /\ ~NoPlan.approved
    /\ NoPlan.reviewed = 0
  <1>1. /\ NoOperation \in Operations /\ NoOperation.phase = "ABSENT"
        /\ ~NoOperation.commit /\ ~NoOperation.pushed /\ ~NoOperation.pr
        /\ NoOperation.submitted = {} /\ NoOperation.approvals = 0
    BY Constants DEF NoOperation, Operations, Phases
  <1>2. /\ NoPlan \in Plans /\ NoPlan.status = "ABSENT" /\ ~NoPlan.approved
        /\ NoPlan.reviewed = 0
    BY Constants DEF NoPlan, Plans
  <1>3. "idle" \in Steps /\ "ABSENT" \in EffectStates
    BY StepNames DEF Other, EffectStates
  <1>4. Idle \in Methods /\ Idle.at = "idle" /\ ~Idle.reconciling
    BY <1>1, <1>2, <1>3 DEF Idle, Methods
  <1>. QED
    BY <1>1, <1>2, <1>4

\* A process that is in no method relies on nothing.
LEMMA IdleMethod ==
    ASSUME NEW m, m.at = "idle", ~m.reconciling
    PROVE  Method(m) /\ Method(m)'
  BY DEF Method, Current, Effecting, Observed, Reviewing, Underway, Recorded,
         Ending, Trying

\* A step of p takes its method to n, and leaves everything sound.
LEMMA StepOf ==
    ASSUME MEInv, OneProcess, NEW p \in Procs, NEW n \in Methods,
           local' = [local EXCEPT ![p] = n], Method(n)',
           TypeOK', (world \in Worlds)', Reviewed', Delivery', Exact'
    PROVE  MEInv'
<1>1. local' \in [Procs -> Methods] /\ \A q \in Procs : local'[q] = n
  BY DEF OneProcess, MEInv, Types
<1>2. \A q \in Procs : Method(local[q])'
  BY <1>1
<1>. QED
  BY <1>1, <1>2 DEF MEInv, Types

\* A step that changes no document.
LEMMA Steady ==
    ASSUME MEInv, UNCHANGED documents, crashes' \in 0..MaxCrashes
    PROVE  /\ TypeOK' /\ (world \in Worlds)' /\ Reviewed' /\ Delivery' /\ Exact'
           /\ \A m : Method(m)' <=> Method(m)
<1>1. /\ plan' = plan /\ oper' = oper /\ effects' = effects /\ docs' = docs
      /\ tasks' = tasks /\ world' = world
  BY DEF documents
<1>2. TypeOK' /\ (world \in Worlds)'
  BY <1>1 DEF MEInv, Types, TypeOK
<1>3. Reviewed' /\ Delivery' /\ Exact'
  BY <1>1 DEF MEInv, Reviewed, Leaves, InForce, Delivery, Ended, Exact, There
<1>4. \A m : Method(m)' <=> Method(m)
  BY <1>1 DEF Method, Current, Effecting, Observed, Reviewing, InForce, There
<1>. QED
  BY <1>2, <1>3, <1>4

LEMMA SteadyStep ==
    ASSUME MEInv, OneProcess, NEW p \in Procs, NEW n \in Methods,
           local' = [local EXCEPT ![p] = n], Method(n),
           UNCHANGED documents, crashes' \in 0..MaxCrashes
    PROVE  MEInv'
<1>1. Method(n)'
  BY Steady
<1>. QED
  BY <1>1, Steady, StepOf

LEMMA Here ==
    ASSUME MEInv, NEW p \in Procs
    PROVE  /\ local \in [Procs -> Methods] /\ local[p] \in Methods
           /\ Method(local[p])
           /\ plan \in Plans /\ oper \in Operations /\ world \in Worlds
           /\ crashes \in 0..MaxCrashes
  BY DEF MEInv, Types, TypeOK

LEMMA GoesOnward ==
    ASSUME MEInv, NEW p \in Procs, NEW s \in Steps, Goto(p, s)
    PROVE  local' = [local EXCEPT ![p] = Onward(local[p], s)]
  BY Here DEF Goto, Onward

-----------------------------------------------------------------------------
(* Steps that change no document.                                           *)

\* A method begins with what is stored.
Begun(s, k) == [Idle EXCEPT !.at = s, !.kind = k, !.plan = plan, !.oper = oper]

LEMMA BegunFields ==
    ASSUME MEInv, NEW s \in Steps, NEW k \in Kinds \cup {"NONE"}
    PROVE  /\ Begun(s, k) \in Methods /\ Begun(s, k).at = s
           /\ Begun(s, k).kind = k /\ Begun(s, k).plan = plan
           /\ Begun(s, k).oper = oper /\ ~Begun(s, k).reconciling
<1>1. plan \in Plans /\ oper \in Operations
  BY DEF MEInv, Types, TypeOK
<1>. QED
  BY <1>1, IdleFields DEF Begun, Idle, Methods

LEMMA AllowedFacts ==
    ASSUME MEInv, NEW phases, Allowed(phases)
    PROVE  /\ plan.status \notin Terminal \cup {"ABSENT"}
           /\ oper.phase \in phases
  BY DEF MEInv, Allowed, Delivery

LEMMA EffectBegins ==
    ASSUME MEInv, OneProcess, NEW p \in Procs, NEW k \in Kinds,
           Begin(p, "prepare", k), UNCHANGED <<plan, oper, effects, docs, tasks, world, crashes>>,
           plan.status \notin Terminal \cup {"ABSENT"}, oper.phase # "ABSENT",
           k \in Delivering => InForce,
           k = "COMMIT" => ~oper.commit,
           k = "PUSH" => oper.commit /\ ~oper.pushed,
           k = "PR" => oper.pushed /\ ~oper.pr
    PROVE  MEInv'
<1>. DEFINE n == Begun("prepare", k)
<1>1. "prepare" \in Steps /\ local' = [local EXCEPT ![p] = n]
  BY StepNames DEF Underway, Trying, Begin, Begun
<1>2. /\ n \in Methods /\ n.at = "prepare" /\ n.kind = k /\ n.plan = plan
      /\ n.oper = oper /\ ~n.reconciling
  BY <1>1, BegunFields
<1>. HIDE DEF n
<1>3. Method(n)
  BY <1>2 DEF Method, Current, Effecting, Observed, Reviewing, Underway, Recorded,
              Ending, Trying
<1>. QED
  BY <1>1, <1>2, <1>3, SteadyStep, Here DEF documents

LEMMA BeginsInvariant ==
    ASSUME MEInv, OneProcess, NEW p \in Procs,
           \/ CreateRuntimeWork(p) \/ PrepareWorkspace(p) \/ CreateFeatureBranch(p)
           \/ CreateCommit(p) \/ PushBranch(p) \/ CreateDraftPullRequest(p)
    PROVE  MEInv'
<1>1. CASE CreateRuntimeWork(p)
  BY <1>1, EffectBegins, AllowedFacts DEF CreateRuntimeWork, Kinds, Delivering
<1>2. CASE PrepareWorkspace(p)
  BY <1>2, EffectBegins, AllowedFacts DEF PrepareWorkspace, Kinds, Delivering
<1>3. CASE CreateFeatureBranch(p)
  BY <1>3, EffectBegins, AllowedFacts DEF CreateFeatureBranch, Kinds, Delivering
<1>4. CASE CreateCommit(p)
  BY <1>4, EffectBegins, AllowedFacts
     DEF CreateCommit, Kinds, Delivering, ReviewApproved, InForce
<1>5. CASE PushBranch(p)
  BY <1>5, EffectBegins, AllowedFacts
     DEF PushBranch, Kinds, Delivering, ReviewApproved, InForce
<1>6. CASE CreateDraftPullRequest(p)
  BY <1>6, EffectBegins, AllowedFacts
     DEF CreateDraftPullRequest, Kinds, Delivering, ReviewApproved, InForce
<1>. QED
  BY <1>1, <1>2, <1>3, <1>4, <1>5, <1>6

\* What an inspection finds, of the effects that are not the mapping's.
LEMMA FoundFacts ==
    ASSUME NEW p, NEW k \in Kinds \ {"MAPPING"}
    PROVE  /\ Found(p, k) \in {"exact", "missing", "divergent"}
           /\ Found(p, k) = "exact" /\ (k = "WORKSPACE" => docs.workspace) => There(k)
           /\ Found(p, k) = "exact" /\ k = "WORKSPACE" => world.workspace = "copied"
           /\ Found(p, k) = "missing" =>
                /\ k = "WORKSPACE" => world.workspace = "none"
                /\ k = "COMMIT" => world.commits = 0
                /\ k = "PR" => world.prs = 0
<1>1. CASE k = "WORKSPACE"
  <2>1. Found(p, "WORKSPACE") =
          IF world.workspace = "none" THEN "missing"
          ELSE IF world.workspace = "copied" /\ world.applied = {} THEN "exact"
          ELSE "divergent"
    BY DEF Found
  <2>. QED
    BY <1>1, <2>1 DEF There
<1>2. CASE k = "BRANCH"
  <2>1. Found(p, "BRANCH") =
          IF ~world.branch THEN "missing"
          ELSE IF world.commits = 0 THEN "exact" ELSE "divergent"
    BY DEF Found
  <2>. QED
    BY <1>2, <2>1 DEF There
<1>3. CASE k = "COMMIT"
  <2>1. Found(p, "COMMIT") =
          IF world.commits = 0 THEN "missing"
          ELSE IF world.commits = 1 THEN "exact" ELSE "divergent"
    BY DEF Found
  <2>. QED
    BY <1>3, <2>1 DEF There
<1>4. CASE k = "PUSH"
  <2>1. Found(p, "PUSH") =
          IF world.remote = "none" THEN "missing"
          ELSE IF world.remote = "commit" THEN "exact" ELSE "divergent"
    BY DEF Found
  <2>. QED
    BY <1>4, <2>1 DEF There
<1>5. CASE k = "PR"
  <2>1. Found(p, "PR") =
          IF world.prs = 0 THEN "missing"
          ELSE IF /\ world.prs = 1 /\ world.body = Body(p)
                  /\ world.remote = "commit" THEN "exact" ELSE "divergent"
    BY DEF Found
  <2>. QED
    BY <1>5, <2>1 DEF There
<1>. QED
  BY <1>1, <1>2, <1>3, <1>4, <1>5 DEF Kinds

\* A method that returns.
LEMMA DoneSteady ==
    ASSUME MEInv, OneProcess, NEW p \in Procs, Done(p), UNCHANGED documents,
           crashes' \in 0..MaxCrashes
    PROVE  MEInv'
<1>1. Idle \in Methods /\ Method(Idle)
  BY IdleFields, IdleMethod
<1>. QED
  BY <1>1, SteadyStep DEF Done

LEMMA GotoSteady ==
    ASSUME MEInv, OneProcess, NEW p \in Procs, NEW s \in Steps, Goto(p, s),
           Method(Onward(local[p], s)), UNCHANGED documents, crashes' = crashes
    PROVE  MEInv'
<1>. DEFINE n == Onward(local[p], s)
<1>1. local' = [local EXCEPT ![p] = n] /\ n \in Methods
  BY GoesOnward, OnwardFields, Here
<1>2. crashes' \in 0..MaxCrashes
  BY Here
<1>3. Method(n)
  OBVIOUS
<1>. HIDE DEF n
<1>. QED
  BY <1>1, <1>2, <1>3, SteadyStep

\* Before the next effect is inspected, or after the last.
LEMMA ReconcileMethod ==
    ASSUME NEW m \in Methods, Method(m), m.reconciling,
           m.at \in Underway \cup Recorded \cup {"succeed"}
    PROVE  Method(Onward(m, "reconcile"))
<1>. DEFINE n == Onward(m, "reconcile")
<1>1. /\ "reconcile" \in Steps /\ n.at = "reconcile" /\ n.plan = m.plan
      /\ n.reconciling /\ n.todo = m.todo
      /\ "reconcile" \notin Underway \cup Recorded \cup Ending
  BY OnwardFields DEF Steps, Other, Underway, Trying, Recorded, Ending
<1>. HIDE DEF n
<1>2. m.at \notin {"idle", "operation", "generate", "decide", "cancel"}
      /\ m.at \in Underway \cup Recorded \cup Ending
  BY DEF Underway, Trying, Recorded, Ending
<1>3. Current(n)
  BY <1>1, <1>2 DEF Current, Method
<1>4. Effecting(n)
  BY <1>1, <1>2 DEF Effecting, Method, Trying, Underway
<1>5. Observed(n) /\ Reviewing(n)
  BY <1>1 DEF Observed, Reviewing
<1>6. Method(n)
  BY <1>3, <1>4, <1>5 DEF Method
<1>. QED
  BY <1>6 DEF n

LEMMA ReturnSteady ==
    ASSUME MEInv, OneProcess, NEW p \in Procs, Return(p), UNCHANGED documents,
           crashes' = crashes, local[p].at \in Underway \cup Recorded
    PROVE  MEInv'
<1>1. CASE local[p].reconciling
  <2>1. "reconcile" \in Steps
    BY DEF Steps, Other
  <2>. QED
    BY <1>1, <2>1, ReconcileMethod, GotoSteady, Here DEF Return
<1>2. CASE ~local[p].reconciling
  BY <1>2, DoneSteady, Here DEF Return
<1>. QED
  BY <1>1, <1>2

\* What the inspected effect's method knows when it goes on.
Noted(m, s, f) == [m EXCEPT !.at = s, !.found = f]

LEMMA NotedFields ==
    ASSUME NEW m \in Methods, NEW s \in Steps, NEW f \in BOOLEAN
    PROVE  LET n == Noted(m, s, f)
           IN  /\ n \in Methods /\ n.at = s /\ n.kind = m.kind /\ n.task = m.task
               /\ n.plan = m.plan /\ n.oper = m.oper /\ n.seen = m.seen
               /\ n.found = f /\ n.reconciling = m.reconciling
               /\ n.todo = m.todo
  BY DEF Noted, Methods

LEMMA RecordingSteady ==
    ASSUME MEInv, OneProcess, NEW p \in Procs, NEW f \in BOOLEAN,
           Recording(p, local[p].kind, f), UNCHANGED documents, crashes' = crashes,
           local[p].at \in {"inspect", "verify"}, local[p].kind # "MAPPING",
           local[p].reconciling => f,
           Found(p, local[p].kind) = "exact"
    PROVE  MEInv'
<1>. DEFINE m == local[p]
            s == IF m.kind = "WORKSPACE" THEN "record" ELSE "complete"
            n == Noted(m, s, f)
<1>0. m \in Methods /\ Method(m) /\ local \in [Procs -> Methods]
  BY Here
<1>1. s \in Steps /\ m.at \in Underway \ {"prepare"}
  BY DEF Steps, Recorded, Underway, Trying
<1>2. local' = [local EXCEPT ![p] = n]
  BY <1>0 DEF Recording, Noted
<1>3. /\ n \in Methods /\ n.at = s /\ n.kind = m.kind /\ n.plan = m.plan
      /\ n.oper = m.oper /\ n.found = f /\ n.reconciling = m.reconciling
      /\ n.todo = m.todo
  BY <1>0, <1>1, NotedFields
<1>4. m.kind \in Kinds \ {"MAPPING"}
  BY <1>0, <1>1 DEF Method, Effecting
<1>5. /\ s = "complete" => There(m.kind)
      /\ s = "record" => m.kind = "WORKSPACE" /\ world.workspace = "copied"
  BY <1>4, FoundFacts
<1>6. /\ s \in Recorded /\ s \notin Underway \cup Ending /\ s # "advance"
      /\ s \in {"record", "complete"}
  BY DEF Recorded, Underway, Trying, Ending
<1>. HIDE DEF m, s, n
<1>7. Current(n)
  BY <1>0, <1>1, <1>3, <1>6 DEF Current, Method, m, Underway, Trying
<1>8. Effecting(n)
  BY <1>0, <1>1, <1>3, <1>4, <1>6 DEF Effecting, Method, m, Underway, Trying
<1>9. Observed(n) /\ Reviewing(n)
  BY <1>3, <1>5, <1>6 DEF Observed, Reviewing
<1>. QED
  BY <1>2, <1>3, <1>7, <1>8, <1>9, SteadyStep, Here DEF Method

\* An effect that is not as it was expected.
LEMMA DivergeSteady ==
    ASSUME MEInv, OneProcess, NEW p \in Procs, Goto(p, "diverge"),
           local[p].at \in Underway, effects[local[p].kind].state # "ABSENT",
           UNCHANGED documents, crashes' = crashes
    PROVE  MEInv'
<1>. DEFINE m == local[p]
            n == Onward(m, "diverge")
<1>1. "diverge" \in Steps /\ m \in Methods /\ Method(m)
  BY Here DEF Steps, Ending
<1>2. /\ n \in Methods /\ n.at = "diverge" /\ n.kind = m.kind /\ n.plan = m.plan
      /\ n.oper = m.oper /\ n.reconciling = m.reconciling /\ n.todo = m.todo
  BY <1>1, OnwardFields
<1>3. "diverge" \notin Underway \cup Recorded \cup {"finish", "idle", "operation"}
  BY DEF Underway, Trying, Recorded
<1>4. m.at \in Underway
      /\ m.at \notin {"idle", "operation", "generate", "decide", "cancel"}
      /\ effects[m.kind].state # "ABSENT"
  BY DEF Underway, Trying
<1>. HIDE DEF m, n
<1>5. Current(n)
  BY <1>1, <1>2, <1>3, <1>4 DEF Current, Method
<1>6. Effecting(n)
  BY <1>1, <1>2, <1>3, <1>4 DEF Effecting, Method, Underway, Ending, Trying
<1>7. Observed(n) /\ Reviewing(n)
  BY <1>2 DEF Observed, Reviewing
<1>8. Method(n)
  BY <1>5, <1>6, <1>7 DEF Method
<1>. QED
  BY <1>1, <1>8, GotoSteady DEF n, m

\* An effect that is about to be performed.
LEMMA StartsSteady ==
    ASSUME MEInv, OneProcess, NEW p \in Procs, Goto(p, "start"),
           local[p].at = "inspect", local[p].kind # "MAPPING",
           ~local[p].reconciling, Found(p, local[p].kind) = "missing",
           UNCHANGED documents, crashes' = crashes
    PROVE  MEInv'
<1>. DEFINE m == local[p]
            n == Onward(m, "start")
<1>1. "start" \in Steps /\ m \in Methods /\ Method(m)
      /\ m.at = "inspect" /\ ~m.reconciling /\ m.kind # "MAPPING"
  BY Here DEF Steps, Underway, Trying
<1>2. /\ n \in Methods /\ n.at = "start" /\ n.kind = m.kind /\ n.plan = m.plan
      /\ n.oper = m.oper /\ n.reconciling = m.reconciling /\ n.todo = m.todo
  BY <1>1, OnwardFields
<1>3. m.kind \in Kinds
  BY <1>1 DEF Method, Effecting, Underway, Trying
<1>4. /\ m.kind = "WORKSPACE" => world.workspace = "none"
      /\ m.kind = "COMMIT" => world.commits = 0
      /\ m.kind = "PR" => world.prs = 0
  BY <1>1, <1>3, FoundFacts
<1>. HIDE DEF m, n
<1>5. Current(n)
  BY <1>1, <1>2 DEF Current, Method, Underway, Trying
<1>6. Effecting(n)
  BY <1>1, <1>2, <1>3 DEF Effecting, Method, Underway, Trying
<1>7. Observed(n) /\ Reviewing(n)
  BY <1>1, <1>2, <1>4 DEF Observed, Reviewing
<1>8. Method(n)
  BY <1>5, <1>6, <1>7 DEF Method
<1>. QED
  BY <1>1, <1>8, GotoSteady DEF n, m

LEMMA InspectInvariant ==
    ASSUME MEInv, OneProcess, NEW p \in Procs, Inspect(p)
    PROVE  MEInv'
<1>. DEFINE k == local[p].kind
<1>1. /\ local[p].at = "inspect" /\ UNCHANGED documents /\ crashes' = crashes
      /\ local[p].at \in Underway \ {"prepare"}
  BY DEF Inspect, At, documents, Underway, Trying
<1>2. k \in Kinds /\ effects[k].state # "ABSENT"
  BY <1>1, Here DEF Method, Effecting
<1>3. CASE k = "MAPPING" /\ Goto(p, "map")
  <2>. DEFINE m == local[p]
              n == Onward(m, "map")
  <2>1. "map" \in Steps /\ m \in Methods /\ Method(m) /\ m.at = "inspect"
        /\ m.kind = "MAPPING"
    BY <1>1, <1>3, Here DEF Steps, Underway, Trying
  <2>2. /\ n \in Methods /\ n.at = "map" /\ n.kind = m.kind /\ n.plan = m.plan
        /\ n.oper = m.oper /\ n.reconciling = m.reconciling /\ n.todo = m.todo
    BY <2>1, OnwardFields
  <2>. HIDE DEF m, n
  <2>3. Current(n)
    BY <2>1, <2>2 DEF Current, Method, Underway, Trying, Recorded
  <2>4. Effecting(n)
    BY <2>1, <2>2 DEF Effecting, Method, Underway, Trying
  <2>5. Observed(n) /\ Reviewing(n)
    BY <2>1, <2>2 DEF Observed, Reviewing
  <2>6. Method(n)
    BY <2>3, <2>4, <2>5 DEF Method
  <2>. QED
    BY <1>1, <1>3, <2>1, <2>6, GotoSteady DEF n, m
<1>4. CASE k # "MAPPING" /\ Found(p, k) = "exact" /\ Recording(p, k, TRUE)
  BY <1>1, <1>4, RecordingSteady
<1>5. CASE k # "MAPPING" /\ Found(p, k) = "divergent" /\ Goto(p, "diverge")
  BY <1>1, <1>2, <1>5, DivergeSteady
<1>6. CASE k # "MAPPING" /\ Found(p, k) = "missing" /\ Return(p)
  BY <1>1, <1>6, ReturnSteady
<1>7. CASE k # "MAPPING" /\ Found(p, k) = "missing" /\ ~local[p].reconciling
           /\ Goto(p, "start")
  BY <1>1, <1>7, StartsSteady
<1>. QED
  BY <1>3, <1>4, <1>5, <1>6, <1>7 DEF Inspect, Inspected

LEMMA VerifyInvariant ==
    ASSUME MEInv, OneProcess, NEW p \in Procs, Verify(p)
    PROVE  MEInv'
<1>. DEFINE k == local[p].kind
<1>1. /\ local[p].at = "verify" /\ UNCHANGED documents /\ crashes' = crashes
      /\ local[p].at \in Underway \ {"prepare"} /\ local[p].at # "inspect"
  BY DEF Verify, At, documents, Underway, Trying
<1>2. /\ k \in Kinds /\ effects[k].state # "ABSENT" /\ k # "MAPPING"
      /\ ~local[p].reconciling
  BY <1>1, Here DEF Method, Effecting, Observed
<1>3. CASE Found(p, k) = "exact" /\ Recording(p, k, k = "PR")
  BY <1>1, <1>2, <1>3, RecordingSteady
<1>4. CASE Goto(p, "diverge")
  BY <1>1, <1>2, <1>4, DivergeSteady
<1>. QED
  BY <1>3, <1>4 DEF Verify

LEMMA CrashInvariant ==
    ASSUME MEInv, OneProcess, NEW p \in Procs, Crash(p)
    PROVE  MEInv'
<1>1. crashes' \in 0..MaxCrashes
  BY Here, Constants DEF Crash
<1>. QED
  BY <1>1, DoneSteady DEF Crash, documents

LEMMA ReconcileExecutionInvariant ==
    ASSUME MEInv, OneProcess, NEW p \in Procs, ReconcileExecution(p)
    PROVE  MEInv'
<1>. DEFINE todo == {IF effects[k].state = "RECONCILIATION_REQUIRED" THEN "STOP" ELSE k :
                     k \in {x \in Kinds : effects[x].state # "ABSENT"}}
            n == [Idle EXCEPT !.at = "reconcile", !.reconciling = TRUE, !.plan = plan,
                              !.oper = oper, !.todo = todo]
<1>1. local' = [local EXCEPT ![p] = n]
  BY DEF ReconcileExecution
<1>2. todo \subseteq Kinds \cup {"STOP"}
      /\ \A k \in todo \cap Kinds : effects[k].state # "ABSENT"
  BY Constants
<1>3. "reconcile" \in Steps /\ "reconcile" \notin Underway \cup Recorded \cup Ending
  BY DEF Steps, Other, Underway, Trying, Recorded, Ending
<1>4. Idle \in Methods /\ plan \in Plans /\ oper \in Operations
  BY IdleFields, Here
<1>. HIDE DEF todo
<1>5. /\ n \in Methods /\ n.at = "reconcile" /\ n.reconciling /\ n.plan = plan
      /\ n.oper = oper /\ n.todo = todo
  BY <1>2, <1>3, <1>4 DEF Methods
<1>6. oper.phase # "ABSENT" /\ plan.status # "ABSENT"
  BY IdleFields DEF ReconcileExecution, MEInv, Delivery
<1>. HIDE DEF n
<1>7. Current(n)
  BY <1>3, <1>5, <1>6 DEF Current
<1>8. Effecting(n)
  BY <1>2, <1>3, <1>5 DEF Effecting, Underway, Ending
<1>9. Observed(n) /\ Reviewing(n)
  BY <1>5 DEF Observed, Reviewing
<1>10. UNCHANGED documents /\ crashes' \in 0..MaxCrashes
  BY Here DEF ReconcileExecution, documents
<1>. QED
  BY <1>1, <1>5, <1>7, <1>8, <1>9, <1>10, SteadyStep DEF Method

LEMMA ReconcileEffectInvariant ==
    ASSUME MEInv, OneProcess, NEW p \in Procs, ReconcileEffect(p)
    PROVE  MEInv'
<1>1. UNCHANGED documents /\ crashes' \in 0..MaxCrashes
  BY Here DEF ReconcileEffect, documents
<1>2. CASE Done(p)
  BY <1>1, <1>2, DoneSteady
<1>3. ASSUME NEW k \in local[p].todo, k # "STOP",
             local' = [local EXCEPT
                 ![p].todo = @ \ {k}, ![p].kind = k,
                 ![p].at = IF k = "MAPPING" THEN "reconcile" ELSE "inspect"]
      PROVE  MEInv'
  <2>. DEFINE m == local[p]
              s == IF k = "MAPPING" THEN "reconcile" ELSE "inspect"
              n == [m EXCEPT !.todo = @ \ {k}, !.kind = k, !.at = s]
  <2>1. m \in Methods /\ Method(m) /\ m.at = "reconcile" /\ local \in [Procs -> Methods]
    BY Here DEF ReconcileEffect, At
  <2>2. local' = [local EXCEPT ![p] = n]
    BY <1>3, <2>1
  <2>3. k \in Kinds /\ s \in Steps /\ s \in {"reconcile", "inspect"}
    BY <1>3, <2>1 DEF Methods, Steps, Other, Underway, Trying
  <2>4. /\ n \in Methods /\ n.at = s /\ n.kind = k /\ n.plan = m.plan
        /\ n.oper = m.oper /\ n.reconciling = m.reconciling
        /\ n.todo = m.todo \ {k}
    BY <2>1, <2>3 DEF Methods
  <2>5. m.reconciling /\ effects[k].state # "ABSENT" /\ k \in m.todo
    BY <1>3, <2>1, <2>3 DEF Method, Effecting
  <2>6. s = "inspect" => k # "MAPPING"
    OBVIOUS
  <2>. HIDE DEF m, s, n
  <2>7. Current(n)
    BY <2>1, <2>3, <2>4, <2>5 DEF Current, Method, Underway, Trying, Recorded, Ending
  <2>8. Effecting(n)
    BY <2>1, <2>3, <2>4, <2>5, <2>6
       DEF Effecting, Method, Underway, Trying, Recorded, Ending
  <2>9. Observed(n) /\ Reviewing(n)
    BY <2>3, <2>4 DEF Observed, Reviewing
  <2>. QED
    BY <1>1, <2>2, <2>4, <2>7, <2>8, <2>9, SteadyStep DEF Method
<1>. QED
  BY <1>2, <1>3 DEF ReconcileEffect

-----------------------------------------------------------------------------
(* Steps that change the world.                                             *)

\* The world changes in what no document is about.
LEMMA Unnoticed ==
    ASSUME MEInv, UNCHANGED <<plan, oper, effects, docs, tasks>>,
           crashes' \in 0..MaxCrashes,
           world' \in Worlds,
           world'.workspace = world.workspace, world'.branch = world.branch,
           world'.commits = world.commits, world'.prs = world.prs,
           \/ world'.remote = world.remote
           \/ world'.remote = "foreign"
    PROVE  /\ TypeOK' /\ (world \in Worlds)' /\ Reviewed' /\ Delivery' /\ Exact'
           /\ \A m : Method(m) => Method(m)'
<1>1. TypeOK'
  BY DEF MEInv, Types, TypeOK, Worlds
<1>2. Reviewed'
  BY DEF MEInv, Reviewed, Leaves, InForce
<1>3. Delivery'
  BY DEF MEInv, Delivery, Ended
<1>4. \A k : There(k) => There(k)'
  BY DEF There
<1>5. Exact'
  BY <1>4 DEF MEInv, Exact
<1>6. \A m : Method(m) => Method(m)'
  <2>. SUFFICES ASSUME NEW m, Method(m)
                PROVE  Method(m)'
    OBVIOUS
  <2>1. Current(m)'
    BY DEF Method, Current
  <2>2. Effecting(m)'
    BY DEF Method, Effecting, InForce
  <2>3. Reviewing(m)'
    BY DEF Method, Reviewing, InForce
  <2>4. Observed(m)'
    BY <1>4 DEF Method, Observed
  <2>. QED
    BY <2>1, <2>2, <2>3, <2>4 DEF Method
<1>. QED
  BY <1>1, <1>2, <1>3, <1>5, <1>6

LEMMA InterfereInvariant ==
    ASSUME MEInv, Interfere
    PROVE  MEInv'
<1>1. world \in Worlds /\ crashes \in 0..MaxCrashes
  BY DEF MEInv, Types, TypeOK
<1>2. /\ world' \in Worlds /\ world'.workspace = world.workspace
      /\ world'.branch = world.branch /\ world'.commits = world.commits
      /\ world'.prs = world.prs /\ world'.remote = "foreign"
  BY <1>1 DEF Interfere, Worlds
<1>3. /\ TypeOK' /\ (world \in Worlds)' /\ Reviewed' /\ Delivery' /\ Exact'
      /\ \A m : Method(m) => Method(m)'
  BY <1>1, <1>2, Unnoticed DEF Interfere
<1>. QED
  BY <1>3 DEF Interfere, MEInv, Types

\* A result is reported to a process that was in no method.
LEMMA ResultMethod ==
    ASSUME NEW n, n.at = "result", n.task \in Tasks, ~n.reconciling,
           plan.status # "ABSENT", oper.phase # "ABSENT"
    PROVE  Method(n)
  BY DEF Method, Current, Effecting, Observed, Reviewing, Underway, Trying, Recorded,
         Ending

LEMMA ReportsInvariant ==
    ASSUME MEInv, OneProcess, NEW p \in Procs, NEW t \in Tasks,
           AcceptProviderResult(p, t) \/ ReportCodingResult(p, t)
    PROVE  MEInv'
<1>. DEFINE n == [Idle EXCEPT !.at = "result", !.task = t]
<1>1. /\ local' = [local EXCEPT ![p] = n]
      /\ world' = [world EXCEPT !.applied = @ \cup {t}] \/ world' = world
      /\ UNCHANGED <<plan, oper, effects, docs, tasks, crashes>>
      /\ t \in oper.submitted
  BY DEF AcceptProviderResult, ReportCodingResult
<1>2. world \in Worlds /\ crashes \in 0..MaxCrashes
  BY DEF MEInv, Types, TypeOK
<1>3. /\ world' \in Worlds /\ world'.workspace = world.workspace
      /\ world'.branch = world.branch /\ world'.commits = world.commits
      /\ world'.prs = world.prs /\ world'.remote = world.remote
  BY <1>1, <1>2 DEF Worlds
<1>4. oper # NoOperation /\ plan.status # "ABSENT" /\ oper.phase # "ABSENT"
  BY <1>1, IdleFields DEF MEInv, Delivery
<1>5. Idle \in Methods /\ "result" \in Steps /\ ~Idle.reconciling
  BY IdleFields DEF Steps, Other, Idle
<1>6. n \in Methods /\ n.at = "result" /\ n.task = t /\ ~n.reconciling
  BY <1>5 DEF Methods
<1>. HIDE DEF n
<1>7. Method(n)
  BY <1>4, <1>6, ResultMethod
<1>8. /\ TypeOK' /\ (world \in Worlds)' /\ Reviewed' /\ Delivery' /\ Exact'
      /\ \A m : Method(m) => Method(m)'
  BY <1>1, <1>2, <1>3, Unnoticed
<1>. QED
  BY <1>1, <1>6, <1>7, <1>8, StepOf

\* The method goes on after its effect was performed, or was tried.
LEMMA PerformsInvariant ==
    ASSUME MEInv, OneProcess, NEW p \in Procs,
           local[p].at \in {"perform", "copy"},
           NEW s \in {"copy", "verify", "uncertain"}, Goto(p, s),
           UNCHANGED <<plan, oper, effects, docs, tasks, crashes>>,
           world' \in Worlds, \A x : There(x) => There(x)',
           Leaves' => Leaves \/ InForce,
           s = "copy" => local[p].kind = "WORKSPACE" /\ world'.workspace # "copied"
    PROVE  MEInv'
<1>. DEFINE m == local[p]
<1>. PICK n : n = Onward(m, s)
  OBVIOUS
<1>0. s \in Steps /\ m \in Methods /\ Method(m) /\ m.at \in Underway
      /\ m.at \notin {"prepare", "inspect", "idle", "operation"}
  BY Here DEF Steps, Underway, Trying
<1>1. local' = [local EXCEPT ![p] = n]
  BY <1>0, GoesOnward
<1>2. /\ n \in Methods /\ n.at = s /\ n.kind = m.kind /\ n.plan = m.plan
      /\ n.oper = m.oper /\ n.reconciling = m.reconciling /\ n.todo = m.todo
  BY <1>0, OnwardFields
<1>3. m.kind \in Kinds \ {"MAPPING"} /\ ~m.reconciling /\ effects[m.kind].state # "ABSENT"
  BY <1>0 DEF Method, Effecting, Observed
<1>4. s \in Underway \ Trying /\ s \notin Recorded \cup Ending
  BY DEF Underway, Trying, Recorded, Ending
<1>5. m.at \in {"perform", "copy"} /\ s \in {"copy", "verify", "uncertain"}
      /\ (s = "copy" => m.kind = "WORKSPACE" /\ world'.workspace # "copied")
  OBVIOUS
<1>. HIDE DEF m
<1>6. Current(n)'
  BY <1>0, <1>2, <1>3, <1>4, <1>5 DEF Current, Method
<1>7. Effecting(n)'
  BY <1>0, <1>2, <1>3, <1>4, <1>5 DEF Effecting, Method
<1>8. Observed(n)' /\ Reviewing(n)'
  BY <1>2, <1>3, <1>5 DEF Observed, Reviewing
<1>9. Method(n)'
  BY <1>6, <1>7, <1>8 DEF Method
<1>10. TypeOK'
  BY DEF MEInv, Types, TypeOK, Worlds
<1>11. Reviewed'
  BY DEF MEInv, Reviewed, InForce
<1>12. Delivery'
  BY DEF MEInv, Delivery, Ended
<1>13. Exact'
  BY DEF MEInv, Exact
<1>. QED
  BY <1>1, <1>2, <1>9, <1>10, <1>11, <1>12, <1>13, StepOf

\* What performing an effect does to the world.
LEMMA PerformedFacts ==
    ASSUME MEInv, NEW p \in Procs, local[p].at = "perform",
           world' = Performed(p, local[p].kind),
           UNCHANGED <<plan, oper, effects, docs, tasks>>
    PROVE  /\ world' \in Worlds /\ \A x : There(x) => There(x)'
           /\ Leaves' => Leaves \/ InForce
           /\ local[p].kind = "WORKSPACE" => world'.workspace = "partial"
<1>. DEFINE k == local[p].kind
<1>1. /\ k \in Kinds \ {"MAPPING"} /\ world \in Worlds
      /\ local[p] \in Methods /\ oper \in Operations
      /\ k \in Delivering => InForce
      /\ k = "WORKSPACE" => world.workspace = "none"
      /\ k = "COMMIT" => world.commits = 0
      /\ k = "PR" => world.prs = 0
  <2>1. "perform" \in Trying /\ "perform" \in Underway
    BY DEF Underway, Trying
  <2>2. Method(local[p]) /\ ~local[p].reconciling
    BY <2>1, Here DEF Method, Effecting
  <2>. QED
    BY <2>1, <2>2, Here DEF Method, Effecting, Observed
<1>. HIDE DEF k
<1>2. CASE k = "WORKSPACE"
  <2>1. Performed(p, "WORKSPACE") = [world EXCEPT !.workspace = "partial"]
    BY DEF Performed
  <2>2. /\ world' \in Worlds /\ world'.workspace = "partial"
        /\ world'.branch = world.branch /\ world'.commits = world.commits
        /\ world'.prs = world.prs /\ world'.remote = world.remote
    BY <1>1, <1>2, <2>1 DEF k, Worlds
  <2>. QED
    BY <1>1, <1>2, <2>2 DEF There, Leaves, k
<1>3. CASE k = "BRANCH"
  <2>1. Performed(p, "BRANCH") = [world EXCEPT !.branch = TRUE]
    BY DEF Performed
  <2>2. /\ world' \in Worlds /\ world'.workspace = world.workspace
        /\ world'.branch /\ world'.commits = world.commits
        /\ world'.prs = world.prs /\ world'.remote = world.remote
    BY <1>1, <1>3, <2>1, ZenonT(60) DEF k, Worlds
  <2>. QED
    BY <1>1, <1>3, <2>2 DEF There, Leaves, k
<1>4. CASE k = "COMMIT"
  <2>1. Performed(p, "COMMIT") = [world EXCEPT !.commits = @ + 1]
    BY DEF Performed
  <2>2. /\ world' \in Worlds /\ world'.workspace = world.workspace
        /\ world'.branch = world.branch
        /\ world'.prs = world.prs /\ world'.remote = world.remote
    BY <1>1, <1>4, <2>1 DEF k, Worlds
  <2>. QED
    BY <1>1, <1>4, <2>2 DEF There, Leaves, k, Delivering
<1>5. CASE k = "PUSH"
  <2>1. Performed(p, "PUSH") = [world EXCEPT !.remote = "commit"]
    BY DEF Performed
  <2>2. /\ world' \in Worlds /\ world'.workspace = world.workspace
        /\ world'.branch = world.branch /\ world'.commits = world.commits
        /\ world'.prs = world.prs /\ world'.remote = "commit"
    BY <1>1, <1>5, <2>1 DEF k, Worlds
  <2>. QED
    BY <1>1, <1>5, <2>2 DEF There, Leaves, k, Delivering
<1>6. CASE k = "PR"
  <2>1. Performed(p, "PR") = [world EXCEPT !.prs = @ + 1, !.body = Body(p)]
    BY DEF Performed
  <2>2. PICK b \in Nat : b = Body(p)
    BY <1>1, Constants DEF Body, Operations, Methods
  <2>3. world' = [world EXCEPT !.prs = @ + 1, !.body = b]
    BY <1>6, <2>1, <2>2 DEF k
  <2>4. PICK w : w = [world EXCEPT !.prs = @ + 1]
    OBVIOUS
  <2>5. /\ w \in Worlds /\ w.workspace = world.workspace /\ w.branch = world.branch
        /\ w.commits = world.commits /\ w.remote = world.remote
    BY <1>1, <1>6, <2>4 DEF Worlds
  <2>6. world' = [w EXCEPT !.body = b]
    BY <2>3, <2>4
  <2>7. /\ world' \in Worlds /\ world'.workspace = world.workspace
        /\ world'.branch = world.branch /\ world'.commits = world.commits
        /\ world'.remote = world.remote
    BY <2>2, <2>5, <2>6 DEF Worlds
  <2>. QED
    BY <1>1, <1>6, <2>7 DEF There, Leaves, k, Delivering
<1>. QED
  BY <1>1, <1>2, <1>3, <1>4, <1>5, <1>6 DEF Kinds

LEMMA PerformInvariant ==
    ASSUME MEInv, OneProcess, NEW p \in Procs, Perform(p)
    PROVE  MEInv'
  BY PerformedFacts, PerformsInvariant DEF Perform, At

LEMMA CopySourceInvariant ==
    ASSUME MEInv, OneProcess, NEW p \in Procs, CopySource(p)
    PROVE  MEInv'
<1>1. world \in Worlds /\ local[p].at = "copy"
  BY Here DEF CopySource, At
<1>2. /\ world' \in Worlds /\ world'.workspace = "copied"
      /\ world'.branch = world.branch /\ world'.commits = world.commits
      /\ world'.prs = world.prs /\ world'.remote = world.remote
  BY <1>1 DEF CopySource, Worlds
<1>3. /\ \A x : There(x) => There(x)'
      /\ Leaves' => Leaves
  BY <1>2 DEF There, Leaves, CopySource
<1>. QED
  BY <1>1, <1>2, <1>3, PerformsInvariant DEF CopySource

LEMMA PerformRaisesInvariant ==
    ASSUME MEInv, OneProcess, NEW p \in Procs, PerformRaises(p)
    PROVE  MEInv'
<1>1. world \in Worlds /\ local[p].at \in {"perform", "copy"}
      /\ Goto(p, "uncertain") /\ UNCHANGED <<plan, oper, effects, docs, tasks, crashes>>
  BY Here DEF PerformRaises, At
<1>2. CASE world' = world
  <2>1. /\ \A x : There(x) => There(x)'
        /\ Leaves' => Leaves
    BY <1>1, <1>2 DEF There, Leaves
  <2>. QED
    BY <1>1, <1>2, <2>1, PerformsInvariant
<1>3. CASE At(p, "perform") /\ world' = Performed(p, local[p].kind)
  BY <1>1, <1>3, PerformedFacts, PerformsInvariant DEF At
<1>4. CASE world' = [world EXCEPT !.disturbed = TRUE]
  <2>1. /\ world' \in Worlds /\ world'.workspace = world.workspace
        /\ world'.branch = world.branch /\ world'.commits = world.commits
        /\ world'.prs = world.prs /\ world'.remote = world.remote
    BY <1>1, <1>4 DEF Worlds
  <2>2. /\ \A x : There(x) => There(x)'
        /\ Leaves' => Leaves
    BY <1>1, <2>1 DEF There, Leaves
  <2>. QED
    BY <1>1, <2>1, <2>2, PerformsInvariant
<1>. QED
  BY <1>2, <1>3, <1>4 DEF PerformRaises

-----------------------------------------------------------------------------
(* Steps that change the record of an effect.                               *)

Records == [state : EffectStates, identity : 0..MaxApprovals]

\* The operation does not have the effect of kind k yet.
Awaited(k) ==
    /\ k = "COMMIT" => ~oper.commit
    /\ k = "PUSH" => ~oper.pushed
    /\ k = "PR" => ~oper.pr

LEMMA EffectRecorded ==
    ASSUME MEInv, NEW k \in Kinds, NEW e \in Records, e.state # "ABSENT",
           effects' = [effects EXCEPT ![k] = e],
           UNCHANGED <<plan, oper, docs, tasks, world, crashes>>,
           k = "PUSH" => oper.commit, k = "PR" => oper.pushed,
           e.state = "COMPLETED" => There(k),
           e.state \in {"COMPLETED", "RECONCILIATION_REQUIRED"} \/ Awaited(k)
    PROVE  /\ TypeOK' /\ (world \in Worlds)' /\ Reviewed' /\ Delivery' /\ Exact'
           /\ effects'[k] = e
           /\ \A m : /\ Current(m) => Current(m)'
                     /\ Effecting(m) => Effecting(m)'
                     /\ Observed(m) /\ m.at # "advance" => Observed(m)'
                     /\ Reviewing(m) => Reviewing(m)'
<1>1. /\ effects \in [Kinds -> Records]
      /\ plan \in Plans /\ oper \in Operations /\ world \in Worlds
  BY DEF MEInv, Types, TypeOK, Records, EffectStates
<1>2. /\ effects' \in [Kinds -> Records]
      /\ effects'[k] = e /\ \A x \in Kinds \ {k} : effects'[x] = effects[x]
  BY <1>1
<1>3. TypeOK' /\ (world \in Worlds)'
  BY <1>2 DEF MEInv, Types, TypeOK, Records, EffectStates
<1>4. Reviewed'
  BY DEF MEInv, Reviewed, Leaves, InForce
<1>5. Delivery'
  <2>1. "COMMIT" \in Kinds /\ "PUSH" \in Kinds /\ "PR" \in Kinds
    BY DEF Kinds
  <2>2. /\ oper.commit => Ended("COMMIT")'
        /\ oper.pushed => Ended("PUSH")'
        /\ oper.pr => Ended("PR")'
    BY <1>2, <2>1 DEF MEInv, Delivery, Ended, Awaited
  <2>3. /\ effects'["PUSH"].state # "ABSENT" => oper.commit
        /\ effects'["PR"].state # "ABSENT" => oper.pushed
    BY <1>2, <2>1 DEF MEInv, Delivery
  <2>. QED
    BY <2>2, <2>3 DEF MEInv, Delivery
<1>6. \A x : There(x)' <=> There(x)
  BY DEF There
<1>7. Exact'
  BY <1>2, <1>6 DEF MEInv, Exact
<1>8. ASSUME NEW m
      PROVE  /\ Current(m) => Current(m)'
             /\ Effecting(m) => Effecting(m)'
             /\ Observed(m) /\ m.at # "advance" => Observed(m)'
             /\ Reviewing(m) => Reviewing(m)'
  <2>1. Current(m) => Current(m)'
    BY DEF Current
  <2>2. \A x \in Kinds : effects[x].state # "ABSENT" => effects'[x].state # "ABSENT"
    BY <1>2
  <2>3. "diverge" \notin Underway
    BY DEF Underway, Trying
  <2>4. Effecting(m) => Effecting(m)'
    <3>. HAVE Effecting(m)
    <3>1. /\ m.at \in Underway \cup Recorded \cup {"diverge"} => m.kind \in Kinds
          /\ m.at \in (Underway \cup Recorded \cup {"diverge"}) \ {"prepare"}
               => effects'[m.kind].state # "ABSENT"
      BY <2>2 DEF Effecting
    <3>2. m.reconciling =>
            \A x \in m.todo \cap Kinds : effects'[x].state # "ABSENT"
      BY <2>2 DEF Effecting
    <3>. QED
      BY <3>1, <3>2 DEF Effecting, InForce
  <2>5. Observed(m) /\ m.at # "advance" => Observed(m)'
    BY <1>6 DEF Observed
  <2>6. Reviewing(m) => Reviewing(m)'
    BY DEF Reviewing, InForce
  <2>. QED
    BY <2>1, <2>4, <2>5, <2>6
<1>. QED
  BY <1>2, <1>3, <1>4, <1>5, <1>7, <1>8

LEMMA UncertainInvariant ==
    ASSUME MEInv, OneProcess, NEW p \in Procs, Uncertain(p)
    PROVE  MEInv'
<1>. DEFINE k == local[p].kind
<1>1. /\ k \in Kinds /\ Awaited(k) /\ (k = "PUSH" => oper.commit)
      /\ (k = "PR" => oper.pushed)
  <2>1. local[p].at = "uncertain" /\ "uncertain" \in Underway
    BY DEF Uncertain, At, Underway
  <2>. QED
    BY <2>1, Here DEF Method, Effecting, Awaited
<1>2. PICK e : e = [effects[k] EXCEPT !.state = "UNCERTAIN"]
  OBVIOUS
<1>3. effects \in [Kinds -> Records]
  BY DEF MEInv, Types, TypeOK, Records, EffectStates
<1>4. e \in Records /\ e.state = "UNCERTAIN"
  BY <1>1, <1>2, <1>3 DEF Records, EffectStates
<1>5. effects' = [effects EXCEPT ![k] = e]
  BY <1>2 DEF Uncertain
<1>6. local' = [local EXCEPT ![p] = Idle] /\ UNCHANGED <<plan, oper, docs, tasks, world, crashes>>
  BY DEF Uncertain, Done
<1>. HIDE DEF k
<1>7. TypeOK' /\ (world \in Worlds)' /\ Reviewed' /\ Delivery' /\ Exact'
  BY <1>1, <1>4, <1>5, <1>6, EffectRecorded
<1>. QED
  BY <1>6, <1>7, IdleFields, IdleMethod, StepOf

LEMMA StartInvariant ==
    ASSUME MEInv, OneProcess, NEW p \in Procs, Start(p)
    PROVE  MEInv'
<1>. DEFINE m == local[p]
<1>. PICK n : n = Onward(m, "perform")
  OBVIOUS
<1>0. "perform" \in Steps /\ m \in Methods /\ Method(m) /\ m.at = "start"
      /\ Goto(p, "perform")
  BY Here DEF Start, At, Steps, Underway, Trying
<1>1. local' = [local EXCEPT ![p] = n]
  BY <1>0, GoesOnward
<1>2. /\ n \in Methods /\ n.at = "perform" /\ n.kind = m.kind /\ n.plan = m.plan
      /\ n.oper = m.oper /\ n.reconciling = m.reconciling /\ n.todo = m.todo
  BY <1>0, OnwardFields
<1>. DEFINE k == m.kind
<1>. HIDE DEF m
<1>3. Current(n)
  BY <1>0, <1>2 DEF Current, Method, Underway, Trying, Recorded
<1>4. Effecting(n)
  BY <1>0, <1>2 DEF Effecting, Method, Underway, Trying
<1>5. Observed(n) /\ Reviewing(n)
  BY <1>0, <1>2 DEF Observed, Reviewing, Method
<1>6. UNCHANGED <<plan, oper, docs, tasks, world, crashes>>
  BY DEF Start
<1>7. CASE effects' = effects
  <2>1. Method(n) /\ UNCHANGED documents /\ crashes' \in 0..MaxCrashes
    BY <1>3, <1>4, <1>5, <1>6, <1>7, Here DEF Method, documents
  <2>. QED
    BY <1>1, <1>2, <2>1, SteadyStep
<1>8. CASE effects' = [effects EXCEPT ![k].state = "IN_PROGRESS"]
  <2>1. /\ k \in Kinds /\ Awaited(k) /\ (k = "PUSH" => oper.commit)
        /\ (k = "PR" => oper.pushed)
    BY <1>0 DEF Method, Effecting, Awaited, Underway, Trying
  <2>2. PICK e : e = [effects[k] EXCEPT !.state = "IN_PROGRESS"]
    OBVIOUS
  <2>3. effects \in [Kinds -> Records]
    BY DEF MEInv, Types, TypeOK, Records, EffectStates
  <2>4. e \in Records /\ e.state = "IN_PROGRESS"
    BY <2>1, <2>2, <2>3 DEF Records, EffectStates
  <2>5. effects' = [effects EXCEPT ![k] = e]
    BY <1>8, <2>2
  <2>. HIDE DEF k
  <2>6. /\ TypeOK' /\ (world \in Worlds)' /\ Reviewed' /\ Delivery' /\ Exact'
        /\ \A x : /\ Current(x) => Current(x)'
                  /\ Effecting(x) => Effecting(x)'
                  /\ Observed(x) /\ x.at # "advance" => Observed(x)'
                  /\ Reviewing(x) => Reviewing(x)'
    BY <1>6, <2>1, <2>4, <2>5, EffectRecorded
  <2>7. Method(n)'
    BY <1>2, <1>3, <1>4, <1>5, <2>6 DEF Method
  <2>. QED
    BY <1>1, <1>2, <2>6, <2>7, StepOf
<1>. QED
  BY <1>7, <1>8 DEF Start, m

\* What the method keeps of the record it has loaded or made.
Holding(m, state) == [m EXCEPT !.at = "inspect", !.seen = state]

LEMMA HoldingFields ==
    ASSUME NEW m \in Methods, NEW state \in EffectStates
    PROVE  LET n == Holding(m, state)
           IN  /\ n \in Methods /\ n.at = "inspect" /\ n.kind = m.kind
               /\ n.plan = m.plan /\ n.oper = m.oper
               /\ n.reconciling = m.reconciling /\ n.todo = m.todo
<1>1. "inspect" \in Steps
  BY DEF Steps, Underway, Trying
<1>. QED
  BY <1>1 DEF Holding, Methods

\* The parts of Method, before and after the record exists.
LEMMA HoldingMethod ==
    ASSUME NEW m \in Methods, NEW state \in EffectStates, Method(m), m.at = "prepare"
    PROVE  LET n == Holding(m, state)
           IN  /\ Current(n) /\ Observed(n) /\ Reviewing(n)
               /\ effects[m.kind].state # "ABSENT" => Effecting(n)
<1>. DEFINE n == Holding(m, state)
<1>1. /\ n \in Methods /\ n.at = "inspect" /\ n.kind = m.kind
      /\ n.plan = m.plan /\ n.oper = m.oper
      /\ n.reconciling = m.reconciling /\ n.todo = m.todo
  BY HoldingFields
<1>. HIDE DEF n
<1>2. Current(n)
  BY <1>1 DEF Current, Method, Underway, Trying, Recorded
<1>3. Observed(n) /\ Reviewing(n)
  BY <1>1 DEF Observed, Reviewing
<1>4. effects[m.kind].state # "ABSENT" => Effecting(n)
  BY <1>1 DEF Effecting, Method, Underway, Trying
<1>. QED
  BY <1>2, <1>3, <1>4 DEF n

LEMMA PrepareInvariant ==
    ASSUME MEInv, OneProcess, NEW p \in Procs, Prepare(p)
    PROVE  MEInv'
<1>. DEFINE m == local[p]
            k == m.kind
            identity == IF k = "PR" THEN m.oper.approvals ELSE 0
<1>1. /\ m \in Methods /\ Method(m) /\ m.at = "prepare" /\ local \in [Procs -> Methods]
      /\ crashes \in 0..MaxCrashes
      /\ UNCHANGED <<plan, oper, docs, tasks, world, crashes>>
  BY Here DEF Prepare, At
<1>2. /\ k \in Kinds /\ ~m.reconciling /\ (k = "PUSH" => oper.commit)
      /\ (k = "PR" => oper.pushed) /\ m.at \in Underway /\ Awaited(k)
  BY <1>1 DEF Method, Effecting, Underway, Trying, Awaited
<1>3. effects \in [Kinds -> Records]
  BY DEF MEInv, Types, TypeOK, Records, EffectStates
<1>4. CASE effects[k].state = "ABSENT"
  <2>1. PICK e : e = [state |-> "PREPARED", identity |-> identity]
    OBVIOUS
  <2>2. e \in Records /\ e.state = "PREPARED" /\ "PREPARED" \in EffectStates
    <3>1. identity \in 0..MaxApprovals
      BY <1>1, Constants DEF Methods, Operations
    <3>. HIDE DEF identity
    <3>. QED
      BY <3>1, <2>1 DEF Records, EffectStates
  <2>3. effects' = [effects EXCEPT ![k] = e]
    BY <1>4, <2>1 DEF Prepare
  <2>. PICK n : n = Holding(m, "PREPARED")
    OBVIOUS
  <2>4. local' = [local EXCEPT ![p] = n]
    <3>1. Inspecting(p, "PREPARED")
      BY <1>4 DEF Prepare
    <3>. QED
      BY <1>1, <3>1 DEF Inspecting, Holding
  <2>5. /\ n \in Methods /\ n.at = "inspect" /\ n.kind = m.kind
        /\ n.reconciling = m.reconciling /\ n.todo = m.todo
    BY <1>1, <2>2, HoldingFields
  <2>6. Current(n) /\ Observed(n) /\ Reviewing(n)
    BY <1>1, <2>2, HoldingMethod
  <2>. HIDE DEF m, k
  <2>7. /\ TypeOK' /\ (world \in Worlds)' /\ Reviewed' /\ Delivery' /\ Exact'
        /\ effects'[k] = e
        /\ \A x : /\ Current(x) => Current(x)'
                  /\ Effecting(x) => Effecting(x)'
                  /\ Observed(x) /\ x.at # "advance" => Observed(x)'
                  /\ Reviewing(x) => Reviewing(x)'
    BY <1>1, <1>2, <2>2, <2>3, EffectRecorded
  <2>8. PICK x : x = m
    OBVIOUS
  <2>9. Effecting(n)'
    <3>1. Effecting(x)'
      BY <1>1, <2>7, <2>8 DEF Method
    <3>2. x.at = "prepare" /\ n.kind = x.kind /\ n.kind = k
          /\ n.reconciling = x.reconciling /\ n.todo = x.todo
      BY <1>1, <2>5, <2>8 DEF k
    <3>3. effects'[n.kind].state # "ABSENT"
      BY <2>2, <2>7, <3>2
    <3>. QED
      BY <2>5, <3>1, <3>2, <3>3 DEF Effecting, Underway, Trying
  <2>10. Method(n)'
    BY <2>5, <2>6, <2>7, <2>9 DEF Method
  <2>. QED
    BY <2>4, <2>5, <2>7, <2>10, StepOf
<1>5. CASE effects[k].state # "ABSENT"
  <2>0. UNCHANGED documents /\ crashes' = crashes
    BY <1>1, <1>5 DEF Prepare, documents
  <2>1. CASE Goto(p, "diverge")
    BY <1>2, <1>5, <2>0, <2>1, DivergeSteady
  <2>2. CASE Done(p)
    BY <1>1, <2>0, <2>2, DoneSteady
  <2>3. CASE Inspecting(p, effects[k].state)
    <3>1. effects[k].state \in EffectStates
      BY <1>2, <1>3 DEF Records
    <3>. DEFINE n == Holding(m, effects[k].state)
    <3>2. local' = [local EXCEPT ![p] = n] /\ n \in Methods
      BY <1>1, <2>3, <3>1, HoldingFields DEF Inspecting, Holding
    <3>3. Method(n)
      BY <1>1, <1>5, <3>1, HoldingMethod DEF Method
    <3>. HIDE DEF n
    <3>. QED
      BY <1>1, <2>0, <3>2, <3>3, SteadyStep
  <2>. QED
    BY <1>5, <2>1, <2>2, <2>3 DEF Prepare
<1>. QED
  BY <1>4, <1>5

LEMMA CompleteInvariant ==
    ASSUME MEInv, OneProcess, NEW p \in Procs, Complete(p)
    PROVE  MEInv'
<1>. DEFINE m == local[p]
            k == m.kind
<1>. PICK n : n = Onward(m, "advance")
  OBVIOUS
<1>0. "advance" \in Steps /\ m \in Methods /\ Method(m) /\ m.at = "complete"
      /\ Goto(p, "advance") /\ m.at \in Recorded
      /\ UNCHANGED <<plan, oper, docs, tasks, world, crashes>>
  BY Here DEF Complete, At, Steps, Recorded
<1>1. local' = [local EXCEPT ![p] = n]
  BY <1>0, GoesOnward
<1>2. /\ n \in Methods /\ n.at = "advance" /\ n.kind = k /\ n.plan = m.plan
      /\ n.oper = m.oper /\ n.reconciling = m.reconciling /\ n.todo = m.todo
      /\ n.found = m.found
  BY <1>0, OnwardFields
<1>3. k \in Kinds /\ effects[k].state # "ABSENT" /\ There(k)
  BY <1>0 DEF Method, Effecting, Observed
<1>4. (k = "PUSH" => oper.commit) /\ (k = "PR" => oper.pushed)
  BY <1>3 DEF MEInv, Delivery
<1>5. PICK e : e = [effects[k] EXCEPT !.state = "COMPLETED"]
  OBVIOUS
<1>6. effects \in [Kinds -> Records]
  BY DEF MEInv, Types, TypeOK, Records, EffectStates
<1>7. e \in Records /\ e.state = "COMPLETED"
  BY <1>3, <1>5, <1>6 DEF Records, EffectStates
<1>8. effects' = [effects EXCEPT ![k] = e]
  BY <1>5 DEF Complete
<1>. HIDE DEF m
<1>9. Current(n)
  BY <1>0, <1>2 DEF Current, Method, Underway, Trying, Recorded
<1>10. Effecting(n)
  BY <1>0, <1>2 DEF Effecting, Method, Underway, Trying, Recorded
<1>11. Reviewing(n)
  BY <1>2 DEF Reviewing
<1>. HIDE DEF k
<1>12. /\ TypeOK' /\ (world \in Worlds)' /\ Reviewed' /\ Delivery' /\ Exact'
       /\ effects'[k] = e
       /\ \A x : /\ Current(x) => Current(x)'
                 /\ Effecting(x) => Effecting(x)'
                 /\ Observed(x) /\ x.at # "advance" => Observed(x)'
                 /\ Reviewing(x) => Reviewing(x)'
  BY <1>0, <1>3, <1>4, <1>7, <1>8, EffectRecorded
<1>13. Observed(n)'
  BY <1>2, <1>7, <1>12 DEF Observed
<1>14. Method(n)'
  BY <1>9, <1>10, <1>11, <1>12, <1>13 DEF Method
<1>. QED
  BY <1>1, <1>2, <1>12, <1>14, StepOf

LEMMA DivergeEffectInvariant ==
    ASSUME MEInv, OneProcess, NEW p \in Procs, DivergeEffect(p)
    PROVE  MEInv'
<1>. DEFINE m == local[p]
            k == m.kind
<1>. PICK n : n = Onward(m, "diverge phase")
  OBVIOUS
<1>0. "diverge phase" \in Steps /\ m \in Methods /\ Method(m) /\ m.at = "diverge"
      /\ Goto(p, "diverge phase")
      /\ UNCHANGED <<plan, oper, docs, tasks, world, crashes>>
  BY Here DEF DivergeEffect, At, Steps, Ending
<1>1. local' = [local EXCEPT ![p] = n]
  BY <1>0, GoesOnward
<1>2. /\ n \in Methods /\ n.at = "diverge phase" /\ n.kind = k /\ n.plan = m.plan
      /\ n.oper = m.oper /\ n.reconciling = m.reconciling /\ n.todo = m.todo
  BY <1>0, OnwardFields
<1>3. k \in Kinds /\ effects[k].state # "ABSENT"
  BY <1>0 DEF Method, Effecting
<1>4. (k = "PUSH" => oper.commit) /\ (k = "PR" => oper.pushed)
  BY <1>3 DEF MEInv, Delivery
<1>5. PICK e : e = [effects[k] EXCEPT !.state = "RECONCILIATION_REQUIRED"]
  OBVIOUS
<1>6. effects \in [Kinds -> Records]
  BY DEF MEInv, Types, TypeOK, Records, EffectStates
<1>7. e \in Records /\ e.state = "RECONCILIATION_REQUIRED"
  BY <1>3, <1>5, <1>6 DEF Records, EffectStates
<1>8. effects' = [effects EXCEPT ![k] = e]
  BY <1>5 DEF DivergeEffect
<1>. HIDE DEF m
<1>9. Current(n)
  BY <1>0, <1>2 DEF Current, Method, Underway, Trying, Recorded, Ending
<1>10. Effecting(n)
  BY <1>0, <1>2 DEF Effecting, Method, Underway, Trying, Recorded, Ending
<1>11. Observed(n) /\ Reviewing(n)
  BY <1>2 DEF Observed, Reviewing
<1>. HIDE DEF k
<1>12. /\ TypeOK' /\ (world \in Worlds)' /\ Reviewed' /\ Delivery' /\ Exact'
       /\ \A x : /\ Current(x) => Current(x)'
                 /\ Effecting(x) => Effecting(x)'
                 /\ Observed(x) /\ x.at # "advance" => Observed(x)'
                 /\ Reviewing(x) => Reviewing(x)'
  BY <1>0, <1>3, <1>4, <1>7, <1>8, EffectRecorded
<1>13. Method(n)'
  BY <1>2, <1>9, <1>10, <1>11, <1>12 DEF Method
<1>. QED
  BY <1>1, <1>2, <1>12, <1>13, StepOf

-----------------------------------------------------------------------------
(* Steps that change the other documents.                                   *)

Documents ==
    [requested : BOOLEAN, mapped : SUBSET Tasks, workspace : BOOLEAN,
     accepted : SUBSET Tasks, gates : {"none", "passed", "failed"},
     evidence : 0..MaxEvidence]

\* The documents grow, before there is evidence or beside it.
LEMMA DocumentsGrow ==
    ASSUME MEInv, UNCHANGED <<plan, oper, effects, tasks, crashes>>,
           docs' \in Documents,
           docs'.evidence = docs.evidence,
           docs.mapped \subseteq docs'.mapped, docs.accepted \subseteq docs'.accepted,
           docs.workspace => docs'.workspace,
           docs'.gates = docs.gates \/ docs.evidence = 0,
           world' \in Worlds,
           world'.workspace = world.workspace, world'.branch = world.branch,
           world'.commits = world.commits, world'.prs = world.prs,
           world'.remote = world.remote
    PROVE  /\ TypeOK' /\ (world \in Worlds)' /\ Reviewed' /\ Delivery' /\ Exact'
           /\ \A m : Method(m) => Method(m)'
<1>1. TypeOK'
  BY DEF MEInv, Types, TypeOK, Worlds, Documents
<1>2. docs.evidence \in Nat /\ docs'.accepted \subseteq Tasks /\ docs'.mapped \subseteq Tasks
  BY Constants DEF MEInv, Types, TypeOK, Documents
<1>3. Reviewed'
  BY <1>2 DEF MEInv, Reviewed, Leaves, InForce
<1>4. Delivery'
  BY DEF MEInv, Delivery, Ended
<1>5. \A k : There(k) => There(k)'
  BY <1>2 DEF There
<1>6. Exact'
  BY <1>5 DEF MEInv, Exact
<1>7. ASSUME NEW m, Method(m)
      PROVE  Method(m)'
  <2>1. Current(m)'
    BY <1>7 DEF Method, Current
  <2>2. Effecting(m)'
    BY <1>7 DEF Method, Effecting, InForce
  <2>3. Reviewing(m)'
    BY <1>7 DEF Method, Reviewing, InForce
  <2>4. Observed(m)'
    BY <1>5, <1>7 DEF Method, Observed
  <2>. QED
    BY <2>1, <2>2, <2>3, <2>4 DEF Method
<1>. QED
  BY <1>1, <1>3, <1>4, <1>6, <1>7

\* A step of p that only lets the documents grow.
LEMMA GrowStep ==
    ASSUME MEInv, OneProcess, NEW p \in Procs, NEW n \in Methods,
           local' = [local EXCEPT ![p] = n], Method(n),
           UNCHANGED <<plan, oper, effects, tasks, world, crashes>>,
           docs' \in Documents,
           docs'.evidence = docs.evidence,
           docs.mapped \subseteq docs'.mapped, docs.accepted \subseteq docs'.accepted,
           docs.workspace => docs'.workspace,
           docs'.gates = docs.gates \/ docs.evidence = 0
    PROVE  MEInv'
<1>1. world' \in Worlds
  BY Here
<1>. QED
  BY <1>1, DocumentsGrow, StepOf

LEMMA StayMethod ==
    ASSUME MEInv, NEW p \in Procs, UNCHANGED local
    PROVE  local' = [local EXCEPT ![p] = local[p]] /\ local[p] \in Methods /\ Method(local[p])
  BY Here

LEMMA CreateRequestInvariant ==
    ASSUME MEInv, OneProcess, NEW p \in Procs, CreateRequest(p)
    PROVE  MEInv'
<1>1. docs \in Documents
  BY DEF MEInv, Types, TypeOK, Documents
<1>2. docs' = [docs EXCEPT !.requested = TRUE]
      /\ UNCHANGED <<plan, oper, effects, tasks, world, local, crashes>>
  BY DEF CreateRequest
<1>3. /\ docs' \in Documents
      /\ docs'.evidence = docs.evidence
      /\ docs.mapped \subseteq docs'.mapped /\ docs.accepted \subseteq docs'.accepted
      /\ docs.workspace => docs'.workspace
      /\ docs'.gates = docs.gates
  BY <1>1, <1>2 DEF Documents
<1>. QED
  BY <1>2, <1>3, StayMethod, GrowStep

LEMMA MapTaskInvariant ==
    ASSUME MEInv, OneProcess, NEW p \in Procs, MapTask(p)
    PROVE  MEInv'
<1>0. docs \in Documents
  BY DEF MEInv, Types, TypeOK, Documents
<1>1. ASSUME NEW t \in Tasks, docs' = [docs EXCEPT !.mapped = @ \cup {t}], UNCHANGED local
      PROVE  MEInv'
  <2>1. /\ docs' \in Documents
        /\ docs'.evidence = docs.evidence
        /\ docs.mapped \subseteq docs'.mapped /\ docs.accepted \subseteq docs'.accepted
        /\ docs.workspace => docs'.workspace
        /\ docs'.gates = docs.gates
    BY <1>0, <1>1 DEF Documents
  <2>. QED
    BY <1>1, <2>1, StayMethod, GrowStep DEF MapTask
<1>2. CASE docs.mapped = Tasks /\ Goto(p, "complete") /\ UNCHANGED docs
  <2>. DEFINE m == local[p]
              n == Onward(m, "complete")
  <2>1. "complete" \in Steps /\ m \in Methods /\ Method(m) /\ m.at = "map"
        /\ "complete" \in Recorded /\ "complete" \notin Underway
    BY Here DEF MapTask, At, Steps, Recorded, Underway, Trying
  <2>2. /\ n \in Methods /\ n.at = "complete" /\ n.kind = m.kind /\ n.plan = m.plan
        /\ n.oper = m.oper /\ n.reconciling = m.reconciling /\ n.todo = m.todo
    BY <2>1, OnwardFields
  <2>3. m.kind = "MAPPING" /\ ~m.reconciling
    BY <2>1 DEF Method, Observed, Effecting, Underway, Trying
  <2>. HIDE DEF m, n
  <2>4. Current(n)
    BY <2>1, <2>2, <2>3 DEF Current, Method, Underway, Trying
  <2>5. Effecting(n)
    BY <2>1, <2>2, <2>3 DEF Effecting, Method, Underway, Trying
  <2>6. Observed(n) /\ Reviewing(n)
    BY <1>2, <2>2, <2>3 DEF Observed, Reviewing, There
  <2>7. Method(n)
    BY <2>4, <2>5, <2>6 DEF Method
  <2>8. UNCHANGED documents /\ crashes' = crashes
    BY <1>2 DEF MapTask, documents
  <2>. QED
    BY <1>2, <2>1, <2>7, <2>8, GotoSteady DEF m, n
<1>. QED
  BY <1>1, <1>2 DEF MapTask

LEMMA RecordWorkspaceInvariant ==
    ASSUME MEInv, OneProcess, NEW p \in Procs, RecordWorkspace(p)
    PROVE  MEInv'
<1>. DEFINE m == local[p]
<1>. PICK n : n = Onward(m, "complete")
  OBVIOUS
<1>0. docs \in Documents
  BY DEF MEInv, Types, TypeOK, Documents
<1>1. "complete" \in Steps /\ m \in Methods /\ Method(m) /\ m.at = "record"
      /\ "complete" \in Recorded /\ "record" \in Recorded
      /\ "complete" \notin Underway /\ "record" \notin Underway
      /\ Goto(p, "complete") /\ UNCHANGED <<plan, oper, effects, tasks, world, crashes>>
  BY Here DEF RecordWorkspace, At, Steps, Recorded, Underway, Trying
<1>2. local' = [local EXCEPT ![p] = n]
  BY <1>1, GoesOnward
<1>3. /\ n \in Methods /\ n.at = "complete" /\ n.kind = m.kind /\ n.plan = m.plan
      /\ n.oper = m.oper /\ n.reconciling = m.reconciling /\ n.todo = m.todo
      /\ n.found = m.found
  BY <1>1, OnwardFields
<1>4. docs' = [docs EXCEPT !.workspace = TRUE]
  BY DEF RecordWorkspace
<1>5. /\ docs' \in Documents /\ docs'.workspace
      /\ docs'.evidence = docs.evidence
      /\ docs.mapped \subseteq docs'.mapped /\ docs.accepted \subseteq docs'.accepted
      /\ docs'.gates = docs.gates
  BY <1>0, <1>4 DEF Documents
<1>6. m.kind = "WORKSPACE" /\ world.workspace = "copied"
  BY <1>1 DEF Method, Observed
<1>7. world' \in Worlds
  BY <1>1, Here
<1>8. /\ TypeOK' /\ (world \in Worlds)' /\ Reviewed' /\ Delivery' /\ Exact'
      /\ \A x : Method(x) => Method(x)'
  BY <1>1, <1>5, <1>7, DocumentsGrow
<1>9. PICK x : x = m
  OBVIOUS
<1>10. Method(x)' /\ x.at = "record" /\ n.kind = x.kind /\ n.plan = x.plan
       /\ n.oper = x.oper /\ n.reconciling = x.reconciling /\ n.todo = x.todo
       /\ n.found = x.found
  BY <1>1, <1>3, <1>8, <1>9
<1>11. Current(n)'
  BY <1>1, <1>3, <1>10 DEF Current, Method
<1>12. Effecting(n)'
  BY <1>1, <1>3, <1>10 DEF Effecting, Method, Trying, Underway
<1>13. Observed(n)' /\ Reviewing(n)'
  BY <1>1, <1>3, <1>5, <1>6 DEF Observed, Reviewing, There
<1>14. Method(n)'
  BY <1>11, <1>12, <1>13 DEF Method
<1>. QED
  BY <1>2, <1>3, <1>8, <1>14, StepOf

LEMMA ProcessCodingResultInvariant ==
    ASSUME MEInv, OneProcess, NEW p \in Procs, ProcessCodingResult(p)
    PROVE  MEInv'
<1>. DEFINE m == local[p]
            t == m.task
            expected == Allowed(ResultPhases) /\ t \in oper.submitted
<1>0. /\ m \in Methods /\ Method(m) /\ m.at = "result" /\ t \in Tasks
      /\ local \in [Procs -> Methods] /\ plan \in Plans /\ oper \in Operations
      /\ world \in Worlds /\ crashes \in 0..MaxCrashes
      /\ UNCHANGED <<plan, oper, effects, tasks, crashes>>
  BY Here DEF ProcessCodingResult, At, Method, Reviewing
<1>1. docs \in Documents
  BY DEF MEInv, Types, TypeOK, Documents
<1>2. plan.status # "ABSENT" /\ oper.phase # "ABSENT"
  BY <1>0 DEF Method, Current
<1>3. ~m.reconciling
  BY <1>0 DEF Method, Effecting, Underway, Trying, Recorded, Ending
<1>4. CASE /\ expected /\ t \notin docs.accepted
           /\ docs' = [docs EXCEPT !.accepted = @ \cup {t}]
           /\ local' = [local EXCEPT ![p].at = "accepted", ![p].oper = oper]
           /\ UNCHANGED world
  <2>. DEFINE n == [m EXCEPT !.at = "accepted", !.oper = oper]
  <2>1. local' = [local EXCEPT ![p] = n]
    BY <1>0, <1>4
  <2>2. n \in Methods /\ n.at = "accepted" /\ n.oper = oper /\ n.reconciling = m.reconciling
    BY <1>0 DEF Methods, Steps, Other
  <2>3. /\ docs' \in Documents
        /\ docs'.evidence = docs.evidence
        /\ docs.mapped \subseteq docs'.mapped /\ docs.accepted \subseteq docs'.accepted
        /\ docs.workspace => docs'.workspace
        /\ docs'.gates = docs.gates
    BY <1>0, <1>1, <1>4 DEF Documents
  <2>. HIDE DEF n, m
  <2>4. Method(n)
    BY <1>2, <1>3, <2>2
       DEF Method, Current, Effecting, Observed, Reviewing, Underway, Trying, Recorded, Ending
  <2>. QED
    BY <1>0, <1>4, <2>1, <2>2, <2>3, <2>4, GrowStep
<1>5. CASE /\ local' = [local EXCEPT ![p].at = "diverge phase", ![p].plan = plan]
           /\ world' = [world EXCEPT !.disturbed = TRUE]
           /\ UNCHANGED docs
  <2>. PICK n : n = [m EXCEPT !.at = "diverge phase", !.plan = plan]
    OBVIOUS
  <2>1. local' = [local EXCEPT ![p] = n]
    BY <1>0, <1>5
  <2>2. n \in Methods /\ n.at = "diverge phase" /\ n.plan = plan
        /\ n.reconciling = m.reconciling
    BY <1>0 DEF Methods, Steps, Ending
  <2>3. /\ world' \in Worlds /\ world'.workspace = world.workspace
        /\ world'.branch = world.branch /\ world'.commits = world.commits
        /\ world'.prs = world.prs /\ world'.remote = world.remote
    BY <1>0, <1>5 DEF Worlds
  <2>4. Method(n)
    BY <1>2, <1>3, <2>2
       DEF Method, Current, Effecting, Observed, Reviewing, Underway, Trying, Recorded, Ending
  <2>5. /\ TypeOK' /\ (world \in Worlds)' /\ Reviewed' /\ Delivery' /\ Exact'
        /\ \A x : Method(x) => Method(x)'
    BY <1>0, <1>5, <2>3, Unnoticed
  <2>. QED
    BY <2>1, <2>2, <2>4, <2>5, StepOf
<1>6. CASE Done(p) /\ UNCHANGED <<docs, world>>
  <2>1. UNCHANGED documents
    BY <1>0, <1>6 DEF documents
  <2>. QED
    BY <1>0, <1>6, <2>1, DoneSteady
<1>. QED
  BY <1>4, <1>5, <1>6 DEF ProcessCodingResult

LEMMA RunQualityGatesInvariant ==
    ASSUME MEInv, OneProcess, NEW p \in Procs, RunQualityGates(p)
    PROVE  MEInv'
<1>. DEFINE m == local[p]
<1>0. /\ m \in Methods /\ Method(m) /\ m.at = "idle"
      /\ UNCHANGED <<plan, oper, effects, tasks, world, crashes>>
      /\ docs.gates = "none"
  BY Here DEF RunQualityGates, At
<1>1. docs \in Documents
  BY DEF MEInv, Types, TypeOK, Documents
<1>2. docs.evidence = 0
  BY <1>0, <1>1, Constants DEF MEInv, Reviewed, Documents
<1>3. plan.status # "ABSENT" /\ oper.phase # "ABSENT"
  BY AllowedFacts DEF RunQualityGates
<1>4. ASSUME NEW g \in {"passed", "failed"}, docs' = [docs EXCEPT !.gates = g]
      PROVE  /\ docs' \in Documents
             /\ docs'.evidence = docs.evidence
             /\ docs.mapped \subseteq docs'.mapped /\ docs.accepted \subseteq docs'.accepted
             /\ docs.workspace => docs'.workspace
  BY <1>1, <1>4 DEF Documents
<1>5. CASE docs' = [docs EXCEPT !.gates = "passed"] /\ Goto(p, "gated")
  <2>. DEFINE n == Onward(m, "gated")
  <2>1. "gated" \in Steps
    BY DEF Steps, Other
  <2>2. local' = [local EXCEPT ![p] = n]
    BY <1>5, <2>1, GoesOnward
  <2>3. n \in Methods /\ n.at = "gated" /\ n.reconciling = m.reconciling
    BY <1>0, <2>1, OnwardFields
  <2>4. ~m.reconciling
    BY <1>0 DEF Method, Effecting, Underway, Trying, Recorded, Ending
  <2>. HIDE DEF n
  <2>5. Method(n)
    BY <1>2, <1>3, <2>3, <2>4
       DEF Method, Current, Effecting, Observed, Reviewing, Underway, Trying, Recorded, Ending
  <2>. QED
    BY <1>0, <1>2, <1>4, <1>5, <2>2, <2>3, <2>5, GrowStep
<1>6. CASE docs' = [docs EXCEPT !.gates = "failed"] /\ UNCHANGED local
  BY <1>0, <1>2, <1>4, <1>6, StayMethod, GrowStep
<1>. QED
  BY <1>5, <1>6 DEF RunQualityGates

\* New evidence does not overtake an approval: there was none.
LEMMA GenerateReviewEvidenceInvariant ==
    ASSUME MEInv, OneProcess, NEW p \in Procs, GenerateReviewEvidence(p)
    PROVE  MEInv'
<1>0. /\ plan.status \notin Terminal \cup {"ABSENT"}
      /\ oper.phase = "QUALITY_GATES_COMPLETED"
      /\ docs.gates = "passed" /\ docs.accepted = Tasks
      /\ UNCHANGED <<plan, oper, effects, tasks, world, crashes>>
  BY AllowedFacts DEF GenerateReviewEvidence, Covered
<1>1. docs \in Documents /\ docs.evidence \in Nat /\ plan \in Plans /\ oper \in Operations
  BY Constants DEF MEInv, Types, TypeOK, Documents
<1>2. docs' = [docs EXCEPT !.evidence = @ + 1]
  BY DEF GenerateReviewEvidence
<1>3. /\ docs' \in Documents /\ docs'.evidence = docs.evidence + 1
      /\ docs'.mapped = docs.mapped /\ docs'.accepted = docs.accepted
      /\ docs'.workspace = docs.workspace /\ docs'.gates = docs.gates
  <2>1. docs.evidence + 1 \in 0..MaxEvidence
    BY <1>1, Constants DEF GenerateReviewEvidence
  <2>. QED
    BY <1>1, <1>2, <2>1 DEF Documents
<1>4. "evidence" \in Steps /\ "NONE" \in Kinds \cup {"NONE"}
      /\ "evidence" \notin Underway \cup Recorded \cup Ending
  BY DEF Steps, Other, Underway, Trying, Recorded, Ending
<1>. PICK n : n = Begun("evidence", "NONE")
  OBVIOUS
<1>5. /\ n \in Methods /\ n.at = "evidence" /\ n.plan = plan
      /\ n.oper = oper /\ ~n.reconciling
  BY <1>4, BegunFields
<1>6. local' = [local EXCEPT ![p] = n]
  BY DEF GenerateReviewEvidence, Begin, Begun
<1>7. plan.reviewed = 0 /\ plan.status # "REVIEW_REQUIRED" /\ ~Leaves
  <2>1. plan.reviewed = 0 /\ plan.status # "REVIEW_REQUIRED"
    BY <1>0 DEF MEInv, Reviewed
  <2>. QED
    BY <1>1, <2>1 DEF MEInv, Reviewed, InForce
<1>8. TypeOK' /\ (world \in Worlds)'
  BY <1>0, <1>3 DEF MEInv, Types, TypeOK, Documents
<1>9. Reviewed'
  BY <1>0, <1>1, <1>3, <1>7 DEF MEInv, Reviewed, Leaves
<1>10. Delivery'
  BY <1>0 DEF MEInv, Delivery, Ended
<1>11. Exact'
  BY <1>0, <1>3 DEF MEInv, Exact, There
<1>12. Current(n)'
  BY <1>0, <1>4, <1>5 DEF Current
<1>13. Effecting(n)'
  BY <1>0, <1>4, <1>5 DEF Effecting, Ending, Underway
<1>15. Observed(n)'
  BY <1>5 DEF Observed
<1>17. docs'.evidence > 0 /\ plan'.reviewed = 0 /\ plan'.status \notin Terminal
  BY <1>0, <1>1, <1>3, <1>7
<1>16. Reviewing(n)'
  BY <1>5, <1>17 DEF Reviewing
<1>14. Method(n)'
  BY <1>12, <1>13, <1>15, <1>16 DEF Method
<1>. QED
  BY <1>5, <1>6, <1>8, <1>9, <1>10, <1>11, <1>14, StepOf

-----------------------------------------------------------------------------
(* Steps that change the status of tasks.                                   *)

LEMMA TasksGoOn ==
    ASSUME MEInv, OneProcess, NEW p \in Procs, NEW n \in Methods,
           local' = [local EXCEPT ![p] = n], Method(n),
           tasks' \in [Tasks -> {"TODO", "IN_PROGRESS", "DONE", "BLOCKED"}],
           (\E t \in Tasks : tasks'[t] = "DONE")
              => InForce \/ \E t \in Tasks : tasks[t] = "DONE",
           UNCHANGED <<plan, oper, effects, docs, world, crashes>>
    PROVE  MEInv'
<1>1. TypeOK' /\ (world \in Worlds)'
  BY DEF MEInv, Types, TypeOK
<1>2. Reviewed'
  BY DEF MEInv, Reviewed, Leaves, InForce
<1>3. Delivery'
  BY DEF MEInv, Delivery, Ended
<1>4. Exact'
  BY DEF MEInv, Exact, There
<1>5. Method(n)'
  <2>1. Current(n)'
    BY DEF Method, Current
  <2>2. Effecting(n)'
    BY DEF Method, Effecting, InForce
  <2>3. Observed(n)'
    BY DEF Method, Observed, There
  <2>4. Reviewing(n)'
    BY DEF Method, Reviewing, InForce
  <2>. QED
    BY <2>1, <2>2, <2>3, <2>4 DEF Method
<1>. QED
  BY <1>1, <1>2, <1>3, <1>4, <1>5, StepOf

LEMMA TasksInvariant ==
    ASSUME MEInv, OneProcess, NEW p \in Procs,
           \/ StartTask(p) \/ CompleteTasks(p)
           \/ \E t \in Tasks : FailedCodingResult(p, t)
    PROVE  MEInv'
<1>1. tasks \in [Tasks -> {"TODO", "IN_PROGRESS", "DONE", "BLOCKED"}]
  BY DEF MEInv, Types, TypeOK
<1>2. Idle \in Methods /\ Method(Idle) /\ ~Idle.reconciling
  BY IdleFields, IdleMethod
<1>3. CASE StartTask(p)
  <2>. DEFINE t == local[p].task
  <2>1. t \in Tasks
    BY <1>3, Here DEF StartTask, At, Method, Reviewing
  <2>. HIDE DEF t
  <2>2. tasks' = [tasks EXCEPT ![t] = IF @ = "TODO" THEN "IN_PROGRESS" ELSE @]
    BY <1>3 DEF StartTask, t
  <2>3. /\ tasks' \in [Tasks -> {"TODO", "IN_PROGRESS", "DONE", "BLOCKED"}]
        /\ \A x \in Tasks : tasks'[x] = "DONE" => tasks[x] = "DONE"
    BY <1>1, <2>1, <2>2
  <2>. QED
    BY <1>2, <1>3, <2>3, TasksGoOn DEF StartTask, Done
<1>4. CASE CompleteTasks(p)
  <2>1. InForce
    BY <1>4, Here DEF CompleteTasks, At, Method, Reviewing
  <2>2. tasks' \in [Tasks -> {"TODO", "IN_PROGRESS", "DONE", "BLOCKED"}]
    BY <1>1, <1>4 DEF CompleteTasks
  <2>. QED
    BY <1>2, <1>4, <2>1, <2>2, TasksGoOn DEF CompleteTasks, Done
<1>5. ASSUME NEW t \in Tasks, FailedCodingResult(p, t)
      PROVE  MEInv'
  <2>1. tasks' = [tasks EXCEPT ![t] = IF @ \in {"TODO", "IN_PROGRESS"} THEN "BLOCKED" ELSE @]
    BY <1>5 DEF FailedCodingResult
  <2>2. /\ tasks' \in [Tasks -> {"TODO", "IN_PROGRESS", "DONE", "BLOCKED"}]
        /\ \A x \in Tasks : tasks'[x] = "DONE" => tasks[x] = "DONE"
    BY <1>1, <2>1
  <2>. DEFINE n == [Idle EXCEPT !.at = "fail"]
  <2>3. n \in Methods /\ n.at = "fail" /\ ~n.reconciling
    BY <1>2 DEF Methods, Steps, Other
  <2>4. plan.status # "ABSENT" /\ oper.phase # "ABSENT"
    BY <1>5, AllowedFacts DEF FailedCodingResult, ResultPhases
  <2>5. local' = [local EXCEPT ![p] = n]
    BY <1>5 DEF FailedCodingResult
  <2>. HIDE DEF n
  <2>6. Method(n)
    BY <2>3, <2>4
       DEF Method, Current, Effecting, Observed, Reviewing, Underway, Trying, Recorded, Ending
  <2>. QED
    BY <1>5, <2>2, <2>3, <2>5, <2>6, TasksGoOn DEF FailedCodingResult
<1>. QED
  BY <1>3, <1>4, <1>5

-----------------------------------------------------------------------------
(* Steps that change the operation.                                         *)

\* What is sound about the documents and the world does not depend on more of
\* the operation than Delivery says, and QUALITY_GATES_COMPLETED comes first.
LEMMA OperationGoesOn ==
    ASSUME MEInv, oper' \in Operations, oper'.phase # "ABSENT",
           oper'.phase = "QUALITY_GATES_COMPLETED" =>
              plan.reviewed = 0 /\ plan.status # "REVIEW_REQUIRED",
           UNCHANGED <<plan, effects, docs, tasks, world, crashes>>
    PROVE  /\ TypeOK' /\ (world \in Worlds)' /\ Reviewed' /\ Exact'
           /\ \A m : /\ Method(m)
                     /\ m.at \in {"idle", "reconcile", "start task", "diverge plan",
                                  "complete tasks"}
                     => Method(m)'
<1>1. TypeOK' /\ (world \in Worlds)'
  BY DEF MEInv, Types, TypeOK
<1>2. Reviewed'
  BY DEF MEInv, Reviewed, Leaves, InForce
<1>3. Exact'
  BY DEF MEInv, Exact, There
<1>4. ASSUME NEW m, Method(m),
             m.at \in {"idle", "reconcile", "start task", "diverge plan", "complete tasks"}
      PROVE  Method(m)'
  <2>1. m.at \notin Underway \cup Recorded /\ (m.at \in Ending => m.at = "diverge plan")
    BY <1>4 DEF Underway, Trying, Recorded, Ending
  <2>2. Current(m)'
    BY <1>4, <2>1 DEF Method, Current
  <2>3. Effecting(m)'
    BY <1>4, <2>1 DEF Method, Effecting, Underway
  <2>4. Observed(m)' /\ Reviewing(m)'
    BY <1>4 DEF Method, Observed, Reviewing, InForce
  <2>. QED
    BY <2>2, <2>3, <2>4 DEF Method
<1>. QED
  BY <1>1, <1>2, <1>3, <1>4

LEMMA DeliveryKept ==
    ASSUME MEInv, oper.phase # "ABSENT", oper'.phase # "ABSENT",
           oper'.commit = oper.commit, oper'.pushed = oper.pushed, oper'.pr = oper.pr,
           UNCHANGED <<plan, effects, docs>>
    PROVE  Delivery'
<1>1. plan.status # "ABSENT"
  BY IdleFields DEF MEInv, Delivery
<1>. QED
  BY <1>1 DEF MEInv, Delivery, Ended

LEMMA EarlyReview ==
    ASSUME MEInv, docs.evidence = 0
    PROVE  plan.reviewed = 0 /\ plan.status # "REVIEW_REQUIRED"
<1>1. ~(docs.evidence > 0)
  BY SMT
<1>. QED
  BY <1>1 DEF MEInv, Reviewed

\* The method has moved the operation to a phase, and returns.
LEMMA PhaseStep ==
    ASSUME MEInv, OneProcess, NEW p \in Procs, NEW n \in Methods,
           NEW phase \in Phases \ {"ABSENT"},
           oper' = [oper EXCEPT !.phase = phase],
           oper.phase # "ABSENT",
           phase = "QUALITY_GATES_COMPLETED" => docs.evidence = 0,
           local' = [local EXCEPT ![p] = n], Method(n),
           n.at \in {"idle", "diverge plan"},
           UNCHANGED <<plan, effects, docs, tasks, world, crashes>>
    PROVE  MEInv'
<1>1. oper \in Operations
  BY Here
<1>2. /\ oper' \in Operations /\ oper'.phase = phase
      /\ oper'.commit = oper.commit /\ oper'.pushed = oper.pushed /\ oper'.pr = oper.pr
  BY <1>1 DEF Operations
<1>3. phase = "QUALITY_GATES_COMPLETED" => plan.reviewed = 0 /\ plan.status # "REVIEW_REQUIRED"
  BY EarlyReview
<1>4. Delivery'
  BY <1>2, DeliveryKept
<1>. QED
  BY <1>2, <1>3, <1>4, OperationGoesOn, StepOf

\* The methods whose last step moves the operation to a phase.
LEMMA PhasesInvariant ==
    ASSUME MEInv, OneProcess, NEW p \in Procs,
           \/ AcceptedOperation(p) \/ FailOperation(p) \/ GatedOperation(p)
           \/ CancelOperation(p) \/ DivergePhase(p)
    PROVE  MEInv'
<1>. DEFINE m == local[p]
<1>0. m \in Methods /\ Method(m) /\ Idle \in Methods /\ Method(Idle) /\ Idle.at = "idle"
      /\ UNCHANGED <<plan, effects, docs, tasks, world, crashes>>
  BY Here, IdleFields, IdleMethod
     DEF AcceptedOperation, FailOperation, GatedOperation, CancelOperation, DivergePhase
<1>1. m.at \in {"accepted", "fail", "gated", "cancelled", "diverge phase"}
  BY DEF AcceptedOperation, FailOperation, GatedOperation, CancelOperation, DivergePhase, At
<1>2. oper.phase # "ABSENT"
  BY <1>0, <1>1 DEF Method, Current
<1>3. CASE AcceptedOperation(p)
  <2>1. m.oper = oper
    BY <1>0, <1>3 DEF Method, Current, AcceptedOperation, At
  <2>. QED
    BY <1>0, <1>2, <1>3, <2>1, PhaseStep DEF AcceptedOperation, Done, Phases
<1>4. CASE FailOperation(p)
  BY <1>0, <1>2, <1>4, PhaseStep DEF FailOperation, Done, Phases
<1>5. CASE GatedOperation(p)
  <2>1. docs.evidence = 0
    BY <1>0, <1>5 DEF Method, Reviewing, GatedOperation, At
  <2>. QED
    BY <1>0, <1>2, <1>5, <2>1, PhaseStep DEF GatedOperation, Done, Phases
<1>6. CASE CancelOperation(p)
  BY <1>0, <1>2, <1>6, PhaseStep DEF CancelOperation, Done, Phases
<1>7. CASE DivergePhase(p)
  <2>. DEFINE n == Onward(m, "diverge plan")
  <2>1. "diverge plan" \in Steps /\ m.at = "diverge phase"
    BY <1>7 DEF Steps, Ending, DivergePhase, At
  <2>2. local' = [local EXCEPT ![p] = n]
    BY <1>7, <2>1, GoesOnward DEF DivergePhase
  <2>3. /\ n \in Methods /\ n.at = "diverge plan" /\ n.plan = m.plan
        /\ n.oper = m.oper /\ n.reconciling = m.reconciling /\ n.todo = m.todo
    BY <1>0, <2>1, OnwardFields
  <2>. HIDE DEF m, n
  <2>4. Current(n)
    BY <1>0, <2>1, <2>3 DEF Current, Method, Underway, Trying, Recorded, Ending
  <2>5. Effecting(n)
    BY <1>0, <2>1, <2>3 DEF Effecting, Method, Underway, Trying, Recorded, Ending
  <2>6. Observed(n) /\ Reviewing(n)
    BY <2>3 DEF Observed, Reviewing
  <2>7. Method(n)
    BY <2>4, <2>5, <2>6 DEF Method
  <2>. QED
    BY <1>0, <1>2, <1>7, <2>2, <2>3, <2>7, PhaseStep DEF DivergePhase, Phases
<1>. QED
  BY <1>3, <1>4, <1>5, <1>6, <1>7

LEMMA GenerateOperationInvariant ==
    ASSUME MEInv, OneProcess, NEW p \in Procs, GenerateOperation(p)
    PROVE  MEInv'
<1>1. oper = NoOperation /\ plan.status # "ABSENT"
  BY Here DEF GenerateOperation, At, Method, Current
<1>2. /\ oper' \in Operations /\ oper'.phase = "PREPARED"
      /\ oper'.commit = oper.commit /\ oper'.pushed = oper.pushed /\ oper'.pr = oper.pr
  BY <1>1, IdleFields DEF GenerateOperation, Operations, Phases
<1>3. UNCHANGED <<plan, effects, docs, tasks, world, crashes>>
  BY DEF GenerateOperation
<1>4. Delivery'
  BY <1>1, <1>2, <1>3 DEF MEInv, Delivery, Ended
<1>. QED
  BY <1>2, <1>3, <1>4, OperationGoesOn, StepOf, IdleFields, IdleMethod
     DEF GenerateOperation, Done

\* The methods whose next step depends on what the operation has become.
LEMMA FinishInvariant ==
    ASSUME MEInv, OneProcess, NEW p \in Procs, Finish(p)
    PROVE  MEInv'
<1>. DEFINE m == local[p]
<1>. PICK n : n = Onward(m, "succeed")
  OBVIOUS
<1>1. "succeed" \in Steps /\ m \in Methods /\ Method(m) /\ m.at = "finish"
      /\ Goto(p, "succeed") /\ UNCHANGED <<plan, effects, docs, tasks, world, crashes>>
  BY Here DEF Finish, At, Steps, Ending
<1>2. local' = [local EXCEPT ![p] = n]
  BY <1>1, GoesOnward
<1>3. /\ n \in Methods /\ n.at = "succeed" /\ n.kind = m.kind /\ n.plan = m.plan
      /\ n.reconciling = m.reconciling /\ n.todo = m.todo
  BY <1>1, OnwardFields
<1>4. m.oper = oper /\ oper.pr /\ oper.phase # "ABSENT" /\ plan.status # "ABSENT"
  BY <1>1 DEF Method, Current, Observed
<1>5. oper \in Operations
  BY Here
<1>6. /\ oper' \in Operations /\ oper'.phase = "COMPLETED"
      /\ oper'.commit = oper.commit /\ oper'.pushed = oper.pushed /\ oper'.pr = oper.pr
  BY <1>4, <1>5 DEF Finish, Operations, Phases
<1>7. Delivery'
  BY <1>1, <1>4, <1>6, DeliveryKept
<1>8. m.at \in Ending /\ "succeed" \in Ending
      /\ "succeed" \notin Underway \cup Recorded
  BY <1>1 DEF Underway, Trying, Recorded, Ending
<1>. HIDE DEF m
<1>9. Current(n)'
  BY <1>1, <1>3, <1>4, <1>6, <1>8 DEF Current, Method
<1>10. Effecting(n)'
  BY <1>1, <1>3, <1>4, <1>6, <1>8 DEF Effecting, Method, Underway
<1>11. Observed(n)' /\ Reviewing(n)'
  BY <1>3, <1>4, <1>6 DEF Observed, Reviewing
<1>12. Method(n)'
  BY <1>9, <1>10, <1>11 DEF Method
<1>. QED
  BY <1>1, <1>2, <1>3, <1>6, <1>7, <1>12, OperationGoesOn, StepOf

LEMMA EvidenceOperationInvariant ==
    ASSUME MEInv, OneProcess, NEW p \in Procs, EvidenceOperation(p)
    PROVE  MEInv'
<1>. DEFINE m == local[p]
<1>. PICK n : n = Onward(m, "evidence plan")
  OBVIOUS
<1>1. "evidence plan" \in Steps /\ m \in Methods /\ Method(m) /\ m.at = "evidence"
      /\ Goto(p, "evidence plan") /\ UNCHANGED <<plan, effects, docs, tasks, world, crashes>>
  BY Here DEF EvidenceOperation, At, Steps, Other
<1>2. local' = [local EXCEPT ![p] = n]
  BY <1>1, GoesOnward
<1>3. /\ n \in Methods /\ n.at = "evidence plan" /\ n.plan = m.plan
      /\ n.reconciling = m.reconciling /\ n.todo = m.todo
  BY <1>1, OnwardFields
<1>4. /\ oper.phase # "ABSENT" /\ plan.status # "ABSENT"
      /\ docs.evidence > 0 /\ plan.status \notin Terminal /\ plan.reviewed = 0
      /\ m.plan.approved = plan.approved /\ m.plan.reviewed = plan.reviewed
  BY <1>1 DEF Method, Current, Reviewing
<1>5. oper \in Operations
  BY Here
<1>6. /\ oper' \in Operations /\ oper'.phase = "REVIEW_REQUIRED"
      /\ oper'.commit = oper.commit /\ oper'.pushed = oper.pushed /\ oper'.pr = oper.pr
  BY <1>5 DEF EvidenceOperation, Operations, Phases
<1>7. Delivery'
  BY <1>1, <1>4, <1>6, DeliveryKept
<1>8. ~m.reconciling /\ "evidence plan" \notin Underway \cup Recorded \cup Ending
  BY <1>1 DEF Method, Effecting, Underway, Trying, Recorded, Ending
<1>. HIDE DEF m
<1>9. Current(n)'
  BY <1>1, <1>3, <1>4, <1>6, <1>8 DEF Current
<1>10. Effecting(n)'
  BY <1>3, <1>8 DEF Effecting, Underway, Ending
<1>11. Observed(n)'
  BY <1>3 DEF Observed
<1>12. Reviewing(n)'
  BY <1>1, <1>3, <1>4, <1>6 DEF Reviewing
<1>13. Method(n)'
  BY <1>9, <1>10, <1>11, <1>12 DEF Method
<1>. QED
  BY <1>1, <1>2, <1>3, <1>6, <1>7, <1>13, OperationGoesOn, StepOf

LEMMA OneMore ==
    ASSUME NEW b \in Nat, NEW a \in 0..b, a < b
    PROVE  a + 1 \in 0..b
  OBVIOUS

LEMMA ApprovedOperationInvariant ==
    ASSUME MEInv, OneProcess, NEW p \in Procs, ApprovedOperation(p)
    PROVE  MEInv'
<1>. DEFINE m == local[p]
<1>. PICK n : n = Onward(m, "complete tasks")
  OBVIOUS
<1>1. "complete tasks" \in Steps /\ m \in Methods /\ Method(m) /\ m.at = "approved"
      /\ Goto(p, "complete tasks") /\ UNCHANGED <<plan, effects, docs, tasks, world, crashes>>
  BY Here DEF ApprovedOperation, At, Steps, Other
<1>2. local' = [local EXCEPT ![p] = n]
  BY <1>1, GoesOnward
<1>3. n \in Methods /\ n.at = "complete tasks" /\ n.reconciling = m.reconciling
  BY <1>1, OnwardFields
<1>4. /\ oper.phase # "ABSENT" /\ plan.status # "ABSENT"
      /\ InForce /\ oper.approvals < MaxApprovals
  BY <1>1 DEF Method, Current, Reviewing
<1>5. oper \in Operations
  BY Here
<1>6. PICK o : o = [oper EXCEPT !.phase = "REVIEW_APPROVED"]
  OBVIOUS
<1>7. /\ o \in Operations /\ o.phase = "REVIEW_APPROVED" /\ o.approvals = oper.approvals
      /\ o.commit = oper.commit /\ o.pushed = oper.pushed /\ o.pr = oper.pr
  BY <1>5, <1>6 DEF Operations, Phases
<1>8. oper' = [o EXCEPT !.approvals = oper.approvals + 1]
  BY <1>6 DEF ApprovedOperation
<1>9. oper.approvals + 1 \in 0..MaxApprovals
  <2>1. oper.approvals \in 0..MaxApprovals
    BY <1>5 DEF Operations
  <2>2. MaxApprovals \in Nat
    BY Constants
  <2>3. oper.approvals < MaxApprovals
    BY <1>4
  <2>. QED
    BY <2>1, <2>2, <2>3, OneMore
<1>10. /\ oper' \in Operations /\ oper'.phase = "REVIEW_APPROVED"
       /\ oper'.commit = oper.commit /\ oper'.pushed = oper.pushed /\ oper'.pr = oper.pr
  BY <1>7, <1>8, <1>9 DEF Operations
<1>11. Delivery'
  BY <1>1, <1>4, <1>10, DeliveryKept
<1>12. ~m.reconciling
  BY <1>1 DEF Method, Effecting, Underway, Trying, Recorded, Ending
<1>13. InForce'
  BY <1>1, <1>4 DEF InForce
<1>. HIDE DEF m
<1>14. Method(n)'
  BY <1>1, <1>3, <1>4, <1>10, <1>12, <1>13
     DEF Method, Current, Effecting, Observed, Reviewing, Underway, Trying, Recorded, Ending
<1>. QED
  BY <1>1, <1>2, <1>3, <1>10, <1>11, <1>14, OperationGoesOn, StepOf

LEMMA SubmitCodingTaskInvariant ==
    ASSUME MEInv, OneProcess, NEW p \in Procs, NEW t \in Tasks, SubmitCodingTask(p, t)
    PROVE  MEInv'
<1>1. /\ plan.status # "ABSENT" /\ oper.phase # "ABSENT"
      /\ oper.phase # "QUALITY_GATES_COMPLETED"
  BY AllowedFacts DEF SubmitCodingTask
<1>2. oper \in Operations
  BY Here
<1>3. /\ oper' \in Operations
      /\ oper'.phase \notin {"ABSENT", "QUALITY_GATES_COMPLETED"}
      /\ oper'.commit = oper.commit /\ oper'.pushed = oper.pushed /\ oper'.pr = oper.pr
  <2>1. CASE oper' = oper
    BY <1>1, <1>2, <2>1
  <2>2. CASE oper' = [oper EXCEPT !.submitted = @ \cup {t}, !.phase = "CODING_SUBMITTED"]
    <3>1. PICK o : o = [oper EXCEPT !.submitted = @ \cup {t}]
      OBVIOUS
    <3>2. /\ o \in Operations
          /\ o.commit = oper.commit /\ o.pushed = oper.pushed /\ o.pr = oper.pr
      BY <1>2, <3>1 DEF Operations
    <3>3. oper' = [o EXCEPT !.phase = "CODING_SUBMITTED"]
      BY <2>2, <3>1
    <3>. QED
      BY <3>2, <3>3 DEF Operations, Phases
  <2>. QED
    BY <2>1, <2>2 DEF SubmitCodingTask
<1>4. UNCHANGED <<plan, effects, docs, tasks, world, crashes>>
  BY DEF SubmitCodingTask
<1>5. Delivery'
  BY <1>1, <1>3, <1>4, DeliveryKept
<1>. DEFINE n == [Idle EXCEPT !.at = "start task", !.task = t]
<1>6. local' = [local EXCEPT ![p] = n]
  BY DEF SubmitCodingTask
<1>7. n \in Methods /\ n.at = "start task" /\ n.task = t /\ ~n.reconciling
  BY IdleFields DEF Methods, Steps, Other
<1>. HIDE DEF n
<1>8. Method(n)
  BY <1>1, <1>7
     DEF Method, Current, Effecting, Observed, Reviewing, Underway, Trying, Recorded, Ending
<1>. QED
  BY <1>3, <1>4, <1>5, <1>6, <1>7, <1>8, OperationGoesOn, StepOf

\* The operation with the effect of kind k.
LEMMA AdvancedFacts ==
    ASSUME NEW k \in Kinds, NEW o \in Operations
    PROVE  /\ Advanced(k, o) \in Operations
           /\ Advanced(k, o).phase \notin {"ABSENT", "QUALITY_GATES_COMPLETED"}
           /\ Advanced(k, o).commit <=> o.commit \/ k = "COMMIT"
           /\ Advanced(k, o).pushed <=> o.pushed \/ k = "PUSH"
           /\ Advanced(k, o).pr <=> o.pr \/ k = "PR"
<1>1. CASE k \in {"MAPPING", "WORKSPACE", "BRANCH"}
  <2>1. /\ Advanced("MAPPING", o) = [o EXCEPT !.phase = "RUNTIME_CREATED"]
        /\ Advanced("WORKSPACE", o) = [o EXCEPT !.phase = "WORKSPACE_READY"]
        /\ Advanced("BRANCH", o) = [o EXCEPT !.phase = "BRANCH_READY"]
    BY DEF Advanced
  <2>2. PICK s \in {"RUNTIME_CREATED", "WORKSPACE_READY", "BRANCH_READY"} :
          Advanced(k, o) = [o EXCEPT !.phase = s]
    BY <1>1, <2>1
  <2>. QED
    BY <1>1, <2>2 DEF Operations, Phases
<1>2. CASE k = "COMMIT"
  <2>1. Advanced("COMMIT", o) = [o EXCEPT !.phase = "COMMIT_CREATED", !.commit = TRUE]
    BY DEF Advanced
  <2>2. PICK x : x = [o EXCEPT !.phase = "COMMIT_CREATED"]
    OBVIOUS
  <2>3. /\ x \in Operations /\ x.phase = "COMMIT_CREATED" /\ x.commit = o.commit
        /\ x.pushed = o.pushed /\ x.pr = o.pr
    BY <2>2 DEF Operations, Phases
  <2>4. Advanced(k, o) = [x EXCEPT !.commit = TRUE]
    BY <1>2, <2>1, <2>2
  <2>. QED
    BY <1>2, <2>3, <2>4 DEF Operations
<1>3. CASE k = "PUSH"
  <2>1. Advanced("PUSH", o) = [o EXCEPT !.phase = "PUSH_COMPLETED", !.pushed = TRUE]
    BY DEF Advanced
  <2>2. PICK x : x = [o EXCEPT !.phase = "PUSH_COMPLETED"]
    OBVIOUS
  <2>3. /\ x \in Operations /\ x.phase = "PUSH_COMPLETED" /\ x.commit = o.commit
        /\ x.pushed = o.pushed /\ x.pr = o.pr
    BY <2>2 DEF Operations, Phases
  <2>4. Advanced(k, o) = [x EXCEPT !.pushed = TRUE]
    BY <1>3, <2>1, <2>2
  <2>. QED
    BY <1>3, <2>3, <2>4 DEF Operations
<1>4. CASE k = "PR"
  <2>1. Advanced("PR", o) = [o EXCEPT !.phase = "PR_CREATED", !.pr = TRUE]
    BY DEF Advanced
  <2>2. PICK x : x = [o EXCEPT !.phase = "PR_CREATED"]
    OBVIOUS
  <2>3. /\ x \in Operations /\ x.phase = "PR_CREATED" /\ x.commit = o.commit
        /\ x.pushed = o.pushed /\ x.pr = o.pr
    BY <2>2 DEF Operations, Phases
  <2>4. Advanced(k, o) = [x EXCEPT !.pr = TRUE]
    BY <1>4, <2>1, <2>2
  <2>. QED
    BY <1>4, <2>3, <2>4 DEF Operations
<1>. QED
  BY <1>1, <1>2, <1>3, <1>4 DEF Kinds

\* Whether the method reloads the operation or writes its own copy back, what
\* it advances is the operation that is stored.
LEMMA AdvanceInvariant ==
    ASSUME MEInv, OneProcess, NEW p \in Procs, Advance(p)
    PROVE  MEInv'
<1>. DEFINE m == local[p]
            k == m.kind
<1>1. m \in Methods /\ Method(m) /\ m.at = "advance" /\ local \in [Procs -> Methods]
      /\ oper \in Operations /\ m.at \in Recorded
      /\ UNCHANGED <<plan, effects, docs, tasks, world, crashes>>
  BY Here DEF Advance, At, Recorded
<1>2. /\ k \in Kinds /\ effects[k].state = "COMPLETED" /\ effects[k].state # "ABSENT"
      /\ oper.phase # "ABSENT" /\ plan.status # "ABSENT"
      /\ m.reconciling => m.found
      /\ ~m.reconciling => m.oper = oper
  BY <1>1 DEF Method, Effecting, Observed, Current
<1>3. oper' = Advanced(k, oper)
  BY <1>2 DEF Advance
<1>. HIDE DEF k
<1>4. /\ oper' \in Operations
      /\ oper'.phase \notin {"ABSENT", "QUALITY_GATES_COMPLETED"}
      /\ oper'.commit <=> oper.commit \/ k = "COMMIT"
      /\ oper'.pushed <=> oper.pushed \/ k = "PUSH"
      /\ oper'.pr <=> oper.pr \/ k = "PR"
  BY <1>1, <1>2, <1>3, AdvancedFacts
<1>5. Delivery'
  <2>1. /\ k = "PUSH" => oper.commit
        /\ k = "PR" => oper.pushed
    BY <1>2 DEF MEInv, Delivery
  <2>2. /\ oper'.commit => Ended("COMMIT")'
        /\ oper'.pushed => Ended("PUSH")'
        /\ oper'.pr => Ended("PR")'
    BY <1>1, <1>2, <1>4 DEF MEInv, Delivery, Ended
  <2>. QED
    BY <1>1, <1>2, <1>4, <2>1, <2>2 DEF MEInv, Delivery
<1>6. /\ TypeOK' /\ (world \in Worlds)' /\ Reviewed' /\ Exact'
      /\ \A x : /\ Method(x)
                /\ x.at \in {"idle", "reconcile", "start task", "diverge plan",
                             "complete tasks"}
                => Method(x)'
  BY <1>1, <1>4, OperationGoesOn
<1>7. CASE k = "PR" /\ local' = [local EXCEPT ![p].at = "finish", ![p].oper = oper']
  <2>. PICK o : o = oper'
    OBVIOUS
  <2>. PICK n : n = [m EXCEPT !.at = "finish", !.oper = o]
    OBVIOUS
  <2>1. local' = [local EXCEPT ![p] = n]
    BY <1>1, <1>7
  <2>2. "finish" \in Steps /\ "finish" \in Ending /\ "finish" \notin Underway \cup Recorded
    BY DEF Steps, Ending, Underway, Trying, Recorded
  <2>3. /\ n \in Methods /\ n.at = "finish" /\ n.plan = m.plan /\ n.oper = oper'
        /\ n.reconciling = m.reconciling /\ n.todo = m.todo
    BY <1>1, <1>4, <2>2 DEF Methods
  <2>. HIDE DEF m
  <2>4. Current(n)'
    BY <1>1, <1>2, <1>4, <2>2, <2>3 DEF Current, Method
  <2>5. Effecting(n)'
    BY <1>1, <2>2, <2>3 DEF Effecting, Method, Underway
  <2>6. Observed(n)' /\ Reviewing(n)'
    BY <1>4, <1>7, <2>3 DEF Observed, Reviewing
  <2>7. Method(n)'
    BY <2>4, <2>5, <2>6 DEF Method
  <2>. QED
    BY <1>5, <1>6, <2>1, <2>3, <2>7, StepOf
<1>8. CASE m.reconciling /\ Goto(p, "reconcile")
  <2>. PICK n : n = Onward(m, "reconcile")
    OBVIOUS
  <2>1. Method(n) /\ "reconcile" \in Steps
    BY <1>1, <1>8, ReconcileMethod DEF Steps, Other
  <2>2. n \in Methods /\ n.at = "reconcile" /\ local' = [local EXCEPT ![p] = n]
    BY <1>1, <1>8, <2>1, OnwardFields, GoesOnward
  <2>. QED
    BY <1>5, <1>6, <2>1, <2>2, StepOf
<1>9. CASE Done(p)
  BY <1>5, <1>6, <1>9, StepOf, IdleFields, IdleMethod DEF Done
<1>. QED
  BY <1>3, <1>7, <1>8, <1>9 DEF Advance, Return, Created, k

-----------------------------------------------------------------------------
(* Steps that change the plan.                                              *)

\* The plan takes another status; its approvals stay, or the review of the
\* evidence in force is approved.
LEMMA PlanGoesOn ==
    ASSUME MEInv, plan' \in Plans, plan'.status # "ABSENT",
           \/ plan'.reviewed = plan.reviewed
           \/ docs.evidence > 0 /\ plan'.reviewed = docs.evidence,
           plan'.status = "REVIEW_REQUIRED" =>
              docs.evidence > 0 /\ oper.phase # "QUALITY_GATES_COMPLETED",
           oper.phase = "QUALITY_GATES_COMPLETED" => plan'.reviewed = 0,
           plan'.status = "SUCCEEDED" => oper.pr,
           UNCHANGED <<oper, effects, docs, tasks, world, crashes>>
    PROVE  /\ TypeOK' /\ (world \in Worlds)' /\ Reviewed' /\ Delivery' /\ Exact'
           /\ \A m : /\ Method(m)
                     /\ \/ m.at \in {"idle", "cancelled"}
                        \/ /\ m.at = "reconcile"
                           /\ plan'.approved = plan.approved
                           /\ plan'.reviewed = plan.reviewed
                     => Method(m)'
<1>1. TypeOK' /\ (world \in Worlds)'
  BY DEF MEInv, Types, TypeOK
<1>2. Reviewed'
  <2>1. docs.evidence = 0 => ~(docs.evidence > 0)
    BY SMT
  <2>2. docs.evidence = 0 => plan'.reviewed = 0
    BY <2>1 DEF MEInv, Reviewed
  <2>3. Leaves' => InForce'
    BY DEF MEInv, Reviewed, Leaves, InForce
  <2>. QED
    BY <2>2, <2>3 DEF MEInv, Reviewed
<1>3. Delivery'
  BY DEF MEInv, Delivery, Ended
<1>4. Exact'
  BY DEF MEInv, Exact, There
<1>5. ASSUME NEW m, Method(m),
             \/ m.at \in {"idle", "cancelled"}
             \/ /\ m.at = "reconcile"
                /\ plan'.approved = plan.approved
                /\ plan'.reviewed = plan.reviewed
      PROVE  Method(m)'
  <2>1. m.at \notin Underway \cup Recorded \cup Ending
    BY <1>5 DEF Underway, Trying, Recorded, Ending
  <2>2. Current(m)'
    BY <1>5, <2>1 DEF Method, Current
  <2>3. Effecting(m)'
    BY <1>5, <2>1 DEF Method, Effecting, Underway, Ending
  <2>4. Observed(m)' /\ Reviewing(m)'
    BY <1>5 DEF Method, Observed, Reviewing
  <2>. QED
    BY <2>2, <2>3, <2>4 DEF Method
<1>. QED
  BY <1>1, <1>2, <1>3, <1>4, <1>5

\* A method holds the plan it is going to save.
Made(s, made) == [Idle EXCEPT !.at = s, !.plan = made]

LEMMA HoldInvariant ==
    ASSUME MEInv, OneProcess, NEW p \in Procs,
           NEW s \in {"generate", "decide", "approve", "cancel"}, NEW made \in Plans,
           Hold(p, s, made), Method(Made(s, made))
    PROVE  MEInv'
<1>. PICK n : n = Made(s, made)
  OBVIOUS
<1>1. n \in Methods
  BY IdleFields DEF Made, Idle, Methods, Steps, Other
<1>2. local' = [local EXCEPT ![p] = n] /\ UNCHANGED documents /\ crashes' \in 0..MaxCrashes
  BY Here DEF Hold, Made, documents
<1>. QED
  BY <1>1, <1>2, SteadyStep

LEMMA MadeFacts ==
    ASSUME NEW s \in {"generate", "decide", "approve", "cancel"}, NEW made
    PROVE  /\ Made(s, made).at = s /\ Made(s, made).plan = made
           /\ ~Made(s, made).reconciling
  BY DEF Made, Idle

LEMMA MadeMethod ==
    ASSUME NEW n, n.at \in {"generate", "decide", "approve", "cancel"}, ~n.reconciling,
           n.at \notin {"generate"} => plan.status # "ABSENT",
           n.at = "approve" => oper.phase # "ABSENT",
           Reviewing(n)
    PROVE  Method(n)
<1>1. /\ n.at \notin Underway \cup Recorded \cup Ending
      /\ n.at \notin {"reconcile", "evidence", "evidence plan", "diverge", "accepted",
                       "finish", "operation", "succeed", "start", "perform", "copy", "map",
                       "verify", "record", "complete", "advance"}
  BY DEF Underway, Trying, Recorded, Ending
<1>2. Current(n)
  BY <1>1 DEF Current
<1>3. Effecting(n)
  BY <1>1 DEF Effecting, Underway, Recorded
<1>4. Observed(n)
  BY <1>1 DEF Observed
<1>. QED
  BY <1>2, <1>3, <1>4 DEF Method

LEMMA DecidesInvariant ==
    ASSUME MEInv, OneProcess, NEW p \in Procs,
           \/ GeneratePlan(p) \/ DecidePlan(p) \/ ApproveReview(p)
           \/ RejectReview(p) \/ CancelExecution(p)
    PROVE  MEInv'
<1>0. plan \in Plans /\ docs.evidence \in 0..MaxEvidence
  BY DEF MEInv, Types, TypeOK
<1>1. CASE GeneratePlan(p)
  <2>. PICK made : made = [NoPlan EXCEPT !.status = "AWAITING_APPROVAL"]
    OBVIOUS
  <2>1. made \in Plans /\ made.status = "AWAITING_APPROVAL" /\ made.reviewed = 0
    BY IdleFields DEF Plans
  <2>2. plan.status = "ABSENT" /\ plan.reviewed = 0
    BY <1>1, IdleFields DEF GeneratePlan, MEInv, Delivery, Reviewed
  <2>3. Method(Made("generate", made))
    <3>. PICK n : n = Made("generate", made)
      OBVIOUS
    <3>1. n.at = "generate" /\ n.plan = made /\ ~n.reconciling
      BY MadeFacts
    <3>2. Reviewing(n)
      BY <2>1, <2>2, <3>1 DEF Reviewing
    <3>. QED
      BY <2>1, <2>2, <3>1, <3>2, MadeMethod
  <2>. QED
    BY <1>1, <2>1, <2>3, HoldInvariant DEF GeneratePlan
<1>2. ASSUME NEW s \in {"decide", "cancel"}, NEW made \in Plans, Hold(p, s, made),
             made.status \in {"APPROVED", "REJECTED", "FAILED", "CANCELLED"},
             made.reviewed = plan.reviewed, plan.status # "ABSENT"
      PROVE  MEInv'
  <2>1. Method(Made(s, made))
    <3>. PICK n : n = Made(s, made)
      OBVIOUS
    <3>1. n.at = s /\ n.plan = made /\ ~n.reconciling
      BY MadeFacts
    <3>2. Reviewing(n)
      BY <1>2, <3>1 DEF Reviewing
    <3>. QED
      BY <1>2, <3>1, <3>2, MadeMethod
  <2>. QED
    BY <1>2, <2>1, HoldInvariant
<1>3. ASSUME NEW s \in {"REJECTED", "FAILED", "CANCELLED"}
      PROVE  LET made == [plan EXCEPT !.status = s]
             IN  made \in Plans /\ made.status = s /\ made.reviewed = plan.reviewed
  BY <1>0 DEF Plans, Terminal
<1>4. LET made == [plan EXCEPT !.status = "APPROVED", !.approved = TRUE]
      IN  made \in Plans /\ made.status = "APPROVED" /\ made.reviewed = plan.reviewed
  BY <1>0 DEF Plans
<1>5. CASE DecidePlan(p)
  BY <1>2, <1>3, <1>4, <1>5 DEF DecidePlan
<1>6. CASE RejectReview(p)
  BY <1>2, <1>3, <1>6 DEF RejectReview
<1>7. CASE CancelExecution(p)
  BY <1>2, <1>3, <1>7 DEF CancelExecution
<1>8. CASE ApproveReview(p)
  <2>. PICK w : w = [plan EXCEPT !.approved = TRUE]
    OBVIOUS
  <2>. PICK made : made = [w EXCEPT !.reviewed = docs.evidence]
    OBVIOUS
  <2>1. w \in Plans /\ w.status = plan.status
    BY <1>0 DEF Plans
  <2>2. made \in Plans /\ made.status = plan.status /\ made.reviewed = docs.evidence
    BY <1>0, <2>1 DEF Plans
  <2>3. /\ plan.status = "REVIEW_REQUIRED" /\ docs.evidence > 0
        /\ oper.approvals < MaxApprovals /\ Hold(p, "approve", made)
    BY <1>8 DEF ApproveReview
  <2>4. oper.phase # "ABSENT"
    <3>1. docs.evidence = 0 => ~(docs.evidence > 0)
      BY SMT
    <3>. QED
      BY <2>3, <3>1 DEF MEInv, Delivery
  <2>5. Method(Made("approve", made))
    <3>. PICK n : n = Made("approve", made)
      OBVIOUS
    <3>1. n.at = "approve" /\ n.plan = made /\ ~n.reconciling
      BY MadeFacts
    <3>2. Reviewing(n)
      BY <2>2, <2>3, <2>4, <3>1 DEF Reviewing
    <3>. QED
      BY <2>2, <2>3, <2>4, <3>1, <3>2, MadeMethod
  <2>. QED
    BY <2>2, <2>3, <2>5, HoldInvariant
<1>. QED
  BY <1>1, <1>5, <1>6, <1>7, <1>8

LEMMA SavePlanInvariant ==
    ASSUME MEInv, OneProcess, NEW p \in Procs, SavePlan(p)
    PROVE  MEInv'
<1>. DEFINE m == local[p]
<1>. PICK s : s = Onto(m.at)
  OBVIOUS
<1>. PICK n : n = Onward(m, s)
  OBVIOUS
<1>1. /\ m \in Methods /\ Method(m) /\ m.at \in {"generate", "decide", "approve", "cancel"}
      /\ plan' = m.plan /\ m.plan \in Plans /\ plan \in Plans
      /\ UNCHANGED <<oper, effects, docs, tasks, world, crashes>>
  BY Here DEF SavePlan, Methods
<1>2. /\ m.at = "generate" => s = "operation"
      /\ m.at = "approve" => s = "approved"
      /\ m.at = "cancel" => s = "idle" \/ (s = "cancelled" /\ oper.phase # "ABSENT")
      /\ m.at = "decide" => s = "idle"
      /\ s \in Steps
  BY <1>1 DEF Onto, Steps, Other
<1>3. local' = [local EXCEPT ![p] = n]
  BY <1>2, GoesOnward DEF SavePlan
<1>4. n \in Methods /\ n.at = s /\ n.reconciling = m.reconciling
  BY <1>1, <1>2, OnwardFields
<1>5. ~m.reconciling
  BY <1>1 DEF Method, Effecting, Underway, Trying, Recorded, Ending
<1>6. docs.evidence = 0 => ~(docs.evidence > 0)
  BY SMT
<1>7. m.at = "generate" => oper = NoOperation /\ oper.phase = "ABSENT"
  BY <1>1, IdleFields DEF Method, Reviewing, MEInv, Delivery
<1>8. m.at = "approve" => oper.phase \notin {"ABSENT", "QUALITY_GATES_COMPLETED"}
  BY <1>1, <1>6 DEF Method, Reviewing, MEInv, Reviewed, Delivery
<1>9. /\ plan'.status \in {"AWAITING_APPROVAL", "APPROVED", "REJECTED", "FAILED", "CANCELLED",
                             "REVIEW_REQUIRED"}
      /\ \/ plan'.reviewed = plan.reviewed
         \/ m.at = "approve" /\ docs.evidence > 0 /\ plan'.reviewed = docs.evidence
      /\ plan'.status = "REVIEW_REQUIRED" => m.at = "approve" /\ docs.evidence > 0
  BY <1>1 DEF Method, Reviewing
<1>10. oper.phase = "QUALITY_GATES_COMPLETED" => plan'.reviewed = 0
  BY <1>8, <1>9 DEF MEInv, Reviewed
<1>11. TypeOK' /\ (world \in Worlds)' /\ Reviewed' /\ Delivery' /\ Exact'
  BY <1>1, <1>8, <1>9, <1>10, PlanGoesOn
<1>12. m.at = "approve" => InForce' /\ oper.approvals < MaxApprovals
  BY <1>1 DEF Method, Reviewing, InForce
<1>13. NoOperation' = NoOperation
  BY DEF NoOperation
<1>. HIDE DEF m
<1>14. Method(n)'
  BY <1>1, <1>2, <1>4, <1>5, <1>7, <1>8, <1>9, <1>12, <1>13
     DEF Method, Current, Effecting, Observed, Reviewing, Underway, Trying, Recorded, Ending
<1>. QED
  BY <1>3, <1>4, <1>11, <1>14, StepOf

\* A method that writes the plan it has loaded writes the plan that is stored,
\* with another status.
LEMMA WriteBack ==
    ASSUME MEInv, OneProcess, NEW p \in Procs,
           local[p].plan.approved = plan.approved, local[p].plan.reviewed = plan.reviewed,
           NEW s \in {"SUCCEEDED", "RECONCILIATION_REQUIRED", "REVIEW_REQUIRED"},
           plan' = [local[p].plan EXCEPT !.status = s],
           s = "REVIEW_REQUIRED" =>
              docs.evidence > 0 /\ oper.phase # "QUALITY_GATES_COMPLETED",
           s = "SUCCEEDED" => oper.pr,
           Done(p) \/ (Return(p) /\ local[p].at = "succeed"),
           UNCHANGED <<oper, effects, docs, tasks, world, crashes>>
    PROVE  MEInv'
<1>1. local[p] \in Methods /\ Method(local[p]) /\ local[p].plan \in Plans /\ plan \in Plans
  BY Here DEF Methods
<1>2. /\ plan' \in Plans /\ plan'.status = s
      /\ plan'.approved = plan.approved /\ plan'.reviewed = plan.reviewed
  BY <1>1 DEF Plans, Terminal
<1>3. oper.phase = "QUALITY_GATES_COMPLETED" => plan'.reviewed = 0
  BY <1>2 DEF MEInv, Reviewed
<1>4. /\ TypeOK' /\ (world \in Worlds)' /\ Reviewed' /\ Delivery' /\ Exact'
      /\ \A m : Method(m) /\ m.at \in {"idle", "reconcile"} => Method(m)'
  BY <1>2, <1>3, PlanGoesOn
<1>5. CASE Done(p)
  BY <1>4, <1>5, StepOf, IdleFields, IdleMethod DEF Done
<1>6. CASE local[p].reconciling /\ Goto(p, "reconcile") /\ local[p].at = "succeed"
  <2>. PICK n : n = Onward(local[p], "reconcile")
    OBVIOUS
  <2>1. Method(n) /\ "reconcile" \in Steps
    BY <1>1, <1>6, ReconcileMethod DEF Steps, Other
  <2>2. n \in Methods /\ n.at = "reconcile" /\ local' = [local EXCEPT ![p] = n]
    BY <1>1, <1>6, <2>1, OnwardFields, GoesOnward
  <2>. QED
    BY <1>4, <2>1, <2>2, StepOf
<1>. QED
  BY <1>5, <1>6 DEF Return

LEMMA WritesBackInvariant ==
    ASSUME MEInv, OneProcess, NEW p \in Procs,
           Succeed(p) \/ DivergePlan(p) \/ EvidencePlan(p)
    PROVE  MEInv'
<1>1. /\ local[p].plan.approved = plan.approved
      /\ local[p].plan.reviewed = plan.reviewed
  <2>1. local[p].at \in {"succeed", "diverge plan", "evidence plan"}
    BY DEF Succeed, DivergePlan, EvidencePlan, At
  <2>2. local[p].at \in Ending \cup {"evidence plan"}
    BY <2>1 DEF Ending
  <2>. QED
    BY <2>2, Here DEF Method, Current
<1>2. CASE Succeed(p)
  <2>1. oper.pr
    BY <1>2, Here DEF Succeed, At, Method, Observed
  <2>. QED
    BY <1>1, <1>2, <2>1, WriteBack DEF Succeed, At
<1>3. CASE DivergePlan(p)
  BY <1>1, <1>3, WriteBack DEF DivergePlan
<1>4. CASE EvidencePlan(p)
  <2>1. docs.evidence > 0 /\ oper.phase # "QUALITY_GATES_COMPLETED"
    BY <1>4, Here DEF EvidencePlan, At, Method, Reviewing
  <2>. QED
    BY <1>1, <1>4, <2>1, WriteBack DEF EvidencePlan
<1>. QED
  BY <1>2, <1>3, <1>4

-----------------------------------------------------------------------------
(* The invariant and the properties of the runs.                            *)

LEMMA InitInvariant ==
    ASSUME Init
    PROVE  MEInv
<1>1. /\ plan = NoPlan /\ oper = NoOperation
      /\ effects \in [Kinds -> Records] /\ \A k \in Kinds : effects[k].state = "ABSENT"
  BY Constants DEF Init, Records, EffectStates
<1>2. docs \in Documents /\ docs.evidence = 0 /\ docs.gates = "none"
  BY Constants DEF Init, Documents
<1>3. /\ world \in Worlds /\ world.commits = 0 /\ world.remote = "none"
      /\ world.prs = 0
  BY DEF Init, Worlds
<1>4. tasks \in [Tasks -> {"TODO", "IN_PROGRESS", "DONE", "BLOCKED"}]
      /\ \A t \in Tasks : tasks[t] = "TODO"
  BY DEF Init
<1>5. local \in [Procs -> Methods] /\ \A p \in Procs : local[p] = Idle
  BY IdleFields DEF Init
<1>6. TypeOK
  BY <1>1, <1>2, <1>3, <1>4, IdleFields, Constants
     DEF TypeOK, Records, EffectStates, Documents, Worlds, Init
<1>7. ~Leaves
  BY <1>3, <1>4 DEF Leaves
<1>8. Reviewed
  BY <1>1, <1>2, <1>7, IdleFields DEF Reviewed
<1>9. Delivery
  BY <1>1, <1>2, IdleFields DEF Delivery, Kinds
<1>10. Exact
  BY <1>1 DEF Exact
<1>11. \A p \in Procs : Method(local[p])
  BY <1>5, IdleFields, IdleMethod
<1>. QED
  BY <1>3, <1>5, <1>6, <1>8, <1>9, <1>10, <1>11 DEF MEInv, Types

LEMMA StepInvariant ==
    ASSUME MEInv, OneProcess, [Next]_vars
    PROVE  MEInv'
<1>1. CASE UNCHANGED vars
  <2>1. UNCHANGED documents /\ crashes' \in 0..MaxCrashes /\ local' = local
    BY <1>1 DEF vars, documents, MEInv, Types, TypeOK
  <2>. QED
    BY <2>1, Steady DEF MEInv, Types
<1>2. CASE Interfere
  BY <1>2, InterfereInvariant
<1>3. ASSUME NEW p \in Procs, Drive(p)
      PROVE  MEInv'
  BY <1>3, CreateRequestInvariant, DecidesInvariant, BeginsInvariant,
     SubmitCodingTaskInvariant, ReportsInvariant, RunQualityGatesInvariant,
     GenerateReviewEvidenceInvariant
     DEF Drive
<1>4. ASSUME NEW p \in Procs, Decide(p)
      PROVE  MEInv'
  BY <1>4, DecidesInvariant, ReconcileExecutionInvariant,
     ReportsInvariant, TasksInvariant
     DEF Decide
<1>5. ASSUME NEW p \in Procs, Continue(p)
      PROVE  MEInv'
  BY <1>5, SavePlanInvariant, GenerateOperationInvariant, PrepareInvariant, InspectInvariant,
     MapTaskInvariant, StartInvariant, PerformInvariant, CopySourceInvariant,
     UncertainInvariant, VerifyInvariant, RecordWorkspaceInvariant, CompleteInvariant,
     AdvanceInvariant, FinishInvariant, WritesBackInvariant, DivergeEffectInvariant,
     PhasesInvariant, ReconcileEffectInvariant, TasksInvariant,
     ProcessCodingResultInvariant, EvidenceOperationInvariant, ApprovedOperationInvariant
     DEF Continue
<1>6. ASSUME NEW p \in Procs, PerformRaises(p) \/ Crash(p)
      PROVE  MEInv'
  BY <1>6, PerformRaisesInvariant, CrashInvariant
<1>. QED
  BY <1>1, <1>2, <1>3, <1>4, <1>5, <1>6 DEF Next

\* The methods of managed_execution/service.py keep the documents, the records
\* of the effects and the world in agreement at every step.
THEOREM ExecutionInvariant == ASSUME OneProcess PROVE Spec => []MEInv
  BY InitInvariant, StepInvariant, PTL DEF Spec

\* Crashes, exceptions, retries and reconciliations double no commit and no
\* pull request, and a record that _complete_effect has saved is true.
THEOREM ExactEffects == ASSUME OneProcess PROVE Spec => []EffectsAreExact
<1>1. MEInv => EffectsAreExact
  <2>. SUFFICES ASSUME MEInv
                PROVE  EffectsAreExact
    OBVIOUS
  <2>1. TypeOK /\ world.commits \in {0, 1} /\ world.prs \in {0, 1}
    BY DEF MEInv, Types, Worlds
  <2>2. EffectsAtMostOnce
    BY <2>1 DEF EffectsAtMostOnce
  <2>3. ASSUME NEW k \in Kinds, effects[k].state = "COMPLETED"
        PROVE  CASE k = "MAPPING" -> docs.mapped = Tasks
                 [] k = "WORKSPACE" -> docs.workspace /\ world.workspace = "copied"
                 [] k = "BRANCH" -> world.branch
                 [] k = "COMMIT" -> world.commits = 1
                 [] k = "PUSH" -> world.remote # "none"
                 [] k = "PR" -> world.prs = 1
    <3>1. There(k)
      BY <2>3 DEF MEInv, Exact
    <3>. QED
      BY <3>1 DEF There, Kinds
  <2>. QED
    BY <2>1, <2>2, <2>3 DEF EffectsAreExact, CompletedEffectsExist
<1>. QED
  BY <1>1, ExecutionInvariant, PTL

\* _require_review_approval, and the order of gates, evidence and approval, let
\* nothing out of the workspace that has not been reviewed.
THEOREM ReviewedLeaves == ASSUME OneProcess PROVE Spec => []OnlyReviewedWorkLeaves
<1>1. MEInv => OnlyReviewedWorkLeaves
  BY DEF MEInv, Reviewed, Leaves, InForce, OnlyReviewedWorkLeaves
<1>. QED
  BY <1>1, ExecutionInvariant, PTL

\* The plan that _complete_operation has saved as SUCCEEDED has its delivery on
\* record, in the operation and in the effects.
THEOREM SucceededDelivered == ASSUME OneProcess PROVE Spec => []SucceededIsDelivered
<1>1. MEInv => SucceededIsDelivered
  BY DEF MEInv, Delivery, Ended, SucceededIsDelivered
<1>. QED
  BY <1>1, ExecutionInvariant, PTL

-----------------------------------------------------------------------------
(* Any number of processes.  Nothing is left of the agreement above, but a   *)
(* method that performs an effect or writes a plan back has asked about the  *)
(* plan when it loaded it.                                                   *)

PlanFields == {"status", "approved", "reviewed"}
MethodFields ==
    {"at", "kind", "task", "plan", "oper", "seen", "found", "reconciling", "todo"}
WorldFields ==
    {"workspace", "applied", "branch", "commits", "remote", "prs", "body", "disturbed"}

\* The plan had not ended when the method loaded it.
Live(m) == m.plan.status \notin Terminal \cup {"ABSENT"}

\* What holds of each method, whatever the other processes do.
Asked(m) ==
    /\ DOMAIN m = MethodFields /\ DOMAIN m.plan = PlanFields
    /\ m.todo \subseteq Kinds \cup {"STOP"}
    /\ m.at \in {"prepare", "inspect", "start", "perform"} => m.kind \in Kinds
    /\ m.at \in {"start", "perform"} => m.kind # "MAPPING"
    /\ m.at \in {"prepare", "start", "perform", "evidence", "evidence plan"} => Live(m)
    /\ m.at = "inspect" /\ ~m.reconciling => Live(m)
    /\ m.at = "reconcile" => m.reconciling
    /\ m.at \in {"generate", "decide", "approve", "cancel"} => m.plan.status # "ABSENT"

EndInv ==
    /\ DOMAIN plan = PlanFields /\ DOMAIN world = WorldFields /\ DOMAIN local = Procs
    /\ plan.status = "ABSENT" => ~plan.approved
    /\ \A p \in Procs : Asked(local[p])

LEMMA AskedStep ==
    ASSUME EndInv, NEW p \in Procs, NEW n, local' = [local EXCEPT ![p] = n], Asked(n),
           UNCHANGED plan \/ (DOMAIN plan' = PlanFields /\ plan'.status # "ABSENT"),
           DOMAIN world' = WorldFields
    PROVE  EndInv'
<1>1. DOMAIN local' = Procs
      /\ \A q \in Procs : local'[q] = IF q = p THEN n ELSE local[q]
  BY DEF EndInv
<1>2. \A q \in Procs : Asked(local[q])'
  BY <1>1 DEF EndInv, Asked, Live
<1>. QED
  BY <1>1, <1>2 DEF EndInv

\* A method goes on with a step that needs no question.
Unasked == {"idle", "operation", "map", "copy", "uncertain", "verify", "record",
            "complete", "advance", "finish", "succeed", "diverge", "diverge phase",
            "diverge plan", "start task", "result", "accepted", "fail", "gated",
            "approved", "complete tasks", "cancelled"}

LEMMA GoesUnasked ==
    ASSUME EndInv, NEW p \in Procs, NEW s \in Unasked, Goto(p, s),
           UNCHANGED plan \/ (DOMAIN plan' = PlanFields /\ plan'.status # "ABSENT"),
           DOMAIN world' = WorldFields
    PROVE  EndInv'
<1>. PICK n : n = [local[p] EXCEPT !.at = s]
  OBVIOUS
<1>1. Asked(local[p])
  BY DEF EndInv
<1>2. DOMAIN n = MethodFields /\ n.at = s /\ n.plan = local[p].plan
      /\ n.todo = local[p].todo
  BY <1>1 DEF Asked, MethodFields
<1>3. Asked(n)
  BY <1>1, <1>2 DEF Asked, Unasked
<1>. QED
  BY <1>3, AskedStep DEF Goto

LEMMA IdleAsked ==
    Asked(Idle) /\ Idle.at = "idle" /\ DOMAIN Idle = MethodFields
    /\ Idle.plan = NoPlan /\ DOMAIN NoPlan = PlanFields /\ ~Idle.reconciling
    /\ Idle.todo = {}
  BY DEF Asked, Idle, NoPlan, MethodFields, PlanFields

LEMMA DoneUnasked ==
    ASSUME EndInv, NEW p \in Procs, Done(p),
           UNCHANGED plan \/ (DOMAIN plan' = PlanFields /\ plan'.status # "ABSENT"),
           DOMAIN world' = WorldFields
    PROVE  EndInv'
  BY IdleAsked, AskedStep DEF Done

LEMMA ReturnsUnasked ==
    ASSUME EndInv, NEW p \in Procs, Return(p),
           UNCHANGED plan \/ (DOMAIN plan' = PlanFields /\ plan'.status # "ABSENT"),
           DOMAIN world' = WorldFields
    PROVE  EndInv'
<1>. PICK n : n = [local[p] EXCEPT !.at = "reconcile"]
  OBVIOUS
<1>1. Asked(local[p])
  BY DEF EndInv
<1>2. /\ DOMAIN n = MethodFields /\ n.at = "reconcile" /\ n.plan = local[p].plan
      /\ n.reconciling = local[p].reconciling /\ n.todo = local[p].todo
  BY <1>1 DEF Asked, MethodFields
<1>3. CASE local[p].reconciling /\ Goto(p, "reconcile")
  BY <1>1, <1>2, <1>3, AskedStep DEF Asked, Goto
<1>. QED
  BY <1>3, DoneUnasked DEF Return

\* A method begins where _require_execution_allowed lets it.
LEMMA AllowedLive ==
    ASSUME EndInv, NEW phases, Allowed(phases)
    PROVE  plan.status \notin Terminal \cup {"ABSENT"}
  BY DEF EndInv, Allowed

LEMMA BeginsAsked ==
    ASSUME EndInv, NEW p \in Procs, NEW s, NEW k, Begin(p, s, k),
           plan.status \notin Terminal \cup {"ABSENT"},
           \/ s = "prepare" /\ k \in Kinds
           \/ s = "evidence", UNCHANGED <<plan, world>>
    PROVE  EndInv'
<1>. PICK n : n = [Idle EXCEPT !.at = s, !.kind = k, !.plan = plan, !.oper = oper]
  OBVIOUS
<1>1. DOMAIN n = MethodFields /\ n.at = s /\ n.plan = plan /\ n.kind = k /\ n.todo = {}
  BY IdleAsked DEF MethodFields
<1>2. Asked(n)
  BY <1>1 DEF EndInv, Asked, Live
<1>3. DOMAIN world' = WorldFields
  BY DEF EndInv
<1>. QED
  BY <1>2, <1>3, AskedStep DEF Begin

LEMMA HoldsAsked ==
    ASSUME EndInv, NEW p \in Procs, NEW s \in {"generate", "decide", "approve", "cancel"},
           NEW made, Hold(p, s, made), DOMAIN made = PlanFields, made.status # "ABSENT"
    PROVE  EndInv'
<1>. PICK n : n = [Idle EXCEPT !.at = s, !.plan = made]
  OBVIOUS
<1>1. DOMAIN n = MethodFields /\ n.at = s /\ n.plan = made /\ n.todo = {}
  BY IdleAsked DEF MethodFields
<1>2. Asked(n)
  BY <1>1 DEF Asked
<1>3. DOMAIN world' = WorldFields /\ UNCHANGED plan
  BY DEF EndInv, Hold
<1>. QED
  BY <1>2, <1>3, AskedStep DEF Hold

\* A method that keeps a task, or that has changed the world, goes on.
LEMMA TaskAsked ==
    ASSUME NEW s \in Unasked, NEW t
    PROVE  Asked([Idle EXCEPT !.at = s, !.task = t])
<1>. PICK n : n = [Idle EXCEPT !.at = s, !.task = t]
  OBVIOUS
<1>1. DOMAIN n = MethodFields /\ n.at = s /\ n.plan = NoPlan /\ n.todo = {}
  BY IdleAsked DEF MethodFields
<1>2. Asked(n)
  BY <1>1, IdleAsked DEF Asked, Unasked
<1>. QED
  BY <1>2

-----------------------------------------------------------------------------
LEMMA DriveAsked ==
    ASSUME EndInv, NEW p \in Procs, Drive(p)
    PROVE  EndInv'
<1>0. DOMAIN world = WorldFields /\ Asked(local[p])
  BY DEF EndInv
<1>1. CASE CreateRequest(p)
  BY <1>1 DEF CreateRequest, EndInv, Asked, Live
<1>2. CASE GeneratePlan(p)
  <2>. PICK made : made = [NoPlan EXCEPT !.status = "AWAITING_APPROVAL"]
    OBVIOUS
  <2>1. DOMAIN made = PlanFields /\ made.status # "ABSENT"
    BY IdleAsked DEF PlanFields
  <2>. QED
    BY <1>2, <2>1, HoldsAsked DEF GeneratePlan
<1>3. CASE \/ CreateRuntimeWork(p) \/ PrepareWorkspace(p) \/ CreateFeatureBranch(p)
           \/ CreateCommit(p) \/ PushBranch(p) \/ CreateDraftPullRequest(p)
  BY <1>3, AllowedLive, BeginsAsked
     DEF CreateRuntimeWork, PrepareWorkspace, CreateFeatureBranch, CreateCommit,
         PushBranch, CreateDraftPullRequest, Kinds
<1>4. CASE GenerateReviewEvidence(p)
  BY <1>4, AllowedLive, BeginsAsked DEF GenerateReviewEvidence
<1>5. ASSUME NEW t \in Tasks, SubmitCodingTask(p, t)
      PROVE  EndInv'
  <2>1. Asked([Idle EXCEPT !.at = "start task", !.task = t])
    BY TaskAsked DEF Unasked
  <2>. QED
    BY <1>0, <1>5, <2>1, AskedStep DEF SubmitCodingTask
<1>6. ASSUME NEW t \in Tasks, AcceptProviderResult(p, t)
      PROVE  EndInv'
  <2>1. Asked([Idle EXCEPT !.at = "result", !.task = t])
    BY TaskAsked DEF Unasked
  <2>2. DOMAIN world' = WorldFields
    BY <1>0, <1>6 DEF AcceptProviderResult
  <2>. QED
    BY <1>6, <2>1, <2>2, AskedStep DEF AcceptProviderResult
<1>7. CASE RunQualityGates(p)
  <2>1. CASE Goto(p, "gated")
    BY <1>0, <1>7, <2>1, GoesUnasked DEF RunQualityGates, Unasked
  <2>2. CASE UNCHANGED local
    BY <1>7, <2>2 DEF RunQualityGates, EndInv, Asked, Live
  <2>. QED
    BY <1>7, <2>1, <2>2 DEF RunQualityGates
<1>. QED
  BY <1>1, <1>2, <1>3, <1>4, <1>5, <1>6, <1>7 DEF Drive

LEMMA DecideAsked ==
    ASSUME EndInv, NEW p \in Procs, Decide(p)
    PROVE  EndInv'
<1>0. DOMAIN world = WorldFields /\ DOMAIN plan = PlanFields
  BY DEF EndInv
<1>1. ASSUME NEW s
      PROVE  LET made == [plan EXCEPT !.status = s]
             IN  DOMAIN made = PlanFields /\ made.status = s
  BY <1>0 DEF PlanFields
<1>2. CASE DecidePlan(p)
  <2>. PICK made : made = [plan EXCEPT !.status = "APPROVED", !.approved = TRUE]
    OBVIOUS
  <2>1. DOMAIN made = PlanFields /\ made.status # "ABSENT"
    BY <1>0 DEF PlanFields
  <2>2. CASE Hold(p, "decide", made)
    BY <2>1, <2>2, HoldsAsked
  <2>3. CASE Hold(p, "decide", [plan EXCEPT !.status = "REJECTED"])
    BY <1>1, <2>3, HoldsAsked
  <2>. QED
    BY <1>2, <2>2, <2>3 DEF DecidePlan
<1>3. CASE ApproveReview(p)
  <2>. PICK made : made = [plan EXCEPT !.approved = TRUE, !.reviewed = docs.evidence]
    OBVIOUS
  <2>1. DOMAIN made = PlanFields /\ made.status = plan.status
    BY <1>0 DEF PlanFields
  <2>. QED
    BY <1>3, <2>1, HoldsAsked DEF ApproveReview
<1>4. CASE RejectReview(p) \/ CancelExecution(p)
  BY <1>1, <1>4, HoldsAsked DEF RejectReview, CancelExecution
<1>5. CASE ReconcileExecution(p)
  <2>. PICK t : t = {IF effects[k].state = "RECONCILIATION_REQUIRED" THEN "STOP" ELSE k :
                       k \in {x \in Kinds : effects[x].state # "ABSENT"}}
    OBVIOUS
  <2>. PICK n : n = [Idle EXCEPT !.at = "reconcile", !.reconciling = TRUE, !.plan = plan,
                                 !.oper = oper, !.todo = t]
    OBVIOUS
  <2>1. /\ DOMAIN n = MethodFields /\ n.at = "reconcile" /\ n.plan = plan /\ n.reconciling
        /\ n.todo = t /\ t \subseteq Kinds \cup {"STOP"}
    BY IdleAsked DEF MethodFields
  <2>2. Asked(n)
    BY <1>0, <2>1 DEF Asked
  <2>3. local' = [local EXCEPT ![p] = n] /\ UNCHANGED <<plan, world>>
    BY <1>5 DEF ReconcileExecution
  <2>. QED
    BY <1>0, <2>2, <2>3, AskedStep
<1>6. ASSUME NEW t \in Tasks, ReportCodingResult(p, t)
      PROVE  EndInv'
  <2>1. Asked([Idle EXCEPT !.at = "result", !.task = t])
    BY TaskAsked DEF Unasked
  <2>2. DOMAIN world' = WorldFields
    BY <1>0, <1>6 DEF ReportCodingResult
  <2>. QED
    BY <1>6, <2>1, <2>2, AskedStep DEF ReportCodingResult
<1>7. ASSUME NEW t \in Tasks, FailedCodingResult(p, t)
      PROVE  EndInv'
  <2>. PICK n : n = [Idle EXCEPT !.at = "fail"]
    OBVIOUS
  <2>1. DOMAIN n = MethodFields /\ n.at = "fail" /\ n.plan = NoPlan /\ n.todo = {}
    BY IdleAsked DEF MethodFields
  <2>2. Asked(n)
    BY <2>1, IdleAsked DEF Asked
  <2>. QED
    BY <1>0, <1>7, <2>2, AskedStep DEF FailedCodingResult
<1>. QED
  BY <1>2, <1>3, <1>4, <1>5, <1>6, <1>7 DEF Decide

LEMMA InspectAsked ==
    ASSUME EndInv, NEW p \in Procs, Prepare(p) \/ Inspect(p) \/ ReconcileEffect(p)
    PROVE  EndInv'
<1>0. /\ DOMAIN world = WorldFields /\ Asked(local[p]) /\ DOMAIN local[p] = MethodFields
      /\ UNCHANGED <<plan, world>>
  BY DEF EndInv, Asked, Prepare, Inspect, ReconcileEffect
<1>1. CASE Prepare(p)
  <2>1. Live(local[p])
    BY <1>0, <1>1 DEF Prepare, At, Asked
  <2>2. ASSUME NEW s, Inspecting(p, s)
        PROVE  EndInv'
    <3>. PICK n : n = [local[p] EXCEPT !.at = "inspect", !.seen = s]
      OBVIOUS
    <3>1. /\ DOMAIN n = MethodFields /\ n.at = "inspect" /\ n.plan = local[p].plan
          /\ n.kind = local[p].kind /\ n.todo = local[p].todo
      BY <1>0 DEF MethodFields
    <3>2. Asked(n)
      BY <1>0, <1>1, <2>1, <3>1 DEF Asked, Live, Prepare, At
    <3>. QED
      BY <1>0, <2>2, <3>2, AskedStep DEF Inspecting
  <2>3. ASSUME Goto(p, "diverge") \/ Done(p)
        PROVE  EndInv'
    BY <1>0, <2>3, GoesUnasked, DoneUnasked DEF Unasked
  <2>. QED
    BY <1>1, <2>2, <2>3 DEF Prepare
<1>2. ASSUME Inspect(p), Goto(p, "start"), ~local[p].reconciling,
             local[p].kind # "MAPPING"
      PROVE  EndInv'
  <2>1. Live(local[p])
    BY <1>0, <1>2 DEF Inspect, At, Asked
  <2>. PICK n : n = [local[p] EXCEPT !.at = "start"]
    OBVIOUS
  <2>2. /\ DOMAIN n = MethodFields /\ n.at = "start" /\ n.plan = local[p].plan
        /\ n.kind = local[p].kind /\ n.todo = local[p].todo
    BY <1>0 DEF MethodFields
  <2>3. Asked(n)
    BY <1>0, <1>2, <2>1, <2>2 DEF Asked, Live, Inspect, At
  <2>. QED
    BY <1>0, <1>2, <2>3, AskedStep DEF Goto
<1>3. ASSUME NEW k, NEW f, Recording(p, k, f)
      PROVE  EndInv'
  <2>. PICK s \in {"record", "complete"} : s = IF k = "WORKSPACE" THEN "record" ELSE "complete"
    OBVIOUS
  <2>. PICK n : n = [local[p] EXCEPT !.at = s, !.found = f]
    OBVIOUS
  <2>1. /\ DOMAIN n = MethodFields /\ n.at = s /\ n.plan = local[p].plan
        /\ n.todo = local[p].todo
    BY <1>0 DEF MethodFields
  <2>2. Asked(n)
    BY <1>0, <2>1 DEF Asked
  <2>. QED
    BY <1>0, <1>3, <2>2, AskedStep DEF Recording
<1>4. CASE Inspect(p)
  <2>1. CASE Goto(p, "map") \/ Goto(p, "diverge")
    BY <1>0, <2>1, GoesUnasked DEF Unasked
  <2>2. CASE Return(p)
    BY <1>0, <2>2, ReturnsUnasked
  <2>. QED
    BY <1>2, <1>3, <1>4, <2>1, <2>2 DEF Inspect
<1>5. CASE ReconcileEffect(p)
  <2>1. CASE Done(p)
    BY <1>0, <2>1, DoneUnasked
  <2>2. ASSUME NEW k \in local[p].todo, k # "STOP",
               local' = [local EXCEPT ![p].todo = @ \ {k}, ![p].kind = k,
                            ![p].at = IF k = "MAPPING" THEN "reconcile" ELSE "inspect"]
        PROVE  EndInv'
    <3>. PICK s \in {"reconcile", "inspect"} :
              s = IF k = "MAPPING" THEN "reconcile" ELSE "inspect"
      OBVIOUS
    <3>. PICK n : n = [local[p] EXCEPT !.todo = @ \ {k}, !.kind = k, !.at = s]
      OBVIOUS
    <3>1. /\ DOMAIN n = MethodFields /\ n.at = s /\ n.plan = local[p].plan
          /\ n.reconciling = local[p].reconciling /\ n.kind = k
          /\ n.todo \subseteq local[p].todo
      BY <1>0 DEF MethodFields
    <3>2. local[p].reconciling
      BY <1>0, <1>5 DEF ReconcileEffect, At, Asked
    <3>3. Asked(n)
      BY <1>0, <2>2, <3>1, <3>2 DEF Asked
    <3>4. local' = [local EXCEPT ![p] = n]
      BY <2>2 DEF EndInv
    <3>. QED
      BY <1>0, <3>3, <3>4, AskedStep
  <2>. QED
    BY <1>5, <2>1, <2>2 DEF ReconcileEffect
<1>. QED
  BY <1>1, <1>4, <1>5

\* The world keeps its shape when an effect is performed.
LEMMA WorldShape ==
    ASSUME EndInv, NEW p \in Procs,
           Perform(p) \/ CopySource(p) \/ PerformRaises(p)
    PROVE  /\ DOMAIN world' = WorldFields
           /\ local[p].at = "copy" =>
                world'.commits = world.commits /\ world'.prs = world.prs
                /\ world'.branch = world.branch
<1>0. DOMAIN world = WorldFields /\ Asked(local[p])
  BY DEF EndInv
<1>1. ASSUME NEW k \in Kinds \ {"MAPPING"}
      PROVE  DOMAIN Performed(p, k) = WorldFields
  BY <1>0 DEF Performed, Kinds, WorldFields
<1>2. CASE local[p].at = "perform"
  <2>1. local[p].kind \in Kinds \ {"MAPPING"} /\ "PUSH" \in Kinds \ {"MAPPING"}
    BY <1>0, <1>2 DEF Asked, Kinds
  <2>. QED
    BY <1>0, <1>1, <1>2, <2>1 DEF Perform, CopySource, PerformRaises, At
<1>3. CASE local[p].at = "copy"
  BY <1>0, <1>3 DEF Perform, CopySource, PerformRaises, At, WorldFields
<1>. QED
  BY <1>2, <1>3 DEF Perform, CopySource, PerformRaises, At

LEMMA EffectAsked ==
    ASSUME EndInv, NEW p \in Procs,
           \/ MapTask(p) \/ Start(p) \/ Perform(p) \/ CopySource(p) \/ PerformRaises(p)
           \/ Uncertain(p) \/ Verify(p) \/ RecordWorkspace(p) \/ Complete(p)
    PROVE  EndInv'
<1>0. DOMAIN world = WorldFields /\ Asked(local[p]) /\ DOMAIN local[p] = MethodFields
  BY DEF EndInv, Asked
<1>1. UNCHANGED plan
  BY DEF MapTask, Start, Perform, CopySource, PerformRaises, Uncertain, Verify,
         RecordWorkspace, Complete
<1>2. CASE MapTask(p)
  <2>1. CASE UNCHANGED local
    BY <1>2, <2>1 DEF MapTask, EndInv, Asked, Live
  <2>2. CASE Goto(p, "complete")
    BY <1>0, <1>2, <2>2, GoesUnasked DEF MapTask, Unasked
  <2>. QED
    BY <1>2, <2>1, <2>2 DEF MapTask
<1>3. CASE Start(p)
  <2>. PICK n : n = [local[p] EXCEPT !.at = "perform"]
    OBVIOUS
  <2>1. /\ DOMAIN n = MethodFields /\ n.at = "perform" /\ n.plan = local[p].plan
        /\ n.kind = local[p].kind /\ n.todo = local[p].todo
    BY <1>0 DEF MethodFields
  <2>2. Asked(n)
    BY <1>0, <1>3, <2>1 DEF Asked, Live, Start, At
  <2>. QED
    BY <1>0, <1>1, <1>3, <2>2, AskedStep DEF Start, Goto
<1>4. CASE Perform(p) \/ CopySource(p) \/ PerformRaises(p)
  <2>1. DOMAIN world' = WorldFields
    BY <1>4, WorldShape
  <2>2. Goto(p, "copy") \/ Goto(p, "verify") \/ Goto(p, "uncertain")
    BY <1>4 DEF Perform, CopySource, PerformRaises
  <2>. QED
    BY <1>1, <2>1, <2>2, GoesUnasked DEF Unasked
<1>5. CASE Uncertain(p)
  BY <1>0, <1>5, DoneUnasked DEF Uncertain
<1>6. CASE Verify(p)
  <2>1. CASE Goto(p, "diverge")
    BY <1>0, <1>6, <2>1, GoesUnasked DEF Verify, Unasked
  <2>2. ASSUME NEW k, NEW f, Recording(p, k, f)
        PROVE  EndInv'
    <3>. PICK s \in {"record", "complete"} : s = IF k = "WORKSPACE" THEN "record" ELSE "complete"
      OBVIOUS
    <3>. PICK n : n = [local[p] EXCEPT !.at = s, !.found = f]
      OBVIOUS
    <3>1. /\ DOMAIN n = MethodFields /\ n.at = s /\ n.plan = local[p].plan
          /\ n.todo = local[p].todo
      BY <1>0 DEF MethodFields
    <3>2. Asked(n)
      BY <1>0, <3>1 DEF Asked
    <3>. QED
      BY <1>0, <1>6, <2>2, <3>2, AskedStep DEF Recording, Verify
  <2>. QED
    BY <1>6, <2>1, <2>2 DEF Verify
<1>7. CASE RecordWorkspace(p) \/ Complete(p)
  <2>1. /\ Goto(p, "complete") \/ Goto(p, "advance")
        /\ UNCHANGED <<plan, world>>
    BY <1>7 DEF RecordWorkspace, Complete
  <2>. QED
    BY <1>0, <2>1, GoesUnasked DEF Unasked
<1>. QED
  BY <1>2, <1>3, <1>4, <1>5, <1>6, <1>7

LEMMA RecordedAsked ==
    ASSUME EndInv, NEW p \in Procs,
           \/ Advance(p) \/ Finish(p) \/ DivergeEffect(p) \/ DivergePhase(p)
           \/ PerformRaises(p) \/ Crash(p)
    PROVE  EndInv'
<1>0. DOMAIN world = WorldFields /\ Asked(local[p]) /\ DOMAIN local[p] = MethodFields
  BY DEF EndInv, Asked
<1>1. CASE Advance(p)
  <2>1. UNCHANGED <<plan, world>>
    BY <1>1 DEF Advance
  <2>2. ASSUME NEW o, local' = [local EXCEPT ![p].at = "finish", ![p].oper = o]
        PROVE  EndInv'
    <3>. PICK n : n = [local[p] EXCEPT !.at = "finish", !.oper = o]
      OBVIOUS
    <3>1. /\ DOMAIN n = MethodFields /\ n.at = "finish" /\ n.plan = local[p].plan
          /\ n.todo = local[p].todo
      BY <1>0 DEF MethodFields
    <3>2. Asked(n)
      BY <1>0, <3>1 DEF Asked
    <3>. QED
      BY <1>0, <2>1, <2>2, <3>2, AskedStep
  <2>3. CASE Return(p)
    BY <1>0, <2>1, <2>3, ReturnsUnasked
  <2>. QED
    BY <1>1, <2>2, <2>3 DEF Advance
<1>2. CASE Finish(p) \/ DivergeEffect(p) \/ DivergePhase(p)
  <2>1. /\ Goto(p, "succeed") \/ Goto(p, "diverge phase") \/ Goto(p, "diverge plan")
        /\ UNCHANGED <<plan, world>>
    BY <1>2 DEF Finish, DivergeEffect, DivergePhase
  <2>. QED
    BY <1>0, <2>1, GoesUnasked DEF Unasked
<1>3. CASE PerformRaises(p)
  BY <1>3, EffectAsked
<1>4. CASE Crash(p)
  BY <1>0, <1>4, DoneUnasked DEF Crash
<1>. QED
  BY <1>1, <1>2, <1>3, <1>4

LEMMA OtherAsked ==
    ASSUME EndInv, NEW p \in Procs,
           \/ GenerateOperation(p) \/ StartTask(p) \/ ProcessCodingResult(p)
           \/ AcceptedOperation(p) \/ FailOperation(p) \/ GatedOperation(p)
           \/ EvidenceOperation(p) \/ ApprovedOperation(p) \/ CompleteTasks(p)
           \/ CancelOperation(p)
    PROVE  EndInv'
<1>0. DOMAIN world = WorldFields /\ Asked(local[p]) /\ DOMAIN local[p] = MethodFields
      /\ DOMAIN plan = PlanFields
  BY DEF EndInv, Asked
<1>1. CASE \/ GenerateOperation(p) \/ StartTask(p) \/ AcceptedOperation(p)
           \/ FailOperation(p) \/ GatedOperation(p) \/ CompleteTasks(p) \/ CancelOperation(p)
  <2>1. Done(p) /\ UNCHANGED <<plan, world>>
    BY <1>1 DEF GenerateOperation, StartTask, AcceptedOperation, FailOperation,
                GatedOperation, CompleteTasks, CancelOperation
  <2>. QED
    BY <1>0, <2>1, DoneUnasked
<1>2. CASE ApprovedOperation(p)
  BY <1>0, <1>2, GoesUnasked DEF ApprovedOperation, Unasked
<1>3. CASE EvidenceOperation(p)
  <2>. PICK n : n = [local[p] EXCEPT !.at = "evidence plan"]
    OBVIOUS
  <2>1. /\ DOMAIN n = MethodFields /\ n.at = "evidence plan" /\ n.plan = local[p].plan
        /\ n.todo = local[p].todo
    BY <1>0 DEF MethodFields
  <2>2. Asked(n)
    BY <1>0, <1>3, <2>1 DEF Asked, Live, EvidenceOperation, At
  <2>. QED
    BY <1>0, <1>3, <2>2, AskedStep DEF EvidenceOperation, Goto
<1>4. CASE ProcessCodingResult(p)
  <2>0. DOMAIN world' = WorldFields /\ UNCHANGED plan
    BY <1>0, <1>4 DEF ProcessCodingResult, WorldFields
  <2>1. ASSUME local' = [local EXCEPT ![p].at = "accepted", ![p].oper = oper]
        PROVE  EndInv'
    <3>. PICK n : n = [local[p] EXCEPT !.at = "accepted", !.oper = oper]
      OBVIOUS
    <3>1. /\ DOMAIN n = MethodFields /\ n.at = "accepted" /\ n.plan = local[p].plan
          /\ n.todo = local[p].todo
      BY <1>0 DEF MethodFields
    <3>2. Asked(n)
      BY <1>0, <3>1 DEF Asked
    <3>. QED
      BY <2>0, <2>1, <3>2, AskedStep
  <2>2. ASSUME local' = [local EXCEPT ![p].at = "diverge phase", ![p].plan = plan]
        PROVE  EndInv'
    <3>. PICK n : n = [local[p] EXCEPT !.at = "diverge phase", !.plan = plan]
      OBVIOUS
    <3>1. /\ DOMAIN n = MethodFields /\ n.at = "diverge phase" /\ n.plan = plan
          /\ n.todo = local[p].todo
      BY <1>0 DEF MethodFields
    <3>2. Asked(n)
      BY <1>0, <3>1 DEF Asked
    <3>. QED
      BY <2>0, <2>2, <3>2, AskedStep
  <2>3. CASE Done(p)
    BY <2>0, <2>3, DoneUnasked
  <2>. QED
    BY <1>4, <2>1, <2>2, <2>3 DEF ProcessCodingResult
<1>. QED
  BY <1>1, <1>2, <1>3, <1>4

\* A step that saves a plan saves one that exists.
LEMMA SavesAsked ==
    ASSUME EndInv, NEW p \in Procs,
           SavePlan(p) \/ Succeed(p) \/ DivergePlan(p) \/ EvidencePlan(p)
    PROVE  /\ EndInv' /\ UNCHANGED world
           /\ Succeed(p) \/ DivergePlan(p) => plan'.status \in Terminal
<1>0. DOMAIN world = WorldFields /\ Asked(local[p]) /\ DOMAIN local[p].plan = PlanFields
      /\ UNCHANGED world
  BY DEF EndInv, Asked, SavePlan, Succeed, DivergePlan, EvidencePlan
<1>1. ASSUME NEW s, s # "ABSENT", plan' = [local[p].plan EXCEPT !.status = s]
      PROVE  DOMAIN plan' = PlanFields /\ plan'.status = s /\ plan'.status # "ABSENT"
  BY <1>0, <1>1 DEF PlanFields
<1>2. CASE SavePlan(p)
  <2>1. DOMAIN plan' = PlanFields /\ plan'.status # "ABSENT"
    BY <1>0, <1>2 DEF SavePlan, Asked
  <2>2. PICK s \in Unasked : Goto(p, s)
    BY <1>2 DEF SavePlan, Onto, Unasked
  <2>3. EndInv'
    BY <1>0, <2>1, <2>2, GoesUnasked
  <2>. QED
    BY <1>0, <1>2, <2>3 DEF SavePlan, Succeed, DivergePlan, At
<1>3. CASE Succeed(p)
  BY <1>0, <1>1, <1>3, ReturnsUnasked DEF Succeed, DivergePlan, At, Terminal
<1>4. CASE DivergePlan(p) \/ EvidencePlan(p)
  BY <1>0, <1>1, <1>4, DoneUnasked DEF Succeed, DivergePlan, EvidencePlan, At, Terminal
<1>. QED
  BY <1>2, <1>3, <1>4

-----------------------------------------------------------------------------
LEMMA EndStep ==
    ASSUME EndInv, [Next]_vars
    PROVE  EndInv'
<1>1. CASE UNCHANGED vars
  BY <1>1 DEF vars, EndInv, Asked, Live
<1>2. CASE Interfere
  <2>1. DOMAIN world' = WorldFields
    BY <1>2 DEF Interfere, EndInv, WorldFields
  <2>. QED
    BY <1>2, <2>1 DEF Interfere, EndInv, Asked, Live
<1>3. ASSUME NEW p \in Procs, Continue(p)
      PROVE  EndInv'
  BY <1>3, InspectAsked, EffectAsked, RecordedAsked, OtherAsked, SavesAsked DEF Continue
<1>. QED
  BY <1>1, <1>2, <1>3, DriveAsked, DecideAsked, RecordedAsked DEF Next

\* A step that neither saves a plan nor performs an effect.
LEMMA LeavesAlone ==
    ASSUME EndInv, plan.status \in Terminal, UNCHANGED plan,
           \/ UNCHANGED world
           \/ \E a : world' = [world EXCEPT !.applied = a]
           \/ world' = [world EXCEPT !.disturbed = TRUE]
           \/ world' = [world EXCEPT !.remote = "foreign", !.disturbed = TRUE]
    PROVE  Final
<1>1. DOMAIN world = WorldFields
  BY DEF EndInv
<1>2. ASSUME NEW a, world' = [world EXCEPT !.applied = a]
      PROVE  Final
  BY <1>1, <1>2 DEF Final, WorldFields
<1>3. CASE world' = [world EXCEPT !.disturbed = TRUE]
  BY <1>1, <1>3 DEF Final, WorldFields
<1>4. CASE world' = [world EXCEPT !.remote = "foreign", !.disturbed = TRUE]
  BY <1>1, <1>4 DEF Final, WorldFields
<1>. QED
  BY <1>2, <1>3, <1>4 DEF Final

LEMMA EndedStep ==
    ASSUME EndInv, Next, plan.status \in Terminal
    PROVE  Final \/ \E p \in Procs : Earlier(p)
<1>0. "ABSENT" \notin Terminal /\ "AWAITING_APPROVAL" \notin Terminal
      /\ "REVIEW_REQUIRED" \notin Terminal
  BY DEF Terminal
<1>1. CASE Interfere
  BY <1>1, LeavesAlone DEF Interfere
<1>2. ASSUME NEW p \in Procs, Drive(p)
      PROVE  Final
  BY <1>0, <1>2, LeavesAlone
     DEF Drive, CreateRequest, GeneratePlan, Hold, CreateRuntimeWork, PrepareWorkspace,
         CreateFeatureBranch, SubmitCodingTask, AcceptProviderResult, RunQualityGates,
         GenerateReviewEvidence, CreateCommit, PushBranch, CreateDraftPullRequest
<1>3. ASSUME NEW p \in Procs, Decide(p)
      PROVE  Final
  BY <1>0, <1>3, LeavesAlone
     DEF Decide, DecidePlan, ApproveReview, RejectReview, CancelExecution, Hold,
         ReconcileExecution, ReportCodingResult, FailedCodingResult
\* An effect, or a plan written back: the method has asked before the end.
<1>4. ASSUME NEW p \in Procs, DOMAIN local = Procs, Asked(local[p]), NEW s,
             Goto(p, s) \/ Done(p), s # local[p].at, local[p].at # "idle", Live(local[p])
      PROVE  Earlier(p)
  <2>1. local'[p].at # local[p].at
    BY <1>4, IdleAsked DEF Goto, Done, Asked, MethodFields
  <2>. QED
    BY <1>4, <2>1 DEF Earlier, At, Live
<1>5. ASSUME NEW p \in Procs, Perform(p) \/ CopySource(p) \/ PerformRaises(p)
      PROVE  Final \/ Earlier(p)
  <2>0. DOMAIN local = Procs /\ Asked(local[p]) /\ UNCHANGED plan
    BY <1>5 DEF EndInv, Perform, CopySource, PerformRaises
  <2>1. CASE local[p].at = "perform"
    <3>1. Live(local[p])
      BY <2>0, <2>1 DEF Asked
    <3>2. Goto(p, "copy") \/ Goto(p, "verify") \/ Goto(p, "uncertain")
      BY <1>5 DEF Perform, CopySource, PerformRaises
    <3>. QED
      BY <1>4, <2>0, <2>1, <3>1, <3>2
  <2>2. CASE local[p].at = "copy"
    BY <1>5, <2>0, <2>2, WorldShape DEF Final
  <2>. QED
    BY <1>5, <2>1, <2>2 DEF Perform, CopySource, PerformRaises, At
<1>6. ASSUME NEW p \in Procs, SavePlan(p) \/ EvidencePlan(p)
      PROVE  Final \/ Earlier(p)
  <2>0. DOMAIN local = Procs /\ Asked(local[p]) /\ UNCHANGED world
    BY <1>6 DEF EndInv, SavePlan, EvidencePlan
  <2>1. CASE EvidencePlan(p)
    <3>1. Live(local[p]) /\ local[p].at = "evidence plan" /\ Done(p)
      BY <2>0, <2>1 DEF EvidencePlan, At, Asked
    <3>2. "idle" # local[p].at
      BY <3>1
    <3>. QED
      BY <1>4, <2>0, <3>1, <3>2
  <2>2. CASE SavePlan(p) /\ plan'.status \in Terminal
    BY <2>0, <2>2 DEF Final
  <2>3. CASE SavePlan(p) /\ plan'.status \notin Terminal
    <3>1. local[p].at \in {"generate", "decide", "approve", "cancel"}
          /\ plan' = local[p].plan /\ Goto(p, Onto(local[p].at))
      BY <2>3 DEF SavePlan
    <3>2. Live(local[p])
      BY <2>0, <2>3, <3>1 DEF Asked, Live
    <3>3. Onto(local[p].at) # local[p].at
      BY <3>1 DEF Onto
    <3>. QED
      BY <1>4, <2>0, <3>1, <3>2, <3>3
  <2>. QED
    BY <1>6, <2>1, <2>2, <2>3
<1>7. ASSUME NEW p \in Procs, Succeed(p) \/ DivergePlan(p)
      PROVE  Final
  BY <1>7, SavesAsked DEF Final
<1>8. ASSUME NEW p \in Procs, ProcessCodingResult(p) \/ Crash(p)
      PROVE  Final
  BY <1>8, LeavesAlone DEF ProcessCodingResult, Crash
<1>9. ASSUME NEW p \in Procs,
             \/ GenerateOperation(p) \/ Prepare(p) \/ Inspect(p) \/ MapTask(p) \/ Start(p)
             \/ Uncertain(p) \/ Verify(p) \/ RecordWorkspace(p) \/ Complete(p)
             \/ Advance(p) \/ Finish(p) \/ DivergeEffect(p) \/ DivergePhase(p)
             \/ ReconcileEffect(p) \/ StartTask(p) \/ AcceptedOperation(p)
             \/ FailOperation(p) \/ GatedOperation(p) \/ EvidenceOperation(p)
             \/ ApprovedOperation(p) \/ CompleteTasks(p) \/ CancelOperation(p)
      PROVE  Final
  BY <1>9, LeavesAlone
     DEF GenerateOperation, Prepare, Inspect, MapTask, Start, Uncertain, Verify,
         RecordWorkspace, Complete, Advance, Finish, DivergeEffect, DivergePhase,
         ReconcileEffect, StartTask, AcceptedOperation, FailOperation, GatedOperation,
         EvidenceOperation, ApprovedOperation, CompleteTasks, CancelOperation
<1>. QED
  BY <1>1, <1>2, <1>3, <1>5, <1>6, <1>7, <1>8, <1>9 DEF Next, Continue

LEMMA EndInit ==
    ASSUME Init
    PROVE  EndInv
<1>1. DOMAIN world = WorldFields /\ DOMAIN local = Procs /\ \A p \in Procs : local[p] = Idle
  BY DEF Init, WorldFields
<1>2. plan = NoPlan /\ DOMAIN plan = PlanFields /\ ~plan.approved
  BY IdleAsked DEF Init, NoPlan
<1>. QED
  BY <1>1, <1>2, IdleAsked DEF EndInv

\* _require_execution_allowed is asked once, when a method begins, and nothing
\* is asked when it saves: for any number of processes, an ended plan is brought
\* back, or acted for, only by methods that had loaded it before its end.
THEOREM EndedPlansLeftAlone == Spec => EndedPlansAreLeftAlone
<1>1. Spec => []EndInv
  BY EndInit, EndStep, PTL DEF Spec
<1>2. EndInv /\ [Next]_vars =>
        [plan.status \in Terminal => Final \/ \E p \in Procs : Earlier(p)]_vars
  BY EndedStep
<1>. QED
  BY <1>1, <1>2, PTL DEF Spec, EndedPlansAreLeftAlone
=============================================================================
