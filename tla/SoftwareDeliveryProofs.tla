----------------------- MODULE SoftwareDeliveryProofs -----------------------
(***************************************************************************)
(* Proofs about SoftwareDelivery for any workflows and agents.  Every call *)
(* replaces the entry of one workflow, so each builder of a new state is   *)
(* one lemma about that entry (Replaces), each operation one lemma about   *)
(* the entry it leaves, and what holds of the live state holds of the      *)
(* checkpoint, which is an earlier live state.                             *)
(***************************************************************************)
EXTENDS SoftwareDelivery, FiniteSetTheorems, FunctionTheorems, WellFoundedInduction, TLAPS

\* What holds of one workflow's entry in every live or stored state.
FlowOK(eventing, flow) ==
  /\ flow \in SoftwareDeliveryWorkflow
  /\ Agrees(flow)
  /\ eventing => Told(flow)
  /\ flow.rejection <= Len(flow.runs)
  /\ flow.stage \in {"REVIEW", "APPROVAL", "COMPLETED", "RELEASED"} =>
       flow.rejection < Len(flow.runs) /\ LastRun(flow) = "SUCCEEDED"

Accounted(s, a) ==
  /\ Load(s, a) <= MaxParallel[a]
  /\ a \in Range(s.agents) \ s.touched =>
       s.condition[a] = IF Load(s, a) = MaxParallel[a] THEN "BUSY" ELSE "AVAILABLE"

Sound(eventing, s) ==
  /\ s \in States
  /\ \A w \in Workflows : FlowOK(eventing, s.flow[w])
  /\ \A a \in Agents : Accounted(s, a)

IInv ==
  /\ config \in [eventing : BOOLEAN, automatic : BOOLEAN]
  /\ up \in BOOLEAN /\ ended \in SUBSET Workflows
  /\ Sound(config.eventing, state)
  /\ checkpoint # None => Sound(config.eventing, checkpoint)
  /\ checkpoint = None => ended = {}
  /\ checkpoint # None => ended \subseteq Ended(checkpoint)
  /\ up => ended \subseteq Ended(state)

\* t is s with another entry for w; agents and their states stay.
Replaces(s, t, w, flow) ==
  /\ t \in States
  /\ t.flow = [s.flow EXCEPT ![w] = flow]
  /\ t.agents = s.agents /\ t.condition = s.condition /\ t.touched = s.touched

-----------------------------------------------------------------------------
(* The builders.                                                           *)

LEMMA MoveToReplaces ==
  ASSUME NEW s \in States, NEW w \in Workflows, NEW stage \in WorkflowStage
  PROVE  Replaces(s, MoveTo(s, w, stage), w, [s.flow[w] EXCEPT !.stage = stage])
BY ZenonT(60) DEF Replaces, MoveTo, States, SoftwareDeliveryWorkflow

LEMMA ChangeItemReplaces ==
  ASSUME NEW s \in States, NEW w \in Workflows, NEW item \in LifecycleState
  PROVE  Replaces(s, ChangeItem(s, w, item), w, [s.flow[w] EXCEPT !.item = item])
BY ZenonT(60) DEF Replaces, ChangeItem, States, SoftwareDeliveryWorkflow

LEMMA PublishReplaces ==
  ASSUME NEW s \in States, NEW w \in Workflows, config.eventing \in BOOLEAN
  PROVE  Replaces(s, Publish(s, w), w,
           [s.flow[w] EXCEPT !.logged = IF config.eventing THEN s.flow[w].stage ELSE @])
<1>1. s.flow \in [Workflows -> SoftwareDeliveryWorkflow] /\ s.flow[w] \in SoftwareDeliveryWorkflow
  BY DEF States
<1>2. CASE config.eventing
  BY <1>1, <1>2 DEF Replaces, Publish, States, SoftwareDeliveryWorkflow
<1>3. CASE ~config.eventing
  <2>1. [s.flow[w] EXCEPT !.logged = IF config.eventing THEN s.flow[w].stage ELSE @] = s.flow[w]
    BY <1>1, <1>3 DEF SoftwareDeliveryWorkflow
  <2>2. s.flow = [s.flow EXCEPT ![w] = s.flow[w]]
    BY <1>1
  <2> QED
    BY <1>3, <2>1, <2>2 DEF Replaces, Publish
<1> QED
  BY <1>2, <1>3

LEMMA ReplacesTwice ==
  ASSUME NEW s \in States, NEW t, NEW u, NEW w \in Workflows, NEW f, NEW g,
         Replaces(s, t, w, f), Replaces(t, u, w, g)
  PROVE  Replaces(s, u, w, g)
BY DEF Replaces, States

LEMMA Replaced ==
  ASSUME NEW s \in States, NEW t, NEW w \in Workflows, NEW f, Replaces(s, t, w, f)
  PROVE  t \in States /\ t.flow[w] = f
BY DEF Replaces, States

LEMMA TellReplaces ==
  ASSUME NEW s \in States, NEW w \in Workflows, NEW stage \in WorkflowStage,
         config.eventing \in BOOLEAN
  PROVE  Replaces(s, Tell(s, w, stage), w,
           [s.flow[w] EXCEPT !.stage = stage,
                             !.logged = IF config.eventing THEN stage ELSE @])
<1> DEFINE f == [s.flow[w] EXCEPT !.stage = stage]
           t == MoveTo(s, w, stage)
           g == [f EXCEPT !.logged = IF config.eventing THEN f.stage ELSE @]
<1>1. Replaces(s, t, w, f)
  BY MoveToReplaces
<1>2. t \in States /\ t.flow[w] = f
  BY <1>1, Replaced
<1>3. Replaces(t, Publish(t, w), w, g)
  BY <1>2, PublishReplaces
<1>4. Replaces(s, Publish(t, w), w, g)
  BY <1>1, <1>3, ReplacesTwice
<1>5. s.flow[w] \in SoftwareDeliveryWorkflow
  BY DEF States
<1>6. g = [s.flow[w] EXCEPT !.stage = stage, !.logged = IF config.eventing THEN stage ELSE @]
  BY <1>5 DEF SoftwareDeliveryWorkflow
<1> QED
  BY <1>4, <1>6 DEF Tell

-----------------------------------------------------------------------------
(* What one entry's replacement leaves of the whole state.                 *)

LEMMA LoadType == ASSUME NEW s, NEW a PROVE Load(s, a) \in Nat /\ IsFiniteSet(Active(s, a))
<1>1. Active(s, a) \subseteq Workflows
  BY DEF Active
<1> QED
  BY <1>1, RosterAssumption, FS_Subset, FS_CardinalityType DEF Load

\* A replacement that leaves the assignment alone leaves every load alone.
LEMMA SoundReplaced ==
  ASSUME NEW e, NEW s, NEW t, NEW w \in Workflows, NEW f,
         Sound(e, s), Replaces(s, t, w, f), FlowOK(e, f),
         f.agent = s.flow[w].agent,
         f.assignment = "ACTIVE" <=> s.flow[w].assignment = "ACTIVE"
  PROVE  Sound(e, t)
<1>1. t \in States
  BY DEF Replaces
<1>2. \A v \in Workflows : FlowOK(e, t.flow[v])
  BY DEF Sound, States, Replaces
<1>3. ASSUME NEW a \in Agents PROVE Accounted(t, a)
  <2>1. Active(t, a) = Active(s, a)
    BY DEF Sound, States, Replaces, Active
  <2>2. Accounted(s, a)
    BY DEF Sound
  <2> QED
    BY <2>1, <2>2 DEF Accounted, Load, Replaces
<1> QED
  BY <1>1, <1>2, <1>3 DEF Sound

\* An end is final.
LEMMA EndedReplaced ==
  ASSUME NEW s \in States, NEW t, NEW w \in Workflows, NEW f, Replaces(s, t, w, f),
         s.flow[w].stage \notin {"RELEASED", "CANCELLED"}
  PROVE  Ended(s) \subseteq Ended(t)
BY DEF Ended, Replaces, States

-----------------------------------------------------------------------------
(* A call that leaves a sound state preserves the invariant, whether it    *)
(* commits, fails to commit, or meets a failing checkpoint.                *)

LEMMA DoPreserves ==
  ASSUME NEW name, NEW after, IInv, Do(name, after), Sound(config.eventing, after),
         Ended(state) \subseteq Ended(after)
  PROVE  IInv'
<1>1. config' = config /\ up' = up /\ up
  BY DEF Do
<1>2. \/ state' = after /\ AfterAtomicOperation(name, after)
      \/ state' \in {state, after} /\ UNCHANGED <<checkpoint, ended>>
  BY DEF Do, RolledBack, Restored
<1>3. \/ state' \in {state, after} /\ UNCHANGED <<checkpoint, ended>>
      \/ state' = after /\ checkpoint' = after /\ ended' = Ended(after)
  BY <1>2 DEF AfterAtomicOperation
<1>4. CASE state' \in {state, after} /\ UNCHANGED <<checkpoint, ended>>
  BY <1>1, <1>4 DEF IInv
<1>5. CASE state' = after /\ checkpoint' = after /\ ended' = Ended(after)
  BY <1>1, <1>5, NoneAssumption DEF IInv, Ended, Sound
<1> QED
  BY <1>3, <1>4, <1>5

LEMMA RefusePreserves ==
  ASSUME NEW after, IInv, Refuse(after),
         ~config.eventing => Sound(config.eventing, after) /\ Ended(state) \subseteq Ended(after)
  PROVE  IInv'
BY DEF Refuse, RolledBack, Restored, IInv

LEMMA CallPreserves ==
  ASSUME NEW name, NEW after, NEW w \in Workflows, NEW f, IInv, Do(name, after),
         Replaces(state, after, w, f), FlowOK(config.eventing, f),
         f.agent = state.flow[w].agent,
         f.assignment = "ACTIVE" <=> state.flow[w].assignment = "ACTIVE",
         state.flow[w].stage \notin {"RELEASED", "CANCELLED"}
  PROVE  IInv'
<1>1. state \in States /\ Sound(config.eventing, state)
  BY DEF IInv, Sound
<1>2. Sound(config.eventing, after)
  BY <1>1, SoundReplaced
<1>3. Ended(state) \subseteq Ended(after)
  BY <1>1, EndedReplaced
<1> QED
  BY <1>2, <1>3, DoPreserves

-----------------------------------------------------------------------------
(* The calls that leave the assignment alone, one by one.                  *)

\* The invariant gives the entry of w its type and its agreement.
LEMMA EntryOK ==
  ASSUME IInv, NEW w \in Workflows
  PROVE  /\ state \in States /\ config.eventing \in BOOLEAN
         /\ state.flow[w] \in SoftwareDeliveryWorkflow
         /\ FlowOK(config.eventing, state.flow[w])
BY DEF IInv, Sound, States

\* A result that is appended is the last run.
LEMMA AppendedRun ==
  ASSUME NEW runs \in Seq({"SUCCEEDED", "FAILED"}), NEW result \in {"SUCCEEDED", "FAILED"}
  PROVE  /\ Append(runs, result) \in Seq({"SUCCEEDED", "FAILED"})
         /\ Append(runs, result) # <<>>
         /\ Len(Append(runs, result)) = Len(runs) + 1
         /\ Last(Append(runs, result)) = result
BY DEF Last

\* The entry after the item has changed and the stage has moved and been told.
Entry(eventing, flow, stage, item) ==
  [flow EXCEPT !.stage = stage, !.item = item,
               !.logged = IF eventing THEN stage ELSE @]

Moved(eventing, flow, g, stage, item) ==
  /\ g \in SoftwareDeliveryWorkflow
  /\ g.stage = stage /\ g.stage # None /\ g.item = item
  /\ g.assignment = flow.assignment /\ g.agent = flow.agent
  /\ g.runs = flow.runs /\ g.rejection = flow.rejection
  /\ eventing => g.logged = stage

LEMMA EntryMoved ==
  ASSUME NEW e \in BOOLEAN, NEW flow \in SoftwareDeliveryWorkflow,
         NEW stage \in WorkflowStage, NEW item \in LifecycleState
  PROVE  Moved(e, flow, Entry(e, flow, stage, item), stage, item)
BY NoneAssumption DEF Moved, Entry, SoftwareDeliveryWorkflow

LEMMA EntryReplaces ==
  ASSUME NEW s \in States, NEW w \in Workflows, NEW stage \in WorkflowStage,
         NEW item \in LifecycleState, config.eventing \in BOOLEAN
  PROVE  Replaces(s, Tell(ChangeItem(s, w, item), w, stage), w,
                  Entry(config.eventing, s.flow[w], stage, item))
<1> DEFINE t == ChangeItem(s, w, item)
           f == [s.flow[w] EXCEPT !.item = item]
           g == [f EXCEPT !.stage = stage, !.logged = IF config.eventing THEN stage ELSE @]
<1>1. Replaces(s, t, w, f) /\ t \in States /\ t.flow[w] = f
  BY ChangeItemReplaces, Replaced
<1>2. Replaces(s, Tell(t, w, stage), w, g)
  <2> HIDE DEF t, f
  <2>1. Replaces(t, Tell(t, w, stage), w, g)
    BY <1>1, TellReplaces
  <2> HIDE DEF g
  <2> QED
    BY <1>1, <2>1, ReplacesTwice
<1>3. s.flow[w] \in SoftwareDeliveryWorkflow
  BY DEF States
<1>4. g = Entry(config.eventing, s.flow[w], stage, item)
  BY <1>3 DEF Entry, SoftwareDeliveryWorkflow
<1> QED
  BY <1>2, <1>4

\* A call whose whole effect is a new stage and a new item.
LEMMA EntryPreserves ==
  ASSUME IInv, NEW name, NEW w \in Workflows, NEW stage \in WorkflowStage,
         NEW item \in LifecycleState,
         Do(name, Tell(ChangeItem(state, w, item), w, stage)),
         FlowOK(config.eventing, Entry(config.eventing, state.flow[w], stage, item)),
         state.flow[w].stage \notin {"RELEASED", "CANCELLED"}
  PROVE  IInv'
<1> DEFINE g == Entry(config.eventing, state.flow[w], stage, item)
           after == Tell(ChangeItem(state, w, item), w, stage)
<1>1. Replaces(state, after, w, g)
  BY EntryOK, EntryReplaces
<1>2. g.assignment = state.flow[w].assignment /\ g.agent = state.flow[w].agent
  BY EntryOK, EntryMoved DEF Moved
<1> HIDE DEF g, after
<1>3. Do(name, after) /\ FlowOK(config.eventing, g)
  BY DEF g, after
<1> QED
  BY <1>1, <1>2, <1>3, CallPreserves

\* The strings that name a stage or an item are not None.
LEMMA Names ==
  /\ \A n \in {"INTAKE", "PLANNING", "READY", "ASSIGNED", "EXECUTING", "REVIEW", "APPROVAL",
               "COMPLETED", "RELEASED", "FAILED", "CANCELLED"} :
       n \in WorkflowStage /\ n # None
  /\ \A n \in {"CREATED", "READY", "ASSIGNED", "RUNNING", "REVIEW", "APPROVED", "REJECTED",
               "COMPLETED", "RELEASED"} : n \in LifecycleState
  /\ \A n \in AssignmentStatus : n # None
BY NoneAssumption DEF WorkflowStage, LifecycleState

LEMMA SubmitPreserves ==
  ASSUME IInv, NEW w \in Workflows, SubmitRequest(w)
  PROVE  IInv'
<1> DEFINE g == Entry(config.eventing, state.flow[w], "INTAKE", "CREATED")
<1>1. state.flow[w] = Unsubmitted /\ state.flow[w].stage = None
  BY EntryOK DEF SubmitRequest, FlowOK, Agrees
<1>2. FlowOK(config.eventing, g)
  <2>1. "INTAKE" \in WorkflowStage /\ "CREATED" \in LifecycleState
    BY Names
  <2>2. Moved(config.eventing, state.flow[w], g, "INTAKE", "CREATED")
    BY <2>1, EntryOK, EntryMoved
  <2> HIDE DEF g
  <2> QED
    BY <1>1, <2>2, EntryOK DEF Moved, FlowOK, Agrees, Told, Unsubmitted
<1> QED
  BY <1>1, <1>2, Names, EntryPreserves DEF SubmitRequest

LEMMA ApprovePreserves ==
  ASSUME IInv, NEW w \in Workflows, ApproveWork(w)
  PROVE  IInv'
<1> DEFINE g == Entry(config.eventing, state.flow[w], "APPROVAL", "APPROVED")
<1>1. state.flow[w].stage = "REVIEW"
  BY DEF ApproveWork
<1>2. FlowOK(config.eventing, g)
  <2>1. "APPROVAL" \in WorkflowStage /\ "APPROVED" \in LifecycleState
    BY Names
  <2>2. Moved(config.eventing, state.flow[w], g, "APPROVAL", "APPROVED")
    BY <2>1, EntryOK, EntryMoved
  <2> HIDE DEF g
  <2> QED
    BY <1>1, <2>2, EntryOK DEF Moved, FlowOK, Agrees, Told, LastRun
<1> QED
  BY <1>1, <1>2, Names, EntryPreserves DEF ApproveWork

LEMMA ReleasePreserves ==
  ASSUME IInv, NEW w \in Workflows, ReleaseWork(w)
  PROVE  IInv'
<1> DEFINE g == Entry(config.eventing, state.flow[w], "RELEASED", "RELEASED")
<1>1. state.flow[w].stage = "COMPLETED"
  BY DEF ReleaseWork
<1>2. FlowOK(config.eventing, g)
  <2>1. "RELEASED" \in WorkflowStage /\ "RELEASED" \in LifecycleState
    BY Names
  <2>2. Moved(config.eventing, state.flow[w], g, "RELEASED", "RELEASED")
    BY <2>1, EntryOK, EntryMoved
  <2> HIDE DEF g
  <2> QED
    BY <1>1, <2>2, EntryOK DEF Moved, FlowOK, Agrees, Told, LastRun
<1> QED
  BY <1>1, <1>2, Names, EntryPreserves DEF ReleaseWork

LEMMA ResetPreserves ==
  ASSUME IInv, NEW w \in Workflows, ResetFailedExecution(w)
  PROVE  IInv'
<1> DEFINE g == Entry(config.eventing, state.flow[w], "ASSIGNED", "ASSIGNED")
<1>1. state.flow[w].stage = "FAILED"
  BY DEF ResetFailedExecution, Recoverable
<1>2. FlowOK(config.eventing, g)
  <2>1. "ASSIGNED" \in WorkflowStage /\ "ASSIGNED" \in LifecycleState
    BY Names
  <2>2. Moved(config.eventing, state.flow[w], g, "ASSIGNED", "ASSIGNED")
    BY <2>1, EntryOK, EntryMoved
  <2> HIDE DEF g
  <2> QED
    BY <1>1, <2>2, EntryOK DEF Moved, FlowOK, Agrees, Told, LastRun
<1> QED
  BY <1>1, <1>2, Names, EntryPreserves DEF ResetFailedExecution, RecoverItem

LEMMA PlanPreserves ==
  ASSUME IInv, NEW w \in Workflows, PlanRequest(w)
  PROVE  IInv'
<1> DEFINE t == MoveTo(state, w, "PLANNING")
           f == [state.flow[w] EXCEPT !.stage = "PLANNING"]
           g == Entry(config.eventing, f, "READY", "READY")
           after == Tell(ChangeItem(t, w, "READY"), w, "READY")
<1>1. state.flow[w].stage = "INTAKE" /\ Do("plan_request", after)
  BY DEF PlanRequest
<1>2. {"PLANNING", "READY"} \subseteq WorkflowStage /\ "READY" \in LifecycleState
  BY Names
<1>3. Replaces(state, t, w, f) /\ t \in States /\ t.flow[w] = f
  BY <1>2, EntryOK, MoveToReplaces, Replaced
<1>4. f \in SoftwareDeliveryWorkflow
  BY <1>3 DEF States
<1>5. /\ f.assignment = state.flow[w].assignment /\ f.agent = state.flow[w].agent
      /\ f.runs = state.flow[w].runs /\ f.rejection = state.flow[w].rejection
  BY EntryOK DEF SoftwareDeliveryWorkflow
<1> HIDE DEF t, f
<1>6. Replaces(t, after, w, g)
  BY <1>2, <1>3, EntryOK, EntryReplaces
<1>7. Moved(config.eventing, f, g, "READY", "READY")
  BY <1>2, <1>4, EntryOK, EntryMoved
<1> HIDE DEF g, after
<1>8. Replaces(state, after, w, g)
  BY <1>3, <1>6, EntryOK, ReplacesTwice
<1>9. FlowOK(config.eventing, g)
  BY <1>1, <1>5, <1>7, EntryOK DEF Moved, FlowOK, Agrees, Told
<1> QED
  BY <1>1, <1>5, <1>7, <1>8, <1>9, CallPreserves DEF Moved

LEMMA RejectionReplaces ==
  ASSUME NEW s \in States, NEW w \in Workflows, NEW n \in Nat
  PROVE  Replaces(s, [s EXCEPT !.flow[w].rejection = n], w, [s.flow[w] EXCEPT !.rejection = n])
BY ZenonT(60) DEF Replaces, States, SoftwareDeliveryWorkflow

LEMMA RejectPreserves ==
  ASSUME IInv, NEW w \in Workflows, RejectWork(w)
  PROVE  IInv'
<1> DEFINE n == Len(state.flow[w].runs)
           s == ChangeItem(state, w, "REJECTED")
           t == [s EXCEPT !.flow[w].rejection = n]
           f == [state.flow[w] EXCEPT !.item = "REJECTED"]
           g == [f EXCEPT !.rejection = n]
           h == [g EXCEPT !.stage = "EXECUTING",
                          !.logged = IF config.eventing THEN "EXECUTING" ELSE @]
           after == Tell(t, w, "EXECUTING")
<1>1. state.flow[w].stage = "REVIEW" /\ Do("reject_work", after)
  BY DEF RejectWork
<1>2. "EXECUTING" \in WorkflowStage /\ "REJECTED" \in LifecycleState
  BY Names
<1>3. n \in Nat
  BY EntryOK DEF SoftwareDeliveryWorkflow
<1>4. Replaces(state, s, w, f) /\ s \in States /\ s.flow[w] = f
  BY <1>2, EntryOK, ChangeItemReplaces, Replaced
<1> HIDE DEF n, s, f
<1>5. Replaces(s, t, w, g)
  BY <1>3, <1>4, RejectionReplaces
<1> HIDE DEF t, g
<1>6. t \in States /\ t.flow[w] = g /\ Replaces(state, t, w, g)
  BY <1>4, <1>5, EntryOK, Replaced, ReplacesTwice
<1>7. /\ h \in SoftwareDeliveryWorkflow
      /\ h.stage = "EXECUTING" /\ h.stage # None /\ h.item = "REJECTED" /\ h.rejection = n
      /\ h.assignment = state.flow[w].assignment /\ h.agent = state.flow[w].agent
      /\ h.runs = state.flow[w].runs
      /\ config.eventing => h.logged = "EXECUTING"
  BY <1>2, <1>3, EntryOK, NoneAssumption DEF f, g, SoftwareDeliveryWorkflow
<1>8. Replaces(t, after, w, h)
  BY <1>2, <1>6, EntryOK, TellReplaces
<1> HIDE DEF h, after
<1>9. Replaces(state, after, w, h)
  BY <1>6, <1>8, EntryOK, ReplacesTwice
<1>10. FlowOK(config.eventing, h)
  BY <1>1, <1>3, <1>7, EntryOK DEF n, FlowOK, Agrees, Told, LastRun
<1> QED
  BY <1>1, <1>7, <1>9, <1>10, CallPreserves

-----------------------------------------------------------------------------
(* Execution: what a start tells, what a run leaves.                       *)

LEMMA RunsReplaces ==
  ASSUME NEW s \in States, NEW w \in Workflows, NEW runs \in Seq({"SUCCEEDED", "FAILED"})
  PROVE  Replaces(s, [s EXCEPT !.flow[w].runs = runs], w, [s.flow[w] EXCEPT !.runs = runs])
BY ZenonT(60) DEF Replaces, States, SoftwareDeliveryWorkflow

LEMMA ExecutedReplaces ==
  ASSUME NEW s \in States, NEW w \in Workflows, NEW result \in {"SUCCEEDED", "FAILED"}
  PROVE  Replaces(s, Executed(s, w, result), w,
           [s.flow[w] EXCEPT !.item = IF result = "SUCCEEDED" THEN "REVIEW" ELSE "RUNNING",
                             !.runs = Append(@, result)])
<1> DEFINE item == IF result = "SUCCEEDED" THEN "REVIEW" ELSE "RUNNING"
           t == ChangeItem(s, w, item)
           f == [s.flow[w] EXCEPT !.item = item]
           runs == Append(s.flow[w].runs, result)
           g == [f EXCEPT !.runs = runs]
<1>1. item \in LifecycleState
  BY Names
<1>2. Replaces(s, t, w, f) /\ t \in States /\ t.flow[w] = f
  BY <1>1, ChangeItemReplaces, Replaced
<1>3. s.flow[w] \in SoftwareDeliveryWorkflow
  BY DEF States
<1>4. runs \in Seq({"SUCCEEDED", "FAILED"})
  BY <1>3, AppendedRun DEF SoftwareDeliveryWorkflow
<1> HIDE DEF item, runs
<1>5. f.runs = s.flow[w].runs /\ g = [s.flow[w] EXCEPT !.item = item, !.runs = runs]
  BY <1>3 DEF SoftwareDeliveryWorkflow
<1> HIDE DEF t, f
<1>6. Replaces(t, [t EXCEPT !.flow[w].runs = runs], w, g)
  BY <1>2, <1>4, RunsReplaces
<1>7. Executed(s, w, result) = [t EXCEPT !.flow[w].runs = runs]
  BY <1>2, <1>5 DEF Executed, item, runs, t
<1> HIDE DEF g
<1>8. Replaces(s, Executed(s, w, result), w, g)
  BY <1>2, <1>6, <1>7, ReplacesTwice
<1> QED
  BY <1>5, <1>8 DEF item, runs

\* The entry behind a run, whatever stage is told next.
Ran(eventing, flow, g, result, stage) ==
  /\ g \in SoftwareDeliveryWorkflow
  /\ g.stage = stage /\ g.stage # None
  /\ g.item = IF result = "SUCCEEDED" THEN "REVIEW" ELSE "RUNNING"
  /\ g.assignment = flow.assignment /\ g.agent = flow.agent
  /\ g.runs = Append(flow.runs, result) /\ g.rejection = flow.rejection
  /\ eventing => g.logged = stage

LEMMA RunTold ==
  ASSUME NEW s \in States, NEW w \in Workflows, NEW result \in {"SUCCEEDED", "FAILED"},
         NEW stage \in WorkflowStage, config.eventing \in BOOLEAN
  PROVE  \E g : /\ Replaces(s, Tell(Executed(s, w, result), w, stage), w, g)
                /\ Ran(config.eventing, s.flow[w], g, result, stage)
<1> DEFINE t == Executed(s, w, result)
           f == [s.flow[w] EXCEPT !.item = IF result = "SUCCEEDED" THEN "REVIEW" ELSE "RUNNING",
                                  !.runs = Append(@, result)]
           g == [f EXCEPT !.stage = stage,
                          !.logged = IF config.eventing THEN stage ELSE @]
<1>1. Replaces(s, t, w, f)
  BY ExecutedReplaces
<1> HIDE DEF t, f
<1>2. t \in States /\ t.flow[w] = f
  BY <1>1, Replaced
<1>3. Ran(config.eventing, s.flow[w], g, result, stage)
  <2>1. s.flow[w] \in SoftwareDeliveryWorkflow /\ f \in SoftwareDeliveryWorkflow
    BY <1>2 DEF States
  <2>2. /\ f.item = IF result = "SUCCEEDED" THEN "REVIEW" ELSE "RUNNING"
        /\ f.runs = Append(s.flow[w].runs, result) /\ f.rejection = s.flow[w].rejection
        /\ f.assignment = s.flow[w].assignment /\ f.agent = s.flow[w].agent
    BY <2>1 DEF f, SoftwareDeliveryWorkflow
  <2>3. /\ g \in SoftwareDeliveryWorkflow /\ g.stage = stage /\ g.stage # None
        /\ g.item = f.item /\ g.runs = f.runs /\ g.rejection = f.rejection
        /\ g.assignment = f.assignment /\ g.agent = f.agent
        /\ config.eventing => g.logged = stage
    BY <2>1, NoneAssumption, ZenonT(60) DEF SoftwareDeliveryWorkflow
  <2> QED
    BY <2>2, <2>3 DEF Ran
<1>4. Replaces(t, Tell(t, w, stage), w, g)
  BY <1>2, TellReplaces
<1> HIDE DEF g
<1>5. Replaces(s, Tell(t, w, stage), w, g)
  BY <1>1, <1>4, ReplacesTwice
<1> QED
  BY <1>3, <1>5 DEF t

\* A run behind a workflow whose executions are in order leaves it in order.
LEMMA RanOK ==
  ASSUME NEW e, NEW flow \in SoftwareDeliveryWorkflow, NEW g,
         NEW result \in {"SUCCEEDED", "FAILED"},
         flow.assignment = "ACTIVE", flow.rejection <= Len(flow.runs),
         Ran(e, flow, g, result, IF result = "SUCCEEDED" THEN "REVIEW" ELSE "FAILED")
  PROVE  FlowOK(e, g)
<1>1. flow.runs \in Seq({"SUCCEEDED", "FAILED"}) /\ flow.rejection \in Nat
  BY DEF SoftwareDeliveryWorkflow
<1>2. /\ g.runs = Append(flow.runs, result) /\ g.runs # <<>>
      /\ Len(g.runs) = Len(flow.runs) + 1 /\ Last(g.runs) = result
      /\ Len(flow.runs) \in Nat
  BY <1>1, AppendedRun DEF Ran
<1> QED
  BY <1>1, <1>2 DEF Ran, FlowOK, Agrees, Told, LastRun

\* To tell the stage one is in changes nothing else.
LEMMA PublishIsTell ==
  ASSUME NEW s \in States, NEW w \in Workflows
  PROVE  Publish(s, w) = Tell(s, w, s.flow[w].stage)
<1>1. s.flow \in [Workflows -> SoftwareDeliveryWorkflow]
  BY DEF States
<1>2. [s.flow[w] EXCEPT !.stage = s.flow[w].stage] = s.flow[w]
  BY <1>1 DEF SoftwareDeliveryWorkflow
<1>3. [s.flow EXCEPT ![w] = s.flow[w]] = s.flow
  BY <1>1
<1>4. [s EXCEPT !.flow = s.flow] = s
  BY DEF States
<1>5. MoveTo(s, w, s.flow[w].stage) = [s EXCEPT !.flow = [s.flow EXCEPT ![w] =
                                         [s.flow[w] EXCEPT !.stage = s.flow[w].stage]]]
  BY DEF MoveTo
<1>6. MoveTo(s, w, s.flow[w].stage) = s
  BY <1>2, <1>3, <1>4, <1>5
<1> QED
  BY <1>6 DEF Tell

\* The entry of a workflow whose execution has begun.
LEMMA StartTold ==
  ASSUME IInv, NEW w \in Workflows, state.flow[w].stage \in {"ASSIGNED", "EXECUTING"}
  PROVE  \E f : Replaces(state, Started(w), w, f)
                /\ Moved(config.eventing, state.flow[w], f, "EXECUTING", state.flow[w].item)
<1> DEFINE f == [state.flow[w] EXCEPT !.stage = "EXECUTING",
                   !.logged = IF config.eventing THEN "EXECUTING" ELSE @]
<1>1. "EXECUTING" \in WorkflowStage
  BY Names
<1>2. Started(w) = Tell(state, w, "EXECUTING")
  BY EntryOK, PublishIsTell DEF Started
<1>3. Replaces(state, Started(w), w, f)
  BY <1>1, <1>2, EntryOK, TellReplaces
<1>4. Moved(config.eventing, state.flow[w], f, "EXECUTING", state.flow[w].item)
  BY <1>1, EntryOK, NoneAssumption DEF Moved, SoftwareDeliveryWorkflow
<1> QED
  BY <1>3, <1>4

LEMMA ExecutePreserves ==
  ASSUME IInv, NEW w \in Workflows, ExecuteWork(w)
  PROVE  IInv'
<1>1. /\ state.flow[w].stage \in {"ASSIGNED", "EXECUTING"}
      /\ state.flow[w].item \in {"ASSIGNED", "REJECTED"}
  BY DEF ExecuteWork
<1>2. PICK f : /\ Replaces(state, Started(w), w, f)
               /\ Moved(config.eventing, state.flow[w], f, "EXECUTING", state.flow[w].item)
  BY <1>1, StartTold
<1>3. Started(w) \in States /\ Started(w).flow[w] = f
  BY <1>2, EntryOK, Replaced
<1>4. f.assignment = "ACTIVE" /\ f.rejection <= Len(f.runs) /\ f \in SoftwareDeliveryWorkflow
  BY <1>1, <1>2, EntryOK DEF Moved, FlowOK, Agrees
<1>5. ASSUME NEW result \in {"SUCCEEDED", "FAILED"},
             Do("execute_work", Tell(Executed(Started(w), w, result), w,
                                     IF result = "SUCCEEDED" THEN "REVIEW" ELSE "FAILED"))
      PROVE  IInv'
  <2> DEFINE stage == IF result = "SUCCEEDED" THEN "REVIEW" ELSE "FAILED"
             after == Tell(Executed(Started(w), w, result), w, stage)
  <2>1. stage \in WorkflowStage
    BY Names
  <2> HIDE DEF stage
  <2>2. PICK g : Replaces(Started(w), after, w, g) /\ Ran(config.eventing, f, g, result, stage)
    BY <1>3, <2>1, EntryOK, RunTold
  <2>3. FlowOK(config.eventing, g)
    BY <1>4, <2>2, RanOK DEF stage
  <2>4. Do("execute_work", after)
    BY <1>5 DEF stage
  <2> HIDE DEF after
  <2>5. Replaces(state, after, w, g)
    BY <1>2, <2>2, EntryOK, ReplacesTwice
  <2>6. g.agent = state.flow[w].agent /\ g.assignment = state.flow[w].assignment
    BY <1>2, <2>2 DEF Ran, Moved
  <2> QED
    BY <1>1, <2>3, <2>4, <2>5, <2>6, CallPreserves
<1>6. ASSUME Refuse(Started(w)) PROVE IInv'
  <2>1. ASSUME ~config.eventing PROVE Sound(config.eventing, Started(w))
    <3>1. FlowOK(config.eventing, f)
      BY <1>1, <1>2, <2>1, EntryOK DEF Moved, FlowOK, Agrees, LastRun
    <3> QED
      BY <1>2, <3>1, SoundReplaced DEF IInv, Moved
  <2>2. Ended(state) \subseteq Ended(Started(w))
    BY <1>1, <1>2, EntryOK, EndedReplaced
  <2> QED
    BY <1>6, <2>1, <2>2, RefusePreserves
<1> QED
  BY <1>5, <1>6 DEF ExecuteWork

LEMMA RetryPreserves ==
  ASSUME IInv, NEW w \in Workflows, RetryFailedExecution(w)
  PROVE  IInv'
<1>1. state.flow[w].stage = "FAILED"
  BY DEF RetryFailedExecution, Recoverable
<1> DEFINE s == RecoverItem(state, w)
           f == [state.flow[w] EXCEPT !.item = "ASSIGNED"]
<1>2. Replaces(state, s, w, f)
  BY Names, EntryOK, ChangeItemReplaces DEF RecoverItem
<1>3. /\ f \in SoftwareDeliveryWorkflow /\ f.stage = "FAILED"
      /\ f.agent = state.flow[w].agent /\ f.assignment = state.flow[w].assignment
      /\ f.assignment = "ACTIVE" /\ f.rejection <= Len(f.runs)
  <2>1. "ASSIGNED" \in LifecycleState
    BY Names
  <2> QED
    BY <1>1, <2>1, EntryOK DEF FlowOK, Agrees, SoftwareDeliveryWorkflow
<1> HIDE DEF s, f
<1>4. s \in States /\ s.flow[w] = f
  BY <1>2, EntryOK, Replaced
<1>5. PICK result \in {"SUCCEEDED", "FAILED"} :
        Do("recover_failed_execution",
           IF result = "SUCCEEDED" THEN Tell(Executed(s, w, result), w, "REVIEW")
           ELSE Publish(Executed(s, w, result), w))
  BY DEF RetryFailedExecution, s
<1> DEFINE stage == IF result = "SUCCEEDED" THEN "REVIEW" ELSE "FAILED"
           after == Tell(Executed(s, w, result), w, stage)
<1>6. Do("recover_failed_execution", after)
  <2>1. Executed(s, w, result) \in States /\ Executed(s, w, result).flow[w].stage = "FAILED"
    <3> DEFINE h == [f EXCEPT !.item = IF result = "SUCCEEDED" THEN "REVIEW" ELSE "RUNNING",
                              !.runs = Append(@, result)]
    <3>1. h.stage = "FAILED"
      BY <1>3 DEF SoftwareDeliveryWorkflow
    <3>2. Replaces(s, Executed(s, w, result), w, h)
      BY <1>4, ExecutedReplaces
    <3> HIDE DEF h
    <3> QED
      BY <1>4, <3>1, <3>2, Replaced
  <2> QED
    BY <1>5, <2>1, PublishIsTell
<1>7. stage \in WorkflowStage
  BY Names
<1> HIDE DEF stage
<1>8. PICK g : Replaces(s, after, w, g) /\ Ran(config.eventing, f, g, result, stage)
  BY <1>4, <1>7, EntryOK, RunTold
<1> HIDE DEF after
<1>9. FlowOK(config.eventing, g)
  BY <1>3, <1>8, RanOK DEF stage
<1>10. Replaces(state, after, w, g)
  BY <1>2, <1>8, EntryOK, ReplacesTwice
<1> QED
  BY <1>1, <1>3, <1>6, <1>8, <1>9, <1>10, CallPreserves DEF Ran

-----------------------------------------------------------------------------
(* The agent an assignment goes to: among finitely many eligible agents    *)
(* there is a first one, so select_agent finds it.                         *)

LEMMA SmallestNat ==
  ASSUME NEW S \in SUBSET Nat, S # {}
  PROVE  \E n \in S : \A m \in S : ~(m < n)
<1> DEFINE R == OpToRel(<, Nat)
<1>1. PICK n \in S : \A m \in S : <<m, n>> \notin R
  <2>1. IsWellFoundedOn(R, Nat)
    BY NatLessThanWellFounded
  <2> HIDE DEF R
  <2> QED
    BY <2>1, WFMin
<1> QED
  BY <1>1 DEF OpToRel

LEMMA FiniteHasFirst ==
  ASSUME NEW S, IsFiniteSet(S), S # {}, NEW R,
         \A x, y \in S : <<x, y>> \in R \/ <<y, x>> \in R,
         \A x, y, z \in S : <<x, y>> \in R /\ <<y, z>> \in R => <<x, z>> \in R
  PROVE  \E x \in S : \A y \in S : <<x, y>> \in R
<1> DEFINE First(T) == \E x \in T : \A y \in T : <<x, y>> \in R
           Bad == {n \in Nat : \E T \in SUBSET S : T # {} /\ Cardinality(T) = n /\ ~First(T)}
<1>1. SUFFICES ASSUME ~First(S) PROVE FALSE
  OBVIOUS
<1>2. Cardinality(S) \in Bad
  BY <1>1, FS_CardinalityType
<1>3. PICK n \in Bad : \A m \in Bad : ~(m < n)
  BY <1>2, SmallestNat
<1>4. PICK T \in SUBSET S : T # {} /\ Cardinality(T) = n /\ ~First(T)
  OBVIOUS
<1>5. IsFiniteSet(T)
  BY FS_Subset
<1>6. PICK x \in T : TRUE
  BY <1>4
<1> DEFINE U == T \ {x}
<1>7. IsFiniteSet(U) /\ Cardinality(U) = n - 1 /\ n - 1 \in Nat
  <2>1. IsFiniteSet(U) /\ Cardinality(U) = Cardinality(T) - 1
    BY <1>5, <1>6, FS_RemoveElement
  <2>2. Cardinality(U) \in Nat
    BY <2>1, FS_CardinalityType
  <2> QED
    BY <1>4, <2>1, <2>2
<1>8. n - 1 \notin Bad
  BY <1>3, <1>7
<1>9. U = {} \/ First(U)
  BY <1>7, <1>8
<1>10. CASE U = {}
  BY <1>4, <1>6, <1>10
<1>11. CASE First(U)
  <2>1. PICK y \in U : \A z \in U : <<y, z>> \in R
    BY <1>11
  <2>2. CASE <<x, y>> \in R
    <3>1. \A z \in T : <<x, z>> \in R
      BY <1>6, <2>1, <2>2
    <3> QED
      BY <1>4, <1>6, <3>1
  <2>3. CASE <<y, x>> \in R
    <3>1. \A z \in T : <<y, z>> \in R
      BY <1>6, <2>1, <2>3
    <3> QED
      BY <1>4, <2>1, <3>1
  <2> QED
    BY <1>6, <2>1, <2>2, <2>3
<1> QED
  BY <1>9, <1>10, <1>11

LEMMA RangeOfAgents ==
  ASSUME NEW s \in States
  PROVE  /\ Range(s.agents) \subseteq Agents /\ IsFiniteSet(Range(s.agents))
         /\ \A a \in Range(s.agents) :
              Position(s, a) \in 1..Len(s.agents) /\ s.agents[Position(s, a)] = a
<1>1. s.agents \in Seq(Agents) /\ DOMAIN s.agents = 1..Len(s.agents) /\ Len(s.agents) \in Nat
  BY DEF States
<1>2. Range(s.agents) = {s.agents[i] : i \in 1..Len(s.agents)}
  BY <1>1 DEF Range
<1>3. IsFiniteSet(1..Len(s.agents))
  BY <1>1, FS_Interval
<1>4. IsFiniteSet(Range(s.agents))
  <2> DEFINE f == [i \in 1..Len(s.agents) |-> s.agents[i]]
  <2>1. f \in Surjection(1..Len(s.agents), Range(s.agents))
    BY <1>2, Fun_IsSurj
  <2> QED
    BY <1>3, <2>1, FS_Surjection
<1>5. \A a \in Range(s.agents) :
        Position(s, a) \in 1..Len(s.agents) /\ s.agents[Position(s, a)] = a
  BY <1>1, <1>2 DEF Position
<1> QED
  BY <1>1, <1>2, <1>4, <1>5

LEMMA SelectsEligible ==
  ASSUME NEW s \in States, NEW w \in Workflows, Eligible(s, w) # {}
  PROVE  SelectAgent(s, w) \in Eligible(s, w)
<1> DEFINE S == Eligible(s, w)
           R == {p \in S \X S : RanksFirst(s, p[1], p[2])}
<1>1. S \subseteq Range(s.agents) /\ S \subseteq Agents /\ IsFiniteSet(S)
  BY RangeOfAgents, FS_Subset DEF Eligible
<1>2. \A a \in S : Priority[a] \in Int /\ Load(s, a) \in Nat /\ Position(s, a) \in Nat
  BY <1>1, RangeOfAgents, CapacityAssumption, LoadType
<1>3. \A a, b \in S : <<a, b>> \in R <=> RanksFirst(s, a, b)
  OBVIOUS
<1>4. \A a, b \in S : RanksFirst(s, a, b) \/ RanksFirst(s, b, a)
  BY <1>2 DEF RanksFirst
<1>5. \A a, b, c \in S : RanksFirst(s, a, b) /\ RanksFirst(s, b, c) => RanksFirst(s, a, c)
  BY <1>2 DEF RanksFirst
<1> HIDE DEF S, R
<1>6. \E a \in S : \A b \in S : <<a, b>> \in R
  BY <1>1, <1>3, <1>4, <1>5, FiniteHasFirst DEF S
<1>7. \E a \in S : \A b \in S : RanksFirst(s, a, b)
  BY <1>3, <1>6
<1> QED
  BY <1>7 DEF SelectAgent, S

-----------------------------------------------------------------------------
(* Assignments: the capacity of an agent is taken and given back.          *)

\* t is s with another entry for w and another state of the agent a.
Shifts(s, t, w, flow, a, condition) ==
  /\ t \in States
  /\ t.flow = [s.flow EXCEPT ![w] = flow]
  /\ t.condition = [s.condition EXCEPT ![a] = condition]
  /\ t.agents = s.agents /\ t.touched = s.touched

LEMMA ShiftsReplaced ==
  ASSUME NEW s \in States, NEW t, NEW u, NEW w \in Workflows, NEW f, NEW g, NEW a, NEW c,
         Shifts(s, t, w, f, a, c), Replaces(t, u, w, g)
  PROVE  Shifts(s, u, w, g, a, c)
BY DEF Shifts, Replaces, States

LEMMA ReplacedShifts ==
  ASSUME NEW s \in States, NEW t, NEW u, NEW w \in Workflows, NEW f, NEW g, NEW a, NEW c,
         Replaces(s, t, w, f), Shifts(t, u, w, g, a, c)
  PROVE  Shifts(s, u, w, g, a, c)
BY DEF Shifts, Replaces, States

LEMMA ActiveShifted ==
  ASSUME NEW s \in States, NEW t, NEW w \in Workflows, NEW f,
         t.flow = [s.flow EXCEPT ![w] = f], NEW a
  PROVE  Active(t, a) = (Active(s, a) \ {w})
                        \cup (IF f.agent = a /\ f.assignment = "ACTIVE" THEN {w} ELSE {})
BY DEF Active, States

LEMMA EndedShifted ==
  ASSUME NEW s \in States, NEW t, NEW w \in Workflows, NEW f, NEW a, NEW c,
         Shifts(s, t, w, f, a, c), s.flow[w].stage \notin {"RELEASED", "CANCELLED"}
  PROVE  Ended(s) \subseteq Ended(t)
BY DEF Ended, Shifts, States

LEMMA FlowsShifted ==
  ASSUME NEW e, NEW s, NEW t, NEW w \in Workflows, NEW f, NEW a, NEW c,
         Sound(e, s), Shifts(s, t, w, f, a, c), FlowOK(e, f)
  PROVE  t \in States /\ \A v \in Workflows : FlowOK(e, t.flow[v])
BY DEF Sound, States, Shifts

\* The other agents keep what they hold.
LEMMA OthersAccounted ==
  ASSUME NEW e, NEW s, NEW t, NEW w \in Workflows, NEW f, NEW a, NEW c,
         Sound(e, s), Shifts(s, t, w, f, a, c),
         f.agent = a, NEW b \in Agents, b # a, w \notin Active(s, b)
  PROVE  Accounted(t, b)
<1>1. s \in States /\ Accounted(s, b)
  BY DEF Sound
<1>2. Active(t, b) = (Active(s, b) \ {w}) \cup {}
  BY <1>1, ActiveShifted DEF Shifts
<1>4. t.condition[b] = s.condition[b] /\ t.agents = s.agents /\ t.touched = s.touched
  BY <1>1 DEF Shifts, States
<1>5. Load(t, b) = Load(s, b)
  BY <1>2 DEF Load
<1> QED
  BY <1>1, <1>4, <1>5 DEF Accounted

LEMMA TakesCapacity ==
  ASSUME NEW e, NEW s, NEW t, NEW w \in Workflows, NEW f, NEW a \in Agents, NEW c,
         Sound(e, s), Shifts(s, t, w, f, a, c), FlowOK(e, f),
         f.agent = a, f.assignment = "ACTIVE", s.flow[w].assignment # "ACTIVE",
         Load(s, a) < MaxParallel[a],
         c = IF Load(s, a) + 1 = MaxParallel[a] THEN "BUSY" ELSE "AVAILABLE"
  PROVE  Sound(e, t)
<1>1. s \in States
  BY DEF Sound
<1>2. Active(t, a) = Active(s, a) \cup {w} /\ w \notin Active(s, a)
  <2>1. t.flow = [s.flow EXCEPT ![w] = f]
    BY DEF Shifts
  <2>2. Active(t, a) = (Active(s, a) \ {w}) \cup {w}
    BY <1>1, <2>1, ActiveShifted
  <2>3. w \notin Active(s, a)
    BY DEF Active
  <2> QED
    BY <2>2, <2>3
<1>3. Load(t, a) = Load(s, a) + 1 /\ Load(s, a) \in Nat /\ MaxParallel[a] \in Nat
  BY <1>2, LoadType, FS_AddElement, CapacityAssumption, ZenonT(60) DEF Load
<1>4. t.condition[a] = c
  BY <1>1 DEF Shifts, States
<1>5. Accounted(t, a)
  BY <1>3, <1>4 DEF Accounted
<1>6. ASSUME NEW b \in Agents, b # a PROVE Accounted(t, b)
  <2>1. w \notin Active(s, b)
    BY <1>6 DEF Active
  <2> QED
    BY <1>6, <2>1, OthersAccounted
<1> QED
  BY <1>5, <1>6, FlowsShifted DEF Sound

LEMMA ReturnsCapacity ==
  ASSUME NEW e, NEW s, NEW t, NEW w \in Workflows, NEW f, NEW a \in Agents, NEW c,
         Sound(e, s), Shifts(s, t, w, f, a, c), FlowOK(e, f),
         f.agent = a, f.assignment # "ACTIVE",
         s.flow[w].agent = a, s.flow[w].assignment = "ACTIVE",
         c = IF s.condition[a] = "BUSY" THEN "AVAILABLE" ELSE s.condition[a]
  PROVE  Sound(e, t)
<1>1. s \in States /\ Accounted(s, a)
  BY DEF Sound
<1>2. Active(t, a) = Active(s, a) \ {w} /\ w \in Active(s, a)
  <2>1. t.flow = [s.flow EXCEPT ![w] = f]
    BY DEF Shifts
  <2>2. Active(t, a) = (Active(s, a) \ {w}) \cup {}
    BY <1>1, <2>1, ActiveShifted
  <2>3. w \in Active(s, a)
    BY DEF Active
  <2> QED
    BY <2>2, <2>3
<1>3. Load(t, a) = Load(s, a) - 1 /\ Load(s, a) \in Nat /\ MaxParallel[a] \in Nat
  <2>1. IsFiniteSet(Active(s, a)) /\ Load(s, a) \in Nat
    BY LoadType
  <2>2. Cardinality(Active(s, a) \ {w}) = Cardinality(Active(s, a)) - 1
    BY <1>2, <2>1, FS_RemoveElement
  <2> QED
    BY <1>2, <2>1, <2>2, CapacityAssumption DEF Load
<1>4. t.condition[a] = c /\ t.agents = s.agents /\ t.touched = s.touched
  BY <1>1 DEF Shifts, States
<1>5. Accounted(t, a)
  BY <1>1, <1>3, <1>4 DEF Accounted
<1>6. ASSUME NEW b \in Agents, b # a PROVE Accounted(t, b)
  <2>1. w \notin Active(s, b)
    BY <1>6 DEF Active
  <2> QED
    BY <1>6, <2>1, OthersAccounted
<1> QED
  BY <1>5, <1>6, FlowsShifted DEF Sound

\* The entry behind a call that gives it another assignment.
Bound(eventing, flow, g, stage, item, assignment, agent) ==
  /\ g \in SoftwareDeliveryWorkflow
  /\ g.stage = stage /\ g.stage # None /\ g.item = item
  /\ g.assignment = assignment /\ g.agent = agent
  /\ g.runs = flow.runs /\ g.rejection = flow.rejection
  /\ eventing => g.logged = stage

LEMMA BoundTold ==
  ASSUME NEW s \in States, NEW t, NEW w \in Workflows, NEW f, NEW a, NEW c,
         Shifts(s, t, w, f, a, c), NEW stage \in WorkflowStage, config.eventing \in BOOLEAN,
         f.runs = s.flow[w].runs, f.rejection = s.flow[w].rejection
  PROVE  \E g : /\ Shifts(s, Tell(t, w, stage), w, g, a, c)
                /\ Bound(config.eventing, s.flow[w], g, stage, f.item, f.assignment, f.agent)
<1> DEFINE g == [f EXCEPT !.stage = stage, !.logged = IF config.eventing THEN stage ELSE @]
<1>1. t \in States /\ t.flow[w] = f /\ f \in SoftwareDeliveryWorkflow
  BY DEF Shifts, States
<1>2. Replaces(t, Tell(t, w, stage), w, g)
  BY <1>1, TellReplaces
<1>3. Bound(config.eventing, s.flow[w], g, stage, f.item, f.assignment, f.agent)
  BY <1>1, NoneAssumption DEF Bound, SoftwareDeliveryWorkflow
<1> HIDE DEF g
<1>4. Shifts(s, Tell(t, w, stage), w, g, a, c)
  BY <1>2, ShiftsReplaced
<1> QED
  BY <1>3, <1>4

LEMMA BindShifts ==
  ASSUME NEW s \in States, NEW w \in Workflows, NEW x \in AssignmentStatus, NEW a \in Agents,
         NEW c \in DOMAIN AGENT_STATE_TRANSITIONS
  PROVE  Shifts(s, [s EXCEPT !.flow[w].assignment = x, !.flow[w].agent = a, !.condition[a] = c],
                w, [s.flow[w] EXCEPT !.assignment = x, !.agent = a], a, c)
<1> DEFINE T == DOMAIN AGENT_STATE_TRANSITIONS
<1> HIDE DEF T
<1>1. s.flow[w] \in SoftwareDeliveryWorkflow
  BY DEF States
<1>2. [s.flow[w] EXCEPT !.assignment = x, !.agent = a] \in SoftwareDeliveryWorkflow
  BY <1>1 DEF SoftwareDeliveryWorkflow
<1>3. [s EXCEPT !.flow[w].assignment = x, !.flow[w].agent = a, !.condition[a] = c]
      = [s EXCEPT !.flow = [s.flow EXCEPT ![w] = [s.flow[w] EXCEPT !.assignment = x, !.agent = a]],
                  !.condition = [s.condition EXCEPT ![a] = c]]
  BY <1>1 DEF States
<1> QED
  BY <1>2, <1>3 DEF Shifts, States

LEMMA Conditions ==
  DOMAIN AGENT_STATE_TRANSITIONS = {"REGISTERED", "AVAILABLE", "BUSY", "OFFLINE", "DISABLED"}
BY DEF AGENT_STATE_TRANSITIONS

LEMMA AssignShifts ==
  ASSUME NEW s \in States, NEW w \in Workflows, Eligible(s, w) # {}
  PROVE  LET a == SelectAgent(s, w)
             c == IF Load(s, a) + 1 = MaxParallel[a] THEN "BUSY" ELSE "AVAILABLE"
             f == [s.flow[w] EXCEPT !.item = "ASSIGNED", !.assignment = "ACTIVE", !.agent = a]
         IN  /\ a \in Agents /\ Load(s, a) < MaxParallel[a]
             /\ Shifts(s, Assign(s, w), w, f, a, c)
<1> DEFINE a == SelectAgent(s, w)
           c == IF Load(s, a) + 1 = MaxParallel[a] THEN "BUSY" ELSE "AVAILABLE"
           t == ChangeItem(s, w, "ASSIGNED")
           f == [s.flow[w] EXCEPT !.item = "ASSIGNED"]
           g == [f EXCEPT !.assignment = "ACTIVE", !.agent = a]
<1>1. a \in Eligible(s, w)
  BY SelectsEligible
<1> HIDE DEF a
<1>2. a \in Agents /\ Load(s, a) < MaxParallel[a] /\ s.condition[a] = "AVAILABLE"
  BY <1>1, RangeOfAgents DEF Eligible, Load
<1>3. "ASSIGNED" \in LifecycleState /\ "ACTIVE" \in AssignmentStatus
  BY Names DEF AssignmentStatus
<1>4. c \in DOMAIN AGENT_STATE_TRANSITIONS
  BY Conditions
<1> HIDE DEF c
<1>5. Replaces(s, t, w, f) /\ t \in States /\ t.flow[w] = f
  BY <1>3, ChangeItemReplaces, Replaced
<1>6. Assign(s, w) = [t EXCEPT !.flow[w].assignment = "ACTIVE", !.flow[w].agent = a,
                               !.condition[a] = c]
  <2>1. t.condition[a] = "AVAILABLE"
    BY <1>2, <1>5 DEF Replaces
  <2>2. c = IF Load(s, a) + 1 = MaxParallel[a] THEN "BUSY" ELSE t.condition[a]
    BY <2>1 DEF c
  <2>3. Assign(s, w) = [t EXCEPT !.flow[w].assignment = "ACTIVE", !.flow[w].agent = a,
          !.condition[a] = IF Load(s, a) + 1 = MaxParallel[a] THEN "BUSY" ELSE @]
    BY DEF Assign, a
  <2> HIDE DEF t
  <2> QED
    BY <2>2, <2>3
<1> HIDE DEF t
<1>7. Shifts(t, Assign(s, w), w, g, a, c)
  <2>1. g = [t.flow[w] EXCEPT !.assignment = "ACTIVE", !.agent = a]
    BY <1>5
  <2>2. Shifts(t, [t EXCEPT !.flow[w].assignment = "ACTIVE", !.flow[w].agent = a,
                            !.condition[a] = c],
               w, [t.flow[w] EXCEPT !.assignment = "ACTIVE", !.agent = a], a, c)
    BY <1>2, <1>3, <1>4, <1>5, BindShifts
  <2> QED
    BY <1>6, <2>1, <2>2
<1>8. g = [s.flow[w] EXCEPT !.item = "ASSIGNED", !.assignment = "ACTIVE", !.agent = a]
  BY DEF States, SoftwareDeliveryWorkflow
<1> HIDE DEF f, g
<1>9. Shifts(s, Assign(s, w), w, g, a, c)
  BY <1>5, <1>7, ReplacedShifts
<1> QED
  BY <1>2, <1>8, <1>9 DEF a, c

LEMMA AssignPreserves ==
  ASSUME IInv, NEW w \in Workflows, AssignWork(w)
  PROVE  IInv'
<1> DEFINE a == SelectAgent(state, w)
           c == IF Load(state, a) + 1 = MaxParallel[a] THEN "BUSY" ELSE "AVAILABLE"
           f == [state.flow[w] EXCEPT !.item = "ASSIGNED", !.assignment = "ACTIVE", !.agent = a]
           after == Tell(Assign(state, w), w, "ASSIGNED")
<1>1. state.flow[w].stage = "READY" /\ Eligible(state, w) # {} /\ Do("assign_work", after)
  BY DEF AssignWork
<1>2. /\ a \in Agents /\ Load(state, a) < MaxParallel[a]
      /\ Shifts(state, Assign(state, w), w, f, a, c)
  BY <1>1, EntryOK, AssignShifts
<1>3. /\ f.item = "ASSIGNED" /\ f.assignment = "ACTIVE" /\ f.agent = a
      /\ f.runs = state.flow[w].runs /\ f.rejection = state.flow[w].rejection
  BY EntryOK DEF SoftwareDeliveryWorkflow
<1>4. "ASSIGNED" \in WorkflowStage
  BY Names
<1> HIDE DEF a, c, f
<1>5. PICK g : /\ Shifts(state, after, w, g, a, c)
               /\ Bound(config.eventing, state.flow[w], g, "ASSIGNED", "ASSIGNED", "ACTIVE", a)
  BY <1>2, <1>3, <1>4, EntryOK, BoundTold
<1>6. FlowOK(config.eventing, g) /\ state.flow[w].assignment # "ACTIVE"
  BY <1>1, <1>5, EntryOK, NoneAssumption DEF Bound, FlowOK, Agrees, Told, LastRun, AssignmentStatus
<1> HIDE DEF after
<1>7. Sound(config.eventing, after)
  BY <1>2, <1>5, <1>6, TakesCapacity DEF IInv, Bound, c
<1>8. Ended(state) \subseteq Ended(after)
  BY <1>1, <1>5, EntryOK, EndedShifted
<1> QED
  BY <1>1, <1>7, <1>8, DoPreserves

\* complete_assignment and cancel_assignment, by the item and the status they leave.
LEMMA GivesBack ==
  ASSUME NEW s \in States, NEW w \in Workflows, NEW item \in LifecycleState,
         NEW x \in {"COMPLETED", "CANCELLED"}, NEW a \in Agents,
         s.flow[w].agent = a, s.flow[w].assignment = "ACTIVE", Accounted(s, a)
  PROVE  Shifts(s,
           ReleaseAgentCapacity([ChangeItem(s, w, item) EXCEPT !.flow[w].assignment = x], a),
           w, [s.flow[w] EXCEPT !.item = item, !.assignment = x], a,
           IF s.condition[a] = "BUSY" THEN "AVAILABLE" ELSE s.condition[a])
<1> DEFINE t == [ChangeItem(s, w, item) EXCEPT !.flow[w].assignment = x]
           f == [s.flow[w] EXCEPT !.item = item, !.assignment = x]
<1>1. Replaces(s, t, w, f)
  <2>1. s.flow[w] \in SoftwareDeliveryWorkflow
    BY DEF States
  <2>2. f \in SoftwareDeliveryWorkflow
    BY <2>1 DEF SoftwareDeliveryWorkflow, AssignmentStatus
  <2>3. t = [s EXCEPT !.flow = [s.flow EXCEPT ![w] = f]]
    BY <2>1 DEF ChangeItem, States, SoftwareDeliveryWorkflow
  <2> QED
    BY <2>2, <2>3, ZenonT(60) DEF Replaces, States
<1>2. f.agent = a /\ f.assignment = x
  BY DEF States, SoftwareDeliveryWorkflow
<1> HIDE DEF t, f
<1>3. Load(t, a) < MaxParallel[a]
  <2>1. t.flow = [s.flow EXCEPT ![w] = f]
    BY <1>1 DEF Replaces
  <2>2. Active(t, a) = (Active(s, a) \ {w}) \cup {}
    BY <1>2, <2>1, ActiveShifted
  <2>3. w \in Active(s, a)
    BY DEF Active
  <2>4. IsFiniteSet(Active(s, a)) /\ Load(s, a) \in Nat
    BY LoadType
  <2>5. Cardinality(Active(s, a) \ {w}) = Cardinality(Active(s, a)) - 1
    BY <2>3, <2>4, FS_RemoveElement
  <2> QED
    BY <2>2, <2>4, <2>5, CapacityAssumption DEF Load, Accounted
<1>4. /\ t \in States /\ t.flow = [s.flow EXCEPT ![w] = f]
      /\ t.agents = s.agents /\ t.condition = s.condition /\ t.touched = s.touched
  BY <1>1 DEF Replaces
<1> DEFINE T == DOMAIN AGENT_STATE_TRANSITIONS
           u == ReleaseAgentCapacity(t, a)
<1>5. "AVAILABLE" \in T
  BY Conditions
<1> HIDE DEF T
<1>6. CASE s.condition[a] = "BUSY"
  <2>1. u = [t EXCEPT !.condition = [t.condition EXCEPT ![a] = "AVAILABLE"]]
    BY <1>3, <1>4, <1>6 DEF ReleaseAgentCapacity
  <2>2. u \in States
    <3>1. [t.condition EXCEPT ![a] = "AVAILABLE"] \in [Agents -> T \cup {None}]
      BY <1>4, <1>5 DEF States, T
    <3> QED
      BY <1>4, <2>1, <3>1 DEF States, T
  <2>3. /\ u.flow = t.flow /\ u.agents = t.agents /\ u.touched = t.touched
        /\ u.condition = [s.condition EXCEPT ![a] = "AVAILABLE"]
    BY <1>4, <2>1 DEF States
  <2> HIDE DEF u
  <2>4. Shifts(s, u, w, f, a, "AVAILABLE")
    BY <1>4, <2>2, <2>3 DEF Shifts
  <2> QED
    BY <1>6, <2>4 DEF t, f, u
<1>7. CASE s.condition[a] # "BUSY"
  <2>1. u = t
    BY <1>4, <1>7 DEF ReleaseAgentCapacity
  <2>2. s.condition = [s.condition EXCEPT ![a] = s.condition[a]]
    BY DEF States
  <2> HIDE DEF u
  <2>3. Shifts(s, u, w, f, a, s.condition[a])
    BY <1>4, <2>1, <2>2 DEF Shifts
  <2> QED
    BY <1>7, <2>3 DEF t, f, u
<1> QED
  BY <1>6, <1>7

\* A call that ends the assignment of w.
LEMMA SettlePreserves ==
  ASSUME IInv, NEW name, NEW w \in Workflows, NEW item \in LifecycleState,
         NEW x \in {"COMPLETED", "CANCELLED"}, NEW stage \in WorkflowStage, NEW a,
         a = state.flow[w].agent, Registered(state, a),
         state.flow[w].assignment = "ACTIVE",
         state.flow[w].stage \notin {"RELEASED", "CANCELLED"},
         Do(name, Tell(ReleaseAgentCapacity(
                         [ChangeItem(state, w, item) EXCEPT !.flow[w].assignment = x], a),
                       w, stage)),
         \A g : Bound(config.eventing, state.flow[w], g, stage, item, x, a)
                  => FlowOK(config.eventing, g)
  PROVE  IInv'
<1> DEFINE t == ReleaseAgentCapacity(
                  [ChangeItem(state, w, item) EXCEPT !.flow[w].assignment = x], a)
           f == [state.flow[w] EXCEPT !.item = item, !.assignment = x]
           c == IF state.condition[a] = "BUSY" THEN "AVAILABLE" ELSE state.condition[a]
           after == Tell(t, w, stage)
<1>1. state \in States /\ a \in Agents /\ config.eventing \in BOOLEAN
  BY EntryOK, RangeOfAgents DEF Registered
<1>2. Shifts(state, t, w, f, a, c)
  BY <1>1, GivesBack DEF IInv, Sound
<1>3. /\ f.item = item /\ f.assignment = x /\ f.agent = a
      /\ f.runs = state.flow[w].runs /\ f.rejection = state.flow[w].rejection
  BY EntryOK DEF SoftwareDeliveryWorkflow
<1>4. Do(name, after)
  OBVIOUS
<1> HIDE DEF t, f, c
<1>5. PICK g : /\ Shifts(state, after, w, g, a, c)
               /\ Bound(config.eventing, state.flow[w], g, stage, item, x, a)
  BY <1>1, <1>2, <1>3, BoundTold, ZenonT(60)
<1>6. FlowOK(config.eventing, g)
  BY <1>5
<1> HIDE DEF after
<1>7. Sound(config.eventing, after)
  <2>1. g.agent = a /\ g.assignment # "ACTIVE" /\ Sound(config.eventing, state)
    BY <1>5 DEF Bound, IInv
  <2> QED
    BY <1>1, <1>5, <1>6, <2>1, ReturnsCapacity DEF c
<1>8. Ended(state) \subseteq Ended(after)
  BY <1>1, <1>5, EndedShifted
<1> QED
  BY <1>4, <1>7, <1>8, DoPreserves

LEMMA CompletePreserves ==
  ASSUME IInv, NEW w \in Workflows, CompleteWork(w)
  PROVE  IInv'
<1> DEFINE a == state.flow[w].agent
<1>1. /\ state.flow[w].stage = "APPROVAL" /\ state.flow[w].assignment = "ACTIVE"
      /\ Registered(state, a)
      /\ Do("complete_work", Tell(ReleaseAgentCapacity(
              [ChangeItem(state, w, "COMPLETED") EXCEPT !.flow[w].assignment = "COMPLETED"], a),
            w, "COMPLETED"))
  BY DEF CompleteWork, CompleteAssignment
<1>2. "COMPLETED" \in WorkflowStage /\ "COMPLETED" \in LifecycleState
  BY Names
<1>3. ASSUME NEW g,
             Bound(config.eventing, state.flow[w], g, "COMPLETED", "COMPLETED", "COMPLETED", a)
      PROVE  FlowOK(config.eventing, g)
  <2> HIDE DEF a
  <2> QED
    BY <1>1, <1>3, EntryOK DEF Bound, FlowOK, Agrees, Told, LastRun
<1> HIDE DEF a
<1> QED
  BY <1>1, <1>2, <1>3, SettlePreserves DEF a

\* cancel_assignment of a workflow in whatever stage it holds one.
LEMMA CancelPreserves ==
  ASSUME IInv, NEW name, NEW w \in Workflows,
         state.flow[w].stage \in {"ASSIGNED", "FAILED"},
         Registered(state, state.flow[w].agent),
         Do(name, Tell(CancelAssignment(state, w), w, "CANCELLED"))
  PROVE  IInv'
<1> DEFINE a == state.flow[w].agent
<1>1. /\ state.flow[w].assignment = "ACTIVE"
      /\ Do(name, Tell(ReleaseAgentCapacity(
              [ChangeItem(state, w, "READY") EXCEPT !.flow[w].assignment = "CANCELLED"], a),
            w, "CANCELLED"))
  BY EntryOK DEF CancelAssignment, FlowOK, Agrees
<1>2. "CANCELLED" \in WorkflowStage /\ "READY" \in LifecycleState
  BY Names
<1>3. ASSUME NEW g,
             Bound(config.eventing, state.flow[w], g, "CANCELLED", "READY", "CANCELLED", a)
      PROVE  FlowOK(config.eventing, g)
  <2> HIDE DEF a
  <2> QED
    BY <1>1, <1>3, EntryOK DEF Bound, FlowOK, Agrees, Told, LastRun
<1> HIDE DEF a
<1> QED
  BY <1>1, <1>2, <1>3, SettlePreserves DEF a

LEMMA CancelFailedPreserves ==
  ASSUME IInv, NEW name, NEW w \in Workflows, CancelFailedAssignment(w, name)
  PROVE  IInv'
<1> DEFINE r == RecoverItem(state, w)
<1>1. /\ state.flow[w].stage = "FAILED" /\ Registered(state, state.flow[w].agent)
      /\ Do(name, Tell(CancelAssignment(r, w), w, "CANCELLED"))
  BY DEF CancelFailedAssignment, Recoverable
<1>2. state \in States /\ state.flow[w] \in SoftwareDeliveryWorkflow
  BY EntryOK
<1>3. r.flow[w].agent = state.flow[w].agent
  BY <1>2 DEF RecoverItem, ChangeItem, States, SoftwareDeliveryWorkflow
<1>4. ChangeItem(r, w, "READY") = ChangeItem(state, w, "READY")
  BY <1>2 DEF RecoverItem, ChangeItem, States, SoftwareDeliveryWorkflow
<1> HIDE DEF r
<1>5. CancelAssignment(r, w) = CancelAssignment(state, w)
  BY <1>3, <1>4 DEF CancelAssignment
<1> QED
  BY <1>1, <1>5, CancelPreserves

LEMMA CancelWorkflowPreserves ==
  ASSUME IInv, NEW w \in Workflows, CancelWorkflow(w)
  PROVE  IInv'
<1>1. CASE /\ state.flow[w].stage \in {"INTAKE", "READY"}
           /\ Do("cancel_workflow", Tell(state, w, "CANCELLED"))
  <2> DEFINE g == [state.flow[w] EXCEPT !.stage = "CANCELLED",
                     !.logged = IF config.eventing THEN "CANCELLED" ELSE @]
             after == Tell(state, w, "CANCELLED")
  <2>1. "CANCELLED" \in WorkflowStage
    BY Names
  <2>2. Replaces(state, after, w, g)
    BY <2>1, EntryOK, TellReplaces
  <2>3. Moved(config.eventing, state.flow[w], g, "CANCELLED", state.flow[w].item)
    BY <2>1, EntryOK, NoneAssumption DEF Moved, SoftwareDeliveryWorkflow
  <2>4. Do("cancel_workflow", after)
    BY <1>1
  <2> HIDE DEF g, after
  <2>5. FlowOK(config.eventing, g)
    BY <1>1, <2>3, EntryOK DEF Moved, FlowOK, Agrees, Told
  <2> QED
    BY <1>1, <2>2, <2>3, <2>4, <2>5, CallPreserves DEF Moved
<1>2. CASE /\ state.flow[w].stage = "ASSIGNED"
           /\ Registered(state, state.flow[w].agent)
           /\ Do("cancel_workflow", Tell(CancelAssignment(state, w), w, "CANCELLED"))
  BY <1>2, CancelPreserves
<1>3. CASE CancelFailedAssignment(w, "cancel_workflow")
  BY <1>3, CancelFailedPreserves
<1> QED
  BY <1>1, <1>2, <1>3 DEF CancelWorkflow

-----------------------------------------------------------------------------
(* What an operator does to the agents touches no entry.                   *)

LEMMA OperatePreserves ==
  ASSUME IInv, NEW a \in Agents, NEW t, Operate(t), t \in States, t.flow = state.flow,
         t.touched = state.touched \cup {a},
         Range(t.agents) \ {a} \subseteq Range(state.agents),
         \A b \in Agents \ {a} : t.condition[b] = state.condition[b]
  PROVE  IInv'
<1>1. Sound(config.eventing, t)
  <2>1. \A w \in Workflows : FlowOK(config.eventing, t.flow[w])
    BY DEF IInv, Sound
  <2>2. ASSUME NEW b \in Agents PROVE Accounted(t, b)
    <3>1. Load(t, b) = Load(state, b)
      BY DEF Load, Active
    <3>2. Accounted(state, b)
      BY DEF IInv, Sound
    <3>3. b \in Range(t.agents) \ t.touched => b \in Range(state.agents) \ state.touched /\ b # a
      OBVIOUS
    <3>4. b # a => t.condition[b] = state.condition[b]
      OBVIOUS
    <3> QED
      BY <3>1, <3>2, <3>3, <3>4 DEF Accounted
  <2> QED
    BY <2>1, <2>2 DEF Sound
<1>2. Ended(t) = Ended(state)
  BY DEF Ended
<1> QED
  BY <1>1, <1>2 DEF Operate, IInv, Ended

LEMMA UpdatePreserves ==
  ASSUME IInv, NEW a \in Agents, NEW new \in {"AVAILABLE", "BUSY", "OFFLINE", "DISABLED"},
         UpdateAgentState(a, new)
  PROVE  IInv'
<1> DEFINE T == DOMAIN AGENT_STATE_TRANSITIONS
           t == [state EXCEPT !.condition[a] = new, !.touched = @ \cup {a}]
<1>1. state \in States /\ new \in T
  BY Conditions DEF IInv, Sound
<1> HIDE DEF T
<1>2. Operate(t)
  BY DEF UpdateAgentState
<1>3. t \in States
  BY <1>1 DEF States, T
<1>4. /\ t.flow = state.flow /\ t.agents = state.agents /\ t.touched = state.touched \cup {a}
      /\ \A b \in Agents \ {a} : t.condition[b] = state.condition[b]
  BY <1>1 DEF States
<1> HIDE DEF t
<1> QED
  BY <1>2, <1>3, <1>4, OperatePreserves

LEMMA RegisterPreserves ==
  ASSUME IInv, NEW a \in Agents, RegisterAgent(a)
  PROVE  IInv'
<1> DEFINE T == DOMAIN AGENT_STATE_TRANSITIONS
           t == [state EXCEPT !.agents = Append(@, a), !.condition[a] = "REGISTERED",
                              !.touched = @ \cup {a}]
<1>1. state \in States /\ state.agents \in Seq(Agents)
  BY DEF IInv, Sound, States
<1>2. "REGISTERED" \in T
  BY Conditions
<1> HIDE DEF T
<1>3. Operate(t)
  BY DEF RegisterAgent
<1>4. t \in States
  <2>1. /\ [state.condition EXCEPT ![a] = "REGISTERED"] \in [Agents -> T \cup {None}]
        /\ Append(state.agents, a) \in Seq(Agents)
    BY <1>1, <1>2 DEF States, T
  <2> QED
    BY <1>1, <2>1 DEF States, T
<1>5. /\ t.flow = state.flow /\ t.agents = Append(state.agents, a)
      /\ t.touched = state.touched \cup {a}
      /\ \A b \in Agents \ {a} : t.condition[b] = state.condition[b]
  BY <1>1 DEF States
<1> HIDE DEF t
<1>6. Range(t.agents) \ {a} \subseteq Range(state.agents)
  BY <1>1, <1>5 DEF Range
<1> QED
  BY <1>3, <1>4, <1>5, <1>6, OperatePreserves

LEMMA RemovedAgents ==
  ASSUME NEW agents \in Seq(Agents), NEW i \in 1..Len(agents)
  PROVE  RemoveAt(agents, i) \in Seq(Agents) /\ Range(RemoveAt(agents, i)) \subseteq Range(agents)
<1> DEFINE before == SubSeq(agents, 1, i - 1)
           after == SubSeq(agents, i + 1, Len(agents))
<1>1. /\ before \in Seq(Agents) /\ Len(before) = i - 1
      /\ \A k \in 1..Len(before) : before[k] = agents[k]
  OBVIOUS
<1>2. /\ after \in Seq(Agents) /\ Len(after) = Len(agents) - i
      /\ \A k \in 1..Len(after) : after[k] = agents[k + i]
  OBVIOUS
<1>3. Len(agents) \in Nat /\ DOMAIN agents = 1..Len(agents)
  OBVIOUS
<1> HIDE DEF before, after
<1>4. \A k \in 1..Len(before) : before[k] \in Range(agents)
  BY <1>1, <1>3 DEF Range
<1>5. \A k \in 1..Len(after) : after[k] \in Range(agents)
  BY <1>2, <1>3 DEF Range
<1>6. /\ before \o after \in Seq(Agents)
      /\ DOMAIN (before \o after) = 1..(Len(before) + Len(after))
      /\ \A k \in 1..(Len(before) + Len(after)) :
           (before \o after)[k] = IF k <= Len(before) THEN before[k] ELSE after[k - Len(before)]
  <2>1. before \in Seq(Agents) /\ after \in Seq(Agents)
    BY <1>1, <1>2
  <2>2. Len(before) \in Nat /\ Len(after) \in Nat
    BY <2>1
  <2> QED
    BY <2>1, <2>2
<1>7. Range(before \o after) \subseteq Range(agents)
  <2>1. ASSUME NEW k \in 1..(Len(before) + Len(after))
        PROVE  (before \o after)[k] \in Range(agents)
    <3>1. CASE k <= Len(before)
      BY <1>1, <1>4, <1>6, <3>1
    <3>2. CASE ~(k <= Len(before))
      <4>1. k - Len(before) \in 1..Len(after)
        BY <1>1, <1>2, <3>2
      <4> QED
        BY <1>5, <1>6, <3>2, <4>1
    <3> QED
      BY <3>1, <3>2
  <2>2. Range(before \o after) = {(before \o after)[k] : k \in 1..(Len(before) + Len(after))}
    BY <1>6 DEF Range
  <2> QED
    BY <2>1, <2>2
<1> QED
  BY <1>6, <1>7 DEF RemoveAt, before, after

LEMMA RemovePreserves ==
  ASSUME IInv, NEW a \in Agents, RemoveAgent(a)
  PROVE  IInv'
<1> DEFINE T == DOMAIN AGENT_STATE_TRANSITIONS
           rest == RemoveAt(state.agents, Position(state, a))
           t == [state EXCEPT !.agents = rest, !.condition[a] = None,
                              !.touched = @ \cup {a}]
<1>1. state \in States /\ a \in Range(state.agents) /\ Operate(t)
  BY DEF RemoveAgent, Registered, IInv, Sound
<1>2. rest \in Seq(Agents) /\ Range(rest) \subseteq Range(state.agents)
  <2>1. state.agents \in Seq(Agents) /\ Position(state, a) \in 1..Len(state.agents)
    BY <1>1, RangeOfAgents DEF States
  <2> QED
    BY <2>1, RemovedAgents
<1> HIDE DEF T, rest
<1>3. t \in States
  BY <1>1, <1>2 DEF States, T
<1>4. /\ t.flow = state.flow /\ t.agents = rest /\ t.touched = state.touched \cup {a}
      /\ \A b \in Agents \ {a} : t.condition[b] = state.condition[b]
  BY <1>1 DEF States
<1> HIDE DEF t
<1> QED
  BY <1>1, <1>2, <1>3, <1>4, OperatePreserves DEF t

-----------------------------------------------------------------------------
(* A new process, and what it restores.                                    *)

LEMMA NewProcessSound == ASSUME NEW e \in BOOLEAN PROVE Sound(e, NewProcess)
<1> DEFINE T == DOMAIN AGENT_STATE_TRANSITIONS
<1>1. NewProcess \in States /\ \A w \in Workflows : NewProcess.flow[w] = Unsubmitted
  <2>1. Unsubmitted \in SoftwareDeliveryWorkflow
    BY DEF Unsubmitted, SoftwareDeliveryWorkflow
  <2>2. "AVAILABLE" \in T
    BY Conditions
  <2> HIDE DEF T
  <2> QED
    BY <2>1, <2>2, RosterAssumption DEF NewProcess, States, T
<1>2. FlowOK(e, Unsubmitted)
  BY Names, NoneAssumption DEF FlowOK, Unsubmitted, SoftwareDeliveryWorkflow, Agrees, Told
<1>3. ASSUME NEW a \in Agents PROVE Accounted(NewProcess, a)
  <2>1. Active(NewProcess, a) = {}
    BY <1>1, Names DEF Active, Unsubmitted, AssignmentStatus
  <2>2. Load(NewProcess, a) = 0 /\ MaxParallel[a] \in Nat \ {0}
    BY <2>1, FS_EmptySet, CapacityAssumption DEF Load
  <2>3. a \in Range(NewProcess.agents) => NewProcess.condition[a] = "AVAILABLE"
    BY DEF NewProcess
  <2> QED
    BY <2>2, <2>3 DEF Accounted
<1> QED
  BY <1>1, <1>2, <1>3 DEF Sound

LEMMA CheckpointPreserves == IInv /\ SaveCheckpoint => IInv'
BY NoneAssumption DEF IInv, SaveCheckpoint, Sound, Ended

LEMMA CrashPreserves == IInv /\ Crash => IInv'
BY NewProcessSound DEF IInv, Crash

LEMMA RestartPreserves == IInv /\ Restart => IInv'
BY DEF IInv, Restart, Ended

LEMMA StutterPreserves == IInv /\ UNCHANGED vars => IInv'
BY DEF IInv, vars, Ended

-----------------------------------------------------------------------------
(* The theorems.                                                           *)

LEMMA InitIInv == Init => IInv
BY NewProcessSound DEF Init, IInv

LEMMA StepPreserves == IInv /\ [Next]_vars => IInv'
<1> SUFFICES ASSUME IInv, [Next]_vars PROVE IInv'
  OBVIOUS
<1>1. ASSUME NEW w \in Workflows, WorkflowStep(w) PROVE IInv'
  <2>1. CASE SubmitRequest(w)
    BY <2>1, SubmitPreserves
  <2>2. CASE PlanRequest(w)
    BY <2>2, PlanPreserves
  <2>3. CASE AssignWork(w)
    BY <2>3, AssignPreserves
  <2>4. CASE ExecuteWork(w)
    BY <2>4, ExecutePreserves
  <2>5. CASE ApproveWork(w)
    BY <2>5, ApprovePreserves
  <2>6. CASE RejectWork(w)
    BY <2>6, RejectPreserves
  <2>7. CASE CompleteWork(w)
    BY <2>7, CompletePreserves
  <2>8. CASE ReleaseWork(w)
    BY <2>8, ReleasePreserves
  <2>9. CASE RetryFailedExecution(w)
    BY <2>9, RetryPreserves
  <2>10. CASE ResetFailedExecution(w)
    BY <2>10, ResetPreserves
  <2>11. CASE CancelFailedAssignment(w, "recover_failed_execution")
    BY <2>11, CancelFailedPreserves
  <2>12. CASE CancelWorkflow(w)
    BY <2>12, CancelWorkflowPreserves
  <2> QED
    BY <1>1, <2>1, <2>2, <2>3, <2>4, <2>5, <2>6, <2>7, <2>8, <2>9, <2>10, <2>11, <2>12
    DEF WorkflowStep
<1>2. CASE OperatorStep
  BY <1>2, UpdatePreserves, RemovePreserves, RegisterPreserves DEF OperatorStep
<1>3. CASE SaveCheckpoint
  BY <1>3, CheckpointPreserves
<1>4. CASE Crash
  BY <1>4, CrashPreserves
<1>5. CASE Restart
  BY <1>5, RestartPreserves
<1>6. CASE UNCHANGED vars
  BY <1>6, StutterPreserves
<1> QED
  BY <1>1, <1>2, <1>3, <1>4, <1>5, <1>6 DEF Next

\* The inductive invariant of the factory.
LEMMA AlwaysIInv == Spec => []IInv
BY InitIInv, StepPreserves, PTL DEF Spec

\* The workflow, work item, assignment, last execution and last event, kept
\* by five services, tell one story after every call of the software
\* delivery service, refused, failed, rolled back or restored ones included,
\* and no approved work skips a rejection.
THEOREM StagesCorrect == Spec => []StagesAgree
<1>1. IInv => StagesAgree
  <2> SUFFICES ASSUME IInv PROVE StagesAgree
    OBVIOUS
  <2>1. TypeOK
    BY DEF IInv, Sound, TypeOK
  <2>2. RejectedIsReworked
    <3>1. ASSUME NEW w \in Workflows,
                 state.flow[w].stage \in {"REVIEW", "APPROVAL", "COMPLETED", "RELEASED"}
          PROVE  Len(state.flow[w].runs) > state.flow[w].rejection
                 /\ LastRun(state.flow[w]) = "SUCCEEDED"
      <4>1. state.flow[w].rejection \in Nat /\ Len(state.flow[w].runs) \in Nat
        BY EntryOK DEF SoftwareDeliveryWorkflow
      <4> QED
        BY <3>1, <4>1, EntryOK DEF FlowOK
    <3> QED
      BY <3>1 DEF RejectedIsReworked
  <2>3. ASSUME NEW w \in Workflows
        PROVE  Agrees(state.flow[w]) /\ (config.eventing => Told(state.flow[w]))
    BY EntryOK DEF FlowOK
  <2> QED
    BY <2>1, <2>2, <2>3 DEF StagesAgree
<1> QED
  BY <1>1, AlwaysIInv, PTL

\* The orchestrator's agents: none ever holds more active assignments than
\* max_parallel_tasks, and one that no operator changed is BUSY exactly while
\* it is full, whichever way its assignments end.
THEOREM AgentsCorrect == Spec => []AgentsAreAccounted
<1>1. IInv => AgentsAreAccounted
  BY DEF IInv, Sound, Accounted, AgentsAreAccounted
<1> QED
  BY <1>1, AlwaysIInv, PTL

\* A release or cancellation acknowledged after its automatic checkpoint
\* survives every crash and restart.
THEOREM EndsStay == Spec => []AcknowledgedEndStays
<1>1. IInv => AcknowledgedEndStays
  BY DEF IInv, AcknowledgedEndStays
<1> QED
  BY <1>1, AlwaysIInv, PTL
=============================================================================
