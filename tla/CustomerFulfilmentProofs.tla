----------------------- MODULE CustomerFulfilmentProofs -----------------------
(***************************************************************************)
(* Proofs about module CustomerFulfilment, for every number of tasks,      *)
(* crashes and changes by other people.                                    *)
(*                                                                         *)
(* The invariant has one part per service.  Each says which step of a      *)
(* request is possible with which stored record and which effects on the   *)
(* world, faults: a request that holds its service's lock is the only one that     *)
(* moves the record, so what it inspected is still there when it acts.     *)
(* The three parts meet in the delivery record: the acceptance relies on   *)
(* a delivered review never changing again.                                *)
(***************************************************************************)
EXTENDS CustomerFulfilment, TLAPS

-----------------------------------------------------------------------------
(* What a store may replace by what, and where the request goes next.      *)

PlanMoves ==
  {<<"AWAITING_APPROVAL", "APPROVED", "idle">>,
   <<"APPROVED", "EXECUTING", "submit">>,
   <<"EXECUTING", "REVIEW_REQUIRED", "idle">>,
   <<"EXECUTING", "RECONCILIATION_REQUIRED", "idle">>}

ReviewMoves ==
  {<<"AWAITING_REVIEW", "REVIEW_APPROVED", "idle">>,
   <<"REVIEW_APPROVED", "DELIVERY_IN_PROGRESS", "check">>,
   <<"DELIVERY_IN_PROGRESS", "DRAFT_PR_CREATED", "idle">>,
   <<"DELIVERY_IN_PROGRESS", "RECONCILIATION_REQUIRED", "idle">>}

AcceptanceMoves ==
  {<<"AWAITING_APPROVAL", "APPROVED", "idle">>,
   <<"APPROVED", "EXECUTION_IN_PROGRESS", "deploy">>,
   <<"EXECUTION_IN_PROGRESS", "EVIDENCE_READY", "idle">>,
   <<"EXECUTION_IN_PROGRESS", "RECONCILIATION_REQUIRED", "idle">>}

Move(f, c) == <<f.status, c.value.status, c.then>>

(* A plan agrees with its tasks. *)
Consistent(p) ==
  /\ p \in CustomerExecutionPlan
  /\ p.status \in {"AWAITING_APPROVAL", "APPROVED"} =>
       p.tasks = [u \in Tasks |-> "PENDING"]
  /\ p.status \in {"EXECUTING", "REVIEW_REQUIRED", "RECONCILIATION_REQUIRED"} =>
       \E t \in Tasks : p.tasks = [u \in Tasks |-> IF u = t THEN p.status ELSE "PENDING"]

Begun == {"EXECUTING", "REVIEW_REQUIRED", "RECONCILIATION_REQUIRED"}

Sent == {"DELIVERY_IN_PROGRESS", "DRAFT_PR_CREATED", "RECONCILIATION_REQUIRED"}

Tried == {"EXECUTION_IN_PROGRESS", "EVIDENCE_READY", "RECONCILIATION_REQUIRED"}

(* The record f of customer_execution, its request c and the turns n.      *)
Execution(f, c, n) ==
  /\ f \in {Absent, Torn} \/ Consistent(f)
  /\ n <= 1
  /\ n > 0 => f.status \in Begun
  /\ c.pc \in {"idle", "create", "fill", "replace", "rename", "submit", "apply", "failed"}
  /\ c.pc \in {"create", "fill"} =>
       /\ Consistent(c.value) /\ c.value.status = "AWAITING_APPROVAL"
  /\ c.pc = "fill" => f = Torn
  /\ c.pc \in {"replace", "rename"} =>
       /\ f \notin {Absent, Torn} /\ Consistent(c.value)
       /\ Move(f, c) \in PlanMoves
  /\ c.pc \in {"submit", "apply", "failed"} => f.status = "EXECUTING"
  /\ c.pc = "submit" => n = 0

(* The record f of customer_delivery, its request c, what has happened to  *)
(* the repository, the checkout w, and whether it was edited late.         *)
Delivery(f, c, commits, pushes, pulls, w, edited) ==
  /\ f \in CustomerDeliveryReview \cup {Absent, Torn}
  /\ commits <= 1 /\ pushes <= 1 /\ pulls <= 1
  /\ commits > 0 \/ pushes > 0 \/ pulls > 0 => f.status \in Sent
  /\ f.status = "DRAFT_PR_CREATED" =>
       pulls = 1 /\ f.commit = w.head /\ f.commit \in Patches
  /\ commits > 0 => edited \/ w.head = f.content
  /\ c.pc \in {"idle", "create", "fill", "replace", "rename", "check", "probe", "add",
               "commit", "push", "verify", "pull", "failed"}
  /\ c.pc \in {"create", "fill"} =>
       c.value \in CustomerDeliveryReview /\ c.value.status = "AWAITING_REVIEW"
  /\ c.pc = "fill" => f = Torn
  /\ c.pc \in {"replace", "rename"} =>
       /\ f \in CustomerDeliveryReview /\ c.value \in CustomerDeliveryReview
       /\ c.value.content = f.content
       /\ Move(f, c) \in ReviewMoves
       /\ c.value.status = "DRAFT_PR_CREATED" =>
            pulls = 1 /\ c.value.commit = w.head /\ c.value.commit \in Patches
  /\ c.pc \in {"check", "probe", "add", "commit", "push", "verify", "pull", "failed"} =>
       f.status = "DELIVERY_IN_PROGRESS"
  /\ c.pc \in {"check", "probe", "add", "commit"} => commits = 0
  /\ c.pc \in {"check", "probe", "add", "commit", "push"} => pushes = 0
  /\ c.pc \in {"check", "probe", "add", "commit", "push", "verify", "pull"} => pulls = 0
  /\ c.pc \in {"probe", "add"} =>
       w.changes \in Patches /\ (edited \/ w.changes = f.content)
  /\ c.pc = "commit" => c.value \in Patches /\ (edited \/ c.value = f.content)
  /\ c.pc \in {"push", "verify", "pull"} => w.head \in Patches

(* The record f of customer_acceptance, its request c, the workflows n,    *)
(* what the preview shows, the evidence package, the customer's decision,  *)
(* the one being written and the delivery record r it is all about.        *)
Acceptance(f, c, n, shown, evidence, verdict, writing, r) ==
  /\ f \in CustomerAcceptanceRecord \cup {Absent, Torn}
  /\ n <= 1
  /\ n > 0 => f.status \in Tried
  /\ evidence \in CustomerPreviewEvidencePackage \cup {Absent, Torn}
  /\ evidence.status = "READY" =>
       r.status = "DRAFT_PR_CREATED" /\ evidence.content = r.commit
  /\ verdict \in {"none", "torn", "ACCEPT", "REQUEST_CHANGES"}
  /\ writing \in {"none", "ACCEPT", "REQUEST_CHANGES"}
  /\ "ACCEPT" \in {verdict, writing} => evidence.status = "READY" /\ evidence.passed
  /\ c.pc \in {"idle", "create", "fill", "replace", "rename", "deploy", "dispatch",
               "browser", "publish", "write", "failed"}
  /\ c.pc \in {"create", "fill"} =>
       c.value \in CustomerAcceptanceRecord /\ c.value.status = "AWAITING_APPROVAL"
  /\ c.pc = "fill" => f = Torn
  /\ c.pc \in {"replace", "rename"} =>
       /\ f \in CustomerAcceptanceRecord /\ c.value \in CustomerAcceptanceRecord
       /\ Move(f, c) \in AcceptanceMoves
  /\ c.then = "deploy" \/ c.pc \in {"deploy", "dispatch", "browser", "publish", "write"} =>
       r.status = "DRAFT_PR_CREATED"
  /\ c.pc \in {"deploy", "dispatch", "browser", "publish", "write", "failed"} =>
       f.status = "EXECUTION_IN_PROGRESS"
  /\ c.pc \in {"deploy", "dispatch"} => n = 0
  /\ c.pc = "browser" => shown = r.commit
  /\ c.pc \in {"publish", "write"} =>
       c.value \in CustomerPreviewEvidencePackage /\ c.value.content = r.commit
  /\ c.pc = "write" => evidence = Torn

(* The variables are functions over the services and the effects, and the  *)
(* checkout is a record of a commit and its changes.                       *)
Types ==
  /\ DOMAIN file = Services /\ DOMAIN temp = Services /\ DOMAIN call = Services
  /\ \A s \in Services :
       call[s] = [pc |-> call[s].pc, value |-> call[s].value, then |-> call[s].then]
  /\ effects \in [Effects -> Nat]
  /\ workspace \in [head: {"base"} \cup Patches, changes: {"clean"} \cup Patches]
  /\ remote \in {"none", "base", "foreign"} \cup Patches

ExecutionOK == Execution(file["execution"], call["execution"], effects["turn"])

DeliveryOK ==
  Delivery(file["delivery"], call["delivery"], effects["commit"], effects["push"],
           effects["pull"], workspace, late)

AcceptanceOK ==
  Acceptance(file["acceptance"], call["acceptance"], effects["workflow"], preview, package,
             decision, answer, file["delivery"])

CFInv == Types /\ ExecutionOK /\ DeliveryOK /\ AcceptanceOK

-----------------------------------------------------------------------------
(* What the store helpers do to the calls, stated once.                    *)

(* Goto leaves the request of s at pc and every other request alone. *)
LEMMA GotoCall ==
  ASSUME Types, NEW s \in Services, NEW pc, Goto(s, pc)
  PROVE  /\ call'[s] = [pc |-> pc, value |-> Absent, then |-> "idle"]
         /\ \A u \in Services \ {s} : call'[u] = call[u]
         /\ DOMAIN call' = Services
  BY DEF Types, Goto, Idle

(* Create leaves the request of s about to create its record. *)
LEMMA CreateCall ==
  ASSUME Types, NEW s \in Services, NEW value, Create(s, value)
  PROVE  /\ call'[s] = [pc |-> "create", value |-> value, then |-> "idle"]
         /\ \A u \in Services \ {s} : call'[u] = call[u]
         /\ DOMAIN call' = Services
  BY DEF Types, Create

(* Replace leaves the request of s about to replace its record. *)
LEMMA ReplaceCall ==
  ASSUME Types, NEW s \in Services, NEW value, NEW then, Replace(s, value, then)
  PROVE  /\ call'[s] = [pc |-> "replace", value |-> value, then |-> then]
         /\ \A u \in Services \ {s} : call'[u] = call[u]
         /\ DOMAIN call' = Services
  BY DEF Types, Replace

(* A step of a request keeps what it is going to write. *)
LEMMA AdvanceCall ==
  ASSUME Types, NEW s \in Services, NEW pc, call' = [call EXCEPT ![s].pc = pc]
  PROVE  /\ call'[s] = [pc |-> pc, value |-> call[s].value, then |-> call[s].then]
         /\ \A u \in Services \ {s} : call'[u] = call[u]
         /\ DOMAIN call' = Services
  BY DEF Types

(* Writing the record of s leaves the other records alone. *)
LEMMA WriteRecord ==
  ASSUME Types, NEW s \in Services, NEW value, file' = [file EXCEPT ![s] = value]
  PROVE  /\ file'[s] = value
         /\ \A u \in Services \ {s} : file'[u] = file[u]
         /\ DOMAIN file' = Services
  BY DEF Types

(* An effect is counted once, and no other effect with it. *)
LEMMA CauseCounts ==
  ASSUME Types, NEW e \in Effects, Cause(e)
  PROVE  /\ effects'[e] = effects[e] + 1
         /\ \A x \in Effects \ {e} : effects'[x] = effects[x]
         /\ effects' \in [Effects -> Nat]
  BY DEF Types, Cause

(* The types survive a step that keeps the shape of the variables. *)
LEMMA TypesKept ==
  ASSUME Types, NEW s \in Services,
         \A u \in Services \ {s} : call'[u] = call[u],
         call'[s] = [pc |-> call'[s].pc, value |-> call'[s].value, then |-> call'[s].then],
         DOMAIN call' = Services, DOMAIN file' = Services, DOMAIN temp' = Services,
         effects' \in [Effects -> Nat],
         workspace' \in [head: {"base"} \cup Patches, changes: {"clean"} \cup Patches],
         remote' \in {"none", "base", "foreign"} \cup Patches
  PROVE  Types'
  BY DEF Types

(* A step of the other services keeps the part of customer_execution. *)
LEMMA ExecutionFrame ==
  ASSUME ExecutionOK, file'["execution"] = file["execution"],
         call'["execution"] = call["execution"], effects'["turn"] = effects["turn"]
  PROVE  ExecutionOK'
  BY DEF ExecutionOK

(* A step of the other services keeps the part of customer_delivery. *)
LEMMA DeliveryFrame ==
  ASSUME DeliveryOK, file'["delivery"] = file["delivery"],
         call'["delivery"] = call["delivery"],
         \A e \in {"commit", "push", "pull"} : effects'[e] = effects[e],
         UNCHANGED <<workspace, late>>
  PROVE  DeliveryOK'
  BY DEF DeliveryOK

(* A step of the other services keeps the part of the acceptance, as long  *)
(* as a delivered review stays what it is.                                 *)
LEMMA AcceptanceFrame ==
  ASSUME AcceptanceOK, file'["acceptance"] = file["acceptance"],
         call'["acceptance"] = call["acceptance"],
         effects'["workflow"] = effects["workflow"],
         UNCHANGED <<preview, package, decision, answer>>,
         file["delivery"].status = "DRAFT_PR_CREATED" => file'["delivery"] = file["delivery"]
  PROVE  AcceptanceOK'
  BY DEF AcceptanceOK, Acceptance

-----------------------------------------------------------------------------
(* A step of one service's request, its part shown to hold, keeps the rest.*)

(* A step of customer_execution that leaves the checkout alone. *)
LEMMA ExecutionAlone ==
  ASSUME CFInv, Types', ExecutionOK',
         \A u \in {"delivery", "acceptance"} : call'[u] = call[u] /\ file'[u] = file[u],
         \A e \in Effects \ {"turn"} : effects'[e] = effects[e],
         UNCHANGED <<workspace, late, preview, package, decision, answer>>
  PROVE  CFInv'
  <1>1. DeliveryOK'
    BY DeliveryFrame DEF CFInv, Effects
  <1>2. AcceptanceOK'
    BY AcceptanceFrame DEF CFInv, Effects
  <1> QED BY <1>1, <1>2 DEF CFInv

(* A step of customer_delivery that keeps a delivered review. *)
LEMMA DeliveryAlone ==
  ASSUME CFInv, Types', DeliveryOK',
         \A u \in {"execution", "acceptance"} : call'[u] = call[u] /\ file'[u] = file[u],
         \A e \in {"turn", "workflow"} : effects'[e] = effects[e],
         UNCHANGED <<preview, package, decision, answer>>,
         file["delivery"].status = "DRAFT_PR_CREATED" => file'["delivery"] = file["delivery"]
  PROVE  CFInv'
  <1>1. ExecutionOK'
    BY ExecutionFrame DEF CFInv
  <1>2. AcceptanceOK'
    BY AcceptanceFrame DEF CFInv
  <1> QED BY <1>1, <1>2 DEF CFInv

(* A step of the acceptance or of the evidence page. *)
LEMMA AcceptanceAlone ==
  ASSUME CFInv, Types', AcceptanceOK',
         \A u \in {"execution", "delivery"} : call'[u] = call[u] /\ file'[u] = file[u],
         \A e \in Effects \ {"workflow"} : effects'[e] = effects[e],
         UNCHANGED <<workspace, late>>
  PROVE  CFInv'
  <1>1. ExecutionOK'
    BY ExecutionFrame DEF CFInv, Effects
  <1>2. DeliveryOK'
    BY DeliveryFrame DEF CFInv, Effects
  <1> QED BY <1>1, <1>2 DEF CFInv

-----------------------------------------------------------------------------
(* The first request of the three services.                                *)

LEMMA InitInvariant == Init => CFInv
  <1> SUFFICES ASSUME Init PROVE CFInv
    OBVIOUS
  <1>1. Types
    BY DEF Init, Types, Services, Idle, Effects, Patches
  <1>2. /\ file["execution"] = Absent /\ file["delivery"] = Absent
        /\ file["acceptance"] = Absent
        /\ \A s \in Services : call[s].pc = "idle" /\ call[s].then = "idle"
        /\ \A e \in Effects : effects[e] = 0
    BY DEF Init, Services, Idle, Effects
  <1>3. ExecutionOK
    BY <1>2 DEF ExecutionOK, Execution, Services, Effects, Absent
  <1>4. DeliveryOK
    BY <1>2 DEF DeliveryOK, Delivery, Services, Effects, Absent
  <1>5. AcceptanceOK
    BY <1>2 DEF AcceptanceOK, Acceptance, Services, Effects, Absent, Init
  <1> QED BY <1>1, <1>3, <1>4, <1>5 DEF CFInv

-----------------------------------------------------------------------------
(* The steps of the stores, for each of the three services.                *)

(* A request that gives up changes nothing but its lock. *)
LEMMA ReturnInvariant ==
  ASSUME CFInv, NEW s \in Services, Goto(s, "idle"),
         UNCHANGED <<file, package, decision, answer, workspace, late, remote, effects,
                    preview>>,
         DOMAIN temp' = Services
  PROVE  CFInv'
  <1>1. /\ call'[s] = [pc |-> "idle", value |-> Absent, then |-> "idle"]
        /\ \A u \in Services \ {s} : call'[u] = call[u]
        /\ DOMAIN call' = Services
    BY GotoCall DEF CFInv
  <1>2. Types'
    BY <1>1, TypesKept DEF CFInv, Types
  <1>3. CASE s = "execution"
    <2>1. ExecutionOK'
      BY <1>1, <1>3 DEF CFInv, ExecutionOK, Execution
    <2> QED BY <1>1, <1>2, <1>3, <2>1, ExecutionAlone DEF Services
  <1>4. CASE s = "delivery"
    <2>1. DeliveryOK'
      BY <1>1, <1>4 DEF CFInv, DeliveryOK, Delivery
    <2> QED BY <1>1, <1>2, <1>4, <2>1, DeliveryAlone DEF Services
  <1>5. CASE s = "acceptance"
    <2>1. AcceptanceOK'
      BY <1>1, <1>5 DEF CFInv, AcceptanceOK, Acceptance
    <2> QED BY <1>1, <1>2, <1>5, <2>1, AcceptanceAlone DEF Services
  <1> QED BY <1>3, <1>4, <1>5 DEF Services

(* create links the record only where there is none. *)
LEMMA CreateFileInvariant ==
  ASSUME CFInv, NEW s \in Services, CreateFile(s)
  PROVE  CFInv'
  <1>1. /\ UNCHANGED <<temp, browserPlan, package, decision, answer, workspace, late, remote, effects,
                    preview>>
        /\ call[s].pc = "create"
    BY DEF CreateFile, world, faults
  <1>2. CASE Status(s) = "ABSENT" /\ ~temp[s]
    <2>1. /\ file' = [file EXCEPT ![s] = Torn]
          /\ call' = [call EXCEPT ![s].pc = "fill"]
      BY <1>2 DEF CreateFile
    <2>2. /\ call'[s] = [pc |-> "fill", value |-> call[s].value, then |-> call[s].then]
          /\ \A u \in Services \ {s} : call'[u] = call[u]
          /\ DOMAIN call' = Services
      BY <2>1, AdvanceCall DEF CFInv
    <2>3. /\ file'[s] = Torn
          /\ \A u \in Services \ {s} : file'[u] = file[u]
          /\ DOMAIN file' = Services
      BY <2>1, WriteRecord DEF CFInv
    <2>4. Types'
      BY <1>1, <2>2, <2>3, TypesKept DEF CFInv, Types
    <2>5. CASE s = "execution"
      <3>1. ExecutionOK'
        BY <1>1, <1>2, <2>2, <2>3, <2>5
        DEF CFInv, ExecutionOK, Execution, Status, Absent, Torn, Begun
      <3> QED BY <1>1, <2>2, <2>3, <2>4, <2>5, <3>1, ExecutionAlone DEF Services
    <2>6. CASE s = "delivery"
      <3>1. DeliveryOK'
        BY <1>1, <1>2, <2>2, <2>3, <2>6
        DEF CFInv, DeliveryOK, Delivery, Status, Absent, Torn, Sent
      <3> QED BY <1>1, <1>2, <2>2, <2>3, <2>4, <2>6, <3>1, DeliveryAlone DEF Services, Status
    <2>7. CASE s = "acceptance"
      <3>1. AcceptanceOK'
        BY <1>1, <1>2, <2>2, <2>3, <2>7
        DEF CFInv, AcceptanceOK, Acceptance, Status, Absent, Torn, Tried, Services
      <3> QED BY <1>1, <2>2, <2>3, <2>4, <2>7, <3>1, AcceptanceAlone DEF Services
    <2> QED BY <2>5, <2>6, <2>7 DEF Services
  <1>3. CASE ~(Status(s) = "ABSENT" /\ ~temp[s])
    <2>1. UNCHANGED file /\ Goto(s, "idle")
      BY <1>3 DEF CreateFile, Return
    <2>2. DOMAIN temp' = Services
      BY <1>1 DEF CFInv, Types
    <2> QED BY <1>1, <2>1, <2>2, ReturnInvariant
  <1> QED BY <1>2, <1>3

(* The status in which the record of s announces an effect. *)
Intent(s) ==
  \/ s = "execution" /\ Status(s) = "EXECUTING"
  \/ s = "delivery" /\ Status(s) = "DELIVERY_IN_PROGRESS"
  \/ s = "acceptance" /\ Status(s) = "EXECUTION_IN_PROGRESS"

(* A request whose effect raised still has its intent on record. *)
LEMMA FailedInvariant ==
  ASSUME CFInv, NEW s \in Services, Goto(s, "failed"), Intent(s),
         UNCHANGED <<file, package, decision, answer, workspace, late, remote, effects,
                    preview>>,
         DOMAIN temp' = Services
  PROVE  CFInv'
  <1>1. /\ call'[s] = [pc |-> "failed", value |-> Absent, then |-> "idle"]
        /\ \A u \in Services \ {s} : call'[u] = call[u]
        /\ DOMAIN call' = Services
    BY GotoCall DEF CFInv
  <1>2. Types'
    BY <1>1, TypesKept DEF CFInv, Types
  <1>3. CASE s = "execution"
    <2>1. ExecutionOK'
      BY <1>1, <1>3 DEF CFInv, ExecutionOK, Execution, Intent, Status
    <2> QED BY <1>1, <1>2, <1>3, <2>1, ExecutionAlone DEF Services
  <1>4. CASE s = "delivery"
    <2>1. DeliveryOK'
      BY <1>1, <1>4 DEF CFInv, DeliveryOK, Delivery, Intent, Status
    <2> QED BY <1>1, <1>2, <1>4, <2>1, DeliveryAlone DEF Services
  <1>5. CASE s = "acceptance"
    <2>1. AcceptanceOK'
      BY <1>1, <1>5 DEF CFInv, AcceptanceOK, Acceptance, Intent, Status
    <2> QED BY <1>1, <1>2, <1>5, <2>1, AcceptanceAlone DEF Services
  <1> QED BY <1>3, <1>4, <1>5 DEF Services

(* The effects are natural numbers. *)
LEMMA WholeEffects == CFInv => \A e \in Effects : effects[e] \in Nat
  BY DEF CFInv, Types

(* create fills the file it linked, or removes it when the write raises. *)
LEMMA FillFileInvariant ==
  ASSUME CFInv, NEW s \in Services, FillFile(s)
  PROVE  CFInv'
  <1>1. /\ UNCHANGED <<temp, browserPlan, package, decision, answer, workspace, late, remote, effects,
                    preview>>
        /\ call[s].pc = "fill"
        /\ Goto(s, "idle")
    BY DEF FillFile, world, faults, Return
  <1>2. /\ call'[s] = [pc |-> "idle", value |-> Absent, then |-> "idle"]
        /\ \A u \in Services \ {s} : call'[u] = call[u]
        /\ DOMAIN call' = Services
    BY <1>1, GotoCall DEF CFInv
  <1>3. PICK value \in {call[s].value, Absent} : file' = [file EXCEPT ![s] = value]
    BY DEF FillFile
  <1>4. /\ file'[s] = value
        /\ \A u \in Services \ {s} : file'[u] = file[u]
        /\ DOMAIN file' = Services
    BY <1>3, WriteRecord DEF CFInv
  <1>5. Types'
    BY <1>1, <1>2, <1>4, TypesKept DEF CFInv, Types
  <1>6. CASE s = "execution"
    <2>1. ExecutionOK'
      BY <1>1, <1>2, <1>3, <1>4, <1>6
      DEF CFInv, ExecutionOK, Execution, Absent, Torn, Begun
    <2> QED BY <1>1, <1>2, <1>4, <1>5, <1>6, <2>1, ExecutionAlone DEF Services
  <1>7. CASE s = "delivery"
    <2>1. DeliveryOK' /\ file["delivery"] = Torn
      BY <1>1, <1>2, <1>3, <1>4, <1>7
      DEF CFInv, DeliveryOK, Delivery, Absent, Torn, Sent
    <2> QED BY <1>1, <1>2, <1>4, <1>5, <1>7, <2>1, DeliveryAlone DEF Services, Torn
  <1>8. CASE s = "acceptance"
    <2>1. AcceptanceOK'
      BY <1>1, <1>2, <1>3, <1>4, <1>8
      DEF CFInv, AcceptanceOK, Acceptance, Absent, Torn, Tried, Services
    <2> QED BY <1>1, <1>2, <1>4, <1>5, <1>8, <2>1, AcceptanceAlone DEF Services
  <1> QED BY <1>6, <1>7, <1>8 DEF Services

(* replace writes its temporary file. *)
LEMMA MakeTempInvariant ==
  ASSUME CFInv, NEW s \in Services, MakeTemp(s)
  PROVE  CFInv'
  <1>1. /\ UNCHANGED <<file, browserPlan, package, decision, answer, workspace, late, remote, effects,
                    preview>>
        /\ call[s].pc = "replace"
        /\ call' = [call EXCEPT ![s].pc = "rename"]
        /\ DOMAIN temp' = Services
    BY DEF MakeTemp, world, faults, CFInv, Types
  <1>2. /\ call'[s] = [pc |-> "rename", value |-> call[s].value, then |-> call[s].then]
        /\ \A u \in Services \ {s} : call'[u] = call[u]
        /\ DOMAIN call' = Services
    BY <1>1, AdvanceCall DEF CFInv
  <1>3. Types'
    BY <1>1, <1>2, TypesKept DEF CFInv, Types
  <1>4. CASE s = "execution"
    <2>1. ExecutionOK'
      BY <1>1, <1>2, <1>4 DEF CFInv, ExecutionOK, Execution, Move
    <2> QED BY <1>1, <1>2, <1>3, <1>4, <2>1, ExecutionAlone DEF Services
  <1>5. CASE s = "delivery"
    <2>1. DeliveryOK'
      BY <1>1, <1>2, <1>5 DEF CFInv, DeliveryOK, Delivery, Move
    <2> QED BY <1>1, <1>2, <1>3, <1>5, <2>1, DeliveryAlone DEF Services
  <1>6. CASE s = "acceptance"
    <2>1. AcceptanceOK'
      BY <1>1, <1>2, <1>6 DEF CFInv, AcceptanceOK, Acceptance, Move
    <2> QED BY <1>1, <1>2, <1>3, <1>6, <2>1, AcceptanceAlone DEF Services
  <1> QED BY <1>4, <1>5, <1>6 DEF Services

(* replace renames its temporary file: the record moves, and the request   *)
(* goes on to the effect the record now announces.                         *)
LEMMA RenameTempInvariant ==
  ASSUME CFInv, NEW s \in Services, RenameTemp(s)
  PROVE  CFInv'
  <1>1. /\ UNCHANGED <<browserPlan, package, decision, answer, workspace, late, remote, effects,
                    preview>>
        /\ call[s].pc = "rename"
        /\ file' = [file EXCEPT ![s] = call[s].value]
        /\ Goto(s, call[s].then)
        /\ DOMAIN temp' = Services
    BY DEF RenameTemp, world, faults, CFInv, Types
  <1>2. /\ call'[s] = [pc |-> call[s].then, value |-> Absent, then |-> "idle"]
        /\ \A u \in Services \ {s} : call'[u] = call[u]
        /\ DOMAIN call' = Services
    BY <1>1, GotoCall DEF CFInv
  <1>3. /\ file'[s] = call[s].value
        /\ \A u \in Services \ {s} : file'[u] = file[u]
        /\ DOMAIN file' = Services
    BY <1>1, WriteRecord DEF CFInv
  <1>4. Types'
    BY <1>1, <1>2, <1>3, TypesKept DEF CFInv, Types
  <1>5. CASE s = "execution"
    <2>1. /\ Consistent(call[s].value)
          /\ Move(file[s], call[s]) \in PlanMoves
          /\ effects["turn"] <= 1
          /\ effects["turn"] > 0 => file[s].status \in Begun
      BY <1>1, <1>5 DEF CFInv, ExecutionOK, Execution
    <2>2. \/ /\ file[s].status = "AWAITING_APPROVAL" /\ call[s].value.status = "APPROVED"
             /\ call[s].then = "idle"
          \/ /\ file[s].status = "APPROVED" /\ call[s].value.status = "EXECUTING"
             /\ call[s].then = "submit"
          \/ /\ file[s].status = "EXECUTING"
             /\ call[s].value.status \in {"REVIEW_REQUIRED", "RECONCILIATION_REQUIRED"}
             /\ call[s].then = "idle"
      BY <2>1 DEF Move, PlanMoves
    <2>3. effects["turn"] \in Nat
      BY WholeEffects DEF Effects
    <2>4. Execution(call[s].value, [pc |-> call[s].then, value |-> Absent, then |-> "idle"],
                    effects["turn"])
      BY <2>1, <2>2, <2>3 DEF Execution, Begun
    <2>5. ExecutionOK'
      BY <1>1, <1>2, <1>3, <1>5, <2>4 DEF ExecutionOK
    <2> QED BY <1>1, <1>2, <1>3, <1>4, <1>5, <2>5, ExecutionAlone DEF Services
  <1>6. CASE s = "delivery"
    <2>1. /\ Move(file[s], call[s]) \in ReviewMoves
          /\ call[s].value \in CustomerDeliveryReview
          /\ call[s].value.content = file[s].content
          /\ call[s].value.status = "DRAFT_PR_CREATED" =>
               /\ effects["pull"] = 1 /\ call[s].value.commit = workspace.head
               /\ call[s].value.commit \in Patches
          /\ effects["commit"] <= 1 /\ effects["push"] <= 1 /\ effects["pull"] <= 1
          /\ effects["commit"] > 0 \/ effects["push"] > 0 \/ effects["pull"] > 0 =>
               file[s].status \in Sent
          /\ effects["commit"] > 0 => late \/ workspace.head = file[s].content
      BY <1>1, <1>6 DEF CFInv, DeliveryOK, Delivery
    <2>2. \/ /\ file[s].status = "AWAITING_REVIEW" /\ call[s].value.status = "REVIEW_APPROVED"
             /\ call[s].then = "idle"
          \/ /\ file[s].status = "REVIEW_APPROVED"
             /\ call[s].value.status = "DELIVERY_IN_PROGRESS"
             /\ call[s].then = "check"
          \/ /\ file[s].status = "DELIVERY_IN_PROGRESS"
             /\ call[s].value.status \in {"DRAFT_PR_CREATED", "RECONCILIATION_REQUIRED"}
             /\ call[s].then = "idle"
      BY <2>1 DEF Move, ReviewMoves
    <2>3. \A e \in {"commit", "push", "pull"} : effects[e] \in Nat
      BY WholeEffects DEF Effects
    <2>4. Delivery(call[s].value, [pc |-> call[s].then, value |-> Absent, then |-> "idle"],
                   effects["commit"], effects["push"], effects["pull"], workspace, late)
      BY <2>1, <2>2, <2>3 DEF Delivery, Sent
    <2>5. DeliveryOK'
      BY <1>1, <1>2, <1>3, <1>6, <2>4 DEF DeliveryOK
    <2> QED BY <1>1, <1>2, <1>3, <1>4, <1>6, <2>2, <2>5, DeliveryAlone DEF Services
  <1>7. CASE s = "acceptance"
    <2>1. /\ Acceptance(file[s], call[s], effects["workflow"], preview, package, decision, answer,
                        file["delivery"])
          /\ Move(file[s], call[s]) \in AcceptanceMoves
      BY <1>1, <1>7 DEF CFInv, AcceptanceOK, Acceptance
    <2>2. \/ /\ file[s].status = "AWAITING_APPROVAL" /\ call[s].value.status = "APPROVED"
             /\ call[s].then = "idle"
          \/ /\ file[s].status = "APPROVED" /\ call[s].value.status = "EXECUTION_IN_PROGRESS"
             /\ call[s].then = "deploy"
          \/ /\ file[s].status = "EXECUTION_IN_PROGRESS"
             /\ call[s].value.status \in {"EVIDENCE_READY", "RECONCILIATION_REQUIRED"}
             /\ call[s].then = "idle"
      BY <2>1 DEF Move, AcceptanceMoves
    <2>3. effects["workflow"] \in Nat
      BY WholeEffects DEF Effects
    <2>4. Acceptance(call[s].value, [pc |-> call[s].then, value |-> Absent, then |-> "idle"],
                     effects["workflow"], preview, package, decision, answer, file["delivery"])
      BY <1>1, <2>1, <2>2, <2>3 DEF Acceptance, Tried
    <2>5. AcceptanceOK'
      BY <1>1, <1>2, <1>3, <1>7, <2>4 DEF AcceptanceOK, Services
    <2> QED BY <1>1, <1>2, <1>3, <1>4, <1>7, <2>5, AcceptanceAlone DEF Services
  <1> QED BY <1>5, <1>6, <1>7 DEF Services

(* replace raises before the rename: the record stays where it was. *)
LEMMA ReplaceFailsInvariant ==
  ASSUME CFInv, NEW s \in Services, ReplaceFails(s)
  PROVE  CFInv'
  <1>1. /\ UNCHANGED <<file, browserPlan, package, decision, answer, workspace, late, remote, effects,
                    preview>>
        /\ call[s].pc = "rename"
        /\ DOMAIN temp' = Services
    BY DEF ReplaceFails, world, faults, CFInv, Types
  <1>2. CASE Goto(s, "idle")
    BY <1>1, <1>2, ReturnInvariant
  <1>3. CASE /\ call[s].value.status \in {"REVIEW_REQUIRED", "DRAFT_PR_CREATED", "EVIDENCE_READY"}
             /\ Goto(s, "failed")
    <2>1. CASE s = "execution"
      <3>1. Status(s) = "EXECUTING"
        BY <1>1, <1>3, <2>1 DEF CFInv, ExecutionOK, Execution, Move, PlanMoves, Status
      <3> QED BY <1>1, <1>3, <2>1, <3>1, FailedInvariant DEF Intent
    <2>2. CASE s = "delivery"
      <3>1. Status(s) = "DELIVERY_IN_PROGRESS"
        BY <1>1, <1>3, <2>2 DEF CFInv, DeliveryOK, Delivery, Move, ReviewMoves, Status
      <3> QED BY <1>1, <1>3, <2>2, <3>1, FailedInvariant DEF Intent
    <2>3. CASE s = "acceptance"
      <3>1. Status(s) = "EXECUTION_IN_PROGRESS"
        BY <1>1, <1>3, <2>3 DEF CFInv, AcceptanceOK, Acceptance, Move, AcceptanceMoves, Status
      <3> QED BY <1>1, <1>3, <2>3, <3>1, FailedInvariant DEF Intent
    <2> QED BY <2>1, <2>2, <2>3 DEF Services
  <1> QED BY <1>2, <1>3 DEF ReplaceFails, Return

(* An effect raises: the request goes on to record the doubt. *)
LEMMA EffectFailsInvariant ==
  ASSUME CFInv, NEW s \in Services, EffectFails(s)
  PROVE  CFInv'
  <1>1. /\ UNCHANGED <<file, package, decision, answer, workspace, late, remote, effects,
                    preview>>
        /\ call[s].pc \in {"submit", "apply", "check", "probe", "add", "commit", "push", "verify",
                           "pull", "deploy", "dispatch", "browser", "publish"}
        /\ Goto(s, "failed")
        /\ DOMAIN temp' = Services
    BY DEF EffectFails, stores, world, faults, CFInv, Types
  <1>2. CASE s = "execution"
    <2>1. Status(s) = "EXECUTING"
      BY <1>1, <1>2 DEF CFInv, ExecutionOK, Execution, Status
    <2> QED BY <1>1, <1>2, <2>1, FailedInvariant DEF Intent
  <1>3. CASE s = "delivery"
    <2>1. Status(s) = "DELIVERY_IN_PROGRESS"
      BY <1>1, <1>3 DEF CFInv, DeliveryOK, Delivery, Status
    <2> QED BY <1>1, <1>3, <2>1, FailedInvariant DEF Intent
  <1>4. CASE s = "acceptance"
    <2>1. Status(s) = "EXECUTION_IN_PROGRESS"
      BY <1>1, <1>4 DEF CFInv, AcceptanceOK, Acceptance, Status
    <2> QED BY <1>1, <1>4, <2>1, FailedInvariant DEF Intent
  <1> QED BY <1>2, <1>3, <1>4 DEF Services

(* The part of customer_delivery survives a change of the checkout that    *)
(* does not come between the adapter's check and git add, or is marked.    *)
LEMMA CheckoutChanges ==
  ASSUME DeliveryOK, file'["delivery"] = file["delivery"],
         call'["delivery"] = call["delivery"], UNCHANGED effects,
         workspace'.head = workspace.head, late => late',
         \/ workspace' = workspace
         \/ call["delivery"].pc \notin {"probe", "add"}
         \/ late' /\ workspace'.changes \in Patches
  PROVE  DeliveryOK'
  BY DEF DeliveryOK, Delivery

-----------------------------------------------------------------------------
(* customer_execution.                                                     *)

(* A request of customer_execution starts to create its record. *)
LEMMA CreatePlanInvariant ==
  ASSUME CFInv, NEW value, Create("execution", value),
         Consistent(value), value.status = "AWAITING_APPROVAL",
         UNCHANGED <<stores, world, faults>>
  PROVE  CFInv'
  <1>1. UNCHANGED <<file, temp, package, decision, answer, workspace, late, remote, effects,
                    preview>>
    BY DEF stores, world, faults
  <1>2. /\ call'["execution"] = [pc |-> "create", value |-> value, then |-> "idle"]
        /\ \A u \in Services \ {"execution"} : call'[u] = call[u]
        /\ DOMAIN call' = Services
    BY CreateCall DEF CFInv, Services
  <1>3. Types'
    BY <1>1, <1>2, TypesKept DEF CFInv, Types, Services
  <1>4. ExecutionOK'
    BY <1>1, <1>2 DEF CFInv, ExecutionOK, Execution
  <1> QED BY <1>1, <1>2, <1>3, <1>4, ExecutionAlone DEF Services

(* A request of customer_execution starts to replace its record. *)
LEMMA ReplacePlanInvariant ==
  ASSUME CFInv, NEW value, NEW then, Replace("execution", value, then),
         file["execution"] \notin {Absent, Torn}, Consistent(value),
         <<file["execution"].status, value.status, then>> \in PlanMoves,
         workspace' \in [head: {"base"} \cup Patches, changes: {"clean"} \cup Patches],
         workspace'.head = workspace.head,
         workspace' = workspace \/ call["delivery"].pc \notin {"probe", "add"},
         UNCHANGED <<stores, late, remote, effects, preview>>
  PROVE  CFInv'
  <1>1. UNCHANGED <<file, temp, package, decision, answer>>
    BY DEF stores
  <1>2. /\ call'["execution"] = [pc |-> "replace", value |-> value, then |-> then]
        /\ \A u \in Services \ {"execution"} : call'[u] = call[u]
        /\ DOMAIN call' = Services
    BY ReplaceCall DEF CFInv, Services
  <1>3. Types'
    BY <1>1, <1>2, TypesKept DEF CFInv, Types, Services
  <1>4. ExecutionOK'
    BY <1>1, <1>2 DEF CFInv, ExecutionOK, Execution, Move
  <1>5. /\ DeliveryOK /\ AcceptanceOK
        /\ call'["delivery"] = call["delivery"]
        /\ call'["acceptance"] = call["acceptance"]
    BY <1>2 DEF CFInv, Services
  <1>6. DeliveryOK'
    BY <1>1, <1>5, CheckoutChanges
  <1>7. AcceptanceOK'
    BY <1>1, <1>5, AcceptanceFrame
  <1> QED BY <1>3, <1>4, <1>6, <1>7 DEF CFInv

(* plan: the new record has started none of its tasks. *)
LEMMA PlanExecutionInvariant ==
  ASSUME CFInv, PlanExecution
  PROVE  CFInv'
  <1>. DEFINE value == [status |-> "AWAITING_APPROVAL", tasks |-> [t \in Tasks |-> "PENDING"],
                        commit |-> workspace.head]
  <1>1. Create("execution", value) /\ UNCHANGED <<stores, world, faults>>
    BY DEF PlanExecution
  <1>2. [t \in Tasks |-> "PENDING"] \in [Tasks -> CustomerExecutionTaskStatus]
    BY DEF CustomerExecutionTaskStatus
  <1>3. Consistent(value) /\ value.status = "AWAITING_APPROVAL"
    BY <1>2 DEF Consistent, CustomerExecutionPlan, CFInv, Types
  <1> QED BY <1>1, <1>3, CreatePlanInvariant

(* approve: the awaiting record becomes the approved one. *)
LEMMA ApproveExecutionInvariant ==
  ASSUME CFInv, ApproveExecution
  PROVE  CFInv'
  <1>. DEFINE value == [file["execution"] EXCEPT !.status = "APPROVED"]
  <1>1. /\ Replace("execution", value, "idle")
        /\ file["execution"].status = "AWAITING_APPROVAL"
        /\ UNCHANGED <<stores, world, faults>>
    BY DEF ApproveExecution, Status
  <1>2. Consistent(file["execution"]) /\ file["execution"] \notin {Absent, Torn}
    BY <1>1 DEF CFInv, ExecutionOK, Execution, Absent, Torn
  <1>3. Consistent(value) /\ value.status = "APPROVED"
    BY <1>1, <1>2 DEF Consistent, CustomerExecutionPlan
  <1>4. workspace' = workspace /\ UNCHANGED <<stores, late, remote, effects, preview>>
    BY <1>1 DEF world, faults
  <1>5. workspace' \in [head: {"base"} \cup Patches, changes: {"clean"} \cup Patches]
    BY <1>4 DEF CFInv, Types
  <1> QED BY <1>1, <1>2, <1>3, <1>4, <1>5, ReplacePlanInvariant DEF PlanMoves

(* The record a task's new status makes: t is the only task begun. *)
LEMMA TaskInStateConsistent ==
  ASSUME CFInv, NEW t \in Tasks, NEW state \in Begun,
         file["execution"].status \in {"APPROVED", "EXECUTING"},
         file["execution"].status = "EXECUTING" => Executing(t)
  PROVE  /\ Consistent(TaskInState(t, state, state))
         /\ TaskInState(t, state, state).status = state
         /\ file["execution"] \notin {Absent, Torn}
  <1>. DEFINE f == file["execution"]
              value == TaskInState(t, state, state)
  <1>1. Consistent(f) /\ f \notin {Absent, Torn}
    BY DEF CFInv, ExecutionOK, Execution, Absent, Torn
  <1>2. f.tasks \in [Tasks -> CustomerExecutionTaskStatus]
    BY <1>1 DEF Consistent, CustomerExecutionPlan
  <1>3. \A u \in Tasks : u # t => f.tasks[u] = "PENDING"
    <2>1. CASE f.status = "APPROVED"
      BY <1>1, <2>1 DEF Consistent
    <2>2. CASE f.status = "EXECUTING"
      <3>1. PICK v \in Tasks : f.tasks = [u \in Tasks |-> IF u = v THEN f.status ELSE "PENDING"]
        BY <1>1, <2>2 DEF Consistent
      <3>2. v = t
        BY <2>2, <3>1 DEF Executing
      <3> QED BY <3>1, <3>2
    <2> QED BY <2>1, <2>2
  <1>4. value = [f EXCEPT !.tasks = [f.tasks EXCEPT ![t] = state], !.status = state]
    BY DEF TaskInState
  <1>5. [f.tasks EXCEPT ![t] = state] = [u \in Tasks |-> IF u = t THEN state ELSE "PENDING"]
    BY <1>2, <1>3
  <1>6. value = [status |-> state, commit |-> f.commit,
                 tasks |-> [u \in Tasks |-> IF u = t THEN state ELSE "PENDING"]]
    BY <1>1, <1>4, <1>5 DEF Consistent, CustomerExecutionPlan
  <1>7. [u \in Tasks |-> IF u = t THEN state ELSE "PENDING"]
          \in [Tasks -> CustomerExecutionTaskStatus]
    BY DEF CustomerExecutionTaskStatus, Begun
  <1>8. Consistent(value) /\ value.status = state
    BY <1>1, <1>6, <1>7 DEF Consistent, CustomerExecutionPlan, Begun
  <1> QED BY <1>1, <1>8

(* execute_next: the first pending task of an approved plan is begun. *)
LEMMA ExecuteNextInvariant ==
  ASSUME CFInv, ExecuteNext
  PROVE  CFInv'
  <1>1. PICK t \in Tasks :
          Replace("execution", TaskInState(t, "EXECUTING", "EXECUTING"), "submit")
    BY DEF ExecuteNext
  <1>. DEFINE value == TaskInState(t, "EXECUTING", "EXECUTING")
  <1>2. /\ file["execution"].status = "APPROVED"
        /\ UNCHANGED <<stores, world, faults>>
    BY DEF ExecuteNext, Executable, Status
  <1>3. /\ Consistent(value) /\ value.status = "EXECUTING"
        /\ file["execution"] \notin {Absent, Torn}
    BY <1>2, TaskInStateConsistent DEF Begun
  <1>4. workspace' = workspace /\ UNCHANGED <<stores, late, remote, effects, preview>>
    BY <1>2 DEF world, faults
  <1>5. workspace' \in [head: {"base"} \cup Patches, changes: {"clean"} \cup Patches]
    BY <1>4 DEF CFInv, Types
  <1>. HIDE DEF value
  <1>6. Replace("execution", value, "submit")
    BY <1>1 DEF value
  <1>7. <<file["execution"].status, value.status, "submit">> \in PlanMoves
    BY <1>2, <1>3 DEF PlanMoves
  <1> QED BY <1>3, <1>4, <1>5, <1>6, <1>7, ReplacePlanInvariant

(* The provider turn is the first and only one. *)
LEMMA SubmitTurnInvariant ==
  ASSUME CFInv, SubmitTurn
  PROVE  CFInv'
  <1>1. /\ call["execution"].pc = "submit"
        /\ Cause("turn") /\ Goto("execution", "apply")
        /\ UNCHANGED <<file, temp, package, decision, answer, workspace, late, remote, preview>>
    BY DEF SubmitTurn, stores, faults
  <1>2. /\ effects'["turn"] = effects["turn"] + 1
        /\ \A x \in Effects \ {"turn"} : effects'[x] = effects[x]
        /\ effects' \in [Effects -> Nat]
    BY <1>1, CauseCounts DEF CFInv, Effects
  <1>3. /\ call'["execution"] = [pc |-> "apply", value |-> Absent, then |-> "idle"]
        /\ \A u \in Services \ {"execution"} : call'[u] = call[u]
        /\ DOMAIN call' = Services
    BY <1>1, GotoCall DEF CFInv, Services
  <1>4. Types'
    BY <1>1, <1>2, <1>3, TypesKept DEF CFInv, Types, Services
  <1>5. ExecutionOK'
    BY <1>1, <1>2, <1>3 DEF CFInv, ExecutionOK, Execution, Begun
  <1> QED BY <1>1, <1>2, <1>3, <1>4, <1>5, ExecutionAlone DEF Services

(* The patch is applied on a clean checkout: no delivery is between its    *)
(* check of the checkout and its git add then.                             *)
LEMMA ApplyPatchInvariant ==
  ASSUME CFInv, ApplyPatch
  PROVE  CFInv'
  <1>1. /\ call["execution"].pc = "apply"
        /\ workspace.changes = "clean"
        /\ workspace' = [workspace EXCEPT !.changes = "patch"]
        /\ UNCHANGED <<stores, late, remote, effects, preview>>
        /\ UNCHANGED <<file, temp, package, decision, answer>>
    BY DEF ApplyPatch, stores, faults
  <1>2. /\ workspace' \in [head: {"base"} \cup Patches, changes: {"clean"} \cup Patches]
        /\ workspace'.head = workspace.head
    BY <1>1 DEF CFInv, Types, Patches
  <1>3. call["delivery"].pc \notin {"probe", "add"}
    BY <1>1 DEF CFInv, DeliveryOK, Delivery, Patches
  <1>4. file["execution"].status = "EXECUTING"
    BY <1>1 DEF CFInv, ExecutionOK, Execution
  <1>5. CASE \E t \in Tasks :
               /\ Executing(t)
               /\ Replace("execution", TaskInState(t, "REVIEW_REQUIRED", "REVIEW_REQUIRED"), "idle")
    <2>1. PICK t \in Tasks :
            /\ Executing(t)
            /\ Replace("execution", TaskInState(t, "REVIEW_REQUIRED", "REVIEW_REQUIRED"), "idle")
      BY <1>5
    <2>. DEFINE value == TaskInState(t, "REVIEW_REQUIRED", "REVIEW_REQUIRED")
    <2>2. /\ Consistent(value) /\ value.status = "REVIEW_REQUIRED"
          /\ file["execution"] \notin {Absent, Torn}
      BY <1>4, <2>1, TaskInStateConsistent DEF Begun
    <2>3. Replace("execution", value, "idle")
      BY <2>1
    <2>. HIDE DEF value
    <2>4. <<file["execution"].status, value.status, "idle">> \in PlanMoves
      BY <1>4, <2>2 DEF PlanMoves
    <2> QED BY <1>1, <1>2, <1>3, <2>2, <2>3, <2>4, ReplacePlanInvariant
  <1>6. CASE Goto("execution", "failed")
    <2>1. /\ call'["execution"] = [pc |-> "failed", value |-> Absent, then |-> "idle"]
          /\ \A u \in Services \ {"execution"} : call'[u] = call[u]
          /\ DOMAIN call' = Services
      BY <1>6, GotoCall DEF CFInv, Services
    <2>2. Types'
      BY <1>1, <1>2, <2>1, TypesKept DEF CFInv, Types, Services
    <2>3. ExecutionOK'
      BY <1>1, <1>4, <2>1 DEF CFInv, ExecutionOK, Execution
    <2>4. /\ DeliveryOK /\ AcceptanceOK
          /\ call'["delivery"] = call["delivery"]
          /\ call'["acceptance"] = call["acceptance"]
      BY <2>1 DEF CFInv, Services
    <2>5. DeliveryOK'
      BY <1>1, <1>2, <1>3, <2>4, CheckoutChanges
    <2>6. AcceptanceOK'
      BY <1>1, <2>4, AcceptanceFrame
    <2> QED BY <2>2, <2>3, <2>5, <2>6 DEF CFInv
  <1> QED BY <1>5, <1>6 DEF ApplyPatch

(* The except branch of execute_next records the doubt. *)
LEMMA RecordExecutionFailureInvariant ==
  ASSUME CFInv, RecordExecutionFailure
  PROVE  CFInv'
  <1>1. PICK t \in Tasks :
          /\ Executing(t)
          /\ Replace("execution",
               TaskInState(t, "RECONCILIATION_REQUIRED", "RECONCILIATION_REQUIRED"), "idle")
    BY DEF RecordExecutionFailure
  <1>. DEFINE value == TaskInState(t, "RECONCILIATION_REQUIRED", "RECONCILIATION_REQUIRED")
  <1>2. /\ call["execution"].pc = "failed"
        /\ UNCHANGED <<stores, world, faults>>
    BY DEF RecordExecutionFailure
  <1>3. file["execution"].status = "EXECUTING"
    BY <1>2 DEF CFInv, ExecutionOK, Execution
  <1>4. /\ Consistent(value) /\ value.status = "RECONCILIATION_REQUIRED"
        /\ file["execution"] \notin {Absent, Torn}
    BY <1>1, <1>3, TaskInStateConsistent DEF Begun
  <1>5. Replace("execution", value, "idle")
    BY <1>1
  <1>6. workspace' = workspace /\ UNCHANGED <<stores, late, remote, effects, preview>>
    BY <1>2 DEF world, faults
  <1>7. workspace' \in [head: {"base"} \cup Patches, changes: {"clean"} \cup Patches]
    BY <1>6 DEF CFInv, Types
  <1>. HIDE DEF value
  <1>8. <<file["execution"].status, value.status, "idle">> \in PlanMoves
    BY <1>3, <1>4 DEF PlanMoves
  <1> QED BY <1>4, <1>5, <1>6, <1>7, <1>8, ReplacePlanInvariant

-----------------------------------------------------------------------------
(* customer_delivery.                                                      *)

(* A step of customer_delivery that moves its request from pc to pc. *)
LEMMA DeliveryGoto ==
  ASSUME CFInv, NEW pc, Goto("delivery", pc),
         UNCHANGED <<stores, preview>>,
         effects' \in [Effects -> Nat],
         \A e \in {"turn", "workflow"} : effects'[e] = effects[e],
         workspace' \in [head: {"base"} \cup Patches, changes: {"clean"} \cup Patches],
         remote' \in {"none", "base", "foreign"} \cup Patches,
         Delivery(file["delivery"], [pc |-> pc, value |-> Absent, then |-> "idle"],
                  effects'["commit"], effects'["push"], effects'["pull"], workspace', late')
  PROVE  CFInv'
  <1>1. UNCHANGED <<file, temp, package, decision, answer, preview>>
    BY DEF stores
  <1>2. /\ call'["delivery"] = [pc |-> pc, value |-> Absent, then |-> "idle"]
        /\ \A u \in Services \ {"delivery"} : call'[u] = call[u]
        /\ DOMAIN call' = Services
    BY GotoCall DEF CFInv, Services
  <1>3. Types'
    BY <1>1, <1>2, TypesKept DEF CFInv, Types, Services
  <1>4. DeliveryOK'
    BY <1>1, <1>2 DEF DeliveryOK
  <1> QED BY <1>1, <1>2, <1>3, <1>4, DeliveryAlone DEF Services

(* A request of customer_delivery starts to replace its record. *)
LEMMA ReplaceReviewInvariant ==
  ASSUME CFInv, NEW value, NEW then, Replace("delivery", value, then),
         file["delivery"] \in CustomerDeliveryReview, value \in CustomerDeliveryReview,
         value.content = file["delivery"].content,
         <<file["delivery"].status, value.status, then>> \in ReviewMoves,
         effects' \in [Effects -> Nat],
         \A e \in Effects \ {"pull"} : effects'[e] = effects[e],
         \/ effects'["pull"] = effects["pull"]
         \/ effects'["pull"] = 1 /\ file["delivery"].status = "DELIVERY_IN_PROGRESS",
         value.status = "DRAFT_PR_CREATED" =>
           effects'["pull"] = 1 /\ value.commit = workspace.head /\ value.commit \in Patches,
         UNCHANGED stores, UNCHANGED <<workspace, late, remote, preview>>
  PROVE  CFInv'
  <1>1. UNCHANGED <<file, temp, package, decision, answer>>
    BY DEF stores
  <1>2. /\ call'["delivery"] = [pc |-> "replace", value |-> value, then |-> then]
        /\ \A u \in Services \ {"delivery"} : call'[u] = call[u]
        /\ DOMAIN call' = Services
    BY ReplaceCall DEF CFInv, Services
  <1>3. Types'
    BY <1>1, <1>2, TypesKept DEF CFInv, Types, Services
  <1>4. /\ effects'["commit"] = effects["commit"] /\ effects'["push"] = effects["push"]
        /\ effects'["turn"] = effects["turn"] /\ effects'["workflow"] = effects["workflow"]
    BY DEF Effects
  <1>5. DeliveryOK'
    BY <1>1, <1>2, <1>4 DEF CFInv, DeliveryOK, Delivery, Move, ReviewMoves, Sent
  <1> QED BY <1>1, <1>2, <1>3, <1>4, <1>5, DeliveryAlone DEF Services

(* A stored review with a new status. *)
LEMMA ReviewWithStatus ==
  ASSUME CFInv, file["delivery"].status \notin {"ABSENT", "TORN"},
         NEW status \in {"REVIEW_APPROVED", "DELIVERY_IN_PROGRESS", "DRAFT_PR_CREATED",
                         "RECONCILIATION_REQUIRED"}
  PROVE  LET value == [file["delivery"] EXCEPT !.status = status]
         IN  /\ file["delivery"] \in CustomerDeliveryReview
             /\ value \in CustomerDeliveryReview
             /\ value.status = status /\ value.content = file["delivery"].content
  <1>1. file["delivery"] \in CustomerDeliveryReview
    BY DEF CFInv, DeliveryOK, Delivery, Absent, Torn
  <1> QED BY <1>1 DEF CustomerDeliveryReview

(* prepare: the new review awaits its customer. *)
LEMMA PrepareDeliveryInvariant ==
  ASSUME CFInv, PrepareDelivery
  PROVE  CFInv'
  <1>. DEFINE value == [status |-> "AWAITING_REVIEW", plan |-> file["execution"],
                        content |-> workspace.changes, commit |-> "none"]
  <1>1. /\ Create("delivery", value)
        /\ UNCHANGED <<file, temp, package, decision, answer, workspace, late, remote, effects,
                    preview>>
        /\ file["execution"].status = "REVIEW_REQUIRED" /\ workspace.changes = "patch"
    BY DEF PrepareDelivery, stores, world, faults, RequireReviewPlan, Status, Source
  <1>2. file["execution"] \in CustomerExecutionPlan
    BY <1>1 DEF CFInv, ExecutionOK, Execution, Consistent, Absent, Torn
  <1>3. value \in CustomerDeliveryReview /\ value.status = "AWAITING_REVIEW"
    BY <1>1, <1>2 DEF CustomerDeliveryReview, Patches
  <1>. HIDE DEF value
  <1>4. /\ call'["delivery"] = [pc |-> "create", value |-> value, then |-> "idle"]
        /\ \A u \in Services \ {"delivery"} : call'[u] = call[u]
        /\ DOMAIN call' = Services
    BY <1>1, CreateCall DEF CFInv, Services
  <1>5. Types'
    BY <1>1, <1>4, TypesKept DEF CFInv, Types, Services
  <1>6. DeliveryOK'
    BY <1>1, <1>3, <1>4 DEF CFInv, DeliveryOK, Delivery
  <1> QED BY <1>1, <1>4, <1>5, <1>6, DeliveryAlone DEF Services

(* approve: the awaited review becomes the approved one. *)
LEMMA ApproveDeliveryInvariant ==
  ASSUME CFInv, ApproveDelivery
  PROVE  CFInv'
  <1>. DEFINE value == [file["delivery"] EXCEPT !.status = "REVIEW_APPROVED"]
  <1>1. /\ Replace("delivery", value, "idle")
        /\ file["delivery"].status = "AWAITING_REVIEW"
        /\ UNCHANGED stores /\ UNCHANGED effects
        /\ UNCHANGED <<workspace, late, remote, preview>>
    BY DEF ApproveDelivery, Status, world, faults
  <1>2. /\ file["delivery"] \in CustomerDeliveryReview /\ value \in CustomerDeliveryReview
        /\ value.status = "REVIEW_APPROVED" /\ value.content = file["delivery"].content
    BY <1>1, ReviewWithStatus
  <1>3. /\ effects' \in [Effects -> Nat]
        /\ \A e \in Effects \ {"pull"} : effects'[e] = effects[e]
        /\ effects'["pull"] = effects["pull"]
    BY <1>1 DEF CFInv, Types
  <1>. HIDE DEF value
  <1>4. <<file["delivery"].status, value.status, "idle">> \in ReviewMoves
    BY <1>1, <1>2 DEF ReviewMoves
  <1> QED BY <1>1, <1>2, <1>3, <1>4, ReplaceReviewInvariant

(* deliver: the intent is saved before anything is committed. *)
LEMMA DeliverInvariant ==
  ASSUME CFInv, Deliver
  PROVE  CFInv'
  <1>. DEFINE value == [file["delivery"] EXCEPT !.status = "DELIVERY_IN_PROGRESS"]
  <1>1. /\ Replace("delivery", value, "check")
        /\ file["delivery"].status = "REVIEW_APPROVED"
        /\ UNCHANGED stores /\ UNCHANGED effects
        /\ UNCHANGED <<workspace, late, remote, preview>>
    BY DEF Deliver, Status, world, faults
  <1>2. /\ file["delivery"] \in CustomerDeliveryReview /\ value \in CustomerDeliveryReview
        /\ value.status = "DELIVERY_IN_PROGRESS" /\ value.content = file["delivery"].content
    BY <1>1, ReviewWithStatus
  <1>3. /\ effects' \in [Effects -> Nat]
        /\ \A e \in Effects \ {"pull"} : effects'[e] = effects[e]
        /\ effects'["pull"] = effects["pull"]
    BY <1>1 DEF CFInv, Types
  <1>. HIDE DEF value
  <1>4. <<file["delivery"].status, value.status, "check">> \in ReviewMoves
    BY <1>1, <1>2 DEF ReviewMoves
  <1> QED BY <1>1, <1>2, <1>3, <1>4, ReplaceReviewInvariant

(* A step of the adapter that only looks: its request goes on or fails. *)
LEMMA DeliveryLooks ==
  ASSUME CFInv, NEW pc, Goto("delivery", pc), UNCHANGED <<stores, world, faults>>,
         Delivery(file["delivery"], [pc |-> pc, value |-> Absent, then |-> "idle"],
                  effects["commit"], effects["push"], effects["pull"], workspace, late)
  PROVE  CFInv'
  <1>1. UNCHANGED <<stores, preview, effects, workspace, remote, late>>
    BY DEF world, faults
  <1>2. /\ effects' \in [Effects -> Nat]
        /\ workspace' \in [head: {"base"} \cup Patches, changes: {"clean"} \cup Patches]
        /\ remote' \in {"none", "base", "foreign"} \cup Patches
    BY <1>1 DEF CFInv, Types
  <1> QED BY <1>1, <1>2, DeliveryGoto

(* The adapter's check of the checkout: only the reviewed content goes on. *)
LEMMA CheckAgainInvariant ==
  ASSUME CFInv, CheckAgain
  PROVE  CFInv'
  <1>1. call["delivery"].pc = "check" /\ UNCHANGED <<stores, world, faults>>
    BY DEF CheckAgain
  <1>2. PICK pc \in {"probe", "failed"} :
          Goto("delivery", pc) /\ (pc = "probe" => VerifyWorkspace)
    BY DEF CheckAgain
  <1>3. file["delivery"] \in CustomerDeliveryReview
    BY <1>1 DEF CFInv, DeliveryOK, Delivery, Absent, Torn
  <1>4. pc = "probe" => workspace.changes = file["delivery"].content /\ workspace.changes \in Patches
    BY <1>2, <1>3 DEF VerifyWorkspace, CustomerDeliveryReview
  <1>5. Delivery(file["delivery"], [pc |-> pc, value |-> Absent, then |-> "idle"],
                 effects["commit"], effects["push"], effects["pull"], workspace, late)
    BY <1>1, <1>2, <1>4 DEF CFInv, DeliveryOK, Delivery
  <1> QED BY <1>1, <1>2, <1>5, DeliveryLooks

(* The adapter asks the remote and GitHub. *)
LEMMA ProbeRemoteInvariant ==
  ASSUME CFInv, ProbeRemote
  PROVE  CFInv'
  <1>1. call["delivery"].pc = "probe" /\ UNCHANGED <<stores, world, faults>>
    BY DEF ProbeRemote
  <1>2. PICK pc \in {"add", "failed"} : Goto("delivery", pc)
    BY DEF ProbeRemote
  <1>3. Delivery(file["delivery"], [pc |-> pc, value |-> Absent, then |-> "idle"],
                 effects["commit"], effects["push"], effects["pull"], workspace, late)
    BY <1>1, <1>2 DEF CFInv, DeliveryOK, Delivery
  <1> QED BY <1>1, <1>2, <1>3, DeliveryLooks

(* git add: the index holds the reviewed content, or a late edit.          *)
LEMMA StageFilesInvariant ==
  ASSUME CFInv, StageFiles
  PROVE  CFInv'
  <1>1. /\ call["delivery"].pc = "add"
        /\ UNCHANGED <<file, temp, package, decision, answer, workspace, late, remote, effects,
                      preview>>
        /\ call' = [call EXCEPT !["delivery"] =
                      [pc |-> "commit", value |-> workspace.changes, then |-> "idle"]]
    BY DEF StageFiles, stores, world, faults
  <1>2. /\ call'["delivery"] = [pc |-> "commit", value |-> workspace.changes, then |-> "idle"]
        /\ \A u \in Services \ {"delivery"} : call'[u] = call[u]
        /\ DOMAIN call' = Services
    BY <1>1 DEF CFInv, Types, Services
  <1>3. Types'
    BY <1>1, <1>2, TypesKept DEF CFInv, Types, Services
  <1>4. DeliveryOK'
    BY <1>1, <1>2 DEF CFInv, DeliveryOK, Delivery
  <1> QED BY <1>1, <1>2, <1>3, <1>4, DeliveryAlone DEF Services

(* git commit: once, of what git add put into the index.                   *)
LEMMA CommitInvariant ==
  ASSUME CFInv, Commit
  PROVE  CFInv'
  <1>. DEFINE staged == call["delivery"].value
  <1>1. /\ call["delivery"].pc = "commit"
        /\ workspace' = [head |-> staged,
                         changes |-> IF workspace.changes = staged THEN "clean"
                                     ELSE workspace.changes]
        /\ Cause("commit") /\ Goto("delivery", "push")
        /\ UNCHANGED stores /\ UNCHANGED <<late, remote, preview>>
    BY DEF Commit, faults
  <1>2. /\ effects'["commit"] = effects["commit"] + 1
        /\ \A x \in {"turn", "push", "pull", "workflow"} : effects'[x] = effects[x]
        /\ effects' \in [Effects -> Nat]
    BY <1>1, CauseCounts DEF CFInv, Effects
  <1>3. staged \in Patches /\ (late \/ staged = file["delivery"].content)
    BY <1>1 DEF CFInv, DeliveryOK, Delivery
  <1>4. /\ workspace' \in [head: {"base"} \cup Patches, changes: {"clean"} \cup Patches]
        /\ workspace'.head = staged
        /\ remote' \in {"none", "base", "foreign"} \cup Patches
    BY <1>1, <1>3 DEF CFInv, Types
  <1>5. Delivery(file["delivery"], [pc |-> "push", value |-> Absent, then |-> "idle"],
                 effects'["commit"], effects'["push"], effects'["pull"], workspace', late')
    BY <1>1, <1>2, <1>3, <1>4 DEF CFInv, DeliveryOK, Delivery, Sent
  <1> QED BY <1>1, <1>2, <1>4, <1>5, DeliveryGoto

(* git push: once, of the commit just made. *)
LEMMA PushInvariant ==
  ASSUME CFInv, Push
  PROVE  CFInv'
  <1>1. /\ call["delivery"].pc = "push"
        /\ remote' = workspace.head
        /\ Cause("push") /\ Goto("delivery", "verify")
        /\ UNCHANGED stores /\ UNCHANGED <<workspace, late, preview>>
    BY DEF Push, faults
  <1>2. /\ effects'["push"] = effects["push"] + 1
        /\ \A x \in {"turn", "commit", "pull", "workflow"} : effects'[x] = effects[x]
        /\ effects' \in [Effects -> Nat]
    BY <1>1, CauseCounts DEF CFInv, Effects
  <1>3. /\ workspace' \in [head: {"base"} \cup Patches, changes: {"clean"} \cup Patches]
        /\ remote' \in {"none", "base", "foreign"} \cup Patches
    BY <1>1 DEF CFInv, Types
  <1>4. Delivery(file["delivery"], [pc |-> "verify", value |-> Absent, then |-> "idle"],
                 effects'["commit"], effects'["push"], effects'["pull"], workspace', late')
    BY <1>1, <1>2 DEF CFInv, DeliveryOK, Delivery, Sent
  <1> QED BY <1>1, <1>2, <1>3, <1>4, DeliveryGoto

(* The adapter asks what the remote branch holds now. *)
LEMMA VerifyPushInvariant ==
  ASSUME CFInv, VerifyPush
  PROVE  CFInv'
  <1>1. call["delivery"].pc = "verify" /\ UNCHANGED <<stores, world, faults>>
    BY DEF VerifyPush
  <1>2. PICK pc \in {"pull", "failed"} : Goto("delivery", pc)
    BY DEF VerifyPush
  <1>3. Delivery(file["delivery"], [pc |-> pc, value |-> Absent, then |-> "idle"],
                 effects["commit"], effects["push"], effects["pull"], workspace, late)
    BY <1>1, <1>2 DEF CFInv, DeliveryOK, Delivery
  <1> QED BY <1>1, <1>2, <1>3, DeliveryLooks

(* The draft pull request: once, and only then is it recorded. *)
LEMMA OpenPullRequestInvariant ==
  ASSUME CFInv, OpenPullRequest
  PROVE  CFInv'
  <1>1. /\ call["delivery"].pc = "pull" /\ Cause("pull")
        /\ UNCHANGED stores /\ UNCHANGED <<workspace, late, remote, preview>>
    BY DEF OpenPullRequest, faults
  <1>2. /\ effects'["pull"] = effects["pull"] + 1
        /\ \A x \in Effects \ {"pull"} : effects'[x] = effects[x]
        /\ \A x \in {"turn", "commit", "push", "workflow"} : effects'[x] = effects[x]
        /\ effects' \in [Effects -> Nat]
    BY <1>1, CauseCounts DEF CFInv, Effects
  <1>3. /\ workspace' \in [head: {"base"} \cup Patches, changes: {"clean"} \cup Patches]
        /\ remote' \in {"none", "base", "foreign"} \cup Patches
    BY <1>1 DEF CFInv, Types
  <1>4. /\ effects'["pull"] = 1 /\ file["delivery"].status = "DELIVERY_IN_PROGRESS"
        /\ workspace.head \in Patches
    BY <1>1, <1>2 DEF CFInv, DeliveryOK, Delivery
  <1>5. CASE Replace("delivery", [file["delivery"] EXCEPT !.status = "DRAFT_PR_CREATED",
                                                         !.commit = workspace.head], "idle")
    <2>. DEFINE value == [file["delivery"] EXCEPT !.status = "DRAFT_PR_CREATED",
                                                  !.commit = workspace.head]
    <2>1. file["delivery"] \in CustomerDeliveryReview
      BY <1>4 DEF CFInv, DeliveryOK, Delivery, Absent, Torn
    <2>2. /\ value \in CustomerDeliveryReview /\ value.status = "DRAFT_PR_CREATED"
          /\ value.content = file["delivery"].content /\ value.commit = workspace.head
      BY <1>4, <2>1 DEF CustomerDeliveryReview
    <2>3. Replace("delivery", value, "idle")
      BY <1>5
    <2>. HIDE DEF value
    <2>4. <<file["delivery"].status, value.status, "idle">> \in ReviewMoves
      BY <1>4, <2>2 DEF ReviewMoves
    <2> QED BY <1>1, <1>2, <1>4, <2>1, <2>2, <2>3, <2>4, ReplaceReviewInvariant
  <1>6. CASE Goto("delivery", "failed")
    <2>1. Delivery(file["delivery"], [pc |-> "failed", value |-> Absent, then |-> "idle"],
                   effects'["commit"], effects'["push"], effects'["pull"], workspace', late')
      BY <1>1, <1>2, <1>4 DEF CFInv, DeliveryOK, Delivery, Sent
    <2> QED BY <1>1, <1>2, <1>3, <1>6, <2>1, DeliveryGoto
  <1> QED BY <1>5, <1>6 DEF OpenPullRequest

(* The except branch of deliver records the doubt. *)
LEMMA RecordDeliveryFailureInvariant ==
  ASSUME CFInv, RecordDeliveryFailure
  PROVE  CFInv'
  <1>. DEFINE value == [file["delivery"] EXCEPT !.status = "RECONCILIATION_REQUIRED"]
  <1>1. /\ Replace("delivery", value, "idle")
        /\ call["delivery"].pc = "failed"
        /\ UNCHANGED stores /\ UNCHANGED effects
        /\ UNCHANGED <<workspace, late, remote, preview>>
    BY DEF RecordDeliveryFailure, world, faults
  <1>2. file["delivery"].status = "DELIVERY_IN_PROGRESS"
    BY <1>1 DEF CFInv, DeliveryOK, Delivery
  <1>3. /\ file["delivery"] \in CustomerDeliveryReview /\ value \in CustomerDeliveryReview
        /\ value.status = "RECONCILIATION_REQUIRED" /\ value.content = file["delivery"].content
    BY <1>2, ReviewWithStatus
  <1>4. /\ effects' \in [Effects -> Nat]
        /\ \A e \in Effects \ {"pull"} : effects'[e] = effects[e]
        /\ effects'["pull"] = effects["pull"]
    BY <1>1 DEF CFInv, Types
  <1>. HIDE DEF value
  <1>5. <<file["delivery"].status, value.status, "idle">> \in ReviewMoves
    BY <1>2, <1>3 DEF ReviewMoves
  <1> QED BY <1>1, <1>3, <1>4, <1>5, ReplaceReviewInvariant

-----------------------------------------------------------------------------
(* customer_acceptance and customer_evidence.                              *)

(* A step of the acceptance that moves its request from pc to pc. *)
LEMMA AcceptanceGoto ==
  ASSUME CFInv, NEW pc, Goto("acceptance", pc),
         UNCHANGED <<file, temp, workspace, late, remote>>,
         effects' \in [Effects -> Nat],
         \A e \in Effects \ {"workflow"} : effects'[e] = effects[e],
         Acceptance(file["acceptance"], [pc |-> pc, value |-> Absent, then |-> "idle"],
                    effects'["workflow"], preview', package', decision', answer', file["delivery"])
  PROVE  CFInv'
  <1>1. /\ call'["acceptance"] = [pc |-> pc, value |-> Absent, then |-> "idle"]
        /\ \A u \in Services \ {"acceptance"} : call'[u] = call[u]
        /\ DOMAIN call' = Services
    BY GotoCall DEF CFInv, Services
  <1>2. Types'
    BY <1>1, TypesKept DEF CFInv, Types, Services
  <1>3. AcceptanceOK'
    BY <1>1 DEF AcceptanceOK
  <1> QED BY <1>1, <1>2, <1>3, AcceptanceAlone DEF Services

(* A request of the acceptance starts to replace its record. *)
LEMMA ReplaceAcceptanceInvariant ==
  ASSUME CFInv, NEW value, NEW then, Replace("acceptance", value, then),
         UNCHANGED <<file, temp, decision, answer, effects, workspace, late, remote, preview>>,
         Acceptance(file["acceptance"], [pc |-> "replace", value |-> value, then |-> then],
                    effects["workflow"], preview, package', decision, answer, file["delivery"])
  PROVE  CFInv'
  <1>1. /\ call'["acceptance"] = [pc |-> "replace", value |-> value, then |-> then]
        /\ \A u \in Services \ {"acceptance"} : call'[u] = call[u]
        /\ DOMAIN call' = Services
    BY ReplaceCall DEF CFInv, Services
  <1>2. Types'
    BY <1>1, TypesKept DEF CFInv, Types, Services
  <1>3. AcceptanceOK'
    BY <1>1 DEF AcceptanceOK
  <1> QED BY <1>1, <1>2, <1>3, AcceptanceAlone DEF Services

(* A stored acceptance with a new status. *)
LEMMA AcceptanceWithStatus ==
  ASSUME CFInv, file["acceptance"].status \notin {"ABSENT", "TORN"},
         NEW status \in {"APPROVED", "EXECUTION_IN_PROGRESS", "EVIDENCE_READY",
                         "RECONCILIATION_REQUIRED"}
  PROVE  LET value == [file["acceptance"] EXCEPT !.status = status]
         IN  /\ file["acceptance"] \in CustomerAcceptanceRecord
             /\ value \in CustomerAcceptanceRecord
             /\ value.status = status
  <1>1. file["acceptance"] \in CustomerAcceptanceRecord
    BY DEF CFInv, AcceptanceOK, Acceptance, Absent, Torn
  <1> QED BY <1>1 DEF CustomerAcceptanceRecord

(* A delivery the acceptance goes by is a stored, delivered review. *)
LEMMA DeliveryRequired ==
  ASSUME CFInv, RequireDelivery
  PROVE  /\ file["delivery"] \in CustomerDeliveryReview
         /\ file["delivery"].status = "DRAFT_PR_CREATED"
  BY DEF CFInv, DeliveryOK, Delivery, RequireDelivery, Status, Absent, Torn

(* prepare: the new acceptance quotes the delivered review. *)
LEMMA PrepareAcceptanceInvariant ==
  ASSUME CFInv, PrepareAcceptance
  PROVE  CFInv'
  <1>. DEFINE value == [status |-> "AWAITING_APPROVAL", delivery |-> file["delivery"]]
  <1>1. /\ Create("acceptance", value) /\ RequireDelivery
        /\ UNCHANGED <<file, temp, package, decision, answer, workspace, late, remote, effects,
                    preview>>
    BY DEF PrepareAcceptance, world, faults
  <1>2. value \in CustomerAcceptanceRecord /\ value.status = "AWAITING_APPROVAL"
    BY <1>1, DeliveryRequired DEF CustomerAcceptanceRecord
  <1>. HIDE DEF value
  <1>3. /\ call'["acceptance"] = [pc |-> "create", value |-> value, then |-> "idle"]
        /\ \A u \in Services \ {"acceptance"} : call'[u] = call[u]
        /\ DOMAIN call' = Services
    BY <1>1, CreateCall DEF CFInv, Services
  <1>4. Types'
    BY <1>1, <1>3, TypesKept DEF CFInv, Types, Services
  <1>5. AcceptanceOK'
    BY <1>1, <1>2, <1>3 DEF CFInv, AcceptanceOK, Acceptance
  <1> QED BY <1>1, <1>3, <1>4, <1>5, AcceptanceAlone DEF Services

(* approve: the awaiting acceptance becomes the approved one. *)
LEMMA ApproveAcceptanceInvariant ==
  ASSUME CFInv, ApproveAcceptance
  PROVE  CFInv'
  <1>. DEFINE value == [file["acceptance"] EXCEPT !.status = "APPROVED"]
  <1>1. /\ Replace("acceptance", value, "idle")
        /\ file["acceptance"].status = "AWAITING_APPROVAL"
        /\ UNCHANGED <<file, temp, decision, answer, effects, workspace, late, remote, preview>>
        /\ UNCHANGED package
    BY DEF ApproveAcceptance, Status, world, faults, stores
  <1>2. /\ file["acceptance"] \in CustomerAcceptanceRecord /\ value \in CustomerAcceptanceRecord
        /\ value.status = "APPROVED"
    BY <1>1, AcceptanceWithStatus
  <1>. HIDE DEF value
  <1>3. Acceptance(file["acceptance"], [pc |-> "replace", value |-> value, then |-> "idle"],
                   effects["workflow"], preview, package', decision, answer, file["delivery"])
    BY <1>1, <1>2 DEF CFInv, AcceptanceOK, Acceptance, Move, AcceptanceMoves
  <1> QED BY <1>1, <1>3, ReplaceAcceptanceInvariant

(* execute: the intent is saved before the preview is deployed. *)
LEMMA ExecuteAcceptanceInvariant ==
  ASSUME CFInv, ExecuteAcceptance
  PROVE  CFInv'
  <1>. DEFINE value == [file["acceptance"] EXCEPT !.status = "EXECUTION_IN_PROGRESS"]
  <1>1. /\ Replace("acceptance", value, "deploy") /\ RequireDelivery
        /\ file["acceptance"].status = "APPROVED"
        /\ UNCHANGED <<file, temp, decision, answer, effects, workspace, late, remote, preview>>
        /\ UNCHANGED package
    BY DEF ExecuteAcceptance, Status, world, faults, stores
  <1>2. /\ file["acceptance"] \in CustomerAcceptanceRecord /\ value \in CustomerAcceptanceRecord
        /\ value.status = "EXECUTION_IN_PROGRESS"
    BY <1>1, AcceptanceWithStatus
  <1>3. file["delivery"].status = "DRAFT_PR_CREATED"
    BY <1>1, DeliveryRequired
  <1>. HIDE DEF value
  <1>4. Acceptance(file["acceptance"], [pc |-> "replace", value |-> value, then |-> "deploy"],
                   effects["workflow"], preview, package', decision, answer, file["delivery"])
    BY <1>1, <1>2, <1>3 DEF CFInv, AcceptanceOK, Acceptance, Move, AcceptanceMoves
  <1> QED BY <1>1, <1>4, ReplaceAcceptanceInvariant

(* deploy: the checks again. *)
LEMMA CheckPreviewInvariant ==
  ASSUME CFInv, CheckPreview
  PROVE  CFInv'
  <1>1. /\ call["acceptance"].pc = "deploy"
        /\ UNCHANGED <<file, temp, workspace, late, remote>>
        /\ UNCHANGED effects /\ UNCHANGED preview /\ UNCHANGED package /\ UNCHANGED decision /\ UNCHANGED answer
        /\ effects' \in [Effects -> Nat]
    BY DEF CheckPreview, stores, world, faults, CFInv, Types
  <1>2. PICK pc \in {"dispatch", "failed"} : Goto("acceptance", pc)
    BY DEF CheckPreview
  <1>3. Acceptance(file["acceptance"], [pc |-> pc, value |-> Absent, then |-> "idle"],
                   effects'["workflow"], preview', package', decision', answer', file["delivery"])
    BY <1>1, <1>2 DEF CFInv, AcceptanceOK, Acceptance
  <1> QED BY <1>1, <1>2, <1>3, AcceptanceGoto

(* The preview workflow: once, and only a run of the delivered commit goes *)
(* on to the browser.                                                      *)
LEMMA DeployPreviewInvariant ==
  ASSUME CFInv, DeployPreview
  PROVE  CFInv'
  <1>1. /\ call["acceptance"].pc = "dispatch" /\ Cause("workflow") /\ preview' = remote
        /\ UNCHANGED <<file, temp, workspace, late, remote>>
        /\ UNCHANGED package /\ UNCHANGED decision /\ UNCHANGED answer
    BY DEF DeployPreview, stores, faults
  <1>2. PICK pc \in {"browser", "failed"} :
          /\ Goto("acceptance", pc)
          /\ pc = "browser" => RunBuiltDelivered
    BY DEF DeployPreview
  <1>3. /\ effects'["workflow"] = effects["workflow"] + 1
        /\ \A x \in Effects \ {"workflow"} : effects'[x] = effects[x]
        /\ effects' \in [Effects -> Nat]
    BY <1>1, CauseCounts DEF CFInv, Effects
  <1>4. Acceptance(file["acceptance"], [pc |-> pc, value |-> Absent, then |-> "idle"],
                   effects'["workflow"], preview', package', decision', answer', file["delivery"])
    BY <1>1, <1>2, <1>3 DEF CFInv, AcceptanceOK, Acceptance, Tried, RunBuiltDelivered
  <1> QED BY <1>1, <1>2, <1>3, <1>4, AcceptanceGoto

(* The browser run: what it saw is what the preview shows. *)
LEMMA BrowserRunInvariant ==
  ASSUME CFInv, BrowserRun
  PROVE  CFInv'
  <1>1. PICK passed \in BOOLEAN :
          call' = [call EXCEPT !["acceptance"] =
                     [pc |-> "publish", then |-> "idle",
                      value |-> [status |-> "READY", content |-> preview, passed |-> passed]]]
    BY DEF BrowserRun
  <1>. DEFINE value == [status |-> "READY", content |-> preview, passed |-> passed]
  <1>2. /\ call["acceptance"].pc = "browser"
        /\ UNCHANGED <<file, temp, package, decision, answer, effects, workspace, late, remote, preview>>
    BY DEF BrowserRun, stores, world, faults
  <1>3. /\ file["delivery"].status = "DRAFT_PR_CREATED"
        /\ preview = file["delivery"].commit
    BY <1>2 DEF CFInv, AcceptanceOK, Acceptance
  <1>4. file["delivery"].commit \in Patches
    BY <1>3 DEF CFInv, DeliveryOK, Delivery
  <1>5. value \in CustomerPreviewEvidencePackage /\ value.content = file["delivery"].commit
    BY <1>3, <1>4 DEF CustomerPreviewEvidencePackage
  <1>. HIDE DEF value
  <1>6. call' = [call EXCEPT !["acceptance"] = [pc |-> "publish", then |-> "idle",
                                                value |-> value]]
    BY <1>1 DEF value
  <1>7. /\ call'["acceptance"] = [pc |-> "publish", value |-> value, then |-> "idle"]
        /\ \A u \in Services \ {"acceptance"} : call'[u] = call[u]
        /\ DOMAIN call' = Services
    BY <1>6 DEF CFInv, Types, Services
  <1>8. Types'
    BY <1>2, <1>7, TypesKept DEF CFInv, Types, Services
  <1>9. AcceptanceOK'
    BY <1>2, <1>5, <1>7 DEF CFInv, AcceptanceOK, Acceptance
  <1> QED BY <1>2, <1>7, <1>8, <1>9, AcceptanceAlone DEF Services

(* publish creates the package only where there is none. *)
LEMMA PublishEvidenceInvariant ==
  ASSUME CFInv, PublishEvidence
  PROVE  CFInv'
  <1>1. /\ call["acceptance"].pc = "publish" /\ package = Absent /\ package' = Torn
        /\ call' = [call EXCEPT !["acceptance"].pc = "write"]
        /\ UNCHANGED <<file, temp, decision, answer, effects, workspace, late, remote, preview>>
    BY DEF PublishEvidence, world, faults
  <1>2. /\ call'["acceptance"] = [pc |-> "write", value |-> call["acceptance"].value,
                                  then |-> call["acceptance"].then]
        /\ \A u \in Services \ {"acceptance"} : call'[u] = call[u]
        /\ DOMAIN call' = Services
    BY <1>1, AdvanceCall DEF CFInv, Services
  <1>3. Types'
    BY <1>1, <1>2, TypesKept DEF CFInv, Types, Services
  <1>4. AcceptanceOK'
    BY <1>1, <1>2 DEF CFInv, AcceptanceOK, Acceptance, Absent, Torn
  <1> QED BY <1>1, <1>2, <1>3, <1>4, AcceptanceAlone DEF Services

(* The package is written whole or removed. *)
LEMMA WritePackageInvariant ==
  ASSUME CFInv, WritePackage
  PROVE  CFInv'
  <1>1. /\ call["acceptance"].pc = "write"
        /\ UNCHANGED <<file, temp, decision, answer, effects, workspace, late, remote, preview>>
    BY DEF WritePackage, world, faults
  <1>2. /\ package = Torn
        /\ file["acceptance"].status = "EXECUTION_IN_PROGRESS"
        /\ file["delivery"].status = "DRAFT_PR_CREATED"
        /\ call["acceptance"].value \in CustomerPreviewEvidencePackage
        /\ call["acceptance"].value.content = file["delivery"].commit
        /\ decision # "ACCEPT" /\ answer # "ACCEPT"
    BY <1>1 DEF CFInv, AcceptanceOK, Acceptance, Torn
  <1>3. CASE /\ package' = call["acceptance"].value
             /\ Replace("acceptance", [file["acceptance"] EXCEPT !.status = "EVIDENCE_READY"],
                        "idle")
    <2>. DEFINE value == [file["acceptance"] EXCEPT !.status = "EVIDENCE_READY"]
    <2>1. /\ file["acceptance"] \in CustomerAcceptanceRecord /\ value \in CustomerAcceptanceRecord
          /\ value.status = "EVIDENCE_READY"
      BY <1>2, AcceptanceWithStatus
    <2>2. Replace("acceptance", value, "idle")
      BY <1>3
    <2>. HIDE DEF value
    <2>3. Acceptance(file["acceptance"], [pc |-> "replace", value |-> value, then |-> "idle"],
                     effects["workflow"], preview, package', decision, answer, file["delivery"])
      BY <1>1, <1>2, <1>3, <2>1 DEF CFInv, AcceptanceOK, Acceptance, Move, AcceptanceMoves
    <2> QED BY <1>1, <2>2, <2>3, ReplaceAcceptanceInvariant
  <1>4. CASE package' = Absent /\ Goto("acceptance", "failed")
    <2>1. Acceptance(file["acceptance"], [pc |-> "failed", value |-> Absent, then |-> "idle"],
                     effects'["workflow"], preview', package', decision', answer', file["delivery"])
      BY <1>1, <1>2, <1>4 DEF CFInv, AcceptanceOK, Acceptance, Absent, Torn
    <2>2. /\ effects' \in [Effects -> Nat]
          /\ \A e \in Effects \ {"workflow"} : effects'[e] = effects[e]
      BY <1>1 DEF CFInv, Types
    <2> QED BY <1>1, <1>4, <2>1, <2>2, AcceptanceGoto
  <1> QED BY <1>3, <1>4 DEF WritePackage

(* The except branch of execute records the doubt. *)
LEMMA RecordAcceptanceFailureInvariant ==
  ASSUME CFInv, RecordAcceptanceFailure
  PROVE  CFInv'
  <1>. DEFINE value == [file["acceptance"] EXCEPT !.status = "RECONCILIATION_REQUIRED"]
  <1>1. /\ Replace("acceptance", value, "idle")
        /\ call["acceptance"].pc = "failed"
        /\ UNCHANGED <<file, temp, decision, answer, effects, workspace, late, remote, preview>>
        /\ UNCHANGED package
    BY DEF RecordAcceptanceFailure, world, faults, stores
  <1>2. file["acceptance"].status = "EXECUTION_IN_PROGRESS"
    BY <1>1 DEF CFInv, AcceptanceOK, Acceptance
  <1>3. /\ file["acceptance"] \in CustomerAcceptanceRecord /\ value \in CustomerAcceptanceRecord
        /\ value.status = "RECONCILIATION_REQUIRED"
    BY <1>2, AcceptanceWithStatus
  <1>. HIDE DEF value
  <1>4. Acceptance(file["acceptance"], [pc |-> "replace", value |-> value, then |-> "idle"],
                   effects["workflow"], preview, package', decision, answer, file["delivery"])
    BY <1>1, <1>2, <1>3 DEF CFInv, AcceptanceOK, Acceptance, Move, AcceptanceMoves
  <1> QED BY <1>1, <1>4, ReplaceAcceptanceInvariant

(* The customer accepts only a whole package whose checks all passed. *)
LEMMA ReviewEvidenceInvariant ==
  ASSUME CFInv, NEW d \in CustomerPreviewReview, ReviewEvidence(d.status)
  PROVE  CFInv'
  <1>1. /\ package.status = "READY" /\ decision' = "torn" /\ answer' = d.status
        /\ d.status = "ACCEPT" => package.passed
        /\ UNCHANGED <<file, temp, package, effects, workspace, late, remote, preview, call>>
    BY DEF ReviewEvidence, LoadPackage, world, faults
  <1>2. d.status \in {"ACCEPT", "REQUEST_CHANGES"}
    BY DEF CustomerPreviewReview
  <1>3. Types'
    BY <1>1 DEF CFInv, Types
  <1>4. AcceptanceOK'
    BY <1>1, <1>2 DEF CFInv, AcceptanceOK, Acceptance
  <1> QED BY <1>1, <1>3, <1>4, AcceptanceAlone DEF Services

(* The decision's file is filled, or removed when the write raises. *)
LEMMA WriteDecisionInvariant ==
  ASSUME CFInv, WriteDecision
  PROVE  CFInv'
  <1>1. /\ decision' \in {answer, "none"} /\ answer' = "none"
        /\ UNCHANGED <<file, temp, package, effects, workspace, late, remote, preview, call>>
    BY DEF WriteDecision, world, faults
  <1>2. Types'
    BY <1>1 DEF CFInv, Types
  <1>3. AcceptanceOK'
    BY <1>1 DEF CFInv, AcceptanceOK, Acceptance
  <1> QED BY <1>1, <1>2, <1>3, AcceptanceAlone DEF Services

-----------------------------------------------------------------------------
(* The environment.                                                        *)

(* Somebody edits the checkout: between the adapter's check and its git    *)
(* add the edit is marked as late.                                         *)
LEMMA EditWorkspaceInvariant ==
  ASSUME CFInv, EditWorkspace
  PROVE  CFInv'
  <1>1. /\ late' = (late \/ call["delivery"].pc \in {"probe", "add"})
        /\ workspace' = [workspace EXCEPT !.changes = "edited"]
        /\ UNCHANGED <<file, temp, package, decision, answer, remote, preview, call>>
        /\ UNCHANGED effects
    BY DEF EditWorkspace, stores
  <1>2. /\ workspace' \in [head: {"base"} \cup Patches, changes: {"clean"} \cup Patches]
        /\ workspace'.head = workspace.head /\ workspace'.changes \in Patches
    BY <1>1 DEF CFInv, Types, Patches
  <1>3. Types'
    BY <1>1, <1>2 DEF CFInv, Types
  <1>4. ExecutionOK'
    BY <1>1, ExecutionFrame DEF CFInv
  <1>5. DeliveryOK'
    BY <1>1, <1>2, CheckoutChanges DEF CFInv
  <1>6. AcceptanceOK'
    BY <1>1, AcceptanceFrame DEF CFInv
  <1> QED BY <1>3, <1>4, <1>5, <1>6 DEF CFInv

(* A push by others, or the loss of the planning chain, touches no record. *)
LEMMA OutsideInvariant ==
  ASSUME CFInv, EditRemote \/ LoseAuthority
  PROVE  CFInv'
  <1>1. /\ UNCHANGED <<file, temp, package, decision, answer, workspace, late, preview, call>>
        /\ UNCHANGED effects
        /\ remote' = "foreign" \/ remote' = remote
    BY DEF EditRemote, LoseAuthority, stores, world
  <1>2. Types'
    BY <1>1 DEF CFInv, Types, Patches
  <1>3. ExecutionOK' /\ DeliveryOK' /\ AcceptanceOK'
    BY <1>1 DEF CFInv, ExecutionOK, DeliveryOK, AcceptanceOK
  <1> QED BY <1>2, <1>3 DEF CFInv

(* The process dies: every request is gone, every record is what it was.   *)
LEMMA CrashInvariant ==
  ASSUME CFInv, Crash
  PROVE  CFInv'
  <1>1. /\ UNCHANGED <<file, temp, package, decision, workspace, late, remote, preview>>
        /\ UNCHANGED effects /\ answer' = "none"
        /\ call' = [s \in Services |-> Idle]
    BY DEF Crash, stores, world, faults
  <1>2. /\ DOMAIN call' = Services
        /\ \A s \in Services : call'[s] = [pc |-> "idle", value |-> Absent, then |-> "idle"]
    BY <1>1 DEF Idle
  <1>3. Types'
    BY <1>1, <1>2 DEF CFInv, Types
  <1>4. ExecutionOK'
    BY <1>1, <1>2 DEF CFInv, ExecutionOK, Execution, Services
  <1>5. DeliveryOK'
    BY <1>1, <1>2 DEF CFInv, DeliveryOK, Delivery, Services
  <1>6. AcceptanceOK'
    BY <1>1, <1>2 DEF CFInv, AcceptanceOK, Acceptance, Services
  <1> QED BY <1>3, <1>4, <1>5, <1>6 DEF CFInv

-----------------------------------------------------------------------------
(* The theorems.                                                           *)

(* Every step of a form, of a request or of the environment keeps the      *)
(* invariant.                                                              *)
LEMMA NextInvariant == CFInv /\ [Next]_vars => CFInv'
  <1> SUFFICES ASSUME CFInv, [Next]_vars PROVE CFInv'
    OBVIOUS
  <1>1. CASE ExecutionForms
    BY <1>1, PlanExecutionInvariant, ApproveExecutionInvariant, ExecuteNextInvariant
    DEF ExecutionForms
  <1>2. CASE DeliveryForms
    BY <1>2, PrepareDeliveryInvariant, ApproveDeliveryInvariant, DeliverInvariant
    DEF DeliveryForms
  <1>3. CASE AcceptanceForms
    BY <1>3, PrepareAcceptanceInvariant, ApproveAcceptanceInvariant, ExecuteAcceptanceInvariant
    DEF AcceptanceForms
  <1>4. CASE EvidenceForms \/ WriteDecision
    BY <1>4, ReviewEvidenceInvariant, WriteDecisionInvariant DEF EvidenceForms
  <1>5. ASSUME NEW s \in Services, Continue(s)
        PROVE  CFInv'
    <2>1. CASE CreateFile(s) \/ FillFile(s) \/ MakeTemp(s) \/ RenameTemp(s)
      BY <2>1, CreateFileInvariant, FillFileInvariant, MakeTempInvariant, RenameTempInvariant
    <2>2. CASE ReplaceFails(s) \/ EffectFails(s)
      BY <2>2, ReplaceFailsInvariant, EffectFailsInvariant
    <2>3. CASE SubmitTurn \/ ApplyPatch \/ RecordExecutionFailure
      BY <2>3, SubmitTurnInvariant, ApplyPatchInvariant, RecordExecutionFailureInvariant
    <2>4. CASE \/ CheckAgain \/ ProbeRemote \/ StageFiles \/ Commit \/ Push \/ VerifyPush
               \/ OpenPullRequest \/ RecordDeliveryFailure
      BY <2>4, CheckAgainInvariant, ProbeRemoteInvariant, StageFilesInvariant, CommitInvariant,
         PushInvariant, VerifyPushInvariant, OpenPullRequestInvariant,
         RecordDeliveryFailureInvariant
    <2>5. CASE \/ CheckPreview \/ DeployPreview \/ BrowserRun \/ PublishEvidence \/ WritePackage
               \/ RecordAcceptanceFailure
      BY <2>5, CheckPreviewInvariant, DeployPreviewInvariant, BrowserRunInvariant,
         PublishEvidenceInvariant, WritePackageInvariant, RecordAcceptanceFailureInvariant
    <2> QED BY <1>5, <2>1, <2>2, <2>3, <2>4, <2>5 DEF Continue
  <1>6. CASE Environment
    BY <1>6, EditWorkspaceInvariant, OutsideInvariant, CrashInvariant DEF Environment
  <1>7. CASE UNCHANGED vars
    <2>1. /\ UNCHANGED <<file, temp, package, decision, answer, workspace, late, remote, effects,
                    preview>>
          /\ UNCHANGED call
      BY <1>7 DEF vars, stores, world, faults
    <2>2. Types'
      BY <2>1 DEF CFInv, Types
    <2> QED BY <2>1, <2>2 DEF CFInv, ExecutionOK, DeliveryOK, AcceptanceOK
  <1> QED BY <1>1, <1>2, <1>3, <1>4, <1>5, <1>6, <1>7 DEF Next

(* The requests of the three services, the records they leave and the      *)
(* effects they have had always fit together, whatever fails, crashes or   *)
(* is changed by others.                                                   *)
THEOREM FulfilmentInvariant == Spec => []CFInv
  BY InitInvariant, NextInvariant, PTL DEF Spec

(* An effect on the world, faults happens at most once, and only with its intent   *)
(* on record: no restarted process finds a record that invites it to run   *)
(* a turn, a delivery or a preview a second time.                          *)
THEOREM OneRecordedEffect == Spec => []EffectsOnRecord
  <1>1. ASSUME CFInv PROVE EffectsOnRecord
    <2>1. EffectsAtMostOnce
      BY <1>1 DEF CFInv, ExecutionOK, Execution, DeliveryOK, Delivery, AcceptanceOK,
         Acceptance, EffectsAtMostOnce, Effects
    <2>2. file["execution"] \in {Absent, Torn} \/ Consistent(file["execution"])
      BY <1>1 DEF CFInv, ExecutionOK, Execution
    <2>3. Status("execution") \in {"EXECUTING", "REVIEW_REQUIRED", "RECONCILIATION_REQUIRED"} =>
            \E t \in Tasks : file["execution"].tasks =
              [u \in Tasks |-> IF u = t THEN Status("execution") ELSE "PENDING"]
      BY <2>2 DEF Status, Consistent, Absent, Torn
    <2>4. /\ file["execution"] \in CustomerExecutionPlan \cup {Absent, Torn}
          /\ file["delivery"] \in CustomerDeliveryReview \cup {Absent, Torn}
          /\ file["acceptance"] \in CustomerAcceptanceRecord \cup {Absent, Torn}
          /\ package \in CustomerPreviewEvidencePackage \cup {Absent, Torn}
      BY <1>1, <2>2 DEF CFInv, DeliveryOK, Delivery, AcceptanceOK, Acceptance, Consistent
    <2>5. decision \in {"none", "torn"} \cup {d.status : d \in CustomerPreviewReview}
      <3>1. decision \in {"none", "torn", "ACCEPT", "REQUEST_CHANGES"}
        BY <1>1 DEF CFInv, AcceptanceOK, Acceptance
      <3>2. \A x \in {"ACCEPT", "REQUEST_CHANGES"} :
              [status |-> x] \in CustomerPreviewReview /\ [status |-> x].status = x
        BY DEF CustomerPreviewReview
      <3> QED BY <3>1, <3>2
    <2>6. TypeOK
      BY <2>3, <2>4, <2>5 DEF TypeOK
    <2> QED BY <1>1, <2>1, <2>6
            DEF CFInv, ExecutionOK, Execution, DeliveryOK, Delivery, AcceptanceOK, Acceptance,
                EffectsOnRecord, Status, Begun, Sent, Tried
  <1> QED BY <1>1, FulfilmentInvariant, PTL

(* A customer who accepts has accepted the delivered review: evidence that *)
(* passed, taken from a preview of its content, with one pull request.     *)
LEMMA AcceptedFollows == CFInv => AcceptedIsDelivered
  BY DEF CFInv, AcceptanceOK, Acceptance, DeliveryOK, Delivery, AcceptedIsDelivered, Status

(* Accepted work is the delivered work, whoever edits the checkout, pushes *)
(* to the branch or takes the process down, and whenever.                  *)
THEOREM AcceptedDelivered == Spec => []AcceptedIsDelivered
  BY AcceptedFollows, FulfilmentInvariant, PTL

(* What the customer accepts is what was delivered, and what was delivered *)
(* is what was reviewed: the one exception is an edit that falls between   *)
(* the adapter's check of the checkout and its git add.                    *)
THEOREM ReviewedAccepted == Spec => []OnlyReviewedIsAccepted
  <1>1. CFInv => late \/ CommittedIsReviewed
    BY DEF CFInv, DeliveryOK, Delivery, CommittedIsReviewed
  <1>2. CFInv => OnlyReviewedIsAccepted
    BY <1>1, AcceptedFollows DEF OnlyReviewedIsAccepted
  <1> QED BY <1>2, FulfilmentInvariant, PTL

-----------------------------------------------------------------------------
(* Doubt is final.                                                         *)

(* The record of s is kept, and none of the effects of s is caused. *)
Kept(s) == file'[s] = file[s] /\ \A e \in EffectsOf[s] : effects'[e] = effects[e]

(* A record in doubt is nobody's: a request may at most be about to find   *)
(* that it cannot create it a second time.                                 *)
LEMMA DoubtIsStill ==
  ASSUME CFInv, NEW s \in Services, InDoubt(s)
  PROVE  call[s].pc \in {"idle", "create"} /\ Status(s) # "ABSENT"
  <1>1. CASE Free(s)
    BY <1>1 DEF Free, InDoubt
  <1>2. CASE Status(s) = "RECONCILIATION_REQUIRED"
    <2>1. CASE s = "execution"
      BY <1>2, <2>1 DEF CFInv, ExecutionOK, Execution, Status, Move, PlanMoves, Torn
    <2>2. CASE s = "delivery"
      BY <1>2, <2>2 DEF CFInv, DeliveryOK, Delivery, Status, Move, ReviewMoves, Torn
    <2>3. CASE s = "acceptance"
      BY <1>2, <2>3 DEF CFInv, AcceptanceOK, Acceptance, Status, Move, AcceptanceMoves, Torn
    <2> QED BY <2>1, <2>2, <2>3 DEF Services
  <1> QED BY <1>1, <1>2 DEF InDoubt

(* What each service may cause. *)
LEMMA OwnEffects ==
  /\ EffectsOf["execution"] = {"turn"}
  /\ EffectsOf["delivery"] = {"commit", "push", "pull"}
  /\ EffectsOf["acceptance"] = {"workflow"}
  /\ \A s \in Services : EffectsOf[s] \subseteq Effects
  BY DEF EffectsOf, Services, Effects

(* A request that is idle or about to create keeps an existing record, and *)
(* nobody else writes it or causes its effects.                            *)
LEMMA StillIsKept ==
  ASSUME CFInv, NEW s \in Services, call[s].pc \in {"idle", "create"},
         Status(s) # "ABSENT", [Next]_vars
  PROVE  Kept(s)
  <1>1. ASSUME UNCHANGED file, UNCHANGED effects
        PROVE  Kept(s)
    BY <1>1 DEF Kept
  <1>2. CASE ExecutionForms \/ DeliveryForms \/ AcceptanceForms
    BY <1>1, <1>2
    DEF ExecutionForms, PlanExecution, ApproveExecution, ExecuteNext,
        DeliveryForms, PrepareDelivery, ApproveDelivery, Deliver,
        AcceptanceForms, PrepareAcceptance, ApproveAcceptance, ExecuteAcceptance,
        stores, world, faults
  <1>3. CASE EvidenceForms \/ WriteDecision
    BY <1>1, <1>3 DEF EvidenceForms, ReviewEvidence, WriteDecision, world, faults
  <1>4. CASE Environment \/ UNCHANGED vars
    BY <1>1, <1>4 DEF Environment, EditWorkspace, EditRemote, LoseAuthority, Crash, vars,
                      stores, world, faults
  <1>5. ASSUME NEW u \in Services, Continue(u)
        PROVE  Kept(s)
    <2>1. CASE MakeTemp(u) \/ ReplaceFails(u) \/ EffectFails(u)
      BY <1>1, <2>1 DEF MakeTemp, ReplaceFails, EffectFails, stores, world, faults
    <2>2. CASE CreateFile(u) \/ FillFile(u) \/ RenameTemp(u)
      <3>1. UNCHANGED effects
        BY <2>2 DEF CreateFile, FillFile, RenameTemp, world, faults
      <3>2. CASE u = s
        <4>1. ~FillFile(s) /\ ~RenameTemp(s)
          BY DEF FillFile, RenameTemp
        <4>2. CreateFile(s)
          BY <2>2, <3>2, <4>1
        <4>3. UNCHANGED file
          BY <4>2 DEF CreateFile, Status
        <4> QED BY <1>1, <3>1, <4>3
      <3>3. CASE u # s
        <4>1. UNCHANGED file \/ \E value : file' = [file EXCEPT ![u] = value]
          BY <2>2 DEF CreateFile, FillFile, RenameTemp
        <4>2. file'[s] = file[s]
          BY <3>3, <4>1, WriteRecord DEF CFInv
        <4> QED BY <3>1, <4>2 DEF Kept
      <3> QED BY <3>2, <3>3
    <2>3. ASSUME NEW v \in Services, NEW e \in EffectsOf[v], call[v].pc \notin {"idle", "create"},
                 Cause(e), UNCHANGED file
          PROVE  Kept(s)
      <3>1. s # v /\ e \in Effects
        BY <2>3, OwnEffects
      <3>2. e \notin EffectsOf[s] /\ EffectsOf[s] \subseteq Effects
        BY <3>1, <2>3, OwnEffects DEF Services
      <3>3. \A x \in Effects \ {e} : effects'[x] = effects[x]
        BY <2>3, <3>1, CauseCounts DEF CFInv
      <3> QED BY <2>3, <3>2, <3>3 DEF Kept
    <2>4. CASE SubmitTurn
      <3>1. /\ call["execution"].pc = "submit" /\ Cause("turn") /\ UNCHANGED file
            /\ "turn" \in EffectsOf["execution"]
        BY <2>4, OwnEffects DEF SubmitTurn, stores
      <3> QED BY <2>3, <3>1 DEF Services
    <2>5. CASE Commit \/ Push \/ OpenPullRequest
      <3>1. PICK e \in EffectsOf["delivery"] :
              /\ call["delivery"].pc \notin {"idle", "create"}
              /\ Cause(e) /\ UNCHANGED file
        BY <2>5, OwnEffects DEF Commit, Push, OpenPullRequest, stores
      <3> QED BY <2>3, <3>1 DEF Services
    <2>6. CASE DeployPreview
      <3>1. /\ call["acceptance"].pc = "dispatch" /\ Cause("workflow") /\ UNCHANGED file
            /\ "workflow" \in EffectsOf["acceptance"]
        BY <2>6, OwnEffects DEF DeployPreview, stores
      <3> QED BY <2>3, <3>1 DEF Services
    <2>7. CASE \/ ApplyPatch \/ RecordExecutionFailure \/ CheckAgain \/ ProbeRemote
               \/ StageFiles \/ VerifyPush \/ RecordDeliveryFailure
               \/ CheckPreview \/ BrowserRun \/ PublishEvidence \/ WritePackage
               \/ RecordAcceptanceFailure
      BY <1>1, <2>7
      DEF ApplyPatch, RecordExecutionFailure, CheckAgain, ProbeRemote, StageFiles, VerifyPush,
          RecordDeliveryFailure, CheckPreview, BrowserRun, PublishEvidence, WritePackage, RecordAcceptanceFailure, stores, world, faults
    <2> QED BY <1>5, <2>1, <2>2, <2>4, <2>5, <2>6, <2>7 DEF Continue
  <1> QED BY <1>2, <1>3, <1>4, <1>5 DEF Next

(* An effect in doubt is never retried: neither a record that asks for     *)
(* reconciliation nor an intent left behind by a crash is ever changed, or *)
(* acted on, again.                                                        *)
THEOREM DoubtStays == Spec => DoubtIsFinal
  <1>1. CFInv /\ [Next]_vars =>
          [\A s \in Services : InDoubt(s) =>
             /\ file'[s] = file[s]
             /\ \A e \in EffectsOf[s] : effects'[e] = effects[e]]_vars
    BY DoubtIsStill, StillIsKept DEF Kept
  <1> QED BY <1>1, FulfilmentInvariant, PTL DEF Spec, DoubtIsFinal
=============================================================================
