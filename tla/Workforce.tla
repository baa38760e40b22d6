------------------------------ MODULE Workforce ------------------------------
(***************************************************************************)
(* The workforce agents (runtime/workforce_leadership, _architecture,      *)
(* _engineering, _qa, _security, _devops, _documentation) and the          *)
(* orchestration over them (workforce_orchestration).  Each service checks *)
(* that its source artifacts are the persisted ones and agree with each    *)
(* other, executes its agent in the Digital Twin runtime, renders the      *)
(* output again and saves one write-once artifact per execution.           *)
(*                                                                         *)
(* One tenant, one opportunity.  A work order names the sources its call   *)
(* is made with; an authority that does not fit the role, the objective or *)
(* the work order raises at once and is left out.  The artifact's text is  *)
(* a function of the request (WorkforceOutput), so the artifact is its     *)
(* request; its digest is its execution and the time of that request.      *)
(***************************************************************************)
EXTENDS DigitalTwin, WorkforceOutput

CONSTANTS Stage,             \* the agent of each workforce execution
          Title,             \* the length of each work order's title
          MaxParallel        \* what the orchestration authority allows

ASSUME WorkforceAssumption ==
  /\ DOMAIN Stage \subseteq Executions
  /\ Title \in [DOMAIN Stage -> 1..TitleLimit]
  /\ MaxParallel \in Nat

VARIABLE artifact            \* the artifact file of each execution

vars == <<twinVars, artifact>>

Of(stage) == {e \in DOMAIN Stage : Stage[e] = stage}

Direct == Executions \ DOMAIN Stage

Digests == (DOMAIN Stage) \X (1..MaxTime)

Digest(e) == <<e, artifact[e].at>>

NRoles == Cardinality(EngineeringRoles)

(* The artifacts, by how many source digests each carries.                 *)
Artifact(counts) ==
  {a \in [file: {"whole"}, at: 1..MaxTime, sources: SUBSET Digests] :
     Cardinality(a.sources) \in counts}

LeadershipArtifact == Artifact({0, 1})
ArchitectureProposalArtifact == Artifact({1})
EngineeringWorkArtifact == Artifact({1})
QAWorkArtifact == Artifact({NRoles + 1})
SecurityWorkArtifact == Artifact({NRoles + 2})
DevOpsWorkArtifact == Artifact({NRoles + 3})
DocumentationWorkArtifact == Artifact({NRoles + 4})
MultiAgentOrchestrationArtifact == Artifact({NRoles + 7})

-----------------------------------------------------------------------------
(* The stores' load: a whole artifact of the execution asked for.          *)
Load(e) == Whole(artifact[e])

Binds(e, source) == Digest(source) \in artifact[e].sources

(* _validate_sources of each service: the sources are persisted, and the   *)
(* later ones were made from the earlier ones passed beside them.          *)
CeoHandoff(ceo) == Load(ceo)

ArchitectureSource(plan) == Load(plan)

EngineeringSource(arch) == Load(arch)

QASourcesPersisted(arch, eng) == Load(arch) /\ \A r \in EngineeringRoles : Load(eng[r])

QASources(arch, eng) ==
  /\ Load(arch)
  /\ \A r \in EngineeringRoles : Load(eng[r]) /\ Binds(eng[r], arch)

EngineeringDigests(eng) == {Digest(eng[r]) : r \in EngineeringRoles}

SecuritySources(arch, eng, qa) ==
  /\ QASources(arch, eng)
  /\ Load(qa)
  /\ artifact[qa].sources = {Digest(arch)} \cup EngineeringDigests(eng)

DevOpsSources(arch, eng, qa, security) ==
  /\ SecuritySources(arch, eng, qa)
  /\ Load(security)
  /\ artifact[security].sources = artifact[qa].sources \cup {Digest(qa)}

DocumentationSources(arch, eng, qa, security, devops) ==
  /\ DevOpsSources(arch, eng, qa, security)
  /\ Load(devops)
  /\ artifact[devops].sources = artifact[security].sources \cup {Digest(security)}

OrchestrationSources(ceo, plan, arch, eng, qa, security, devops, docs) ==
  /\ DocumentationSources(arch, eng, qa, security, devops)
  /\ Load(ceo) /\ Load(plan) /\ Load(docs)
  /\ Binds(plan, ceo) /\ Binds(arch, plan)
  /\ artifact[docs].sources = artifact[devops].sources \cup {Digest(devops)}

(* _assignment of each service: the sources its context carries.           *)
ProductManagerRequest(ceo) == {Digest(ceo)}

ArchitectureRequest(plan) == {Digest(plan)}

EngineeringRequest(arch) == {Digest(arch)}

QARequest(arch, eng) == {Digest(arch)} \cup EngineeringDigests(eng)

SecurityRequest(qa) == artifact[qa].sources \cup {Digest(qa)}

DevOpsRequest(security) == artifact[security].sources \cup {Digest(security)}

DocumentationRequest(devops) == artifact[devops].sources \cup {Digest(devops)}

(* One engineering execution of each role.                                 *)
EngineeringChoices ==
  {[backend |-> b, frontend |-> f, ai |-> a, data |-> d] :
     b \in Of("backend"), f \in Of("frontend"), a \in Of("ai"), d \in Of("data")}

-----------------------------------------------------------------------------
(* run of each service, up to its call of the runtime.                     *)

RunCeo(c) == \E e \in Of("ceo") : Execute(c, e, {})

RunProductManager(c) == \E e \in Of("plan"), ceo \in Of("ceo") :
  CeoHandoff(ceo) /\ Execute(c, e, ProductManagerRequest(ceo))

RunArchitect(c) == \E e \in Of("architecture"), plan \in Of("plan") :
  ArchitectureSource(plan) /\ Execute(c, e, ArchitectureRequest(plan))

RunEngineer(c) ==
  \E r \in EngineeringRoles : \E e \in Of(r), arch \in Of("architecture") :
    EngineeringSource(arch) /\ Execute(c, e, EngineeringRequest(arch))

RunQA(c) ==
  \E e \in Of("qa"), arch \in Of("architecture"), eng \in EngineeringChoices :
    /\ QASources(arch, eng)
    /\ Execute(c, e, QARequest(arch, eng))

RunSecurity(c) ==
  \E e \in Of("security"), arch \in Of("architecture"), eng \in EngineeringChoices,
     qa \in Of("qa") :
    /\ SecuritySources(arch, eng, qa)
    /\ Execute(c, e, SecurityRequest(qa))

RunDevOps(c) ==
  \E e \in Of("devops"), arch \in Of("architecture"), eng \in EngineeringChoices,
     qa \in Of("qa"), security \in Of("security") :
    /\ DevOpsSources(arch, eng, qa, security)
    /\ Execute(c, e, DevOpsRequest(security))

RunDocumentation(c) ==
  \E e \in Of("documentation"), arch \in Of("architecture"), eng \in EngineeringChoices,
     qa \in Of("qa"), security \in Of("security"), devops \in Of("devops") :
    /\ DocumentationSources(arch, eng, qa, security, devops)
    /\ Execute(c, e, DocumentationRequest(devops))

(* The planning provider's waves, and _validate_draft of the plan: no wave *)
(* is wider than the authority allows, and one is at least two wide.       *)
Waves == <<{"ceo"}, {"plan"}, {"architecture"}, EngineeringRoles, {"qa"}, {"security"},
           {"devops"}, {"documentation"}>>

ValidateDraft ==
  LET width == IF MaxParallel < NRoles THEN MaxParallel ELSE NRoles
  IN width >= 2

(* Orchestration does not use the Digital Twin runtime: it reopens its     *)
(* artifact if the bindings are the same, whatever the time (a step that   *)
(* changes nothing), and otherwise plans and saves a new one.              *)
RunOrchestration(c) ==
  \E e \in Of("orchestration"), ceo \in Of("ceo"), plan \in Of("plan"),
     arch \in Of("architecture"), eng \in EngineeringChoices, qa \in Of("qa"),
     security \in Of("security"), devops \in Of("devops"), docs \in Of("documentation") :
    LET sources == artifact[docs].sources \cup {Digest(docs), Digest(ceo), Digest(plan)}
    IN /\ Ready(c)
       /\ OrchestrationSources(ceo, plan, arch, eng, qa, security, devops, docs)
       /\ ~Whole(artifact[e]) => ValidateDraft
       /\ artifact[e] # Torn
       /\ Whole(artifact[e]) => artifact[e].sources # sources
       /\ call' = [call EXCEPT ![c] = [Idle EXCEPT
            !.pc = IF Whole(artifact[e]) THEN "mismatch" ELSE "saveArtifact",
            !.exec = e,
            !.request = [at |-> now, sources |-> sources]]]
       /\ UNCHANGED <<now, intent, receipt, provided, toolCalls, faults>>

(* A component that calls the runtime itself.                              *)
RunDirect(c) == \E e \in Direct : Execute(c, e, {})

-----------------------------------------------------------------------------
(* After the runtime has returned: a failed receipt raises; otherwise the  *)
(* output is rendered again from the request and, if it passes the typed   *)
(* validation, becomes the artifact.                                       *)
BySource(sources) ==
  [s \in {Stage[d[1]] : d \in sources} |-> CHOOSE d \in sources : Stage[d[1]] = s]

FromOutput(e, sources) ==
  LET src == BySource(sources)
  IN CASE Stage[e] \in {"ceo", "plan"}     -> LeadershipFromOutput(src)
       [] Stage[e] = "architecture"        -> ArchitectureFromOutput(src, Title[e])
       [] Stage[e] \in EngineeringRoles    -> EngineeringFromOutput(Stage[e], Title[e])
       [] Stage[e] = "qa"                  -> QAFromOutput(src, Title[e])
       [] Stage[e] = "security"            -> SecurityFromOutput(src, Title[e])
       [] Stage[e] = "devops"              -> DevOpsFromOutput(src, Title[e])
       [] Stage[e] = "documentation"       -> DocumentationFromOutput(src, Title[e])

Render(c) ==
  /\ At(c, "returned")
  /\ IF \/ call[c].exec \in Direct \/ call[c].status = "FAILED"
        \/ ~FromOutput(call[c].exec, call[c].request.sources)
     THEN Return(c)
     ELSE Goto(c, "saveArtifact")
  /\ UNCHANGED <<now, intent, receipt, provided, toolCalls, faults, artifact>>

Rendered(c) == [file |-> "whole", at |-> call[c].request.at,
                sources |-> call[c].request.sources]

(* save of an artifact store.  It is outside the runtime's lock: a second  *)
(* caller that finds the file still empty raises.                          *)
SaveArtifact(c) ==
  LET stored == artifact[call[c].exec]
  IN /\ At(c, "saveArtifact")
     /\ \/ /\ stored = Absent
           /\ artifact' = [artifact EXCEPT ![call[c].exec] = Torn]
           /\ Goto(c, "fillArtifact")
        \/ /\ stored \in {Torn, Rendered(c)}
           /\ artifact' = artifact
           /\ Return(c)
        \/ /\ Whole(stored) /\ stored # Rendered(c)
           /\ artifact' = artifact
           /\ Mismatch(c)
     /\ UNCHANGED <<now, intent, receipt, provided, toolCalls, faults>>

FillArtifact(c) ==
  /\ At(c, "fillArtifact")
  /\ \/ /\ artifact' = [artifact EXCEPT ![call[c].exec] = Rendered(c)]
        /\ UNCHANGED faults
     \/ /\ Fault
        /\ artifact' = [artifact EXCEPT ![call[c].exec] = Absent]
  /\ Return(c)
  /\ UNCHANGED <<now, intent, receipt, provided, toolCalls>>

-----------------------------------------------------------------------------
Init == TwinInit /\ artifact = [e \in DOMAIN Stage |-> Absent]

Run(c) ==
  /\ Ready(c)
  /\ \/ RunCeo(c) \/ RunProductManager(c) \/ RunArchitect(c) \/ RunEngineer(c)
     \/ RunQA(c) \/ RunSecurity(c) \/ RunDevOps(c) \/ RunDocumentation(c)
     \/ RunOrchestration(c) \/ RunDirect(c)

Next ==
  \/ \E c \in Callers : (Run(c) \/ RuntimeStep(c)) /\ UNCHANGED artifact
  \/ \E c \in Callers : Render(c) \/ SaveArtifact(c) \/ FillArtifact(c)
  \/ (Tick \/ Crash) /\ UNCHANGED artifact

Spec == Init /\ [][Next]_vars

-----------------------------------------------------------------------------
Holds(stages, A) ==
  \A e \in DOMAIN Stage :
    Stage[e] \in stages /\ Whole(artifact[e]) => artifact[e] \in A

TypeOK ==
  /\ \A e \in Executions :
       /\ intent[e] \in DigitalTwinExecutionIntent(SUBSET Digests) \cup {Absent, Torn}
       /\ receipt[e] \in DigitalTwinExecutionReceipt(SUBSET Digests) \cup {Absent, Torn}
  /\ Holds({"ceo", "plan"}, LeadershipArtifact)
  /\ Holds({"architecture"}, ArchitectureProposalArtifact)
  /\ Holds(EngineeringRoles, EngineeringWorkArtifact)
  /\ Holds({"qa"}, QAWorkArtifact)
  /\ Holds({"security"}, SecurityWorkArtifact)
  /\ Holds({"devops"}, DevOpsWorkArtifact)
  /\ Holds({"documentation"}, DocumentationWorkArtifact)
  /\ Holds({"orchestration"}, MultiAgentOrchestrationArtifact)

(* A receipt of success is final, so the artifact behind it must be one    *)
(* that can be stored: whatever sources an agent was given, what its       *)
(* provider renders passes the typed validation that follows.  (Only a     *)
(* title longer than 200 of the 240 characters a work order allows can     *)
(* fail it: the rendered title adds up to 37 characters of its own.)       *)
SuccessIsRendered ==
  \A e \in DOMAIN Stage :
    Whole(receipt[e]) /\ receipt[e].status = "SUCCEEDED" /\ Title[e] <= 200 =>
      FromOutput(e, receipt[e].request.sources)

(* Every artifact of a digital twin is on record from its intent to its    *)
(* receipt: whatever callers raced, failed or died, a stored artifact is   *)
(* that of a successful receipt, and a stored receipt is that of the       *)
(* stored intent.                                                          *)
ArtifactsAccountedFor ==
  /\ TypeOK /\ SuccessIsRendered
  /\ \A e \in Executions : Whole(receipt[e]) =>
       Whole(intent[e]) /\ receipt[e].request = intent[e].request
  /\ \A e \in DOMAIN Stage : Whole(artifact[e]) /\ Stage[e] # "orchestration" =>
       /\ Whole(receipt[e]) /\ receipt[e].status = "SUCCEEDED"
       /\ receipt[e].request = [at |-> artifact[e].at, sources |-> artifact[e].sources]

Sources(e) == {d[1] : d \in artifact[e].sources}

(* The work of different agents is about one and the same product: all the *)
(* sources of an artifact are still stored as they were, and if two of     *)
(* them name an architecture, it is the same one, also when the architect  *)
(* was run twice and engineers worked from both proposals.                 *)
OneArchitecture ==
  \A e \in DOMAIN Stage : Whole(artifact[e]) =>
    /\ \A d \in artifact[e].sources : Load(d[1]) /\ Digest(d[1]) = d
    /\ Cardinality((Sources(e) \cup UNION {Sources(f) : f \in Sources(e)})
                     \cap Of("architecture")) <= 1

(* A provider that acts on the world runs at most once for an execution;   *)
(* any provider is never run again once a receipt of it is stored, by a    *)
(* retry, a second caller or a restarted process.                          *)
NoSecondEffect ==
  [][\A e \in Executions :
       /\ Whole(receipt[e]) => provided'[e] = provided[e] /\ receipt'[e] = receipt[e]
       /\ e \in LiveExecutions => provided'[e] <= 1]_vars

(* Tools are called within the delegated authority, and a receipt accounts *)
(* for every call: none after the expiry, none beyond the budget, also     *)
(* when a provider is run again after a crash, except that what an         *)
(* interrupted run called is in no receipt.                                *)
ToolsWithinAuthority ==
  \A e \in Executions :
    /\ toolCalls[e].last < Expiry
    /\ toolCalls[e].count <= MaxToolCalls * provided[e]
    /\ Whole(receipt[e]) => /\ receipt[e].evidence <= toolCalls[e].count
                            /\ provided[e] = 1 => receipt[e].evidence = toolCalls[e].count

(* "Exact retries reopen the same receipt and artifact": a caller that     *)
(* asks for the work of a stored artifact again, from the same sources, is *)
(* not turned away as if it had asked for something else                   *)
(* (docs/DEVOPS_ENGINEER_WORKFORCE_AGENT.md).                              *)
ExactRetryReopens ==
  \A c \in Callers :
    At(c, "mismatch") /\ call[c].exec \in DOMAIN Stage /\ Whole(artifact[call[c].exec]) =>
      call[c].request.sources # artifact[call[c].exec].sources
=============================================================================
