--------------------------- MODULE WorkforceOutput ---------------------------
(***************************************************************************)
(* What the agents' providers render (render and _output of each           *)
(* workforce_*/provider.py) and the typed validation it must pass          *)
(* afterwards (_artifact_from_output of each service and __post_init__ of  *)
(* each artifact).  The validation comes after the runtime has stored its  *)
(* receipt, so a refusal there is final: the receipt says SUCCEEDED and    *)
(* there will never be an artifact.                                        *)
(*                                                                         *)
(* The operators take "src", which gives the digest of each source by the  *)
(* agent that made it, and "title", the length of the work order's title.  *)
(* An output keeps what the validation looks at: which sources each item   *)
(* names, how many items there are where only their number is bounded, and *)
(* the length of the title.                                                *)
(***************************************************************************)
EXTENDS Naturals, FiniteSets

EngineeringRoles == {"backend", "frontend", "ai", "data"}

TitleLimit == 240

Engineering(src) == {src[r] : r \in EngineeringRoles}

PerRole(src) == [r \in EngineeringRoles |-> src[r]]

(* Items of the four disciplines, in the order of their sources, each      *)
(* named once.                                                             *)
CoversSources(items, src) ==
  items = PerRole(src) /\ Cardinality(Engineering(src)) = Cardinality(EngineeringRoles)

Within(items, allowed) == \A i \in items : i \subseteq allowed

-----------------------------------------------------------------------------
(* Leadership: the brief has no upstream artifact and no plan; the plan is *)
(* linked to the brief.                                                    *)
CeoOutput(src) == [kind |-> "brief", questions |-> 2, planItems |-> 0]

ProductManagerOutput(src) ==
  [kind |-> "plan", upstream |-> src["ceo"], questions |-> 3, planItems |-> 3]

LeadershipArtifactValid(out, src) ==
  /\ out.questions \in 1..8
  /\ out.kind = "brief" => out.planItems = 0 /\ src = <<>>
  /\ out.kind = "plan" => out.planItems \in 1..12 /\ out.upstream = src["ceo"]

-----------------------------------------------------------------------------
ArchitectureOutput(src, title) ==
  [title |-> title + 32, components |-> 5, technologies |-> 4, adrs |-> 2, risks |-> 3]

ArchitectureArtifactValid(out) ==
  /\ out.title <= TitleLimit
  /\ out.components \in 3..10
  /\ out.technologies \in 2..8
  /\ out.adrs \in 1..8 /\ out.risks \in 1..8

-----------------------------------------------------------------------------
(* An engineer's items and contracts stay inside the discipline.           *)
EngineeringOutput(role, title) ==
  [title |-> title + 20 + (CASE role = "backend" -> 16 [] role = "frontend" -> 17
                             [] role = "ai" -> 11 [] role = "data" -> 13),
   items |-> <<role, role>>, contracts |-> <<role>>]

EngineeringArtifactValid(out, role) ==
  /\ out.title <= TitleLimit
  /\ \A i \in DOMAIN out.items : out.items[i] = role
  /\ \A i \in DOMAIN out.contracts : out.contracts[i] = role

-----------------------------------------------------------------------------
QAOutput(src, title) ==
  [title |-> title + 31,
   plans |-> PerRole(src),
   automation |-> PerRole(src),
   integration |-> {{src["backend"], src["frontend"]}, {src["backend"], src["data"]}},
   defects |-> {{src["frontend"]}, {src["ai"]}}]

QAArtifactValid(out, src) ==
  /\ out.title <= TitleLimit
  /\ CoversSources(out.plans, src)
  /\ CoversSources(out.automation, src)
  /\ Cardinality(out.integration) = 2 /\ Cardinality(out.defects) = 2
  /\ \A i \in out.integration : Cardinality(i) \in 2..4
  /\ Within(out.integration \cup out.defects, Engineering(src))

-----------------------------------------------------------------------------
ThreatCategory == {"SPOOFING", "TAMPERING", "REPUDIATION", "INFORMATION_DISCLOSURE",
                   "DENIAL_OF_SERVICE", "ELEVATION_OF_PRIVILEGE"}

SecurityOutput(src, title) ==
  [title |-> title + 37,
   threats |-> [t \in ThreatCategory |->
      CASE t \in {"SPOOFING", "ELEVATION_OF_PRIVILEGE"} -> {src["backend"], src["frontend"]}
        [] t \in {"TAMPERING", "REPUDIATION"} -> {src["backend"], src["data"]}
        [] t = "INFORMATION_DISCLOSURE" -> {src["ai"], src["data"]}
        [] t = "DENIAL_OF_SERVICE" -> {src["backend"], src["ai"]}],
   dependencies |-> PerRole(src),
   secrets |-> PerRole(src),
   findings |-> {{src["backend"], src["frontend"]}, {src["ai"], src["data"]},
                 Engineering(src)},
   qa |-> src["qa"]]

SecurityArtifactValid(out, src) ==
  /\ out.title <= TitleLimit
  /\ DOMAIN out.threats = ThreatCategory
  /\ CoversSources(out.dependencies, src)
  /\ CoversSources(out.secrets, src)
  /\ Cardinality(out.findings) = 3
  /\ Within({out.threats[t] : t \in ThreatCategory} \cup out.findings, Engineering(src))
  /\ out.qa = src["qa"]

-----------------------------------------------------------------------------
(* The plans of DevOps name each other: the rollback is of the deployment  *)
(* and of the migration.                                                   *)
DevOpsOutput(src, title) ==
  LET gate == [sources |-> PerRole(src), qa |-> src["qa"], security |-> src["security"]]
  IN [title |-> title + 30, ci |-> gate, deployment |-> gate, migration |-> src["data"],
      rollback |-> {"deployment", "migration"}]

DevOpsArtifactValid(out, src) ==
  /\ out.title <= TitleLimit
  /\ CoversSources(out.ci.sources, src)
  /\ out.ci = out.deployment
  /\ out.ci.qa = src["qa"] /\ out.ci.security = src["security"]
  /\ out.migration = src["data"]
  /\ out.rollback = {"deployment", "migration"}

-----------------------------------------------------------------------------
DocumentationKind == {"TECHNICAL", "USER", "API", "OPERATIONS", "RELEASE"}

DocumentationOutput(src, title) ==
  [title |-> title + 29,
   documents |-> [k \in DocumentationKind |->
      CASE k = "TECHNICAL" -> {src["architecture"]} \cup Engineering(src)
        [] k = "USER" -> {src["frontend"], src["qa"]}
        [] k = "API" -> {src["architecture"], src["backend"], src["frontend"], src["ai"]}
        [] k = "OPERATIONS" -> {src["security"], src["devops"]}
        [] k = "RELEASE" -> {src["architecture"], src["qa"], src["security"], src["devops"]}
                              \cup Engineering(src)],
   handoff |-> DocumentationKind]

DocumentationArtifactValid(out, src) ==
  /\ out.title <= TitleLimit
  /\ DOMAIN out.documents = DocumentationKind
  /\ \A k \in DocumentationKind :
       /\ Cardinality(out.documents[k]) \in 2..8
       /\ out.documents[k] \subseteq
            {src[s] : s \in EngineeringRoles \cup {"architecture", "qa", "security", "devops"}}
  /\ out.handoff = DOMAIN out.documents

-----------------------------------------------------------------------------
(* _artifact_from_output of each service.                                  *)
LeadershipFromOutput(src) ==
  IF src = <<>> THEN LeadershipArtifactValid(CeoOutput(src), src)
                ELSE LeadershipArtifactValid(ProductManagerOutput(src), src)

ArchitectureFromOutput(src, title) ==
  ArchitectureArtifactValid(ArchitectureOutput(src, title))

EngineeringFromOutput(role, title) ==
  EngineeringArtifactValid(EngineeringOutput(role, title), role)

QAFromOutput(src, title) == QAArtifactValid(QAOutput(src, title), src)

SecurityFromOutput(src, title) == SecurityArtifactValid(SecurityOutput(src, title), src)

DevOpsFromOutput(src, title) == DevOpsArtifactValid(DevOpsOutput(src, title), src)

DocumentationFromOutput(src, title) ==
  DocumentationArtifactValid(DocumentationOutput(src, title), src)
=============================================================================
