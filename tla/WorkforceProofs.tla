--------------------------- MODULE WorkforceProofs ---------------------------
(***************************************************************************)
(* What the workforce agents and the Digital Twin runtime promise, for     *)
(* every number of callers, executions and work orders: every artifact is  *)
(* on record from its intent to its receipt and can be rendered, the       *)
(* sources of an artifact agree on the architecture, tools stay within     *)
(* the delegated authority, and no effect happens twice.                   *)
(***************************************************************************)
EXTENDS Workforce, FiniteSetTheorems, TLAPS

(* The agents, and whose artifacts each of them works from.                *)
Agents == {"ceo", "plan", "architecture", "qa", "security", "devops", "documentation"}
            \cup EngineeringRoles

QASourceAgents == {"architecture"} \cup EngineeringRoles

Upstream(stage) ==
  CASE stage = "plan"              -> {"ceo"}
    [] stage = "architecture"      -> {"plan"}
    [] stage \in EngineeringRoles  -> {"architecture"}
    [] stage = "qa"                -> QASourceAgents
    [] stage = "security"          -> QASourceAgents \cup {"qa"}
    [] stage = "devops"            -> QASourceAgents \cup {"qa", "security"}
    [] stage = "documentation"     -> QASourceAgents \cup {"qa", "security", "devops"}
    [] stage = "orchestration"     -> QASourceAgents \cup
         {"qa", "security", "devops", "documentation", "ceo", "plan"}
    [] OTHER                       -> {}

(* A set of sources names one artifact of each agent upstream.             *)
OnePerStage(sources) ==
  \A x, y \in sources : Stage[x[1]] = Stage[y[1]] => x = y

StagesOf(sources) == {Stage[d[1]] : d \in sources}

Fits(stage, sources) ==
  /\ sources \in SUBSET Digests
  /\ StagesOf(sources) = Upstream(stage)
  /\ OnePerStage(sources)

(* The sources are stored as they were, and the architecture any of them   *)
(* was made from is the one that is among them.                            *)
Stored(sources) == \A d \in sources : Load(d[1]) /\ Digest(d[1]) = d

SameArchitecture(sources) ==
  \A d \in sources : \A x \in artifact[d[1]].sources :
    Stage[x[1]] = "architecture" => x \in sources

Grounded(stage, sources) ==
  Fits(stage, sources) /\ Stored(sources) /\ SameArchitecture(sources)

-----------------------------------------------------------------------------
(* The inductive invariant: what is true of an execution's files, of its   *)
(* artifact, of a caller at each step, and of two callers at once.         *)

AgentOrDirect(e) == e \in DOMAIN Stage => Stage[e] \in Agents

Shaped(request) == request \in Requests(SUBSET Digests)

Assigned(e, request) ==
  /\ Shaped(request)
  /\ AgentOrDirect(e)
  /\ e \in DOMAIN Stage => Fits(Stage[e], request.sources)

IntentOK(e) ==
  /\ intent[e] \in DigitalTwinExecutionIntent(SUBSET Digests) \cup {Absent, Torn}
  /\ Whole(intent[e]) => Assigned(e, intent[e].request)

ReceiptOK(e) ==
  /\ receipt[e] \in DigitalTwinExecutionReceipt(SUBSET Digests) \cup {Absent, Torn}
  /\ Whole(receipt[e]) => Whole(intent[e]) /\ receipt[e].request = intent[e].request

UsageOK(e) ==
  /\ provided[e] \in Nat
  /\ DOMAIN toolCalls[e] = {"count", "last"}
  /\ toolCalls[e].count \in Nat /\ toolCalls[e].last \in Nat
  /\ toolCalls[e].last < Expiry
  /\ toolCalls[e].count <= MaxToolCalls * provided[e]
  /\ ~Whole(intent[e]) => provided[e] = 0
  /\ e \in LiveExecutions => provided[e] <= 1
  /\ Whole(receipt[e]) => /\ receipt[e].evidence <= toolCalls[e].count
                          /\ provided[e] = 1 => receipt[e].evidence = toolCalls[e].count

ExecutionOK(e) == IntentOK(e) /\ ReceiptOK(e) /\ UsageOK(e)

Receipted(e, request) ==
  Whole(receipt[e]) /\ receipt[e].status = "SUCCEEDED" /\ receipt[e].request = request

Stores == [file: {"whole"}, at: 1..MaxTime, sources: SUBSET Digests]

ArtifactOK(e) ==
  /\ artifact[e] \in Stores \cup {Absent, Torn}
  /\ Whole(artifact[e]) =>
       /\ Grounded(Stage[e], artifact[e].sources)
       /\ Stage[e] # "orchestration" =>
            Receipted(e, [at |-> artifact[e].at, sources |-> artifact[e].sources])

PCs == {"idle", "mismatch", "lock", "returned", "saveArtifact", "fillArtifact"} \cup Holding

CallShape(c) ==
  /\ DOMAIN call[c] = {"pc", "exec", "request", "evidence", "used", "status"}
  /\ call[c].pc \in PCs
  /\ call[c].evidence \in 0..MaxToolCalls
  /\ call[c].status \in ExecutionStatus

Asked(c) ==
  ~Ready(c) =>
    /\ call[c].exec \in Executions
    /\ Shaped(call[c].request)
    /\ call[c].exec \in DOMAIN Stage => Grounded(Stage[call[c].exec], call[c].request.sources)

InRuntime(c) ==
  call[c].pc \in {"lock", "returned"} \cup Holding => AgentOrDirect(call[c].exec)

Filed(c) == Whole(intent[call[c].exec]) /\ ValidateIntent(c)

(* The evidence of the run that goes on, against all the runs there were.  *)
Accounted(c) ==
  LET e == call[c].exec
  IN /\ provided[e] >= 1
     /\ call[c].evidence <= toolCalls[e].count
     /\ toolCalls[e].count + MaxToolCalls <= MaxToolCalls * provided[e] + call[c].evidence
     /\ provided[e] = 1 => toolCalls[e].count = call[c].evidence

HolderOK(c) ==
  LET e == call[c].exec
  IN /\ At(c, "saveIntent") => intent[e] = Absent
     /\ At(c, "fillIntent") => intent[e] = Torn
     /\ call[c].pc \in {"saveIntent", "fillIntent", "start", "work", "tool", "saveReceipt"} =>
          receipt[e] = Absent
     /\ At(c, "fillReceipt") => receipt[e] = Torn
     /\ call[c].pc \in {"start", "work", "tool", "saveReceipt", "fillReceipt"} => Filed(c)
     /\ At(c, "start") /\ e \in LiveExecutions => provided[e] = 0
     /\ call[c].pc \in {"work", "tool", "saveReceipt", "fillReceipt"} => Accounted(c)

BeforeWork(c) ==
  call[c].pc \in {"lock", "saveIntent", "fillIntent", "start"} => call[c].evidence = 0

AfterRuntime(c) ==
  LET e == call[c].exec
  IN /\ At(c, "returned") => /\ Whole(receipt[e]) /\ ValidateReceipt(c)
                             /\ receipt[e].status = call[c].status
     /\ call[c].pc \in {"saveArtifact", "fillArtifact"} =>
          /\ e \in DOMAIN Stage
          /\ Stage[e] # "orchestration" => Receipted(e, call[c].request)
     /\ At(c, "fillArtifact") => artifact[e] = Torn

CallerOK(c) ==
  CallShape(c) /\ Asked(c) /\ InRuntime(c) /\ HolderOK(c) /\ BeforeWork(c) /\ AfterRuntime(c)

Exclusive(c, d) ==
  call[c].exec = call[d].exec =>
    /\ ~(call[c].pc \in Holding /\ call[d].pc \in Holding)
    /\ ~(At(c, "fillArtifact") /\ At(d, "fillArtifact"))

IInv ==
  /\ now \in 1..MaxTime
  /\ \A e \in Executions : ExecutionOK(e)
  /\ \A e \in DOMAIN Stage : ArtifactOK(e)
  /\ \A c \in Callers : CallerOK(c)
  /\ \A c, d \in Callers : c # d => Exclusive(c, d)
  /\ DOMAIN intent = Executions /\ DOMAIN receipt = Executions
  /\ DOMAIN provided = Executions /\ DOMAIN toolCalls = Executions
  /\ DOMAIN artifact = DOMAIN Stage /\ DOMAIN call = Callers
-----------------------------------------------------------------------------
(* Sets of sources: how many there are, and which one is of which agent.   *)

LEMMA ImageCardinality ==
  ASSUME NEW U, IsFiniteSet(U), NEW f, NEW R,
         \A a \in U : f[a] \in R,
         \A r \in R : \E a \in U : f[a] = r,
         \A a, b \in U : f[a] = f[b] => a = b
  PROVE  IsFiniteSet(R) /\ Cardinality(R) = Cardinality(U)
<1> PICK g : g = [a \in U |-> f[a]]  OBVIOUS
<1>1. g \in Bijection(U, R)
  BY DEF Bijection, Injection, Surjection, IsInjective
<1> QED BY <1>1, FS_Bijection DEF ExistsBijection

LEMMA DigestFacts ==
  ASSUME NEW e \in DOMAIN Stage, NEW t \in 1..MaxTime
  PROVE  <<e, t>> \in Digests /\ <<e, t>>[1] = e
BY DEF Digests

LEMMA DigestExecution ==
  ASSUME NEW d \in Digests
  PROVE  d[1] \in DOMAIN Stage
BY DEF Digests

LEMMA BySourceFacts ==
  ASSUME NEW S, OnePerStage(S), NEW T, StagesOf(S) = T
  PROVE  /\ DOMAIN BySource(S) = T
         /\ \A s \in T : BySource(S)[s] \in S /\ Stage[BySource(S)[s][1]] = s
         /\ \A s, t \in T : BySource(S)[s] = BySource(S)[t] => s = t
         /\ \A d \in S : \E s \in T : BySource(S)[s] = d
<1>1. DOMAIN BySource(S) = T
  BY DEF BySource, StagesOf
<1>2. ASSUME NEW s \in T  PROVE BySource(S)[s] \in S /\ Stage[BySource(S)[s][1]] = s
  <2>1. \E d \in S : Stage[d[1]] = s
    BY DEF StagesOf
  <2>2. BySource(S)[s] = CHOOSE d \in S : Stage[d[1]] = s
    BY DEF BySource, StagesOf
  <2> QED BY <2>1, <2>2
<1>3. ASSUME NEW d \in S  PROVE \E s \in T : BySource(S)[s] = d
  <2>1. Stage[d[1]] \in T
    BY DEF StagesOf
  <2> QED BY <2>1, <1>2 DEF OnePerStage
<1> QED BY <1>1, <1>2, <1>3

LEMMA SourcesCardinality ==
  ASSUME NEW S, OnePerStage(S), NEW T, StagesOf(S) = T, IsFiniteSet(T)
  PROVE  IsFiniteSet(S) /\ Cardinality(S) = Cardinality(T)
<1> PICK f : f = BySource(S)  OBVIOUS
<1>1. /\ \A s, t \in T : f[s] = f[t] => s = t
      /\ \A s \in T : f[s] \in S
      /\ \A d \in S : \E s \in T : f[s] = d
  BY BySourceFacts
<1> QED BY <1>1, ImageCardinality

LEMMA OneMore ==
  ASSUME NEW S, IsFiniteSet(S), NEW x, x \notin S, NEW T, T = S \cup {x},
         NEW n \in Nat, Cardinality(S) = n
  PROVE  IsFiniteSet(T) /\ Cardinality(T) = n + 1
BY FS_AddElement

LEMMA FourRoles ==
  IsFiniteSet(EngineeringRoles) /\ Cardinality(EngineeringRoles) = 4
<1>1. IsFiniteSet({"backend"}) /\ Cardinality({"backend"}) = 1
  BY FS_Singleton
<1>2. /\ IsFiniteSet({"backend"} \cup {"frontend"})
      /\ Cardinality({"backend"} \cup {"frontend"}) = 2
  BY <1>1, FS_AddElement
<1>3. /\ IsFiniteSet(({"backend"} \cup {"frontend"}) \cup {"ai"})
      /\ Cardinality(({"backend"} \cup {"frontend"}) \cup {"ai"}) = 3
  BY <1>2, FS_AddElement
<1>4. /\ IsFiniteSet((({"backend"} \cup {"frontend"}) \cup {"ai"}) \cup {"data"})
      /\ Cardinality((({"backend"} \cup {"frontend"}) \cup {"ai"}) \cup {"data"}) = 4
  BY <1>3, FS_AddElement
<1>5. EngineeringRoles = (({"backend"} \cup {"frontend"}) \cup {"ai"}) \cup {"data"}
  BY DEF EngineeringRoles
<1> QED BY <1>4, <1>5

(* How many agents are upstream of each.                                   *)
LEMMA UpstreamCardinality ==
  /\ \A s : IsFiniteSet(Upstream(s))
  /\ Cardinality(Upstream("ceo")) = 0 /\ Cardinality(Upstream("plan")) = 1
  /\ Cardinality(Upstream("architecture")) = 1
  /\ \A r \in EngineeringRoles : Cardinality(Upstream(r)) = 1
  /\ Cardinality(Upstream("qa")) = NRoles + 1
  /\ Cardinality(Upstream("security")) = NRoles + 2
  /\ Cardinality(Upstream("devops")) = NRoles + 3
  /\ Cardinality(Upstream("documentation")) = NRoles + 4
  /\ Cardinality(Upstream("orchestration")) = NRoles + 7
<1>0. NRoles = 4  BY FourRoles DEF NRoles
<1> PICK Q : Q = EngineeringRoles \cup {"architecture"}  OBVIOUS
<1> PICK S : S = Q \cup {"qa"}  OBVIOUS
<1> PICK D : D = S \cup {"security"}  OBVIOUS
<1> PICK W : W = D \cup {"devops"}  OBVIOUS
<1> PICK X : X = W \cup {"documentation"}  OBVIOUS
<1> PICK Y : Y = X \cup {"ceo"}  OBVIOUS
<1> PICK O : O = Y \cup {"plan"}  OBVIOUS
<1>1. IsFiniteSet(Q) /\ Cardinality(Q) = 5
 \* the architect is not an engineer
  <2>1. "architecture" \notin EngineeringRoles
    BY DEF EngineeringRoles
  <2> QED BY <2>1, FourRoles, OneMore
<1>2. "qa" \notin Q  BY DEF EngineeringRoles
<1>3. IsFiniteSet(S) /\ Cardinality(S) = 6
  BY <1>1, <1>2, OneMore
<1>4. "security" \notin S  BY DEF EngineeringRoles
<1>5. IsFiniteSet(D) /\ Cardinality(D) = 7
  BY <1>3, <1>4, OneMore
<1>6. "devops" \notin D  BY DEF EngineeringRoles
<1>7. IsFiniteSet(W) /\ Cardinality(W) = 8
  BY <1>5, <1>6, OneMore
<1>8. "documentation" \notin W  BY DEF EngineeringRoles
<1>9. IsFiniteSet(X) /\ Cardinality(X) = 9
  BY <1>7, <1>8, OneMore
<1>10. "ceo" \notin X  BY DEF EngineeringRoles
<1>11. IsFiniteSet(Y) /\ Cardinality(Y) = 10
  BY <1>9, <1>10, OneMore
<1>12. "plan" \notin Y  BY DEF EngineeringRoles
<1>13. IsFiniteSet(O) /\ Cardinality(O) = 11
  BY <1>11, <1>12, OneMore
<1>14. /\ Upstream("qa") = Q /\ Upstream("security") = S /\ Upstream("devops") = D
       /\ Upstream("documentation") = W /\ Upstream("orchestration") = O
  BY DEF Upstream, QASourceAgents, EngineeringRoles
<1>15. /\ Upstream("ceo") = {} /\ Upstream("plan") = {"ceo"}
       /\ Upstream("architecture") = {"plan"}
       /\ \A r \in EngineeringRoles : Upstream(r) = {"architecture"}
  BY DEF Upstream, EngineeringRoles
<1>16. ASSUME NEW s  PROVE IsFiniteSet(Upstream(s))
  <2>1. CASE s \in {"ceo", "plan", "architecture"} \cup EngineeringRoles
    <3>1. Upstream(s) = {} \/ \E x : Upstream(s) = {x}
      BY <2>1, <1>15
    <3>2. \A x : IsFiniteSet({x})
      BY FS_Singleton
    <3>3. IsFiniteSet({})
      BY FS_EmptySet
    <3> QED BY <3>1, <3>2, <3>3, Zenon
  <2>2. CASE s \in {"qa", "security", "devops", "documentation", "orchestration"}
    BY <2>2, <1>14, <1>1, <1>3, <1>5, <1>7, <1>13
  <2>3. CASE s \notin {"qa", "security", "devops", "documentation", "orchestration",
                       "ceo", "plan", "architecture"} \cup EngineeringRoles
    <3>1. Upstream(s) = {}
      BY <2>3 DEF Upstream
    <3> QED BY <3>1, FS_EmptySet
  <2> QED BY <2>1, <2>2, <2>3
<1>17. /\ Cardinality(Upstream("ceo")) = 0 /\ Cardinality(Upstream("plan")) = 1
       /\ Cardinality(Upstream("architecture")) = 1
       /\ \A r \in EngineeringRoles : Cardinality(Upstream(r)) = 1
  BY <1>15, FS_EmptySet, FS_Singleton
<1> QED BY <1>0, <1>16, <1>17, <1>14, <1>1, <1>3, <1>5, <1>7, <1>13

-----------------------------------------------------------------------------
(* What each provider renders passes the typed validation that follows,    *)
(* from one source of each agent and a title of at most 200 characters.    *)

Distinct(src, U) == \A a, b \in U : src[a] = src[b] => a = b

LEMMA RoleCoverage ==
  ASSUME NEW src, Distinct(src, EngineeringRoles)
  PROVE  CoversSources(PerRole(src), src)
<1> PICK R : R = Engineering(src)  OBVIOUS
<1>1. IsFiniteSet(R) /\ Cardinality(R) = Cardinality(EngineeringRoles)
  BY FourRoles, ImageCardinality DEF Engineering, Distinct
<1> QED BY <1>1 DEF CoversSources

LEMMA PairCardinality ==
  ASSUME NEW x, NEW y, x # y
  PROVE  IsFiniteSet({x, y}) /\ Cardinality({x, y}) = 2
<1>1. IsFiniteSet({x}) /\ Cardinality({x}) = 1
  BY FS_Singleton
<1>2. IsFiniteSet({x} \cup {y}) /\ Cardinality({x} \cup {y}) = 2
  BY <1>1, FS_AddElement
<1>3. {x, y} = {x} \cup {y}
  OBVIOUS
<1> QED BY <1>2, <1>3

LEMMA DistinctRoles ==
  ASSUME NEW src, Distinct(src, EngineeringRoles)
  PROVE  /\ src["backend"] # src["frontend"] /\ src["backend"] # src["ai"]
         /\ src["backend"] # src["data"] /\ src["frontend"] # src["ai"]
         /\ src["frontend"] # src["data"] /\ src["ai"] # src["data"]
         /\ Engineering(src) =
              {src["backend"], src["frontend"], src["ai"], src["data"]}
BY DEF Distinct, EngineeringRoles, Engineering

LEMMA QARenders ==
  ASSUME NEW src, Distinct(src, EngineeringRoles), NEW title \in 1..200
  PROVE  QAFromOutput(src, title)
<1> PICK b : b = src["backend"]  OBVIOUS
<1> PICK f : f = src["frontend"]  OBVIOUS
<1> PICK a : a = src["ai"]  OBVIOUS
<1> PICK d : d = src["data"]  OBVIOUS
<1> PICK P : P = PerRole(src)  OBVIOUS
<1> PICK out : out = QAOutput(src, title)  OBVIOUS
<1>1. /\ out.title = title + 31
      /\ out.plans = P /\ out.automation = P
      /\ out.integration = {{b, f}, {b, d}} /\ out.defects = {{f}, {a}}
  BY DEF QAOutput
<1>2. /\ b # f /\ b # d /\ f # d /\ f # a
      /\ Engineering(src) = {b, f, a, d}
  BY DistinctRoles
<1>3. Cardinality({b, f}) = 2 /\ Cardinality({b, d}) = 2
  BY <1>2, PairCardinality
<1>4. Cardinality({{b, f}, {b, d}}) = 2 /\ Cardinality({{f}, {a}}) = 2
  <2>1. {b, f} # {b, d} /\ {f} # {a}
    BY <1>2
  <2> QED BY <2>1, PairCardinality
<1>5. Within({{b, f}, {b, d}} \cup {{f}, {a}}, Engineering(src))
  BY <1>2 DEF Within
<1>6. CoversSources(P, src)
  BY RoleCoverage
<1>7. out.title <= TitleLimit
  BY <1>1 DEF TitleLimit
<1>8. \A i \in out.integration : Cardinality(i) \in 2..4
  <2>1. \A i \in out.integration : i = {b, f} \/ i = {b, d}
    BY <1>1, Zenon
  <2>2. \A i \in out.integration : Cardinality(i) = 2
    BY <2>1, <1>3, Zenon
  <2> QED BY <2>2
<1> QED BY <1>1, <1>4, <1>5, <1>6, <1>7, <1>8 DEF QAFromOutput, QAArtifactValid

LEMMA SecurityRenders ==
  ASSUME NEW src, Distinct(src, EngineeringRoles), NEW title \in 1..200
  PROVE  SecurityFromOutput(src, title)
<1> PICK b : b = src["backend"]  OBVIOUS
<1> PICK f : f = src["frontend"]  OBVIOUS
<1> PICK a : a = src["ai"]  OBVIOUS
<1> PICK d : d = src["data"]  OBVIOUS
<1> PICK P : P = PerRole(src)  OBVIOUS
<1> PICK E : E = Engineering(src)  OBVIOUS
<1> PICK out : out = SecurityOutput(src, title)  OBVIOUS
<1>1. /\ out.title = title + 37
      /\ out.dependencies = P /\ out.secrets = P
      /\ out.findings = {{b, f}, {a, d}, E}
      /\ out.qa = src["qa"]
  BY DEF SecurityOutput
<1>2. /\ DOMAIN out.threats = ThreatCategory
      /\ \A t \in ThreatCategory : out.threats[t] \in {{b, f}, {b, d}, {a, d}, {b, a}}
  BY DEF SecurityOutput, ThreatCategory
<1>3. /\ b # f /\ b # d /\ f # d /\ f # a /\ b # a /\ a # d
      /\ E = {b, f, a, d}
  BY DistinctRoles
<1>4. Cardinality({{b, f}, {a, d}, E}) = 3
  <2>1. {b, f} # {a, d} /\ E \notin {{b, f}, {a, d}}
    BY <1>3
  <2>2. IsFiniteSet({{b, f}, {a, d}}) /\ Cardinality({{b, f}, {a, d}}) = 2
    BY <2>1, PairCardinality
  <2>3. {{b, f}, {a, d}, E} = {{b, f}, {a, d}} \cup {E}
    OBVIOUS
  <2> QED BY <2>1, <2>2, <2>3, OneMore
<1>5. Within({out.threats[t] : t \in ThreatCategory} \cup out.findings, E)
  <2>1. ASSUME NEW t \in ThreatCategory  PROVE out.threats[t] \subseteq E
    BY <1>2, <1>3
  <2>2. \A i \in out.findings : i \subseteq E
    BY <1>1, <1>3
  <2> QED BY <2>1, <2>2 DEF Within
<1>6. CoversSources(P, src)
  BY RoleCoverage
<1>7. out.title <= TitleLimit
  BY <1>1 DEF TitleLimit
<1>8. Cardinality(out.findings) = 3
  BY <1>1, <1>4
<1> QED BY <1>1, <1>2, <1>5, <1>6, <1>7, <1>8 DEF SecurityFromOutput, SecurityArtifactValid

LEMMA DevOpsRenders ==
  ASSUME NEW src, Distinct(src, EngineeringRoles), NEW title \in 1..200
  PROVE  DevOpsFromOutput(src, title)
<1> PICK P : P = PerRole(src)  OBVIOUS
<1> PICK gate : gate = [sources |-> P, qa |-> src["qa"], security |-> src["security"]]
  OBVIOUS
<1> PICK out : out = DevOpsOutput(src, title)  OBVIOUS
<1>1. /\ out.title = title + 30 /\ out.ci = gate /\ out.deployment = gate
      /\ out.migration = src["data"] /\ out.rollback = {"deployment", "migration"}
  BY DEF DevOpsOutput
<1>2. CoversSources(P, src)
  BY RoleCoverage
<1>3. out.title <= TitleLimit
  BY <1>1 DEF TitleLimit
<1>4. /\ out.ci.sources = P /\ out.ci.qa = src["qa"]
      /\ out.ci.security = src["security"]
  BY <1>1
<1> QED BY <1>1, <1>2, <1>3, <1>4 DEF DevOpsFromOutput, DevOpsArtifactValid

(* Each document is of two to eight of the sources.                        *)
DocumentSources(k) ==
  CASE k = "TECHNICAL"  -> QASourceAgents
    [] k = "USER"       -> {"frontend", "qa"}
    [] k = "API"        -> {"architecture", "backend", "frontend", "ai"}
    [] k = "OPERATIONS" -> {"security", "devops"}
    [] k = "RELEASE"    -> QASourceAgents \cup {"qa", "security", "devops"}

LEMMA DocumentSize ==
  ASSUME NEW k \in DocumentationKind
  PROVE  /\ IsFiniteSet(DocumentSources(k)) /\ Cardinality(DocumentSources(k)) \in 2..8
         /\ DocumentSources(k) \subseteq Upstream("documentation")
<1>1. DocumentSources(k) \subseteq Upstream("documentation")
  BY DEF DocumentSources, Upstream, DocumentationKind, QASourceAgents, EngineeringRoles
<1>2. CASE k = "TECHNICAL"
  <2>1. DocumentSources(k) = Upstream("qa")
    BY <1>2 DEF DocumentSources, Upstream, EngineeringRoles
  <2> QED BY <2>1, <1>1, UpstreamCardinality, FourRoles DEF NRoles
<1>3. CASE k = "RELEASE"
  <2>1. DocumentSources(k) = Upstream("documentation")
    BY <1>3 DEF DocumentSources, Upstream, EngineeringRoles
  <2> QED BY <2>1, <1>1, UpstreamCardinality, FourRoles DEF NRoles
<1>4. CASE k = "USER"
  <2>1. DocumentSources(k) = {"frontend", "qa"}
    BY <1>4 DEF DocumentSources
  <2>2. IsFiniteSet({"frontend", "qa"}) /\ Cardinality({"frontend", "qa"}) = 2
    BY PairCardinality
  <2> QED BY <2>1, <2>2, <1>1
<1>5. CASE k = "OPERATIONS"
  <2>1. DocumentSources(k) = {"security", "devops"}
    BY <1>5 DEF DocumentSources
  <2>2. IsFiniteSet({"security", "devops"}) /\ Cardinality({"security", "devops"}) = 2
    BY PairCardinality
  <2> QED BY <2>1, <2>2, <1>1
<1>6. CASE k = "API"
  <2>1. DocumentSources(k) = ({"architecture", "backend"} \cup {"frontend"}) \cup {"ai"}
    BY <1>6 DEF DocumentSources
  <2>2. IsFiniteSet({"architecture", "backend"}) /\ Cardinality({"architecture", "backend"}) = 2
    BY PairCardinality
  <2>3. /\ IsFiniteSet({"architecture", "backend"} \cup {"frontend"})
        /\ Cardinality({"architecture", "backend"} \cup {"frontend"}) = 3
    BY <2>2, OneMore
  <2>4. /\ IsFiniteSet(DocumentSources(k)) /\ Cardinality(DocumentSources(k)) = 4
    BY <2>1, <2>3, OneMore
  <2> QED BY <2>4, <1>1
<1> QED BY <1>2, <1>3, <1>4, <1>5, <1>6 DEF DocumentationKind

LEMMA DocumentationRenders ==
  ASSUME NEW src, Distinct(src, Upstream("documentation")), NEW title \in 1..200
  PROVE  DocumentationFromOutput(src, title)
<1> PICK out : out = DocumentationOutput(src, title)  OBVIOUS
<1>1. /\ out.title = title + 29 /\ out.handoff = DocumentationKind
      /\ DOMAIN out.documents = DocumentationKind
  BY DEF DocumentationOutput
<1>2. ASSUME NEW k \in DocumentationKind
      PROVE  /\ \A s \in DocumentSources(k) : src[s] \in out.documents[k]
             /\ \A d \in out.documents[k] : \E s \in DocumentSources(k) : src[s] = d
  BY DEF DocumentationOutput, DocumentationKind, DocumentSources, QASourceAgents,
         EngineeringRoles, Engineering
<1>3. ASSUME NEW k \in DocumentationKind
      PROVE  /\ Cardinality(out.documents[k]) \in 2..8
             /\ out.documents[k] \subseteq
                  {src[s] : s \in EngineeringRoles \cup {"architecture", "qa", "security", "devops"}}
  <2> PICK U : U = DocumentSources(k)  OBVIOUS
  <2> PICK R : R = out.documents[k]  OBVIOUS
  <2>1. IsFiniteSet(U) /\ Cardinality(U) \in 2..8 /\ U \subseteq Upstream("documentation")
    BY DocumentSize
  <2>2. Distinct(src, U)
    BY <2>1 DEF Distinct
  <2>3. /\ \A s \in U : src[s] \in R
        /\ \A d \in R : \E s \in U : src[s] = d
    BY <1>2
  <2>4. Cardinality(R) = Cardinality(U)
    BY <2>1, <2>2, <2>3, ImageCardinality DEF Distinct
  <2>5. Upstream("documentation") =
          EngineeringRoles \cup {"architecture", "qa", "security", "devops"}
    BY DEF Upstream, QASourceAgents, EngineeringRoles
  <2> QED BY <2>1, <2>3, <2>4, <2>5
<1>4. out.title <= TitleLimit
  BY <1>1 DEF TitleLimit
<1> QED BY <1>1, <1>3, <1>4 DEF DocumentationFromOutput, DocumentationArtifactValid

(* Whatever sources an agent was given, what it renders can be stored.     *)
LEMMA Renders ==
  ASSUME NEW e \in DOMAIN Stage, Stage[e] \in Agents, Title[e] <= 200,
         NEW S, Fits(Stage[e], S)
  PROVE  FromOutput(e, S)
<1> PICK src : src = BySource(S)  OBVIOUS
<1> PICK stage : stage = Stage[e]  OBVIOUS
<1> PICK title : title = Title[e]  OBVIOUS
<1>1. title \in 1..200
  BY WorkforceAssumption DEF TitleLimit
<1>2. Distinct(src, Upstream(stage))
  BY BySourceFacts DEF Fits, Distinct
<1>3. CASE stage \in {"ceo", "plan"}
  <2>1. LeadershipFromOutput(src)
    BY DEF LeadershipFromOutput, LeadershipArtifactValid, CeoOutput, ProductManagerOutput
  <2> QED BY <1>3, <2>1 DEF FromOutput, EngineeringRoles
<1>4. CASE stage = "architecture"
  <2>1. ArchitectureFromOutput(src, title)
    BY <1>1 DEF ArchitectureFromOutput, ArchitectureArtifactValid, ArchitectureOutput, TitleLimit
  <2> QED BY <1>4, <2>1 DEF FromOutput, EngineeringRoles
<1>5. CASE stage \in EngineeringRoles
  <2> PICK out : out = EngineeringOutput(stage, title)  OBVIOUS
  <2>1. /\ out.title \in {title + 36, title + 37, title + 31, title + 33}
        /\ out.items = <<stage, stage>> /\ out.contracts = <<stage>>
    BY <1>5, <1>1 DEF EngineeringOutput, EngineeringRoles
  <2>2. out.title <= TitleLimit
    BY <2>1, <1>1 DEF TitleLimit
  <2>3. EngineeringFromOutput(stage, title)
    BY <2>1, <2>2 DEF EngineeringFromOutput, EngineeringArtifactValid
  <2> QED BY <1>5, <2>3 DEF FromOutput, EngineeringRoles
<1>6. CASE stage \in {"qa", "security", "devops", "documentation"}
  <2>1. Distinct(src, EngineeringRoles)
    BY <1>2, <1>6 DEF Distinct, Upstream, QASourceAgents, EngineeringRoles
  <2>2. QAFromOutput(src, title) /\ SecurityFromOutput(src, title) /\ DevOpsFromOutput(src, title)
    BY <2>1, <1>1, QARenders, SecurityRenders, DevOpsRenders
  <2>3. stage = "documentation" => DocumentationFromOutput(src, title)
    BY <1>1, <1>2, DocumentationRenders
  <2> QED BY <1>6, <2>2, <2>3 DEF FromOutput, EngineeringRoles
<1> QED BY <1>3, <1>4, <1>5, <1>6 DEF Agents

LEMMA FitsCardinality ==
  ASSUME NEW stage, NEW S, Fits(stage, S)
  PROVE  Cardinality(S) = Cardinality(Upstream(stage))
BY SourcesCardinality, UpstreamCardinality DEF Fits

-----------------------------------------------------------------------------
(* A stored artifact never changes, so what is grounded stays so.          *)

StoresKept == \A e \in DOMAIN Stage : Load(e) => artifact'[e] = artifact[e]

LEMMA GroundedStays ==
  ASSUME StoresKept, NEW stage, NEW S, Grounded(stage, S)
  PROVE  Grounded(stage, S)'
<1>1. Fits(stage, S) /\ Fits(stage, S)'
  BY DEF Grounded, Fits, StagesOf, OnePerStage
<1>2. ASSUME NEW d \in S  PROVE Load(d[1]) /\ artifact'[d[1]] = artifact[d[1]]
  <2>1. d[1] \in DOMAIN Stage /\ Load(d[1])
    BY <1>1, DigestExecution DEF Grounded, Fits, Stored
  <2> QED BY <2>1 DEF StoresKept
<1>3. Stored(S)'
  BY <1>2 DEF Grounded, Stored, Load, Digest
<1>4. SameArchitecture(S)'
  BY <1>2 DEF Grounded, SameArchitecture
<1> QED BY <1>1, <1>3, <1>4 DEF Grounded

LEMMA WholeFile ==
  ASSUME NEW F, NEW f \in F \cup {Absent, Torn}, Whole(f)
  PROVE  f \in F
BY DEF Whole, Absent, Torn

LEMMA DigestOf ==
  ASSUME \A x \in DOMAIN Stage : ArtifactOK(x), NEW e \in DOMAIN Stage, Load(e)
  PROVE  /\ Digest(e) \in Digests /\ Digest(e)[1] = e
         /\ Grounded(Stage[e], artifact[e].sources)
<1>1. artifact[e] \in Stores
  BY WholeFile DEF ArtifactOK, Load
<1>2. artifact[e].at \in 1..MaxTime
  BY <1>1 DEF Stores
<1>3. Grounded(Stage[e], artifact[e].sources)
  BY DEF ArtifactOK, Load
<1> QED BY <1>2, <1>3, DigestFacts DEF Digest

(* One more source, of an agent that is not among them yet.                *)
Coherent(sources) ==
  /\ sources \in SUBSET Digests
  /\ OnePerStage(sources) /\ Stored(sources) /\ SameArchitecture(sources)

LEMMA GroundedIsCoherent ==
  ASSUME NEW stage, NEW S
  PROVE  Grounded(stage, S) <=> Coherent(S) /\ StagesOf(S) = Upstream(stage)
BY DEF Grounded, Fits, Coherent

LEMMA AddSource ==
  ASSUME \A x \in DOMAIN Stage : ArtifactOK(x), NEW f \in DOMAIN Stage, Load(f),
         NEW S, Coherent(S), Stage[f] \notin StagesOf(S),
         \A x \in artifact[f].sources : Stage[x[1]] = "architecture" => x \in S
  PROVE  /\ Coherent(S \cup {Digest(f)})
         /\ StagesOf(S \cup {Digest(f)}) = StagesOf(S) \cup {Stage[f]}
<1> PICK d : d = Digest(f)  OBVIOUS
<1>1. d \in Digests /\ d[1] = f
  BY DigestOf
<1>2. \A x \in S : Stage[x[1]] # Stage[f]
  BY DEF StagesOf
<1>3. OnePerStage(S \cup {d})
  BY <1>1, <1>2 DEF Coherent, OnePerStage
<1>4. Stored(S \cup {d})
  BY <1>1 DEF Coherent, Stored
<1>5. SameArchitecture(S \cup {d})
  BY <1>1 DEF Coherent, SameArchitecture
<1>6. StagesOf(S \cup {d}) = StagesOf(S) \cup {Stage[f]}
  BY <1>1 DEF StagesOf
<1>7. S \cup {d} \in SUBSET Digests
  BY <1>1 DEF Coherent
<1> QED BY <1>3, <1>4, <1>5, <1>6, <1>7 DEF Coherent

LEMMA NoSources ==
  Coherent({}) /\ StagesOf({}) = {}
BY DEF Coherent, OnePerStage, Stored, SameArchitecture, StagesOf

(* The sources of an artifact, and the artifact itself.                    *)
LEMMA GroundedNext ==
  ASSUME \A x \in DOMAIN Stage : ArtifactOK(x), NEW f \in DOMAIN Stage, Load(f),
         Stage[f] \notin Upstream(Stage[f]), NEW stage,
         Upstream(stage) = Upstream(Stage[f]) \cup {Stage[f]}
  PROVE  Grounded(stage, artifact[f].sources \cup {Digest(f)})
<1>1. Coherent(artifact[f].sources) /\ StagesOf(artifact[f].sources) = Upstream(Stage[f])
  BY DigestOf, GroundedIsCoherent
<1>2. /\ Coherent(artifact[f].sources \cup {Digest(f)})
      /\ StagesOf(artifact[f].sources \cup {Digest(f)}) = Upstream(stage)
  BY <1>1, AddSource
<1> QED BY <1>2, GroundedIsCoherent

(* A source that no architecture was named for may stand alone.            *)
LEMMA GroundedAlone ==
  ASSUME \A x \in DOMAIN Stage : ArtifactOK(x), NEW f \in DOMAIN Stage, Load(f),
         "architecture" \notin Upstream(Stage[f]), NEW stage, Upstream(stage) = {Stage[f]}
  PROVE  Grounded(stage, {Digest(f)})
<1>1. StagesOf(artifact[f].sources) = Upstream(Stage[f])
  BY DigestOf DEF Grounded, Fits
<1>2. \A x \in artifact[f].sources : Stage[x[1]] # "architecture"
  BY <1>1 DEF StagesOf
<1>3. /\ Coherent({} \cup {Digest(f)})
      /\ StagesOf({} \cup {Digest(f)}) = {} \cup {Stage[f]}
  BY <1>2, NoSources, AddSource
<1> QED BY <1>3, GroundedIsCoherent

(* The architecture and an engineering artifact of each role made from it. *)
LEMMA QAGrounded ==
  ASSUME \A x \in DOMAIN Stage : ArtifactOK(x),
         NEW arch \in Of("architecture"), NEW eng \in EngineeringChoices,
         QASources(arch, eng)
  PROVE  Grounded("qa", QARequest(arch, eng))
<1> PICK a : a = Digest(arch)  OBVIOUS
<1> PICK S : S = QARequest(arch, eng)  OBVIOUS
<1>1. arch \in DOMAIN Stage /\ Stage[arch] = "architecture" /\ Load(arch)
  BY DEF Of, QASources
<1>2. a \in Digests /\ a[1] = arch /\ Grounded("architecture", artifact[arch].sources)
  BY <1>1, DigestOf
<1>3. ASSUME NEW r \in EngineeringRoles
      PROVE  /\ eng[r] \in DOMAIN Stage /\ Stage[eng[r]] = r /\ Load(eng[r])
             /\ a \in artifact[eng[r]].sources
  BY DEF Of, EngineeringChoices, EngineeringRoles, QASources, Binds
<1>4. ASSUME NEW r \in EngineeringRoles
      PROVE  /\ Digest(eng[r]) \in Digests /\ Digest(eng[r])[1] = eng[r]
             /\ Grounded(r, artifact[eng[r]].sources)
  BY <1>3, DigestOf
<1>5. \A d \in S : d = a \/ \E r \in EngineeringRoles : d = Digest(eng[r])
  BY DEF QARequest, EngineeringDigests
<1>6. a \in S /\ \A r \in EngineeringRoles : Digest(eng[r]) \in S
  BY DEF QARequest, EngineeringDigests
<1>7. S \in SUBSET Digests
  BY <1>5, <1>2, <1>4
<1>8. OnePerStage(S)
  BY <1>5, <1>2, <1>4, <1>3, <1>1 DEF OnePerStage, EngineeringRoles
<1>9. StagesOf(S) = Upstream("qa")
  <2>1. Upstream("qa") = {"architecture"} \cup EngineeringRoles
    BY DEF Upstream, QASourceAgents, EngineeringRoles
  <2> QED BY <2>1, <1>5, <1>6, <1>2, <1>4, <1>3, <1>1 DEF StagesOf
<1>10. Stored(S)
  BY <1>5, <1>2, <1>4, <1>3, <1>1 DEF Stored
<1>11. SameArchitecture(S)
  <2>1. \A x \in artifact[arch].sources : Stage[x[1]] # "architecture"
    BY <1>2 DEF Grounded, Fits, StagesOf, Upstream, EngineeringRoles
  <2>2. ASSUME NEW r \in EngineeringRoles, NEW x \in artifact[eng[r]].sources,
               Stage[x[1]] = "architecture"
        PROVE  x = a
    BY <2>2, <1>1, <1>2, <1>3, <1>4 DEF Grounded, Fits, OnePerStage
  <2> QED BY <2>1, <2>2, <1>5, <1>6, <1>2, <1>4 DEF SameArchitecture
<1> QED BY <1>7, <1>8, <1>9, <1>10, <1>11 DEF Grounded, Fits

(* Everything of one product.                                              *)
LEMMA OrchestrationGrounded ==
  ASSUME \A x \in DOMAIN Stage : ArtifactOK(x),
         NEW ceo \in Of("ceo"), NEW plan \in Of("plan"), NEW docs \in Of("documentation"),
         Load(ceo), Load(plan), Load(docs)
  PROVE  Grounded("orchestration",
           artifact[docs].sources \cup {Digest(docs), Digest(ceo), Digest(plan)})
<1> PICK S : S = artifact[docs].sources  OBVIOUS
<1> PICK A : A = S \cup {Digest(docs)}  OBVIOUS
<1> PICK B : B = A \cup {Digest(ceo)}  OBVIOUS
<1> PICK C : C = B \cup {Digest(plan)}  OBVIOUS
<1>1. /\ ceo \in DOMAIN Stage /\ Stage[ceo] = "ceo"
      /\ plan \in DOMAIN Stage /\ Stage[plan] = "plan"
      /\ docs \in DOMAIN Stage /\ Stage[docs] = "documentation"
  BY DEF Of
<1>2. Coherent(S) /\ StagesOf(S) = Upstream("documentation")
  BY <1>1, DigestOf, GroundedIsCoherent
<1>3. /\ StagesOf(artifact[ceo].sources) = {} /\ StagesOf(artifact[plan].sources) = {"ceo"}
  BY <1>1, DigestOf DEF Grounded, Fits, Upstream, EngineeringRoles
<1>4. /\ \A x \in artifact[ceo].sources : Stage[x[1]] # "architecture"
      /\ \A x \in artifact[plan].sources : Stage[x[1]] # "architecture"
  BY <1>3 DEF StagesOf
<1>5. /\ "documentation" \notin Upstream("documentation")
      /\ "ceo" \notin Upstream("documentation") \cup {"documentation"}
      /\ "plan" \notin Upstream("documentation") \cup {"documentation", "ceo"}
      /\ Upstream("orchestration") =
           ((Upstream("documentation") \cup {"documentation"}) \cup {"ceo"}) \cup {"plan"}
  BY DEF Upstream, QASourceAgents, EngineeringRoles
<1>6. Coherent(A) /\ StagesOf(A) = Upstream("documentation") \cup {"documentation"}
  <2>1. \A x \in artifact[docs].sources : Stage[x[1]] = "architecture" => x \in S
    OBVIOUS
  <2> QED BY <2>1, <1>1, <1>2, <1>5, AddSource
<1>7. Coherent(B) /\ StagesOf(B) = (Upstream("documentation") \cup {"documentation"}) \cup {"ceo"}
  BY <1>6, <1>1, <1>4, <1>5, AddSource
<1>8. Coherent(C) /\ StagesOf(C) = Upstream("orchestration")
  BY <1>7, <1>1, <1>4, <1>5, AddSource
<1>9. C = artifact[docs].sources \cup {Digest(docs), Digest(ceo), Digest(plan)}
  OBVIOUS
<1> QED BY <1>8, <1>9, GroundedIsCoherent

-----------------------------------------------------------------------------
(* What a step of one caller leaves as it is.                              *)

ReceiptsKept == \A e \in Executions : Whole(receipt[e]) => receipt'[e] = receipt[e]

FilesKept(e) ==
  /\ intent'[e] = intent[e] /\ receipt'[e] = receipt[e]
  /\ provided'[e] = provided[e] /\ toolCalls'[e] = toolCalls[e]

DomainsKept ==
  /\ DOMAIN intent' = Executions /\ DOMAIN receipt' = Executions
  /\ DOMAIN provided' = Executions /\ DOMAIN toolCalls' = Executions
  /\ DOMAIN artifact' = DOMAIN Stage /\ DOMAIN call' = Callers

LEMMA ExecutionStands ==
  ASSUME NEW e, ExecutionOK(e), FilesKept(e)
  PROVE  ExecutionOK(e)'
<1>1. IntentOK(e)'
  BY DEF ExecutionOK, IntentOK, FilesKept, Assigned, AgentOrDirect, Shaped, Whole, Fits,
         StagesOf, OnePerStage
<1>2. ReceiptOK(e)'
  BY DEF ExecutionOK, ReceiptOK, FilesKept, Whole
<1>3. UsageOK(e)'
  BY DEF ExecutionOK, UsageOK, FilesKept, Whole
<1> QED BY <1>1, <1>2, <1>3 DEF ExecutionOK

LEMMA ArtifactStands ==
  ASSUME NEW e \in DOMAIN Stage, ArtifactOK(e), artifact'[e] = artifact[e],
         StoresKept, ReceiptsKept
  PROVE  ArtifactOK(e)'
<1>0. e \in Executions
  BY WorkforceAssumption
<1>1. Whole(artifact[e]) => Grounded(Stage[e], artifact[e].sources)'
  BY GroundedStays DEF ArtifactOK
<1>2. artifact[e] \in Stores \cup {Absent, Torn}
  BY DEF ArtifactOK
<1>3. Whole(artifact[e]) /\ Stage[e] # "orchestration" =>
        Receipted(e, [at |-> artifact[e].at, sources |-> artifact[e].sources])'
  BY <1>0 DEF ArtifactOK, Receipted, ReceiptsKept
<1>4. Whole(artifact[e])' = Whole(artifact[e]) /\ artifact[e]' = artifact[e]
  BY DEF Whole
<1> QED BY <1>1, <1>2, <1>3, <1>4 DEF ArtifactOK

(* A caller that did not move is where it was, whatever the others did.    *)
LEMMA OtherCaller ==
  ASSUME NEW d \in Callers, CallerOK(d), call'[d] = call[d], StoresKept, ReceiptsKept,
         call[d].pc \in Holding => FilesKept(call[d].exec),
         At(d, "fillArtifact") => artifact'[call[d].exec] = artifact[call[d].exec]
  PROVE  CallerOK(d)'
<1>1. CallShape(d)' /\ InRuntime(d)' /\ BeforeWork(d)'
  BY DEF CallerOK, CallShape, InRuntime, BeforeWork, AgentOrDirect
<1>2. Asked(d)'
  <2>1. call[d].exec \in DOMAIN Stage /\ ~Ready(d) =>
          Grounded(Stage[call[d].exec], call[d].request.sources)'
    BY GroundedStays DEF CallerOK, Asked
  <2> QED BY <2>1 DEF CallerOK, Asked, Ready, Shaped
<1>3. HolderOK(d)'
  <2>1. CASE call[d].pc \in Holding
    BY <2>1 DEF CallerOK, HolderOK, FilesKept, Filed, ValidateIntent, Accounted, At, Whole
  <2>2. CASE call[d].pc \notin Holding
    BY <2>2 DEF HolderOK, Holding, At
  <2> QED BY <2>1, <2>2
<1>4. AfterRuntime(d)'
  <2>1. ~Ready(d) => call[d].exec \in Executions
    BY DEF CallerOK, Asked
  <2>2. At(d, "returned") => /\ Whole(receipt[call[d].exec])' /\ ValidateReceipt(d)'
                             /\ (receipt[call[d].exec].status = call[d].status)'
    BY <2>1 DEF CallerOK, AfterRuntime, At, Ready, ReceiptsKept, ValidateReceipt, Whole
  <2>3. call[d].pc \in {"saveArtifact", "fillArtifact"} =>
          /\ call[d].exec \in DOMAIN Stage
          /\ Stage[call[d].exec] # "orchestration" =>
               Receipted(call[d].exec, call[d].request)'
    BY <2>1 DEF CallerOK, AfterRuntime, Ready, ReceiptsKept, Receipted, Whole
  <2>4. At(d, "fillArtifact") => (artifact[call[d].exec] = Torn)'
    BY DEF CallerOK, AfterRuntime
  <2> QED BY <2>2, <2>3, <2>4 DEF AfterRuntime, At
<1> QED BY <1>1, <1>2, <1>3, <1>4 DEF CallerOK

LEMMA ExclusiveSymmetric ==
  ASSUME NEW c, NEW d
  PROVE  Exclusive(c, d) <=> Exclusive(d, c)
BY DEF Exclusive

LEMMA ExclusiveStands ==
  ASSUME NEW c, NEW d, Exclusive(c, d), call'[c] = call[c], call'[d] = call[d]
  PROVE  Exclusive(c, d)'
BY DEF Exclusive, At

(* A step of caller c that touches no file.                                *)
LEMMA CallOnly ==
  ASSUME IInv, NEW c \in Callers,
         UNCHANGED <<now, intent, receipt, provided, toolCalls, artifact>>,
         DOMAIN call' = Callers,
         \A d \in Callers \ {c} : call'[d] = call[d],
         CallerOK(c)', \A d \in Callers \ {c} : Exclusive(c, d)'
  PROVE  IInv'
<1>1. StoresKept /\ ReceiptsKept /\ \A e : FilesKept(e)
  BY DEF StoresKept, ReceiptsKept, FilesKept
<1>2. (\A e \in Executions : ExecutionOK(e))'
  BY <1>1, ExecutionStands DEF IInv
<1>3. (\A e \in DOMAIN Stage : ArtifactOK(e))'
  BY <1>1, ArtifactStands DEF IInv
<1>4. (\A d \in Callers : CallerOK(d))'
  BY <1>1, OtherCaller DEF IInv
<1>5. (\A x, y \in Callers : x # y => Exclusive(x, y))'
  BY ExclusiveStands, ExclusiveSymmetric DEF IInv, Exclusive
<1> QED BY <1>2, <1>3, <1>4, <1>5 DEF IInv

LEMMA Receiptless ==
  ASSUME NEW c, CallerOK(c), call[c].pc \in Holding
  PROVE  ~Whole(receipt[call[c].exec])
BY DEF CallerOK, HolderOK, Holding, Whole, Absent, Torn, At

(* A step of caller c under the lock of its execution.                     *)
LEMMA UnderLock ==
  ASSUME IInv, NEW c \in Callers, call[c].pc \in Holding, NEW e, e = call[c].exec,
         UNCHANGED <<now, artifact>>, DomainsKept,
         \A d \in Callers \ {c} : call'[d] = call[d],
         \A x \in Executions \ {e} : FilesKept(x),
         ExecutionOK(e)', CallerOK(c)',
         call'[c].pc # "fillArtifact",
         call'[c].pc \in Holding => call'[c].exec = e
  PROVE  IInv'
<1>1. StoresKept /\ ReceiptsKept
  BY Receiptless DEF StoresKept, ReceiptsKept, FilesKept, IInv
<1>2. (\A x \in Executions : ExecutionOK(x))'
  BY ExecutionStands DEF IInv
<1>3. (\A x \in DOMAIN Stage : ArtifactOK(x))'
  BY <1>1, ArtifactStands DEF IInv
<1>4. ASSUME NEW d \in Callers \ {c}  PROVE CallerOK(d)'
  <2>1. call[d].pc \in Holding => call[d].exec \in Executions \ {call[c].exec}
    BY DEF IInv, CallerOK, Asked, Ready, Holding, Exclusive
  <2> QED BY <2>1, <1>1, OtherCaller DEF IInv
<1>5. ASSUME NEW d \in Callers \ {c}  PROVE Exclusive(c, d)'
  <2>1. Exclusive(c, d)
    BY DEF IInv
  <2> QED BY <2>1 DEF Exclusive, At
<1>6. (\A x, y \in Callers : x # y => Exclusive(x, y))'
  BY <1>5, ExclusiveStands, ExclusiveSymmetric DEF IInv, Exclusive
<1> QED BY <1>2, <1>3, <1>4, <1>6 DEF IInv, DomainsKept

(* A caller that returned or raised.                                       *)
LEMMA Returned ==
  ASSUME NEW c, call'[c] = Idle
  PROVE  /\ CallerOK(c)' /\ call'[c].pc = "idle"
         /\ \A d : Exclusive(c, d)' /\ Exclusive(d, c)'
<1>1. /\ call'[c].pc = "idle" /\ call'[c].evidence = 0 /\ call'[c].status = "FAILED"
      /\ DOMAIN call'[c] = {"pc", "exec", "request", "evidence", "used", "status"}
  BY DEF Idle
<1>2. CallerOK(c)'
  BY <1>1, TwinAssumption
     DEF CallerOK, CallShape, PCs, ExecutionStatus, Asked, Ready, InRuntime, Holding, HolderOK,
         BeforeWork, AfterRuntime, At
<1> QED BY <1>1, <1>2 DEF Exclusive, Holding, At

-----------------------------------------------------------------------------
(* The steps of a call.                                                    *)

CallFields == {"pc", "exec", "request", "evidence", "used", "status"}

LEMMA ReturnStep ==
  ASSUME IInv, NEW c \in Callers, Return(c),
         UNCHANGED <<now, intent, receipt, provided, toolCalls, artifact>>
  PROVE  IInv'
<1>1. call'[c] = Idle /\ DOMAIN call' = Callers
      /\ \A d \in Callers \ {c} : call'[d] = call[d]
  BY DEF Return, IInv
<1>2. CallerOK(c)' /\ \A d \in Callers \ {c} : Exclusive(c, d)'
  BY <1>1, Returned
<1> QED BY <1>1, <1>2, CallOnly

(* A call that begins outside the lock, or turns to a mismatch.            *)
LEMMA OutsideStep ==
  ASSUME IInv, NEW c \in Callers,
         UNCHANGED <<now, intent, receipt, provided, toolCalls, artifact>>,
         DOMAIN call' = Callers, \A d \in Callers \ {c} : call'[d] = call[d],
         CallShape(c)', call'[c].evidence = 0,
         call'[c].pc \in {"lock", "mismatch", "saveArtifact"},
         call'[c].exec \in Executions, Shaped(call'[c].request),
         call'[c].pc = "lock" => AgentOrDirect(call'[c].exec),
         call'[c].exec \in DOMAIN Stage =>
           Grounded(Stage[call'[c].exec], call'[c].request.sources),
         call'[c].pc = "saveArtifact" =>
           /\ call'[c].exec \in DOMAIN Stage
           /\ Stage[call'[c].exec] # "orchestration" =>
                Receipted(call'[c].exec, call'[c].request)
  PROVE  IInv'
<1>1. Asked(c)'
  <2>1. StoresKept
    BY DEF StoresKept
  <2>2. call'[c].exec \in DOMAIN Stage =>
          Grounded(Stage[call[c].exec], call[c].request.sources)'
    BY <2>1 DEF Grounded, Fits, OnePerStage, StagesOf, Stored, Load, Whole, Digest,
                SameArchitecture
  <2> QED BY <2>2 DEF Asked, Shaped
<1>2. InRuntime(c)' /\ BeforeWork(c)' /\ HolderOK(c)'
  BY DEF InRuntime, BeforeWork, HolderOK, Holding, At, AgentOrDirect
<1>3. AfterRuntime(c)'
  BY DEF AfterRuntime, At, Receipted, Whole
<1>4. \A d \in Callers \ {c} : Exclusive(c, d)'
  BY DEF Exclusive, Holding, At
<1> QED BY <1>1, <1>2, <1>3, <1>4, CallOnly DEF CallerOK

LEMMA NowInRange ==
  ASSUME IInv
  PROVE  now \in 1..MaxTime
BY DEF IInv

LEMMA ShapedRequest ==
  ASSUME IInv, NEW S \in SUBSET Digests
  PROVE  Shaped([at |-> now, sources |-> S])
BY NowInRange DEF Shaped, Requests

LEMMA ExecuteStep ==
  ASSUME IInv, NEW c \in Callers, NEW e \in Executions, NEW S \in SUBSET Digests,
         AgentOrDirect(e), e \in DOMAIN Stage => Grounded(Stage[e], S),
         Execute(c, e, S), artifact' = artifact
  PROVE  IInv'
<1> PICK r : r = [at |-> now, sources |-> S]  OBVIOUS
<1>1. Shaped(r) /\ r.sources = S
  BY ShapedRequest
<1>2. DOMAIN call' = Callers /\ \A d \in Callers \ {c} : call'[d] = call[d]
  BY DEF Execute, IInv
<1>3. call'[c] = [Idle EXCEPT !.pc = "lock", !.exec = e, !.request = r]
  BY DEF Execute, IInv
<1>4. /\ DOMAIN call'[c] = CallFields
      /\ call'[c].pc = "lock" /\ call'[c].exec = e /\ call'[c].request = r
      /\ call'[c].evidence = 0 /\ call'[c].status = "FAILED"
  BY <1>3 DEF Idle, CallFields
<1>5. CallShape(c)'
  BY <1>4, TwinAssumption DEF CallShape, PCs, ExecutionStatus, CallFields
<1>6. UNCHANGED <<now, intent, receipt, provided, toolCalls, artifact>>
  BY DEF Execute
<1> QED BY <1>1, <1>2, <1>4, <1>5, <1>6, OutsideStep

LEMMA MismatchStep ==
  ASSUME IInv, NEW c \in Callers, ~Ready(c), Mismatch(c),
         UNCHANGED <<now, intent, receipt, provided, toolCalls, artifact>>
  PROVE  IInv'
<1>1. DOMAIN call' = Callers /\ \A d \in Callers \ {c} : call'[d] = call[d]
  BY DEF Mismatch, IInv
<1>2. call'[c] = [Idle EXCEPT !.pc = "mismatch", !.exec = call[c].exec,
                              !.request = call[c].request]
  BY DEF Mismatch, IInv
<1>3. /\ DOMAIN call'[c] = CallFields
      /\ call'[c].pc = "mismatch" /\ call'[c].exec = call[c].exec
      /\ call'[c].request = call[c].request
      /\ call'[c].evidence = 0 /\ call'[c].status = "FAILED"
  BY <1>2 DEF Idle, CallFields
<1>4. CallShape(c)'
  BY <1>3, TwinAssumption DEF CallShape, PCs, ExecutionStatus, CallFields
<1>5. Asked(c)
  BY DEF IInv, CallerOK
<1> QED BY <1>1, <1>3, <1>4, <1>5, OutsideStep DEF Asked

LEMMA OrchestrationStep ==
  ASSUME IInv, NEW c \in Callers, RunOrchestration(c), artifact' = artifact
  PROVE  IInv'
<1>0. PICK e \in Of("orchestration"), ceo \in Of("ceo"), plan \in Of("plan"),
           arch \in Of("architecture"), eng \in EngineeringChoices, qa \in Of("qa"),
           security \in Of("security"), devops \in Of("devops"),
           docs \in Of("documentation") :
        LET sources == artifact[docs].sources \cup {Digest(docs), Digest(ceo), Digest(plan)}
        IN /\ Ready(c)
           /\ OrchestrationSources(ceo, plan, arch, eng, qa, security, devops, docs)
           /\ ~Whole(artifact[e]) => ValidateDraft
           /\ artifact[e] # Torn
           /\ Whole(artifact[e]) => artifact[e].sources # sources
           /\ call' = [call EXCEPT ![c] = [Idle EXCEPT
                !.pc = IF Whole(artifact[e]) THEN "mismatch" ELSE "saveArtifact",
                !.exec = e,
                !.request = [at |-> now, sources |-> sources]]]
           /\ UNCHANGED <<now, intent, receipt, provided, toolCalls, faults>>
  BY DEF RunOrchestration
<1>1. Load(ceo) /\ Load(plan) /\ Load(docs)
  BY <1>0 DEF OrchestrationSources
<1> PICK S : S = artifact[docs].sources \cup {Digest(docs), Digest(ceo), Digest(plan)}
  OBVIOUS
<1> PICK r : r = [at |-> now, sources |-> S]  OBVIOUS
<1>2. Grounded("orchestration", S)
  BY <1>1, OrchestrationGrounded DEF IInv
<1>3. Shaped(r) /\ r.sources = S
  BY <1>2, ShapedRequest DEF Grounded, Fits
<1>4. e \in DOMAIN Stage /\ e \in Executions /\ Stage[e] = "orchestration"
  BY WorkforceAssumption DEF Of
<1>5. DOMAIN call' = Callers /\ \A d \in Callers \ {c} : call'[d] = call[d]
  BY <1>0 DEF IInv
<1>6. call'[c] = [Idle EXCEPT !.pc = IF Whole(artifact[e]) THEN "mismatch" ELSE "saveArtifact",
                              !.exec = e, !.request = r]
  BY <1>0 DEF IInv
<1>7. /\ DOMAIN call'[c] = CallFields
      /\ call'[c].pc \in {"mismatch", "saveArtifact"} /\ call'[c].exec = e
      /\ call'[c].request = r /\ call'[c].evidence = 0 /\ call'[c].status = "FAILED"
  BY <1>6 DEF Idle, CallFields
<1>8. CallShape(c)'
  BY <1>7, TwinAssumption DEF CallShape, PCs, ExecutionStatus, CallFields
<1> QED BY <1>0, <1>2, <1>3, <1>4, <1>5, <1>7, <1>8, OutsideStep, ZenonT(60)

LEMMA UpstreamOf ==
  /\ Upstream("ceo") = {} /\ Upstream("plan") = {"ceo"} /\ Upstream("architecture") = {"plan"}
  /\ \A r \in EngineeringRoles : Upstream(r) = {"architecture"}
  /\ Upstream("security") = Upstream("qa") \cup {"qa"} /\ "qa" \notin Upstream("qa")
  /\ Upstream("devops") = Upstream("security") \cup {"security"}
  /\ "security" \notin Upstream("security")
  /\ Upstream("documentation") = Upstream("devops") \cup {"devops"}
  /\ "devops" \notin Upstream("devops")
BY DEF Upstream, QASourceAgents, EngineeringRoles

LEMMA OfStage ==
  ASSUME NEW s, NEW e \in Of(s)
  PROVE  e \in DOMAIN Stage /\ e \in Executions /\ Stage[e] = s
BY WorkforceAssumption DEF Of

LEMMA AgentStep ==
  ASSUME IInv, NEW c \in Callers, NEW s \in Agents, NEW e \in Of(s), NEW S, Grounded(s, S),
         Execute(c, e, S), artifact' = artifact
  PROVE  IInv'
<1>1. e \in DOMAIN Stage /\ e \in Executions /\ Stage[e] = s
  BY OfStage
<1>2. S \in SUBSET Digests /\ AgentOrDirect(e)
  BY <1>1 DEF Grounded, Fits, AgentOrDirect
<1> QED BY <1>1, <1>2, ExecuteStep

LEMMA RunStep ==
  ASSUME IInv, NEW c \in Callers, Run(c), artifact' = artifact
  PROVE  IInv'
<1>0. \A x \in DOMAIN Stage : ArtifactOK(x)
  BY DEF IInv
<1>1. CASE RunCeo(c)
  <2>1. PICK e \in Of("ceo") : Execute(c, e, {})
    BY <1>1 DEF RunCeo
  <2>2. Grounded("ceo", {})
    BY NoSources, UpstreamOf, GroundedIsCoherent
  <2> QED BY <2>1, <2>2, AgentStep DEF Agents
<1>2. CASE RunProductManager(c)
  <2>1. PICK e \in Of("plan"), ceo \in Of("ceo") :
          Load(ceo) /\ Execute(c, e, {Digest(ceo)})
    BY <1>2 DEF RunProductManager, CeoHandoff, ProductManagerRequest
  <2>2. Grounded("plan", {Digest(ceo)})
    BY <1>0, <2>1, OfStage, UpstreamOf, GroundedAlone
  <2> QED BY <2>1, <2>2, AgentStep DEF Agents
<1>3. CASE RunArchitect(c)
  <2>1. PICK e \in Of("architecture"), plan \in Of("plan") :
          Load(plan) /\ Execute(c, e, {Digest(plan)})
    BY <1>3 DEF RunArchitect, ArchitectureSource, ArchitectureRequest
  <2>2. Grounded("architecture", {Digest(plan)})
    BY <1>0, <2>1, OfStage, UpstreamOf, GroundedAlone
  <2> QED BY <2>1, <2>2, AgentStep DEF Agents
<1>4. CASE RunEngineer(c)
  <2>0. PICK r \in EngineeringRoles : \E e \in Of(r), arch \in Of("architecture") :
          Load(arch) /\ Execute(c, e, {Digest(arch)})
    BY <1>4 DEF RunEngineer, EngineeringSource, EngineeringRequest
  <2>1. PICK e \in Of(r), arch \in Of("architecture") :
          Load(arch) /\ Execute(c, e, {Digest(arch)})
    BY <2>0
  <2>2. Grounded(r, {Digest(arch)})
    BY <1>0, <2>1, OfStage, UpstreamOf, GroundedAlone
  <2> QED BY <2>1, <2>2, AgentStep DEF Agents
<1>5. CASE RunQA(c)
  <2>1. PICK e \in Of("qa"), arch \in Of("architecture"), eng \in EngineeringChoices :
          QASources(arch, eng) /\ Execute(c, e, QARequest(arch, eng))
    BY <1>5 DEF RunQA
  <2>2. Grounded("qa", QARequest(arch, eng))
    BY <1>0, <2>1, QAGrounded
  <2> QED BY <2>1, <2>2, AgentStep DEF Agents
<1>6. CASE RunSecurity(c)
  <2>1. PICK e \in Of("security"), qa \in Of("qa") :
          Load(qa) /\ Execute(c, e, artifact[qa].sources \cup {Digest(qa)})
    BY <1>6 DEF RunSecurity, SecuritySources, SecurityRequest
  <2>2. Grounded("security", artifact[qa].sources \cup {Digest(qa)})
    BY <1>0, <2>1, OfStage, UpstreamOf, GroundedNext
  <2> QED BY <2>1, <2>2, AgentStep DEF Agents
<1>7. CASE RunDevOps(c)
  <2>1. PICK e \in Of("devops"), security \in Of("security") :
          Load(security) /\ Execute(c, e, artifact[security].sources \cup {Digest(security)})
    BY <1>7 DEF RunDevOps, DevOpsSources, DevOpsRequest
  <2>2. Grounded("devops", artifact[security].sources \cup {Digest(security)})
    BY <1>0, <2>1, OfStage, UpstreamOf, GroundedNext
  <2> QED BY <2>1, <2>2, AgentStep DEF Agents
<1>8. CASE RunDocumentation(c)
  <2>1. PICK e \in Of("documentation"), devops \in Of("devops") :
          Load(devops) /\ Execute(c, e, artifact[devops].sources \cup {Digest(devops)})
    BY <1>8 DEF RunDocumentation, DocumentationSources, DocumentationRequest
  <2>2. Grounded("documentation", artifact[devops].sources \cup {Digest(devops)})
    BY <1>0, <2>1, OfStage, UpstreamOf, GroundedNext
  <2> QED BY <2>1, <2>2, AgentStep DEF Agents
<1>9. CASE RunOrchestration(c)
  BY <1>9, OrchestrationStep
<1>10. CASE RunDirect(c)
  <2>1. PICK e \in Direct : Execute(c, e, {})
    BY <1>10 DEF RunDirect
  <2>2. e \in Executions /\ e \notin DOMAIN Stage /\ AgentOrDirect(e)
    BY DEF Direct, AgentOrDirect
  <2> QED BY <2>1, <2>2, ExecuteStep
<1> QED BY <1>1, <1>2, <1>3, <1>4, <1>5, <1>6, <1>7, <1>8, <1>9, <1>10 DEF Run

-----------------------------------------------------------------------------
(* The steps under the lock.                                               *)

(* Caller c goes on with the request it has.                               *)
GoesOn(c, pc) ==
  /\ DOMAIN call' = Callers /\ \A d \in Callers \ {c} : call'[d] = call[d]
  /\ DOMAIN call'[c] = CallFields
  /\ call'[c].pc = pc /\ call'[c].exec = call[c].exec
  /\ call'[c].request = call[c].request

LEMMA GotoGoesOn ==
  ASSUME IInv, NEW c \in Callers, NEW pc, Goto(c, pc)
  PROVE  /\ GoesOn(c, pc)
         /\ call'[c].evidence = call[c].evidence /\ call'[c].status = call[c].status
<1>1. /\ DOMAIN call = Callers
      /\ DOMAIN call[c] = {"pc", "exec", "request", "evidence", "used", "status"}
  BY DEF IInv, CallerOK, CallShape
<1> QED BY <1>1 DEF Goto, GoesOn, CallFields

InCall == {"lock", "returned"} \cup Holding

LEMMA StillAsked ==
  ASSUME NEW c \in Callers, CallerOK(c), call[c].pc \in InCall, NEW pc, GoesOn(c, pc),
         artifact' = artifact
  PROVE  /\ Asked(c)' /\ InRuntime(c)'
         /\ call[c].exec \in Executions /\ AgentOrDirect(call[c].exec)
<1>1. StoresKept
  BY DEF StoresKept
<1>2. /\ call[c].exec \in Executions /\ Shaped(call[c].request)
      /\ call[c].exec \in DOMAIN Stage => Grounded(Stage[call[c].exec], call[c].request.sources)
      /\ AgentOrDirect(call[c].exec)
  BY DEF CallerOK, Asked, InRuntime, InCall, Ready, Holding
<1>3. call[c].exec \in DOMAIN Stage =>
        Grounded(Stage[call[c].exec], call[c].request.sources)'
  <2>1. call[c].exec \in DOMAIN Stage =>
          (Fits(Stage[call[c].exec], call[c].request.sources))'
    BY <1>2 DEF GoesOn, Grounded, Fits, StagesOf, OnePerStage
  <2>2. call[c].exec \in DOMAIN Stage => (Stored(call[c].request.sources))'
    BY <1>2 DEF GoesOn, Grounded, Stored, Load, Digest, Whole
  <2>3. call[c].exec \in DOMAIN Stage => (SameArchitecture(call[c].request.sources))'
    BY <1>2 DEF GoesOn, Grounded, SameArchitecture
  <2> QED BY <2>1, <2>2, <2>3 DEF Grounded, GoesOn
<1> QED BY <1>2, <1>3 DEF GoesOn, Asked, InRuntime, Shaped, AgentOrDirect

LEMMA RequestOfFiles ==
  ASSUME IInv, NEW e \in Executions
  PROVE  /\ intent[e] # Absent /\ intent[e] # Torn => Whole(intent[e])
         /\ receipt[e] # Absent /\ receipt[e] # Torn => Whole(receipt[e])
BY DEF IInv, ExecutionOK, IntentOK, ReceiptOK, Whole, DigitalTwinExecutionIntent,
       DigitalTwinExecutionReceipt

LEMMA AcquireLockStep ==
  ASSUME IInv, NEW c \in Callers, AcquireLock(c), artifact' = artifact
  PROVE  IInv'
<1> PICK e : e = call[c].exec  OBVIOUS
<1>0. /\ UNCHANGED <<now, intent, receipt, provided, toolCalls, artifact>>
      /\ call[c].pc = "lock" /\ Unlocked(c) /\ ~Ready(c)
      /\ CallerOK(c) /\ call[c].pc \in InCall
  BY DEF AcquireLock, At, Ready, IInv, InCall
<1>1. CASE Return(c)
  BY <1>0, <1>1, ReturnStep
<1>2. CASE Mismatch(c)
  BY <1>0, <1>2, MismatchStep
<1>3. CASE /\ Whole(receipt[e]) /\ ValidateReceipt(c)
           /\ call' = [call EXCEPT ![c].pc = "returned", ![c].status = receipt[e].status]
  <2>1. /\ DOMAIN call = Callers
        /\ DOMAIN call[c] = {"pc", "exec", "request", "evidence", "used", "status"}
    BY DEF IInv, CallerOK, CallShape
  <2>2. /\ GoesOn(c, "returned") /\ call'[c].evidence = call[c].evidence
        /\ call'[c].status = receipt[e].status
    BY <1>3, <2>1 DEF GoesOn, CallFields
  <2>3. Asked(c)' /\ InRuntime(c)' /\ e \in Executions
    BY <1>0, <2>2, StillAsked
  <2>4. receipt[e] \in DigitalTwinExecutionReceipt(SUBSET Digests)
    BY <1>3, <2>3, WholeFile DEF IInv, ExecutionOK, ReceiptOK
  <2>5. CallShape(c)'
    BY <1>0, <2>2, <2>4 DEF GoesOn, CallShape, CallerOK, CallFields, PCs,
                            DigitalTwinExecutionReceipt
  <2>6. HolderOK(c)' /\ BeforeWork(c)'
    BY <2>2 DEF GoesOn, HolderOK, BeforeWork, Holding, At
  <2>7. AfterRuntime(c)'
    BY <1>0, <1>3, <2>2 DEF GoesOn, AfterRuntime, At, ValidateReceipt, Whole
  <2>8. \A d \in Callers \ {c} : Exclusive(c, d)'
    BY <2>2 DEF GoesOn, Exclusive, Holding, At
  <2>9. CallerOK(c)'
    BY <2>3, <2>5, <2>6, <2>7 DEF CallerOK
  <2> QED BY <1>0, <2>2, <2>8, <2>9, CallOnly DEF GoesOn
<1>4. ASSUME NEW pc \in {"saveIntent", "start"}, Goto(c, pc), receipt[e] = Absent,
             pc = "saveIntent" => intent[e] = Absent,
             pc = "start" => Whole(intent[e]) /\ ValidateIntent(c) /\ e \notin LiveExecutions
      PROVE  IInv'
  <2>2. /\ GoesOn(c, pc) /\ call'[c].evidence = call[c].evidence
        /\ call'[c].status = call[c].status
    BY <1>4, GotoGoesOn
  <2>3. Asked(c)' /\ InRuntime(c)'
    BY <1>0, <2>2, StillAsked
  <2>5. CallShape(c)'
    BY <1>0, <2>2 DEF GoesOn, CallShape, CallerOK, CallFields, PCs, Holding
  <2>6. BeforeWork(c)'
    BY <1>0, <2>2 DEF CallerOK, BeforeWork
  <2>7. HolderOK(c)'
    BY <1>0, <1>4, <2>2 DEF GoesOn, HolderOK, At, Filed, ValidateIntent, Whole
  <2>8. AfterRuntime(c)'
    BY <2>2 DEF GoesOn, AfterRuntime, At
  <2>9. \A d \in Callers \ {c} : Exclusive(c, d)'
    BY <1>0, <2>2 DEF GoesOn, Exclusive, Unlocked, At, Holding
  <2>10. CallerOK(c)'
    BY <2>3, <2>5, <2>6, <2>7, <2>8 DEF CallerOK
  <2> QED BY <1>0, <2>2, <2>9, <2>10, CallOnly DEF GoesOn
<1>5. \/ Return(c) \/ Mismatch(c)
      \/ /\ Whole(receipt[e]) /\ ValidateReceipt(c)
         /\ call' = [call EXCEPT ![c].pc = "returned", ![c].status = receipt[e].status]
      \/ intent[e] = Absent /\ receipt[e] = Absent /\ Goto(c, "saveIntent")
      \/ /\ Whole(intent[e]) /\ receipt[e] = Absent /\ ValidateIntent(c)
         /\ e \notin LiveExecutions /\ Goto(c, "start")
  BY DEF AcquireLock
<1> QED BY <1>1, <1>2, <1>3, <1>4, <1>5

LEMMA FileForms ==
  ~Whole(Absent) /\ ~Whole(Torn) /\ Absent # Torn
BY DEF Whole, Absent, Torn

(* Every step under the lock: what it does to the caller, and to the files *)
(* of its execution.                                                       *)
LEMMA HolderGoesOn ==
  ASSUME IInv, NEW c \in Callers, call[c].pc \in Holding, NEW e, e = call[c].exec,
         NEW pc \in Holding \cup {"returned"}, GoesOn(c, pc),
         call'[c].evidence \in 0..MaxToolCalls, call'[c].status \in ExecutionStatus,
         UNCHANGED <<now, artifact>>, DomainsKept,
         \A x \in Executions \ {e} : FilesKept(x),
         ExecutionOK(e)', HolderOK(c)', BeforeWork(c)', AfterRuntime(c)'
  PROVE  IInv'
<1>1. CallerOK(c) /\ call[c].pc \in InCall
  BY DEF IInv, InCall
<1>2. Asked(c)' /\ InRuntime(c)'
  BY <1>1, StillAsked
<1>3. CallShape(c)'
  BY DEF GoesOn, CallShape, CallFields, PCs, Holding
<1>4. CallerOK(c)'
  BY <1>2, <1>3 DEF CallerOK
<1>5. call'[c].pc # "fillArtifact" /\ call'[c].exec = e
      /\ \A d \in Callers \ {c} : call'[d] = call[d]
  BY DEF GoesOn, Holding
<1> QED BY <1>4, <1>5, UnderLock

LEMMA HolderReturns ==
  ASSUME IInv, NEW c \in Callers, call[c].pc \in Holding, NEW e, e = call[c].exec,
         Return(c), UNCHANGED <<now, artifact>>,
         DOMAIN intent' = Executions, DOMAIN receipt' = Executions,
         DOMAIN provided' = Executions, DOMAIN toolCalls' = Executions,
         \A x \in Executions \ {e} : FilesKept(x), ExecutionOK(e)'
  PROVE  IInv'
<1>1. call'[c] = Idle /\ DOMAIN call' = Callers
      /\ \A d \in Callers \ {c} : call'[d] = call[d]
  BY DEF Return, IInv
<1>2. CallerOK(c)' /\ call'[c].pc = "idle"
  BY <1>1, Returned
<1>3. DomainsKept
  BY <1>1 DEF DomainsKept, IInv
<1> QED BY <1>1, <1>2, <1>3, UnderLock DEF Holding

LEMMA HolderFacts ==
  ASSUME IInv, NEW c \in Callers, call[c].pc \in Holding, NEW e, e = call[c].exec
  PROVE  /\ e \in Executions /\ ExecutionOK(e) /\ HolderOK(c) /\ BeforeWork(c)
         /\ Shaped(call[c].request) /\ AgentOrDirect(e)
         /\ e \in DOMAIN Stage => Fits(Stage[e], call[c].request.sources)
         /\ call[c].evidence \in 0..MaxToolCalls /\ call[c].status \in ExecutionStatus
         /\ DOMAIN intent = Executions /\ DOMAIN receipt = Executions
         /\ DOMAIN provided = Executions /\ DOMAIN toolCalls = Executions
         /\ DOMAIN artifact = DOMAIN Stage /\ DOMAIN call = Callers
BY DEF IInv, CallerOK, CallShape, Asked, InRuntime, Ready, Holding, Grounded

LEMMA SaveIntentStep ==
  ASSUME IInv, NEW c \in Callers, SaveIntent(c), artifact' = artifact
  PROVE  IInv'
<1> PICK e : e = call[c].exec  OBVIOUS
<1>0. call[c].pc = "saveIntent" /\ call[c].pc \in Holding
  BY DEF SaveIntent, At, Holding
<1>1. /\ e \in Executions /\ ExecutionOK(e) /\ HolderOK(c) /\ BeforeWork(c)
      /\ call[c].evidence \in 0..MaxToolCalls /\ call[c].status \in ExecutionStatus
      /\ DOMAIN intent = Executions /\ DOMAIN receipt = Executions
      /\ DOMAIN provided = Executions /\ DOMAIN toolCalls = Executions
      /\ DOMAIN artifact = DOMAIN Stage
  BY <1>0, HolderFacts
<1>2. intent[e] = Absent /\ receipt[e] = Absent
  BY <1>0, <1>1 DEF HolderOK, At
<1>3. Goto(c, "fillIntent")
  BY <1>2, FileForms DEF SaveIntent, Goto
<1>4. /\ GoesOn(c, "fillIntent") /\ call'[c].evidence = call[c].evidence
      /\ call'[c].status = call[c].status
  BY <1>3, GotoGoesOn
<1>5. intent' = [intent EXCEPT ![e] = Torn]
      /\ UNCHANGED <<now, receipt, provided, toolCalls, faults>>
  BY <1>2 DEF SaveIntent
<1>6. /\ intent'[e] = Torn /\ DOMAIN intent' = Executions
      /\ \A x \in Executions \ {e} : FilesKept(x)
  BY <1>1, <1>5 DEF FilesKept
<1>7. DomainsKept
  BY <1>1, <1>4, <1>5, <1>6 DEF DomainsKept, GoesOn
<1>8. ExecutionOK(e)'
  <2>1. IntentOK(e)'
    BY <1>6, FileForms DEF IntentOK
  <2>2. ReceiptOK(e)' /\ UsageOK(e)'
    BY <1>1, <1>2, <1>5, <1>6, FileForms DEF ExecutionOK, ReceiptOK, UsageOK
  <2> QED BY <2>1, <2>2 DEF ExecutionOK
<1>9. HolderOK(c)' /\ BeforeWork(c)' /\ AfterRuntime(c)'
  BY <1>0, <1>1, <1>2, <1>4, <1>5, <1>6 DEF GoesOn, HolderOK, BeforeWork, AfterRuntime, At
<1> QED BY <1>0, <1>1, <1>4, <1>5, <1>6, <1>7, <1>8, <1>9, HolderGoesOn DEF Holding

LEMMA FillIntentStep ==
  ASSUME IInv, NEW c \in Callers, FillIntent(c), artifact' = artifact
  PROVE  IInv'
<1> PICK e : e = call[c].exec  OBVIOUS
<1>0. call[c].pc = "fillIntent" /\ call[c].pc \in Holding
  BY DEF FillIntent, At, Holding
<1>1. /\ e \in Executions /\ ExecutionOK(e) /\ HolderOK(c) /\ BeforeWork(c)
      /\ Shaped(call[c].request) /\ AgentOrDirect(e)
      /\ e \in DOMAIN Stage => Fits(Stage[e], call[c].request.sources)
      /\ call[c].evidence \in 0..MaxToolCalls /\ call[c].status \in ExecutionStatus
      /\ DOMAIN intent = Executions /\ DOMAIN receipt = Executions
      /\ DOMAIN provided = Executions /\ DOMAIN toolCalls = Executions
      /\ DOMAIN artifact = DOMAIN Stage
  BY <1>0, HolderFacts
<1>2. intent[e] = Torn /\ receipt[e] = Absent /\ provided[e] = 0
  BY <1>0, <1>1, FileForms DEF HolderOK, At, ExecutionOK, UsageOK
<1>3. UNCHANGED <<now, receipt, provided, toolCalls>>
  BY DEF FillIntent
<1>4. ReceiptOK(e)' /\ UsageOK(e)'
  BY <1>1, <1>2, <1>3, FileForms DEF ExecutionOK, ReceiptOK, UsageOK
<1>5. CASE /\ intent' = [intent EXCEPT ![e] = [file |-> "whole", request |-> call[c].request]]
           /\ Goto(c, "start")
  <2> PICK f : f = [file |-> "whole", request |-> call[c].request]  OBVIOUS
  <2>1. /\ f \in DigitalTwinExecutionIntent(SUBSET Digests)
        /\ Whole(f) /\ f.request = call[c].request
    BY <1>1 DEF DigitalTwinExecutionIntent, Shaped, Whole
  <2>2. /\ intent'[e] = f /\ DOMAIN intent' = Executions
        /\ \A x \in Executions \ {e} : FilesKept(x)
    BY <1>1, <1>3, <1>5 DEF FilesKept
  <2>3. /\ GoesOn(c, "start") /\ call'[c].evidence = call[c].evidence
        /\ call'[c].status = call[c].status
    BY <1>5, GotoGoesOn
  <2>4. DomainsKept
    BY <1>1, <1>3, <2>2, <2>3 DEF DomainsKept, GoesOn
  <2>5. IntentOK(e)'
    <3>1. Assigned(e, call[c].request)
      BY <1>1 DEF Assigned
    <3>2. Assigned(e, f.request)' <=> Assigned(e, call[c].request)
      BY <2>1 DEF Assigned, Shaped, AgentOrDirect, Fits, StagesOf, OnePerStage
    <3>3. Assigned(e, intent[e].request)'
      BY <3>1, <3>2, <2>2 DEF Assigned, Shaped, AgentOrDirect, Fits, StagesOf, OnePerStage
    <3> QED BY <2>1, <2>2, <3>3 DEF IntentOK
  <2>6. ExecutionOK(e)'
    BY <2>5, <1>4 DEF ExecutionOK
  <2>7. HolderOK(c)' /\ BeforeWork(c)' /\ AfterRuntime(c)'
    BY <1>0, <1>1, <1>2, <1>3, <2>1, <2>2, <2>3
       DEF GoesOn, HolderOK, BeforeWork, AfterRuntime, At, Filed, ValidateIntent, Whole
  <2> QED BY <1>0, <1>1, <1>3, <2>2, <2>3, <2>4, <2>6, <2>7, HolderGoesOn DEF Holding
<1>6. CASE intent' = [intent EXCEPT ![e] = Absent] /\ Return(c)
  <2>1. /\ intent'[e] = Absent /\ DOMAIN intent' = Executions
        /\ \A x \in Executions \ {e} : FilesKept(x)
    BY <1>1, <1>3, <1>6 DEF FilesKept
  <2>2. ExecutionOK(e)'
    BY <2>1, <1>4, FileForms DEF ExecutionOK, IntentOK
  <2> QED BY <1>0, <1>1, <1>3, <1>6, <2>1, <2>2, HolderReturns
<1> QED BY <1>5, <1>6 DEF FillIntent

LEMMA StartProviderStep ==
  ASSUME IInv, NEW c \in Callers, StartProvider(c), artifact' = artifact
  PROVE  IInv'
<1> PICK e : e = call[c].exec  OBVIOUS
<1>0. call[c].pc = "start" /\ call[c].pc \in Holding
  BY DEF StartProvider, At, Holding
<1>1. /\ e \in Executions /\ ExecutionOK(e) /\ HolderOK(c) /\ BeforeWork(c)
      /\ call[c].evidence \in 0..MaxToolCalls /\ call[c].status \in ExecutionStatus
      /\ DOMAIN intent = Executions /\ DOMAIN receipt = Executions
      /\ DOMAIN provided = Executions /\ DOMAIN toolCalls = Executions
      /\ DOMAIN artifact = DOMAIN Stage
  BY <1>0, HolderFacts
<1>2. /\ Filed(c) /\ receipt[e] = Absent /\ call[c].evidence = 0
      /\ e \in LiveExecutions => provided[e] = 0
  BY <1>0, <1>1 DEF HolderOK, BeforeWork, At
<1>3. /\ GoesOn(c, "work") /\ call'[c].evidence = call[c].evidence
      /\ call'[c].status = call[c].status
  BY GotoGoesOn DEF StartProvider
<1>4. UNCHANGED <<now, intent, receipt, toolCalls>>
  BY DEF StartProvider
<1>5. /\ provided'[e] = provided[e] + 1 /\ DOMAIN provided' = Executions
      /\ \A x \in Executions \ {e} : FilesKept(x)
  BY <1>1, <1>4 DEF StartProvider, FilesKept
<1>6. DomainsKept
  BY <1>1, <1>3, <1>4, <1>5 DEF DomainsKept, GoesOn
<1> PICK n : n = toolCalls[e].count  OBVIOUS
<1> PICK p : p = provided[e]  OBVIOUS
<1>7. n \in Nat /\ p \in Nat /\ n <= MaxToolCalls * p /\ MaxToolCalls \in Nat
  BY <1>1, TwinAssumption DEF ExecutionOK, UsageOK
<1>8. n + MaxToolCalls <= MaxToolCalls * (p + 1) /\ n <= MaxToolCalls * (p + 1)
  BY <1>7
<1>9. p + 1 = 1 => n = 0
  <2>1. MaxToolCalls * 0 = 0
    BY <1>7
  <2>2. ASSUME p = 0 PROVE n = 0
    BY <1>7, <2>1, <2>2
  <2>3. p + 1 = 1 => p = 0
    BY <1>7
  <2> QED BY <2>2, <2>3
<1>10. ExecutionOK(e)'
  <2>1. IntentOK(e)'
    BY <1>1, <1>4 DEF ExecutionOK, IntentOK, Assigned, Shaped, AgentOrDirect, Fits,
                      StagesOf, OnePerStage, Whole
  <2>2. ReceiptOK(e)'
    BY <1>1, <1>2, <1>4, FileForms DEF ExecutionOK, ReceiptOK
  <2>3. UsageOK(e)'
    BY <1>1, <1>2, <1>4, <1>5, <1>7, <1>8, FileForms
       DEF ExecutionOK, UsageOK, Filed, Whole
  <2> QED BY <2>1, <2>2, <2>3 DEF ExecutionOK
<1>11. HolderOK(c)' /\ BeforeWork(c)' /\ AfterRuntime(c)'
  <2>1. Accounted(c)'
    BY <1>2, <1>3, <1>4, <1>5, <1>7, <1>8, <1>9 DEF GoesOn, Accounted
  <2> QED BY <2>1, <1>2, <1>3, <1>4
          DEF GoesOn, HolderOK, BeforeWork, AfterRuntime, At, Filed, ValidateIntent, Whole
<1> QED BY <1>0, <1>1, <1>3, <1>4, <1>5, <1>6, <1>10, <1>11, HolderGoesOn
        DEF StartProvider, Holding

LEMMA IntentStands ==
  ASSUME NEW e, IntentOK(e), intent' = intent
  PROVE  IntentOK(e)'
BY DEF IntentOK, Assigned, Shaped, AgentOrDirect, Fits, StagesOf, OnePerStage, Whole

(* What a caller that is working has done so far.                          *)
LEMMA WorkerFacts ==
  ASSUME IInv, NEW c \in Callers,
         call[c].pc \in {"work", "tool", "saveReceipt", "fillReceipt"},
         NEW e, e = call[c].exec
  PROVE  /\ Filed(c) /\ Accounted(c) /\ ~Whole(receipt[e])
         /\ call[c].pc \in {"work", "tool", "saveReceipt"} => receipt[e] = Absent
         /\ call[c].pc = "fillReceipt" => receipt[e] = Torn
<1>1. HolderOK(c) /\ CallerOK(c)
  BY DEF IInv, CallerOK
<1>2. ~Whole(receipt[e])
  BY <1>1, Receiptless DEF Holding
<1> QED BY <1>1, <1>2 DEF HolderOK, At

(* From "work", without a new tool call.                                   *)
LEMMA StopWorking ==
  ASSUME IInv, NEW c \in Callers, call[c].pc = "work", GoesOn(c, "saveReceipt"),
         call'[c].evidence = call[c].evidence, call'[c].status \in ExecutionStatus,
         UNCHANGED <<now, intent, receipt, provided, toolCalls, artifact>>
  PROVE  IInv'
<1> PICK e : e = call[c].exec  OBVIOUS
<1>0. call[c].pc \in Holding /\ "saveReceipt" \in Holding
  BY DEF Holding
<1>1. /\ e \in Executions /\ ExecutionOK(e)
      /\ call[c].evidence \in 0..MaxToolCalls
  BY <1>0, HolderFacts
<1>2. Filed(c) /\ Accounted(c) /\ receipt[e] = Absent
  BY WorkerFacts
<1>3. \A x : FilesKept(x)
  BY DEF FilesKept
<1>4. DomainsKept
  BY DEF DomainsKept, GoesOn, IInv
<1>5. ExecutionOK(e)'
  BY <1>1, <1>3, ExecutionStands
<1>6. HolderOK(c)' /\ BeforeWork(c)' /\ AfterRuntime(c)'
  <2>1. Accounted(c)' /\ Filed(c)'
    BY <1>2 DEF GoesOn, Accounted, Filed, ValidateIntent, Whole
  <2> QED BY <2>1, <1>2 DEF GoesOn, HolderOK, BeforeWork, AfterRuntime, At
<1> QED BY <1>0, <1>1, <1>3, <1>4, <1>5, <1>6, HolderGoesOn

LEMMA ConcludeStep ==
  ASSUME IInv, NEW c \in Callers, Conclude(c), artifact' = artifact
  PROVE  IInv'
<1>0. /\ call[c].pc = "work" /\ UNCHANGED <<now, intent, receipt, provided, toolCalls>>
      /\ \/ call' = [call EXCEPT ![c].pc = "saveReceipt", ![c].status = "SUCCEEDED"]
         \/ Goto(c, "saveReceipt")
  BY DEF Conclude, At
<1>1. /\ DOMAIN call = Callers
      /\ DOMAIN call[c] = {"pc", "exec", "request", "evidence", "used", "status"}
      /\ call[c].status \in ExecutionStatus
  BY DEF IInv, CallerOK, CallShape
<1>2. CASE call' = [call EXCEPT ![c].pc = "saveReceipt", ![c].status = "SUCCEEDED"]
  <2>1. /\ GoesOn(c, "saveReceipt") /\ call'[c].evidence = call[c].evidence
        /\ call'[c].status = "SUCCEEDED"
    BY <1>1, <1>2 DEF GoesOn, CallFields
  <2> QED BY <1>0, <2>1, StopWorking DEF ExecutionStatus
<1>3. CASE Goto(c, "saveReceipt")
  <2>1. /\ GoesOn(c, "saveReceipt") /\ call'[c].evidence = call[c].evidence
        /\ call'[c].status = call[c].status
    BY <1>3, GotoGoesOn
  <2> QED BY <1>0, <1>1, <2>1, StopWorking
<1> QED BY <1>0, <1>2, <1>3

LEMMA InvokeToolStep ==
  ASSUME IInv, NEW c \in Callers, InvokeTool(c), artifact' = artifact
  PROVE  IInv'
<1> PICK e : e = call[c].exec  OBVIOUS
<1>0. /\ call[c].pc = "work" /\ call[c].pc \in Holding
      /\ UNCHANGED <<now, intent, receipt, provided>>
  BY DEF InvokeTool, At, Holding
<1>1. /\ e \in Executions /\ ExecutionOK(e)
      /\ call[c].evidence \in 0..MaxToolCalls /\ call[c].status \in ExecutionStatus
      /\ DOMAIN intent = Executions /\ DOMAIN receipt = Executions
      /\ DOMAIN provided = Executions /\ DOMAIN toolCalls = Executions
      /\ DOMAIN artifact = DOMAIN Stage /\ DOMAIN call = Callers
  BY <1>0, HolderFacts
<1>2. Filed(c) /\ Accounted(c) /\ receipt[e] = Absent
  BY <1>0, WorkerFacts
<1>3. CASE ~WithinBudget(c)
  <2>1. Goto(c, "saveReceipt") /\ toolCalls' = toolCalls
    BY <1>3 DEF InvokeTool
  <2>2. /\ GoesOn(c, "saveReceipt") /\ call'[c].evidence = call[c].evidence
        /\ call'[c].status = call[c].status
    BY <2>1, GotoGoesOn
  <2> QED BY <1>0, <1>1, <2>1, <2>2, StopWorking
<1>4. CASE WithinBudget(c)
  <2>1. toolCalls' = [toolCalls EXCEPT ![e] = [count |-> @.count + 1, last |-> now]]
    BY <1>4 DEF InvokeTool
  <2>2. call' = [call EXCEPT ![c].evidence = @ + 1, ![c].pc = "tool"]
    BY <1>4 DEF InvokeTool
  <2>3. DOMAIN call[c] = {"pc", "exec", "request", "evidence", "used", "status"}
    BY DEF IInv, CallerOK, CallShape
  <2>4. /\ GoesOn(c, "tool") /\ call'[c].evidence = call[c].evidence + 1
        /\ call'[c].status = call[c].status
    BY <1>1, <2>2, <2>3 DEF GoesOn, CallFields
  <2>5. /\ DOMAIN toolCalls' = Executions /\ DOMAIN toolCalls'[e] = {"count", "last"}
        /\ toolCalls'[e].count = toolCalls[e].count + 1 /\ toolCalls'[e].last = now
        /\ \A x \in Executions \ {e} : FilesKept(x)
    BY <1>0, <1>1, <2>1 DEF FilesKept
  <2>6. DomainsKept
    BY <1>0, <1>1, <2>4, <2>5 DEF DomainsKept, GoesOn
  <2>7. call[c].evidence < MaxToolCalls /\ now < Expiry /\ now \in Nat
    BY <1>4, NowInRange, TwinAssumption DEF WithinBudget, Current
  <2> PICK n : n = toolCalls[e].count  OBVIOUS
  <2> PICK p : p = provided[e]  OBVIOUS
  <2> PICK k : k = call[c].evidence  OBVIOUS
  <2> PICK total : total = MaxToolCalls * p  OBVIOUS
  <2>8. n \in Nat /\ p \in Nat /\ k \in Nat /\ MaxToolCalls \in Nat /\ total \in Nat
    BY <1>1, TwinAssumption DEF ExecutionOK, UsageOK
  <2>9. /\ p >= 1 /\ k <= n /\ n + MaxToolCalls <= total + k /\ (p = 1 => n = k)
    BY <1>2 DEF Accounted
  <2>10. /\ k + 1 \in 0..MaxToolCalls /\ k + 1 <= n + 1 /\ n + 1 <= total
         /\ (n + 1) + MaxToolCalls <= total + (k + 1)
         /\ p = 1 => n + 1 = k + 1
    BY <2>7, <2>8, <2>9
  <2>11. ExecutionOK(e)'
    <3>1. IntentOK(e)'
      BY <1>0, <1>1, IntentStands DEF ExecutionOK
    <3>2. ReceiptOK(e)'
      BY <1>0, <1>1, <1>2, FileForms DEF ExecutionOK, ReceiptOK
    <3>3. UsageOK(e)'
      BY <1>0, <1>1, <1>2, <2>5, <2>7, <2>8, <2>10, FileForms DEF ExecutionOK, UsageOK, Whole
    <3> QED BY <3>1, <3>2, <3>3 DEF ExecutionOK
  <2>12. HolderOK(c)' /\ BeforeWork(c)' /\ AfterRuntime(c)'
    <3>1. Accounted(c)'
      BY <1>0, <2>4, <2>5, <2>9, <2>10 DEF GoesOn, Accounted
    <3>2. Filed(c)'
      BY <1>0, <1>2, <2>4 DEF GoesOn, Filed, ValidateIntent, Whole
    <3> QED BY <3>1, <3>2, <1>0, <1>2, <2>4 DEF GoesOn, HolderOK, BeforeWork, AfterRuntime, At
  <2> QED BY <1>0, <1>1, <2>4, <2>5, <2>6, <2>10, <2>11, <2>12, HolderGoesOn DEF Holding
<1> QED BY <1>3, <1>4

LEMMA ReturnToolStep ==
  ASSUME IInv, NEW c \in Callers, ReturnTool(c), artifact' = artifact
  PROVE  IInv'
<1> PICK e : e = call[c].exec  OBVIOUS
<1>0. /\ call[c].pc = "tool" /\ call[c].pc \in Holding
      /\ UNCHANGED <<now, intent, receipt, provided, toolCalls>>
  BY DEF ReturnTool, At, Holding
<1>1. /\ e \in Executions /\ ExecutionOK(e)
      /\ call[c].evidence \in 0..MaxToolCalls /\ call[c].status \in ExecutionStatus
      /\ DOMAIN intent = Executions /\ DOMAIN receipt = Executions
      /\ DOMAIN provided = Executions /\ DOMAIN toolCalls = Executions
      /\ DOMAIN artifact = DOMAIN Stage /\ DOMAIN call = Callers
  BY <1>0, HolderFacts
<1>2. Filed(c) /\ Accounted(c) /\ receipt[e] = Absent
  BY <1>0, WorkerFacts
<1>3. PICK failed \in BOOLEAN, output \in 1..2 :
        LET ok == ~failed /\ call[c].used + output <= MaxOutput /\ Current
        IN call' = [call EXCEPT ![c].used = IF ok THEN @ + output ELSE @,
                                ![c].pc = IF ok THEN "work" ELSE "saveReceipt"]
  BY DEF ReturnTool
<1> PICK ok : ok = (~failed /\ call[c].used + output <= MaxOutput /\ Current)  OBVIOUS
<1> PICK u : u = IF ok THEN call[c].used + output ELSE call[c].used  OBVIOUS
<1> PICK pc \in {"work", "saveReceipt"} : pc = IF ok THEN "work" ELSE "saveReceipt"
  OBVIOUS
<1>4. call' = [call EXCEPT ![c].used = u, ![c].pc = pc]
  BY <1>3
<1>5. DOMAIN call[c] = {"pc", "exec", "request", "evidence", "used", "status"}
  BY DEF IInv, CallerOK, CallShape
<1>6. /\ GoesOn(c, pc) /\ call'[c].evidence = call[c].evidence
      /\ call'[c].status = call[c].status
  BY <1>1, <1>4, <1>5 DEF GoesOn, CallFields
<1>7. /\ DomainsKept /\ StoresKept /\ \A x : FilesKept(x)
  BY <1>0, <1>1, <1>6 DEF DomainsKept, GoesOn, StoresKept, FilesKept
<1>8. ExecutionOK(e)'
  BY <1>1, <1>7, ExecutionStands
<1>9. HolderOK(c)' /\ BeforeWork(c)' /\ AfterRuntime(c)'
  <2>1. Accounted(c)' /\ Filed(c)'
    BY <1>0, <1>2, <1>6 DEF GoesOn, Accounted, Filed, ValidateIntent, Whole
  <2> QED BY <2>1, <1>0, <1>2, <1>6 DEF GoesOn, HolderOK, BeforeWork, AfterRuntime, At
<1> QED BY <1>0, <1>1, <1>6, <1>7, <1>8, <1>9, HolderGoesOn DEF Holding

LEMMA SaveReceiptStep ==
  ASSUME IInv, NEW c \in Callers, SaveReceipt(c), artifact' = artifact
  PROVE  IInv'
<1> PICK e : e = call[c].exec  OBVIOUS
<1>0. /\ call[c].pc = "saveReceipt" /\ call[c].pc \in Holding
      /\ UNCHANGED <<now, intent, provided, toolCalls>>
  BY DEF SaveReceipt, At, Holding
<1>1. /\ e \in Executions /\ ExecutionOK(e)
      /\ call[c].evidence \in 0..MaxToolCalls /\ call[c].status \in ExecutionStatus
      /\ DOMAIN intent = Executions /\ DOMAIN receipt = Executions
      /\ DOMAIN provided = Executions /\ DOMAIN toolCalls = Executions
      /\ DOMAIN artifact = DOMAIN Stage
  BY <1>0, HolderFacts
<1>2. Filed(c) /\ Accounted(c) /\ receipt[e] = Absent
  BY <1>0, WorkerFacts
<1>3. receipt' = [receipt EXCEPT ![e] = Torn] /\ Goto(c, "fillReceipt")
  BY <1>2 DEF SaveReceipt
<1>4. /\ GoesOn(c, "fillReceipt") /\ call'[c].evidence = call[c].evidence
      /\ call'[c].status = call[c].status
  BY <1>3, GotoGoesOn
<1>5. /\ receipt'[e] = Torn /\ DOMAIN receipt' = Executions
      /\ \A x \in Executions \ {e} : FilesKept(x)
  BY <1>0, <1>1, <1>3 DEF FilesKept
<1>6. DomainsKept
  BY <1>0, <1>1, <1>4, <1>5 DEF DomainsKept, GoesOn
<1>7. ExecutionOK(e)'
  <2>1. IntentOK(e)'
    BY <1>0, <1>1, IntentStands DEF ExecutionOK
  <2>2. ReceiptOK(e)' /\ UsageOK(e)'
    BY <1>0, <1>1, <1>5, FileForms DEF ExecutionOK, ReceiptOK, UsageOK, Whole
  <2> QED BY <2>1, <2>2 DEF ExecutionOK
<1>8. HolderOK(c)' /\ BeforeWork(c)' /\ AfterRuntime(c)'
  <2>1. Accounted(c)' /\ Filed(c)'
    BY <1>0, <1>2, <1>4 DEF GoesOn, Accounted, Filed, ValidateIntent, Whole
  <2> QED BY <2>1, <1>4, <1>5 DEF GoesOn, HolderOK, BeforeWork, AfterRuntime, At
<1> QED BY <1>0, <1>1, <1>4, <1>5, <1>6, <1>7, <1>8, HolderGoesOn DEF Holding

LEMMA FillReceiptStep ==
  ASSUME IInv, NEW c \in Callers, FillReceipt(c), artifact' = artifact
  PROVE  IInv'
<1> PICK e : e = call[c].exec  OBVIOUS
<1>0. /\ call[c].pc = "fillReceipt" /\ call[c].pc \in Holding
      /\ UNCHANGED <<now, intent, provided, toolCalls>>
  BY DEF FillReceipt, At, Holding
<1>1. /\ e \in Executions /\ ExecutionOK(e) /\ Shaped(call[c].request)
      /\ call[c].evidence \in 0..MaxToolCalls /\ call[c].status \in ExecutionStatus
      /\ DOMAIN intent = Executions /\ DOMAIN receipt = Executions
      /\ DOMAIN provided = Executions /\ DOMAIN toolCalls = Executions
      /\ DOMAIN artifact = DOMAIN Stage
  BY <1>0, HolderFacts
<1>2. Filed(c) /\ Accounted(c) /\ receipt[e] = Torn
  BY <1>0, WorkerFacts
<1>3. IntentOK(e)'
  BY <1>0, <1>1, IntentStands DEF ExecutionOK
<1>4. CASE /\ receipt' = [receipt EXCEPT ![e] =
                [file |-> "whole", request |-> call[c].request, status |-> call[c].status,
                 evidence |-> call[c].evidence]]
           /\ Goto(c, "returned")
  <2> PICK f : f = [file |-> "whole", request |-> call[c].request,
                    status |-> call[c].status, evidence |-> call[c].evidence]  OBVIOUS
  <2>1. /\ f \in DigitalTwinExecutionReceipt(SUBSET Digests) /\ Whole(f)
        /\ f.request = call[c].request /\ f.status = call[c].status
        /\ f.evidence = call[c].evidence
    BY <1>1 DEF DigitalTwinExecutionReceipt, Shaped, Whole
  <2>2. /\ receipt'[e] = f /\ DOMAIN receipt' = Executions
        /\ \A x \in Executions \ {e} : FilesKept(x)
    BY <1>0, <1>1, <1>4 DEF FilesKept
  <2>3. /\ GoesOn(c, "returned") /\ call'[c].evidence = call[c].evidence
        /\ call'[c].status = call[c].status
    BY <1>4, GotoGoesOn
  <2>4. DomainsKept
    BY <1>0, <1>1, <2>2, <2>3 DEF DomainsKept, GoesOn
  <2>5. ReceiptOK(e)'
    BY <1>0, <1>2, <2>1, <2>2 DEF ReceiptOK, Filed, ValidateIntent, Whole
  <2>6. UsageOK(e)'
    BY <1>0, <1>1, <1>2, <2>1, <2>2 DEF ExecutionOK, UsageOK, Accounted, Whole
  <2>7. ExecutionOK(e)'
    BY <1>3, <2>5, <2>6 DEF ExecutionOK
  <2>8. HolderOK(c)' /\ BeforeWork(c)' /\ AfterRuntime(c)'
    BY <2>1, <2>2, <2>3
       DEF GoesOn, HolderOK, BeforeWork, AfterRuntime, At, ValidateReceipt, Whole
  <2> QED BY <1>0, <1>1, <2>2, <2>3, <2>4, <2>7, <2>8, HolderGoesOn
<1>5. CASE receipt' = [receipt EXCEPT ![e] = Absent] /\ Return(c)
  <2>1. /\ receipt'[e] = Absent /\ DOMAIN receipt' = Executions
        /\ \A x \in Executions \ {e} : FilesKept(x)
    BY <1>0, <1>1, <1>5 DEF FilesKept
  <2>2. ReceiptOK(e)' /\ UsageOK(e)'
    BY <1>0, <1>1, <2>1, FileForms DEF ExecutionOK, ReceiptOK, UsageOK, Whole
  <2>3. ExecutionOK(e)'
    BY <1>3, <2>2 DEF ExecutionOK
  <2> QED BY <1>0, <1>1, <1>5, <2>1, <2>3, HolderReturns
<1> QED BY <1>4, <1>5 DEF FillReceipt

LEMMA RuntimeStepStep ==
  ASSUME IInv, NEW c \in Callers, RuntimeStep(c), artifact' = artifact
  PROVE  IInv'
<1>1. CASE Raise(c)
  BY <1>1, ReturnStep DEF Raise
<1> QED BY <1>1, AcquireLockStep, SaveIntentStep, FillIntentStep, StartProviderStep,
           InvokeToolStep, ReturnToolStep, ConcludeStep, SaveReceiptStep, FillReceiptStep
        DEF RuntimeStep

-----------------------------------------------------------------------------
(* The steps after the runtime.                                            *)

LEMMA RenderStep ==
  ASSUME IInv, NEW c \in Callers, Render(c)
  PROVE  IInv'
<1> PICK e : e = call[c].exec  OBVIOUS
<1>0. /\ call[c].pc = "returned" /\ call[c].pc \in InCall
      /\ UNCHANGED <<now, intent, receipt, provided, toolCalls, artifact>>
  BY DEF Render, At, InCall
<1>1. CASE Return(c)
  BY <1>0, <1>1, ReturnStep
<1>2. CASE Goto(c, "saveArtifact") /\ e \notin Direct /\ call[c].status # "FAILED"
  <2>1. CallerOK(c)
    BY DEF IInv
  <2>2. /\ GoesOn(c, "saveArtifact") /\ call'[c].evidence = call[c].evidence
        /\ call'[c].status = call[c].status
    BY <1>2, GotoGoesOn
  <2>3. Asked(c)' /\ InRuntime(c)' /\ e \in Executions
    BY <1>0, <2>1, <2>2, StillAsked
  <2>4. CallShape(c)'
    BY <2>1, <2>2 DEF GoesOn, CallShape, CallerOK, CallFields, PCs
  <2>5. HolderOK(c)' /\ BeforeWork(c)'
    BY <2>2 DEF GoesOn, HolderOK, BeforeWork, Holding, At
  <2>6. /\ Whole(receipt[e]) /\ ValidateReceipt(c) /\ receipt[e].status = call[c].status
        /\ call[c].status = "SUCCEEDED" /\ e \in DOMAIN Stage
    BY <1>0, <1>2, <2>1, <2>3 DEF CallerOK, AfterRuntime, At, CallShape, ExecutionStatus, Direct
  <2>7. AfterRuntime(c)'
    BY <1>0, <2>2, <2>6 DEF GoesOn, AfterRuntime, At, Receipted, ValidateReceipt, Whole
  <2>8. CallerOK(c)'
    BY <2>3, <2>4, <2>5, <2>7 DEF CallerOK
  <2>9. \A d \in Callers \ {c} : Exclusive(c, d)'
    BY <2>2 DEF GoesOn, Exclusive, Holding, At
  <2> QED BY <1>0, <2>2, <2>8, <2>9, CallOnly DEF GoesOn
<1> QED BY <1>1, <1>2 DEF Render

(* A step that changes one artifact that is not stored yet.                *)
LEMMA ArtifactStep ==
  ASSUME IInv, NEW c \in Callers, NEW e \in DOMAIN Stage, ~Load(e),
         UNCHANGED <<now, intent, receipt, provided, toolCalls>>,
         DOMAIN artifact' = DOMAIN Stage, DOMAIN call' = Callers,
         \A x \in DOMAIN Stage \ {e} : artifact'[x] = artifact[x],
         \A d \in Callers \ {c} : call'[d] = call[d],
         \A d \in Callers \ {c} : ~(At(d, "fillArtifact") /\ call[d].exec = e),
         ArtifactOK(e)', CallerOK(c)', \A d \in Callers \ {c} : Exclusive(c, d)'
  PROVE  IInv'
<1>1. StoresKept /\ ReceiptsKept /\ \A x : FilesKept(x)
  BY DEF StoresKept, ReceiptsKept, FilesKept
<1>2. (\A x \in Executions : ExecutionOK(x))'
  BY <1>1, ExecutionStands DEF IInv
<1>3. (\A x \in DOMAIN Stage : ArtifactOK(x))'
  BY <1>1, ArtifactStands DEF IInv
<1>4. ASSUME NEW d \in Callers \ {c}  PROVE CallerOK(d)'
  <2>1. At(d, "fillArtifact") => call[d].exec \in DOMAIN Stage \ {e}
    BY DEF IInv, CallerOK, AfterRuntime, At
  <2> QED BY <2>1, <1>1, OtherCaller DEF IInv
<1>5. (\A x, y \in Callers : x # y => Exclusive(x, y))'
  BY ExclusiveStands, ExclusiveSymmetric DEF IInv, Exclusive
<1> QED BY <1>2, <1>3, <1>4, <1>5 DEF IInv

LEMMA SaverFacts ==
  ASSUME IInv, NEW c \in Callers, call[c].pc \in {"saveArtifact", "fillArtifact"},
         NEW e, e = call[c].exec
  PROVE  /\ e \in DOMAIN Stage /\ Shaped(call[c].request)
         /\ Grounded(Stage[e], call[c].request.sources)
         /\ Stage[e] # "orchestration" => Receipted(e, call[c].request)
         /\ At(c, "fillArtifact") => artifact[e] = Torn
         /\ CallerOK(c)
BY DEF IInv, CallerOK, AfterRuntime, Asked, Ready

LEMMA SaveArtifactStep ==
  ASSUME IInv, NEW c \in Callers, SaveArtifact(c)
  PROVE  IInv'
<1> PICK e : e = call[c].exec  OBVIOUS
<1>0. /\ call[c].pc = "saveArtifact" /\ ~Ready(c)
      /\ UNCHANGED <<now, intent, receipt, provided, toolCalls>>
  BY DEF SaveArtifact, At, Ready
<1>1. CASE Return(c) /\ artifact' = artifact
  BY <1>0, <1>1, ReturnStep
<1>2. CASE Mismatch(c) /\ artifact' = artifact
  BY <1>0, <1>2, MismatchStep
<1>3. CASE /\ artifact[e] = Absent /\ artifact' = [artifact EXCEPT ![e] = Torn]
           /\ Goto(c, "fillArtifact")
  <2>1. /\ e \in DOMAIN Stage /\ Shaped(call[c].request)
        /\ Grounded(Stage[e], call[c].request.sources)
        /\ Stage[e] # "orchestration" => Receipted(e, call[c].request)
        /\ CallerOK(c)
    BY <1>0, SaverFacts
  <2>2. /\ GoesOn(c, "fillArtifact") /\ call'[c].evidence = call[c].evidence
        /\ call'[c].status = call[c].status
    BY <1>3, GotoGoesOn
  <2>3. /\ artifact'[e] = Torn /\ DOMAIN artifact' = DOMAIN Stage
        /\ \A x \in DOMAIN Stage \ {e} : artifact'[x] = artifact[x]
    BY <1>3, <2>1 DEF IInv
  <2>4. ~Load(e)
    BY <1>3, FileForms DEF Load
  <2>5. StoresKept
    BY <2>3, <2>4 DEF StoresKept
  <2>6. Grounded(Stage[e], call[c].request.sources)'
    <3> PICK S : S = call[c].request.sources  OBVIOUS
    <3>1. Grounded(Stage[e], S)'
      BY <2>1, <2>5, GroundedStays
    <3>2. S = call'[c].request.sources
      BY <2>2 DEF GoesOn
    <3> QED BY <3>1, <3>2 DEF Grounded, Fits, StagesOf, OnePerStage, Stored, SameArchitecture
  <2>7. Asked(c)' /\ InRuntime(c)'
    BY <1>0, <2>1, <2>2, <2>6, WorkforceAssumption DEF GoesOn, Asked, InRuntime, Holding, Shaped
  <2>8. CallShape(c)'
    BY <2>1, <2>2 DEF GoesOn, CallShape, CallerOK, CallFields, PCs
  <2>9. HolderOK(c)' /\ BeforeWork(c)'
    BY <2>2 DEF GoesOn, HolderOK, BeforeWork, Holding, At
  <2>10. AfterRuntime(c)'
    BY <1>0, <2>1, <2>2, <2>3 DEF GoesOn, AfterRuntime, At, Receipted, Whole
  <2>11. ASSUME NEW d \in Callers \ {c}
         PROVE  ~(At(d, "fillArtifact") /\ call[d].exec = e)
    <3>1. At(d, "fillArtifact") => artifact[call[d].exec] = Torn
      BY DEF IInv, CallerOK, AfterRuntime
    <3> QED BY <3>1, <1>3, FileForms
  <2>12. \A d \in Callers \ {c} : Exclusive(c, d)'
    BY <2>2, <2>11 DEF GoesOn, Exclusive, Holding, At
  <2>13. ArtifactOK(e)'
    BY <2>3, FileForms DEF ArtifactOK
  <2>14. CallerOK(c)'
    BY <2>7, <2>8, <2>9, <2>10 DEF CallerOK
  <2> QED BY <1>0, <2>1, <2>2, <2>3, <2>4, <2>11, <2>12, <2>13, <2>14, ArtifactStep DEF GoesOn
<1> QED BY <1>1, <1>2, <1>3 DEF SaveArtifact

LEMMA FillArtifactStep ==
  ASSUME IInv, NEW c \in Callers, FillArtifact(c)
  PROVE  IInv'
<1> PICK e : e = call[c].exec  OBVIOUS
<1>0. /\ call[c].pc = "fillArtifact" /\ Return(c)
      /\ UNCHANGED <<now, intent, receipt, provided, toolCalls>>
  BY DEF FillArtifact, At
<1>1. /\ e \in DOMAIN Stage /\ Shaped(call[c].request)
      /\ Grounded(Stage[e], call[c].request.sources)
      /\ Stage[e] # "orchestration" => Receipted(e, call[c].request)
      /\ artifact[e] = Torn
  BY <1>0, SaverFacts DEF At
<1>2. /\ call'[c] = Idle /\ DOMAIN call' = Callers
      /\ \A d \in Callers \ {c} : call'[d] = call[d]
  BY <1>0 DEF Return, IInv
<1>3. CallerOK(c)' /\ \A d : Exclusive(c, d)'
  BY <1>2, Returned
<1>4. ~Load(e)
  BY <1>1, FileForms DEF Load
<1>5. \A d \in Callers \ {c} : ~(At(d, "fillArtifact") /\ call[d].exec = e)
  BY <1>0 DEF IInv, Exclusive, At
<1>6. CASE artifact' = [artifact EXCEPT ![e] = Rendered(c)]
  <2> PICK S : S = call[c].request.sources  OBVIOUS
  <2> PICK f : f = Rendered(c)  OBVIOUS
  <2>1. /\ f \in Stores /\ Whole(f) /\ f.at = call[c].request.at /\ f.sources = S
    BY <1>1 DEF Rendered, Stores, Whole, Shaped, Requests
  <2>2. /\ artifact'[e] = f /\ DOMAIN artifact' = DOMAIN Stage
        /\ \A x \in DOMAIN Stage \ {e} : artifact'[x] = artifact[x]
    BY <1>1, <1>6 DEF IInv
  <2>3. StoresKept
    BY <2>2, <1>4 DEF StoresKept
  <2>4. Grounded(Stage[e], S)'
    BY <1>1, <2>3, GroundedStays
  <2>5. Grounded(Stage[e], artifact[e].sources)'
    BY <2>1, <2>2, <2>4 DEF Grounded, Fits, StagesOf, OnePerStage, Stored, SameArchitecture
  <2>6. call[c].request = [at |-> f.at, sources |-> f.sources]
    BY <1>1, <2>1 DEF Shaped, Requests
  <2>7. ArtifactOK(e)'
    BY <1>0, <1>1, <2>1, <2>2, <2>5, <2>6 DEF ArtifactOK, Receipted, Whole
  <2> QED BY <1>0, <1>1, <1>2, <1>3, <1>4, <1>5, <2>2, <2>7, ArtifactStep
<1>7. CASE artifact' = [artifact EXCEPT ![e] = Absent]
  <2>1. /\ artifact'[e] = Absent /\ DOMAIN artifact' = DOMAIN Stage
        /\ \A x \in DOMAIN Stage \ {e} : artifact'[x] = artifact[x]
    BY <1>1, <1>7 DEF IInv
  <2>2. ArtifactOK(e)'
    BY <2>1, FileForms DEF ArtifactOK
  <2> QED BY <1>0, <1>1, <1>2, <1>3, <1>4, <1>5, <2>1, <2>2, ArtifactStep
<1> QED BY <1>6, <1>7 DEF FillArtifact

-----------------------------------------------------------------------------
(* The invariant is inductive.                                             *)

LEMMA ClockStep ==
  ASSUME IInv, now' \in 1..MaxTime,
         UNCHANGED <<intent, receipt, call, provided, toolCalls, artifact>>
  PROVE  IInv'
<1>1. StoresKept /\ ReceiptsKept /\ \A x : FilesKept(x)
  BY DEF StoresKept, ReceiptsKept, FilesKept
<1>2. (\A x \in Executions : ExecutionOK(x))'
  BY <1>1, ExecutionStands DEF IInv
<1>3. (\A x \in DOMAIN Stage : ArtifactOK(x))'
  BY <1>1, ArtifactStands DEF IInv
<1>4. (\A d \in Callers : CallerOK(d))'
  BY <1>1, OtherCaller DEF IInv
<1>5. (\A x, y \in Callers : x # y => Exclusive(x, y))'
  BY ExclusiveStands DEF IInv
<1> QED BY <1>2, <1>3, <1>4, <1>5 DEF IInv

LEMMA CrashStep ==
  ASSUME IInv, Crash, artifact' = artifact
  PROVE  IInv'
<1>1. PICK dead \in SUBSET Callers :
        call' = [c \in Callers |-> IF c \in dead THEN Idle ELSE call[c]]
  BY DEF Crash
<1>0. UNCHANGED <<now, intent, receipt, provided, toolCalls>>
  BY DEF Crash
<1>2. StoresKept /\ ReceiptsKept /\ \A x : FilesKept(x)
  BY <1>0 DEF StoresKept, ReceiptsKept, FilesKept
<1>3. (\A x \in Executions : ExecutionOK(x))'
  BY <1>2, ExecutionStands DEF IInv
<1>4. (\A x \in DOMAIN Stage : ArtifactOK(x))'
  BY <1>2, ArtifactStands DEF IInv
<1>5. ASSUME NEW c \in Callers, c \in dead
      PROVE  CallerOK(c)' /\ \A d : Exclusive(c, d)' /\ Exclusive(d, c)'
  BY <1>1, <1>5, Returned
<1>6. ASSUME NEW c \in Callers, c \notin dead  PROVE CallerOK(c)'
  <2>1. call'[c] = call[c]
    BY <1>1, <1>6
  <2> QED BY <1>0, <1>2, <2>1, OtherCaller DEF IInv
<1>7. ASSUME NEW c \in Callers, NEW d \in Callers, c # d  PROVE Exclusive(c, d)'
  <2>1. CASE c \in dead \/ d \in dead
    BY <2>1, <1>5
  <2>2. CASE c \notin dead /\ d \notin dead
    <3>1. call'[c] = call[c] /\ call'[d] = call[d]
      BY <1>1, <2>2
    <3> QED BY <1>7, <3>1, ExclusiveStands DEF IInv
  <2> QED BY <2>1, <2>2
<1> QED BY <1>0, <1>1, <1>3, <1>4, <1>5, <1>6, <1>7 DEF IInv

LEMMA IdleFields ==
  /\ Idle.pc = "idle" /\ Idle.evidence = 0 /\ Idle.status = "FAILED"
  /\ DOMAIN Idle = {"pc", "exec", "request", "evidence", "used", "status"}
BY DEF Idle

LEMMA InitIInv ==
  ASSUME Init
  PROVE  IInv
<1>1. \A e \in Executions : ExecutionOK(e)
  BY FileForms, TwinAssumption
     DEF Init, TwinInit, ExecutionOK, IntentOK, ReceiptOK, UsageOK
<1>2. \A e \in DOMAIN Stage : ArtifactOK(e)
  BY FileForms DEF Init, ArtifactOK
<1>3. \A c \in Callers : call[c] = Idle
  BY DEF Init, TwinInit
<1>4. \A c \in Callers : call[c].pc = "idle" /\ call[c].evidence = 0
        /\ call[c].status = "FAILED"
        /\ DOMAIN call[c] = {"pc", "exec", "request", "evidence", "used", "status"}
  BY <1>3, IdleFields
<1>5. ASSUME NEW c \in Callers  PROVE CallerOK(c)
  <2>1. CallShape(c)
    BY <1>4, TwinAssumption DEF CallShape, PCs, ExecutionStatus
  <2>2. Asked(c) /\ InRuntime(c) /\ BeforeWork(c)
    BY <1>4 DEF Asked, Ready, InRuntime, Holding, BeforeWork
  <2>3. HolderOK(c) /\ AfterRuntime(c)
    BY <1>4 DEF HolderOK, AfterRuntime, At
  <2> QED BY <2>1, <2>2, <2>3 DEF CallerOK
<1>6. \A c, d \in Callers : Exclusive(c, d)
  BY <1>4 DEF Exclusive, Holding, At
<1>7. now \in 1..MaxTime
  BY TwinAssumption DEF Init, TwinInit
<1> QED BY <1>1, <1>2, <1>5, <1>6, <1>7 DEF IInv, Init, TwinInit

LEMMA NextIInv ==
  ASSUME IInv, [Next]_vars
  PROVE  IInv'
<1>1. CASE Next
  <2>1. ASSUME NEW c \in Callers, Run(c) \/ RuntimeStep(c), UNCHANGED artifact
        PROVE  IInv'
    BY <2>1, RunStep, RuntimeStepStep
  <2>2. ASSUME NEW c \in Callers, Render(c) \/ SaveArtifact(c) \/ FillArtifact(c)
        PROVE  IInv'
    BY <2>2, RenderStep, SaveArtifactStep, FillArtifactStep
  <2>3. CASE Tick /\ UNCHANGED artifact
    <3>1. now' \in 1..MaxTime
      BY <2>3, NowInRange, TwinAssumption DEF Tick
    <3> QED BY <2>3, <3>1, ClockStep DEF Tick
  <2>4. CASE Crash /\ UNCHANGED artifact
    BY <2>4, CrashStep
  <2> QED BY <1>1, <2>1, <2>2, <2>3, <2>4 DEF Next
<1>2. CASE UNCHANGED vars
  BY <1>2, NowInRange, ClockStep DEF vars, twinVars
<1> QED BY <1>1, <1>2

LEMMA InvariantHolds ==
  Spec => []IInv
<1>1. Init => IInv
  BY InitIInv
<1>2. IInv /\ [Next]_vars => IInv'
  BY NextIInv
<1> QED BY <1>1, <1>2, PTL DEF Spec

-----------------------------------------------------------------------------
(* What follows from the invariant.                                        *)

LEMMA RenderedCardinality ==
  ASSUME IInv, NEW e \in DOMAIN Stage, Whole(artifact[e]),
         NEW counts, Cardinality(Upstream(Stage[e])) \in counts
  PROVE  artifact[e] \in Artifact(counts)
<1>1. artifact[e] \in Stores /\ Fits(Stage[e], artifact[e].sources)
  BY WholeFile DEF IInv, ArtifactOK, Grounded
<1>2. Cardinality(artifact[e].sources) = Cardinality(Upstream(Stage[e]))
  BY <1>1, FitsCardinality
<1> QED BY <1>1, <1>2 DEF Artifact, Stores

LEMMA TypesCorrect ==
  ASSUME IInv
  PROVE  TypeOK
<1>1. \A e \in Executions :
        /\ intent[e] \in DigitalTwinExecutionIntent(SUBSET Digests) \cup {Absent, Torn}
        /\ receipt[e] \in DigitalTwinExecutionReceipt(SUBSET Digests) \cup {Absent, Torn}
  BY DEF IInv, ExecutionOK, IntentOK, ReceiptOK
<1>2. Holds({"ceo", "plan"}, LeadershipArtifact)
  BY RenderedCardinality, UpstreamCardinality DEF Holds, LeadershipArtifact
<1>3. Holds({"architecture"}, ArchitectureProposalArtifact)
  BY RenderedCardinality, UpstreamCardinality DEF Holds, ArchitectureProposalArtifact
<1>4. Holds(EngineeringRoles, EngineeringWorkArtifact)
  BY RenderedCardinality, UpstreamCardinality DEF Holds, EngineeringWorkArtifact
<1>5. Holds({"qa"}, QAWorkArtifact)
  BY RenderedCardinality, UpstreamCardinality DEF Holds, QAWorkArtifact
<1>6. Holds({"security"}, SecurityWorkArtifact)
  BY RenderedCardinality, UpstreamCardinality DEF Holds, SecurityWorkArtifact
<1>7. Holds({"devops"}, DevOpsWorkArtifact)
  BY RenderedCardinality, UpstreamCardinality DEF Holds, DevOpsWorkArtifact
<1>8. Holds({"documentation"}, DocumentationWorkArtifact)
  BY RenderedCardinality, UpstreamCardinality DEF Holds, DocumentationWorkArtifact
<1>9. Holds({"orchestration"}, MultiAgentOrchestrationArtifact)
  BY RenderedCardinality, UpstreamCardinality DEF Holds, MultiAgentOrchestrationArtifact
<1> QED BY <1>1, <1>2, <1>3, <1>4, <1>5, <1>6, <1>7, <1>8, <1>9 DEF TypeOK

LEMMA AccountedFor ==
  ASSUME IInv
  PROVE  ArtifactsAccountedFor
<1>1. ASSUME NEW e \in DOMAIN Stage, Whole(receipt[e]), Title[e] <= 200
      PROVE  FromOutput(e, receipt[e].request.sources)
  <2>1. e \in Executions
    BY WorkforceAssumption
  <2>2. Assigned(e, receipt[e].request)
    BY <1>1, <2>1 DEF IInv, ExecutionOK, ReceiptOK, IntentOK
  <2> QED BY <1>1, <2>2, Renders DEF Assigned, AgentOrDirect
<1>2. \A e \in Executions : Whole(receipt[e]) =>
        Whole(intent[e]) /\ receipt[e].request = intent[e].request
  BY DEF IInv, ExecutionOK, ReceiptOK
<1>3. \A e \in DOMAIN Stage : Whole(artifact[e]) /\ Stage[e] # "orchestration" =>
        /\ Whole(receipt[e]) /\ receipt[e].status = "SUCCEEDED"
        /\ receipt[e].request = [at |-> artifact[e].at, sources |-> artifact[e].sources]
  BY DEF IInv, ArtifactOK, Receipted
<1>4. SuccessIsRendered
  BY <1>1 DEF SuccessIsRendered
<1> QED BY <1>2, <1>3, <1>4, TypesCorrect DEF ArtifactsAccountedFor

LEMMA OneOfIts ==
  ASSUME IInv
  PROVE  OneArchitecture
<1> SUFFICES ASSUME NEW e \in DOMAIN Stage, Whole(artifact[e])
             PROVE  /\ \A d \in artifact[e].sources : Load(d[1]) /\ Digest(d[1]) = d
                    /\ Cardinality((Sources(e) \cup UNION {Sources(f) : f \in Sources(e)})
                                     \cap Of("architecture")) <= 1
  BY DEF OneArchitecture
<1> PICK S : S = artifact[e].sources  OBVIOUS
<1> PICK A : A = (Sources(e) \cup UNION {Sources(f) : f \in Sources(e)}) \cap Of("architecture")
  OBVIOUS
<1>1. Grounded(Stage[e], S)
  BY DEF IInv, ArtifactOK
<1>2. \A d \in S : Load(d[1]) /\ Digest(d[1]) = d
  BY <1>1 DEF Grounded, Stored
<1>3. ASSUME NEW x \in A
      PROVE  \E d \in S : d[1] = x /\ Stage[d[1]] = "architecture"
  <2>1. Stage[x] = "architecture"
    BY DEF Of
  <2>2. CASE x \in Sources(e)
    BY <2>1, <2>2 DEF Sources
  <2>3. CASE x \in UNION {Sources(f) : f \in Sources(e)}
    <3>1. PICK d \in S : x \in Sources(d[1])
      BY <2>3 DEF Sources
    <3>2. PICK y \in artifact[d[1]].sources : x = y[1]
      BY <3>1 DEF Sources
    <3>3. y \in S
      BY <1>1, <2>1, <3>2 DEF Grounded, SameArchitecture
    <3> QED BY <2>1, <3>2, <3>3
  <2> QED BY <2>2, <2>3
<1>4. \A x, y \in A : x = y
  BY <1>1, <1>3 DEF Grounded, Fits, OnePerStage
<1>5. Cardinality(A) <= 1
  <2>1. CASE A = {}
    <3>1. Cardinality({}) = 0
      BY FS_EmptySet
    <3> QED BY <2>1, <3>1
  <2>2. CASE A # {}
    <3>1. PICK x \in A : TRUE
      BY <2>2
    <3>2. A = {x}
      BY <3>1, <1>4
    <3>3. Cardinality({x}) = 1
      BY FS_Singleton
    <3> QED BY <3>2, <3>3
  <2> QED BY <2>1, <2>2
<1> QED BY <1>2, <1>5

LEMMA WithinAuthority ==
  ASSUME IInv
  PROVE  ToolsWithinAuthority
BY DEF IInv, ExecutionOK, UsageOK, ToolsWithinAuthority

LEMMA RunLeavesFiles ==
  ASSUME NEW c, Run(c)
  PROVE  UNCHANGED <<receipt, provided>>
<1>1. \A e, S : Execute(c, e, S) => UNCHANGED <<receipt, provided>>
  BY DEF Execute
<1>2. CASE RunCeo(c) \/ RunProductManager(c) \/ RunArchitect(c) \/ RunDirect(c)
  BY <1>1, <1>2 DEF RunCeo, RunProductManager, RunArchitect, RunDirect
<1>3. CASE RunEngineer(c)
  BY <1>1, <1>3 DEF RunEngineer
<1>4. CASE RunQA(c)
  BY <1>1, <1>4 DEF RunQA
<1>5. CASE RunSecurity(c)
  BY <1>1, <1>5 DEF RunSecurity
<1>6. CASE RunDevOps(c)
  BY <1>1, <1>6 DEF RunDevOps
<1>7. CASE RunDocumentation(c)
  BY <1>1, <1>7 DEF RunDocumentation
<1>8. CASE RunOrchestration(c)
  BY <1>8 DEF RunOrchestration
<1> QED BY <1>2, <1>3, <1>4, <1>5, <1>6, <1>7, <1>8 DEF Run

LEMMA NoSecondEffectStep ==
  ASSUME IInv, [Next]_vars
  PROVE  \A e \in Executions :
           /\ Whole(receipt[e]) => provided'[e] = provided[e] /\ receipt'[e] = receipt[e]
           /\ e \in LiveExecutions => provided'[e] <= 1
<1>1. ASSUME NEW e \in Executions, e \in LiveExecutions  PROVE provided'[e] <= 1
  BY <1>1, NextIInv DEF IInv, ExecutionOK, UsageOK
<1>2. ASSUME NEW e \in Executions, Whole(receipt[e])
      PROVE  provided'[e] = provided[e] /\ receipt'[e] = receipt[e]
  <2>1. CASE UNCHANGED <<receipt, provided>>
    BY <2>1
  <2>2. ASSUME NEW c \in Callers, RuntimeStep(c), call[c].pc \in Holding
        PROVE  provided'[e] = provided[e] /\ receipt'[e] = receipt[e]
    <3>1. e # call[c].exec
      BY <1>2, <2>2, Receiptless DEF IInv
    <3> QED BY <2>2, <3>1
            DEF RuntimeStep, AcquireLock, SaveIntent, FillIntent, StartProvider, InvokeTool,
                ReturnTool, Conclude, SaveReceipt, FillReceipt, Raise, IInv
  <2>3. ASSUME NEW c \in Callers, RuntimeStep(c), call[c].pc \notin Holding
        PROVE  UNCHANGED <<receipt, provided>>
    BY <2>3 DEF RuntimeStep, AcquireLock, SaveIntent, FillIntent, StartProvider, InvokeTool,
                ReturnTool, Conclude, SaveReceipt, FillReceipt, Raise, Holding, At
  <2>4. ASSUME NEW c \in Callers, Run(c)
        PROVE  UNCHANGED <<receipt, provided>>
    BY <2>4, RunLeavesFiles
  <2>5. ASSUME NEW c \in Callers, Render(c) \/ SaveArtifact(c) \/ FillArtifact(c)
        PROVE  UNCHANGED <<receipt, provided>>
    BY <2>5 DEF Render, SaveArtifact, FillArtifact
  <2>6. CASE Tick \/ Crash \/ UNCHANGED vars
    BY <2>6, <2>1 DEF Tick, Crash, vars, twinVars
  <2> QED BY <2>1, <2>2, <2>3, <2>4, <2>5, <2>6 DEF Next
<1> QED BY <1>1, <1>2

-----------------------------------------------------------------------------
(* The theorems.                                                           *)

(* Every artifact is on record from its intent to its receipt, has the     *)
(* sources its kind needs, and what a successful agent renders can always  *)
(* be stored: execute, the stores, render and _artifact_from_output of     *)
(* every agent, for any number of callers, work orders and crashes.        *)
THEOREM WorkIsAccountedFor ==
  Spec => []ArtifactsAccountedFor
BY InvariantHolds, AccountedFor, PTL

(* _validate_sources of the agents: whatever proposals and work orders     *)
(* there are, one artifact never mixes work from two architectures.        *)
THEOREM OneArchitectureOnly ==
  Spec => []OneArchitecture
BY InvariantHolds, OneOfIts, PTL

(* BoundedToolGateway.invoke: no tool is called after the expiry or beyond *)
(* the budget, and the receipt of an uninterrupted run accounts for every  *)
(* call.                                                                   *)
THEOREM ToolsStayWithinAuthority ==
  Spec => []ToolsWithinAuthority
BY InvariantHolds, WithinAuthority, PTL

(* execute: a live provider runs at most once for an execution, and no     *)
(* provider runs again once its receipt is stored.                         *)
THEOREM EffectsHappenOnce ==
  Spec => NoSecondEffect
<1>1. IInv /\ [Next]_vars =>
        [\A e \in Executions :
           /\ Whole(receipt[e]) => provided'[e] = provided[e] /\ receipt'[e] = receipt[e]
           /\ e \in LiveExecutions => provided'[e] <= 1]_vars
  BY NoSecondEffectStep
<1> QED BY <1>1, InvariantHolds, PTL DEF Spec, NoSecondEffect
=============================================================================
