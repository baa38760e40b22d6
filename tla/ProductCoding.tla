--------------------------- MODULE ProductCoding ---------------------------
(* The isolated product workspace (runtime/product_workspace) and the coding *)
(* and review loop that fills it (runtime/coding_review).  Both services     *)
(* have the same run: return the artifact if the execution has one, check    *)
(* the persisted sources and the authority, let the provider act on the      *)
(* repository, inspect what it did, and write the artifact once.  There is   *)
(* no lock and no intent record: a caller is a process that may be stopped   *)
(* between any two steps, and two callers may run at once.                   *)
EXTENDS Integers, FiniteSets, Sequences

CONSTANTS
  Callers,         \* processes that call the services
  Execs,           \* execution ids
  Orchestrations,  \* persisted Day 30 orchestrations, each with its QA and Security
  Paths,           \* paths of the product that the work order hands out
  OwnerOf,         \* path -> role that owns it in the work order
  Providers,       \* coding providers: each is the sequence of its planned rounds
  QAFailing,       \* contents the product's tests fail on
  Insecure,        \* contents the static Security review rejects
  Authorities,     \* authorities a caller may hold
  Original,        \* content of every path at the approved base commit
  Edited,          \* what somebody else writes into a file
  None,
  MaxRuns, MaxFaults   \* bounds of the model: calls begun; crashes and edits by others

Rounds == UNION {{plans[r] : r \in DOMAIN plans} : plans \in Providers}
Patches == UNION {{round.patches[i] : i \in DOMAIN round.patches} : round \in Rounds}
Contents == {Original, Edited} \cup {patch.content : patch \in Patches}

\* CodingReviewWorkOrder: every path has one owner.  CodingRoundPlan: rounds are
\* not empty and change a path once.
ASSUME PlansAssumption ==
  /\ OwnerOf \in [Paths -> STRING]
  /\ Providers \subseteq Seq(Rounds)
  /\ \A round \in Rounds : round.patches \in Seq(Patches)
  /\ \A patch \in Patches : patch.path \in Paths
  /\ \A round \in Rounds :
       /\ Len(round.patches) \in 1 .. 16
       /\ \A i, j \in DOMAIN round.patches :
            round.patches[i].path = round.patches[j].path => i = j

\* ProductWorkspaceAuthority, CodingReviewAuthority and GitHubDeliveryAuthority
\* accept budgets in these ranges.
ASSUME AuthorityAssumption ==
  \A authority \in Authorities :
    /\ authority.current \in BOOLEAN
    /\ authority.gitCalls \in 12 .. 32
    /\ authority.rounds \in 1 .. 5
    /\ authority.writes \in 6 .. 32
    /\ authority.tools \in 16 .. 96
    /\ authority.network \in 3 .. 12

Commits == [depth : Nat, files : [Paths -> Contents]]

\* CodingReviewObservation: what a coding run has recorded so far.
CodingObservations ==
  [files : {None} \cup [Paths -> Contents], disturbed : BOOLEAN, made : {{}},
   commit : {None}, plans : Providers, round : Nat, patch : Nat,
   feedback : SUBSET {"QA_TEST_FAILURE", "SECURITY_FINDING"}, writes : Nat,
   commands : Nat]

\* None stands for nothing: it is none of the values it is told apart from.
ASSUME NoneAssumption ==
  /\ None # [torn |-> TRUE]
  /\ None \notin [Paths -> Contents]
  /\ None \notin Commits

VARIABLES
  source,      \* the approved checkout: "base", or "changed" by somebody else
  branch,      \* does the feature branch exist
  files,       \* working files of the isolated workspace, None before it exists
  index,       \* its Git index
  head,        \* its HEAD: commits above the base and the files of the last one
  stage,       \* path -> content of its .ascos-stage file, or None
  artifact,    \* service -> execution -> None, Torn or the artifact
  pc, call,    \* what each caller is doing, and the call it serves
  obs,         \* what its provider has observed so far
  worktrees,   \* worktrees ever created
  runs, faults

repository == <<source, branch, files, index, head, stage>>
bounds == <<runs, faults>>
codingVars == <<repository, artifact, pc, call, obs, worktrees, bounds>>

Services == {"workspace", "coding", "github", "preview"}
Torn == [torn |-> TRUE]
BaseFiles == [p \in Paths |-> Original]
BaseCommit == [depth |-> 0, files |-> BaseFiles]
NoStage == [p \in Paths |-> None]

CodingInit ==
  /\ source = "base" /\ branch = FALSE /\ stage = NoStage
  /\ files = None /\ index = None /\ head = None
  /\ artifact = [s \in Services |-> [x \in Execs |-> None]]
  /\ pc = [c \in Callers |-> "idle"]
  /\ call = [c \in Callers |-> None] /\ obs = [c \in Callers |-> None]
  /\ worktrees = 0 /\ runs = 0 /\ faults = 0

-----------------------------------------------------------------------------
(* The steps that the services share.                                       *)

Goto(c, label) == pc' = [pc EXCEPT ![c] = label]
Note(c, field, value) == obs' = [obs EXCEPT ![c] = [@ EXCEPT ![field] = value]]

\* The call raises or returns: only what it did to the repository is left.
Return(c) ==
  /\ pc' = [pc EXCEPT ![c] = "idle"]
  /\ call' = [call EXCEPT ![c] = None] /\ obs' = [obs EXCEPT ![c] = None]

\* store.load: a file that was created and not filled is corrupt, and every
\* later load of it fails.
Load(service, exec) ==
  LET stored == artifact[service][exec] IN IF stored = Torn THEN None ELSE stored

\* The authority names this work order and is inside its time window.
ValidateAuthority(authority) == authority.current

\* What the run keeps of its inputs; limit is the part of the authority that
\* bounds this service.
Request(service, exec, orchestration, from, limit) ==
  [service |-> service, exec |-> exec, orchestration |-> orchestration,
   from |-> from, limit |-> limit]

\* run: with an artifact on disk the call returns it or raises a conflict, and
\* with a bad source or authority it raises; all of that leaves no trace.
Begin(c, request, authority, label, observation) ==
  /\ pc[c] = "idle" /\ runs < MaxRuns
  /\ artifact[request.service][request.exec] = None
  /\ ValidateAuthority(authority)
  /\ Goto(c, label)
  /\ call' = [call EXCEPT ![c] = request]
  /\ obs' = [obs EXCEPT ![c] = observation]
  /\ runs' = runs + 1
  /\ UNCHANGED <<repository, artifact, worktrees, faults>>

\* The artifact a finished run stores: who it is for, where it came from, the
\* files it is about and the commit.  Two fields record history: disturbed, that
\* somebody else wrote in the workspace during the run (of a delivery: since its
\* closing status), and made, the run's own effects.
ArtifactOf(c) ==
  [exec |-> call[c].exec, orchestration |-> call[c].orchestration,
   from |-> call[c].from, files |-> obs[c].files, commit |-> obs[c].commit,
   disturbed |-> obs[c].disturbed, made |-> obs[c].made]

\* store.save creates the file exclusively; when it is there, a time-stamped
\* artifact differs from what it holds and the save raises a conflict.
Save(c) ==
  /\ pc[c] = "save"
  /\ IF artifact[call[c].service][call[c].exec] = None
       THEN /\ artifact' = [artifact EXCEPT ![call[c].service][call[c].exec] = Torn]
            /\ Goto(c, "fill") /\ UNCHANGED <<call, obs>>
       ELSE Return(c) /\ UNCHANGED artifact
  /\ UNCHANGED <<repository, worktrees, bounds>>

\* The content is written and synced, or the write fails and the file is unlinked.
Fill(c) ==
  /\ pc[c] = "fill"
  /\ \E stored \in {ArtifactOf(c), None} :
       artifact' = [artifact EXCEPT ![call[c].service][call[c].exec] = stored]
  /\ Return(c)
  /\ UNCHANGED <<repository, worktrees, bounds>>

-----------------------------------------------------------------------------
(* runtime/product_workspace                                                *)

\* Git commands that one preparation runs: ten to inspect the source, one to add
\* the worktree, eight to inspect both again.
PrepareCommands == 10 + 1 + 8

\* LocalGitWorktreeProvider.prepare up to the effect: the source is the clean
\* approved commit, and neither the branch nor the destination exists.
SourceIsBase == source = "base"
MayCreate == ~branch /\ files = None

WorkspaceRequest(exec, orchestration, authority) ==
  Request("workspace", exec, orchestration, None, authority.gitCalls)

WorkspaceObservation ==
  [files |-> BaseFiles, disturbed |-> FALSE, made |-> {}, commit |-> BaseCommit]

PrepareBegin(c) ==
  \E exec \in Execs, orchestration \in Orchestrations, authority \in Authorities :
    Begin(c, WorkspaceRequest(exec, orchestration, authority), authority, "prepare",
          WorkspaceObservation)

PrepareInspect(c) ==
  /\ pc[c] = "prepare"
  /\ IF SourceIsBase /\ MayCreate
       THEN Goto(c, "worktree") /\ UNCHANGED <<call, obs>>
       ELSE Return(c)
  /\ UNCHANGED <<repository, artifact, worktrees, bounds>>

WorktreeAddAdopting(c) ==
  /\ IF MayCreate
       THEN /\ branch' = TRUE /\ files' = BaseFiles
            /\ index' = BaseFiles /\ head' = BaseCommit
            /\ worktrees' = worktrees + 1
            /\ Note(c, "made", {"worktree"})
       ELSE UNCHANGED <<branch, files, index, head, worktrees, obs>>
  /\ Goto(c, "prepared") /\ UNCHANGED call

\* An existing branch or directory makes git worktree add fail.
WorktreeAdd(c) ==
  IF MayCreate
    THEN /\ branch' = TRUE /\ files' = BaseFiles
         /\ index' = BaseFiles /\ head' = BaseCommit
         /\ worktrees' = worktrees + 1
         /\ Goto(c, "prepared") /\ Note(c, "made", {"worktree"}) /\ UNCHANGED call
    ELSE Return(c) /\ UNCHANGED <<branch, files, index, head, worktrees>>

PrepareWorktree(c) ==
  /\ pc[c] = "worktree"
  /\ WorktreeAdd(c)
  /\ UNCHANGED <<source, stage, artifact, bounds>>

Clean == files = head.files /\ index = head.files /\ stage = NoStage

\* The provider's last inspection, its budget and the service's
\* _validate_observation; a refusal leaves the worktree behind.
PrepareAccepted(c) ==
  /\ SourceIsBase /\ Clean /\ head = BaseCommit
  /\ PrepareCommands <= call[c].limit

PrepareConfirm(c) ==
  /\ pc[c] = "prepared"
  /\ IF PrepareAccepted(c) THEN Goto(c, "save") /\ UNCHANGED <<call, obs>> ELSE Return(c)
  /\ UNCHANGED <<repository, artifact, worktrees, bounds>>

-----------------------------------------------------------------------------
(* runtime/coding_review                                                    *)

\* _validate_sources: the workspace artifact is the persisted one and was
\* prepared for the orchestration whose QA and Security the order names.
WorkspaceArtifact(request) == Load("workspace", request.from)

CodingSources(request) ==
  /\ WorkspaceArtifact(request) # None
  /\ WorkspaceArtifact(request).orchestration = request.orchestration

\* _validate_before: the workspace is the exact clean base.
CodingBefore == SourceIsBase /\ files # None /\ Clean /\ head = BaseCommit

\* Git inspections of both repositories before and after the provider.
CodingInspections == 2 * (6 + 6)

CodingRequest(exec, orchestration, from, authority) ==
  Request("coding", exec, orchestration, from,
          [writes |-> authority.writes, tools |-> authority.tools])

\* The rounds, patches, failures, commands and writes recorded so far.
CodingObservation(plans) ==
  [files |-> None, disturbed |-> FALSE, made |-> {}, commit |-> None, plans |-> plans,
   round |-> 1, patch |-> 1, feedback |-> {}, writes |-> 0, commands |-> 0]

CodingBegin(c) ==
  \E exec, from \in Execs, orchestration \in Orchestrations, authority \in Authorities,
     plans \in Providers :
    LET request == CodingRequest(exec, orchestration, from, authority) IN
      /\ CodingSources(request)
      /\ CodingBefore
      /\ Len(plans) \in 1 .. authority.rounds
      /\ Begin(c, request, authority, "round", CodingObservation(plans))

Round(c) == obs[c].plans[obs[c].round]
LastRound(c) == obs[c].round = Len(obs[c].plans)
Patch(c) == Round(c).patches[obs[c].patch]

\* _validate_patches: each patch stays with the role that owns its path.
PatchesOwned(plan) ==
  \A i \in DOMAIN plan.patches :
    plan.patches[i].owner = OwnerOf[plan.patches[i].path]

\* A round must answer exactly the findings that came back from the last one.
StartRound(c) ==
  /\ pc[c] = "round"
  /\ IF Round(c).resolves = obs[c].feedback /\ PatchesOwned(Round(c))
       THEN Goto(c, "check") /\ UNCHANGED <<call, obs>>
       ELSE Return(c)
  /\ UNCHANGED <<repository, artifact, worktrees, bounds>>

\* _write: refuse when the stage path exists, ...
CheckStage(c) ==
  /\ pc[c] = "check"
  /\ IF stage[Patch(c).path] = None
       THEN Goto(c, "open") /\ UNCHANGED <<call, obs>>
       ELSE Return(c)
  /\ UNCHANGED <<repository, artifact, worktrees, bounds>>

\* ... create it exclusively (the handler of a failed open unlinks the path,
\* whoever made it), ...
OpenStage(c) ==
  /\ pc[c] = "open"
  /\ LET path == Patch(c).path IN
       IF stage[path] = None
         THEN stage' = [stage EXCEPT ![path] = Patch(c).content]
              /\ Goto(c, "replace") /\ UNCHANGED <<call, obs>>
         ELSE stage' = [stage EXCEPT ![path] = None] /\ Return(c)
  /\ UNCHANGED <<source, branch, files, index, head, artifact, worktrees, bounds>>

\* Everyone whose coding run is under way sees the file change under it.
Disturb(c) ==
  [d \in Callers |->
     IF d # c /\ pc[d] # "idle" THEN [obs[d] EXCEPT !.disturbed = TRUE] ELSE obs[d]]

\* ... and rename it over the file; a write that fails removes the stage file and
\* stops the run.  After the last patch the write budget is checked.
ReplaceFile(c) ==
  /\ pc[c] = "replace"
  /\ LET path == Patch(c).path
         last == obs[c].patch = Len(Round(c).patches)
     IN
       \/ /\ stage[path] # None
          /\ files' = [files EXCEPT ![path] = stage[path]]
          /\ stage' = [stage EXCEPT ![path] = None]
          /\ IF last /\ obs[c].writes + 1 > call[c].limit.writes
               THEN /\ pc' = [pc EXCEPT ![c] = "idle"]
                    /\ call' = [call EXCEPT ![c] = None]
                    /\ obs' = [Disturb(c) EXCEPT ![c] = None]
               ELSE /\ Goto(c, IF last THEN "qa" ELSE "check")
                    /\ obs' = [Disturb(c) EXCEPT
                                 ![c].writes = @ + 1,
                                 ![c].patch = IF last THEN 1 ELSE @ + 1]
                    /\ UNCHANGED call
       \/ /\ stage' = [stage EXCEPT ![path] = None]
          /\ Return(c) /\ UNCHANGED files
  /\ UNCHANGED <<source, branch, index, head, artifact, worktrees, bounds>>

QAPasses(contents) == \A p \in Paths : contents[p] \notin QAFailing

SecurityPassesAlways(contents) == TRUE
SecurityPasses(contents) == \A p \in Paths : contents[p] \notin Insecure

\* A failed review sends its code to the next round; when there is none the run
\* ends in CodingReviewFailed.
NextRound(c, code) ==
  IF LastRound(c)
    THEN Return(c)
    ELSE /\ Goto(c, "round")
         /\ obs' = [obs EXCEPT ![c].round = @ + 1, ![c].feedback = {code},
                               ![c].commands = @ + 1]
         /\ UNCHANGED call

\* pytest in the workspace; Security is not run on a failure.
RunQA(c) ==
  /\ pc[c] = "qa"
  /\ IF QAPasses(files)
       THEN /\ Goto(c, "security")
            /\ Note(c, "commands", obs[c].commands + 1) /\ UNCHANGED call
       ELSE NextRound(c, "QA_TEST_FAILURE")
  /\ UNCHANGED <<repository, artifact, worktrees, bounds>>

\* Static review.  Rounds left over after both reviews passed, or a spent tool
\* budget, stop the run.
RunSecurity(c) ==
  /\ pc[c] = "security"
  /\ IF ~SecurityPasses(files) THEN NextRound(c, "SECURITY_FINDING")
     ELSE IF ~LastRound(c)
             \/ obs[c].commands + 1 + obs[c].writes > call[c].limit.tools
       THEN Return(c)
       ELSE /\ Goto(c, "reviewed")
            /\ Note(c, "commands", obs[c].commands + 1) /\ UNCHANGED call
  /\ UNCHANGED <<repository, artifact, worktrees, bounds>>

\* _validate_after on a fresh inspection: only files of the work order differ
\* from the base, nothing is staged or committed, and the budget covers the
\* inspections too.
CodingAccepted(c) ==
  /\ SourceIsBase
  /\ head = BaseCommit /\ index = BaseFiles /\ stage = NoStage
  /\ files # BaseFiles
  /\ obs[c].writes <= call[c].limit.writes
  /\ obs[c].commands + obs[c].writes + CodingInspections <= call[c].limit.tools

\* The service hashes the files it now finds: they replace the provider's.
CodingConfirm(c) ==
  /\ pc[c] = "reviewed"
  /\ IF CodingAccepted(c)
       THEN Goto(c, "save") /\ Note(c, "files", files) /\ UNCHANGED call
       ELSE Return(c)
  /\ UNCHANGED <<repository, artifact, worktrees, bounds>>

-----------------------------------------------------------------------------
(* The environment.                                                         *)

\* A process dies: its files stay.
Crash(c) ==
  /\ pc[c] # "idle" /\ faults < MaxFaults
  /\ faults' = faults + 1
  /\ Return(c)
  /\ UNCHANGED <<repository, artifact, worktrees, runs>>

\* Somebody works in the workspace or in the approved checkout.
EditWorkspace ==
  /\ faults < MaxFaults /\ files # None
  /\ \E p \in Paths :
       /\ files[p] # Edited
       /\ files' = [files EXCEPT ![p] = Edited]
  /\ obs' = [c \in Callers |->
               IF pc[c] = "idle" THEN obs[c] ELSE [obs[c] EXCEPT !.disturbed = TRUE]]
  /\ faults' = faults + 1
  /\ UNCHANGED <<source, branch, index, head, stage, artifact, pc, call, worktrees,
                 runs>>

ChangeSource ==
  /\ faults < MaxFaults /\ source = "base"
  /\ source' = "changed" /\ faults' = faults + 1
  /\ UNCHANGED <<branch, files, index, head, stage, artifact, pc, call, obs, worktrees,
                 runs>>

CodingStep(c) ==
  \/ PrepareBegin(c) \/ PrepareInspect(c) \/ PrepareWorktree(c) \/ PrepareConfirm(c)
  \/ CodingBegin(c) \/ StartRound(c) \/ CheckStage(c) \/ OpenStage(c) \/ ReplaceFile(c)
  \/ RunQA(c) \/ RunSecurity(c) \/ CodingConfirm(c)
  \/ Save(c) \/ Fill(c) \/ Crash(c)
=============================================================================
