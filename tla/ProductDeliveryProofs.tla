------------------------- MODULE ProductDeliveryProofs -------------------------
(* Proofs about module ProductDelivery, for every set of callers,            *)
(* executions, paths and coding plans, every number of crashes and edits.    *)
(*                                                                           *)
(* The services take no lock, so the invariant says of each caller what the  *)
(* others cannot take away from it: an artifact that is stored stays as it   *)
(* is, the workspace stays, the one caller that has made the first commit is *)
(* the only one that can still push, and whoever changes a file under a      *)
(* coding run leaves a mark on that run.                                     *)
EXTENDS ProductDelivery, TLAPS

-----------------------------------------------------------------------------
(* The inductive invariant.                                                  *)

Files == [Paths -> Contents]

Reviewed(contents) == QAPasses(contents) /\ SecurityPasses(contents)

IsStored(service, x) == artifact[service][x] \notin {None, Torn}

(* The artifact the call goes by is stored, for the call's orchestration.    *)
Source(c, service) ==
  /\ call[c].from \in Execs
  /\ IsStored(service, call[c].from)
  /\ artifact[service][call[c].from].orchestration = call[c].orchestration

Preparing(c) ==
  /\ call[c].service = "workspace"
  /\ pc[c] \in {"prepare", "worktree", "prepared", "save", "fill"}
  /\ obs[c].files \in Files
  /\ pc[c] \in {"prepared", "save", "fill"} => obs[c].made = {"worktree"}

Coding(c) ==
  /\ call[c].service = "coding"
  /\ pc[c] \in {"round", "check", "open", "replace", "qa", "security", "reviewed", "save",
                "fill"}
  /\ Source(c, "workspace")
  /\ files # None
  /\ obs[c] \in CodingObservations
  /\ obs[c].round \in 1 .. Len(obs[c].plans)
  /\ obs[c].patch \in 1 .. Len(Round(c).patches)
  /\ pc[c] \in {"round", "qa", "security"} => obs[c].patch = 1
  /\ pc[c] = "security" => obs[c].disturbed \/ QAPasses(files)
  /\ pc[c] = "reviewed" => obs[c].disturbed \/ Reviewed(files)
  /\ pc[c] \in {"save", "fill"} =>
       /\ obs[c].files \in Files \ {BaseFiles}
       /\ obs[c].disturbed \/ Reviewed(obs[c].files)

Delivering(c) ==
  /\ call[c].service = "github"
  /\ pc[c] \in {"lookup", "add", "commit", "push", "pull", "delivered", "status", "digests",
                "save", "fill"}
  /\ "commit" \in DOMAIN obs[c]
  /\ Source(c, "coding")
  /\ files # None
  /\ obs[c].files = artifact["coding"][call[c].from].files
  /\ pc[c] \in {"push", "pull", "delivered", "status", "digests", "save", "fill"} =>
       /\ head.depth > 0 /\ obs[c].commit \in Commits
       /\ head.depth = 1 => head = obs[c].commit
       /\ obs[c].commit.depth = 1
  /\ pc[c] = "push" => obs[c].made = {"commit"} /\ remote = None
  /\ pc[c] = "pull" => obs[c].made = {"commit", "push"} /\ remote = obs[c].commit
  /\ pc[c] \in {"delivered", "status", "digests", "save", "fill"} =>
       /\ obs[c].made = {"commit", "push", "pull"}
       /\ remote = obs[c].commit /\ pull = obs[c].commit
  /\ pc[c] = "status" /\ head.depth = 1 => obs[c].disturbed \/ files = obs[c].commit.files
  /\ pc[c] = "digests" =>
       /\ ChangedPaths(obs[c].commit.files) = ChangedPaths(obs[c].files)
       /\ obs[c].disturbed \/ files = obs[c].commit.files
  /\ pc[c] \in {"save", "fill"} => obs[c].disturbed \/ obs[c].commit.files = obs[c].files

Deploying(c) ==
  /\ call[c].service = "preview"
  /\ pc[c] \in {"find", "deploy", "save", "fill"}
  /\ "commit" \in DOMAIN obs[c]
  /\ Source(c, "github")
  /\ obs[c].files = artifact["github"][call[c].from].files
  /\ obs[c].commit = artifact["github"][call[c].from].commit
  /\ pc[c] \in {"save", "fill"} =>
       obs[c].made = {"preview"} /\ preview # None /\ preview = obs[c].commit

CallerOK(c) ==
  \/ pc[c] = "idle"
  \/ /\ call[c].exec \in Execs
     /\ {"files", "disturbed", "made"} \subseteq DOMAIN obs[c]
     /\ pc[c] = "fill" => artifact[call[c].service][call[c].exec] = Torn
     /\ Preparing(c) \/ Coding(c) \/ Delivering(c) \/ Deploying(c)

(* A delivery that has made the first commit.                                *)
Late(c) ==
  \/ pc[c] \in {"push", "pull", "delivered", "status", "digests"}
  \/ pc[c] \in {"save", "fill"} /\ call[c].service = "github"

OneWriter ==
  \A c, d \in Callers :
    /\ pc[c] = "fill" /\ pc[d] = "fill"
    /\ call[c].service = call[d].service /\ call[c].exec = call[d].exec
    => c = d

OneDelivery ==
  \A c \in Callers :
    Late(c) =>
      /\ \A d \in Callers : Late(d) => c = d
      /\ \A x \in Execs : ~IsStored("github", x)

RepositoryOK ==
  /\ source \in {"base", "changed"} /\ branch \in BOOLEAN
  /\ branch <=> files # None
  /\ worktrees = IF branch THEN 1 ELSE 0
  /\ files # None => files \in Files /\ index \in Files /\ head \in Commits
  /\ head = None \/ head \in Commits
  /\ stage \in [Paths -> Contents \cup {None}]

PlatformOK ==
  /\ remote = None \/ remote \in Commits
  /\ pull = None \/ pull \in Commits
  /\ preview = None \/ preview \in Commits
  /\ pushes = IF remote = None THEN 0 ELSE 1
  /\ pulls = IF pull = None THEN 0 ELSE 1
  /\ deployments = IF preview = None THEN 0 ELSE 1
  /\ remote # None => files # None /\ head.depth > 0
  /\ preview # None => remote # None /\ preview = remote

FromStored(service, x, sources) ==
  LET it == artifact[service][x] IN
    /\ it.from \in Execs
    /\ IsStored(sources, it.from)
    /\ artifact[sources][it.from].orchestration = it.orchestration

StoredOK(service, x) ==
  LET it == artifact[service][x] IN
    /\ it.exec = x /\ it.files \in Files
    /\ service = "workspace" => it.made = {"worktree"}
    /\ service = "coding" =>
         /\ FromStored(service, x, "workspace")
         /\ it.files # BaseFiles
         /\ it.disturbed \/ Reviewed(it.files)
    /\ service = "github" =>
         /\ FromStored(service, x, "coding")
         /\ it.made = {"commit", "push", "pull"}
         /\ remote # None /\ pull = remote /\ it.commit = remote
         /\ it.disturbed \/ it.files = remote.files
         /\ it.files = artifact["coding"][it.from].files
    /\ service = "preview" =>
         /\ FromStored(service, x, "github")
         /\ it.made = {"preview"}
         /\ preview # None /\ it.commit = preview
         /\ it.commit = artifact["github"][it.from].commit

ArtifactsOK ==
  \A s \in Services, x \in Execs : IsStored(s, x) => StoredOK(s, x)

Shapes ==
  /\ DOMAIN pc = Callers /\ DOMAIN call = Callers /\ DOMAIN obs = Callers
  /\ DOMAIN artifact = Services
  /\ \A s \in Services : DOMAIN artifact[s] = Execs

PDInv ==
  /\ Shapes
  /\ RepositoryOK /\ PlatformOK /\ ArtifactsOK
  /\ OneWriter /\ OneDelivery
  /\ \A c \in Callers : CallerOK(c)

-----------------------------------------------------------------------------
(* What the shared steps do to a caller, stated once.                        *)

(* The other callers are where they were. *)
Apart(c) ==
  \A d \in Callers \ {c} : pc'[d] = pc[d] /\ call'[d] = call[d] /\ obs'[d] = obs[d]

(* Goto and Note move the caller c only. *)
LEMMA GotoMoves ==
  ASSUME Shapes, NEW c \in Callers, NEW label, Goto(c, label)
  PROVE  /\ pc'[c] = label
         /\ \A d \in Callers \ {c} : pc'[d] = pc[d]
         /\ DOMAIN pc' = Callers
  BY DEF Shapes, Goto

Noted(o, field, value) == [o EXCEPT ![field] = value]

LEMMA NoteNotes ==
  ASSUME Shapes, NEW c \in Callers, NEW field, NEW value, Note(c, field, value)
  PROVE  /\ obs'[c] = Noted(obs[c], field, value)
         /\ \A d \in Callers \ {c} : obs'[d] = obs[d]
         /\ DOMAIN obs' = Callers
  BY DEF Shapes, Note, Noted

(* The two together. *)
LEMMA GotoNoteMoves ==
  ASSUME Shapes, NEW c \in Callers, NEW label, NEW field, NEW value,
         Goto(c, label), Note(c, field, value), UNCHANGED call
  PROVE  /\ pc'[c] = label /\ obs'[c] = Noted(obs[c], field, value) /\ Apart(c)
         /\ DOMAIN pc' = Callers /\ DOMAIN call' = Callers /\ DOMAIN obs' = Callers
  <1>1. /\ pc'[c] = label /\ DOMAIN pc' = Callers
        /\ \A d \in Callers \ {c} : pc'[d] = pc[d]
    BY GotoMoves
  <1>2. /\ obs'[c] = Noted(obs[c], field, value) /\ DOMAIN obs' = Callers
        /\ \A d \in Callers \ {c} : obs'[d] = obs[d]
    BY NoteNotes
  <1>3. call' = call /\ DOMAIN call' = Callers
    BY DEF Shapes
  <1>4. Apart(c)
    BY <1>1, <1>2, <1>3 DEF Apart
  <1> QED BY <1>1, <1>2, <1>3, <1>4

(* A call that returns leaves the other callers where they were. *)
LEMMA ReturnMoves ==
  ASSUME Shapes, NEW c \in Callers, Return(c)
  PROVE  /\ pc'[c] = "idle" /\ Apart(c)
         /\ DOMAIN pc' = Callers /\ DOMAIN call' = Callers /\ DOMAIN obs' = Callers
  BY DEF Shapes, Return, Apart

(* An artifact that loads is a stored one. *)
LEMMA LoadStored ==
  ASSUME NEW s, NEW x
  PROVE  /\ Load(s, x) # None <=> IsStored(s, x)
         /\ IsStored(s, x) => Load(s, x) = artifact[s][x]
  BY NoneAssumption DEF Load, IsStored, Torn

(* The patch a coding run is at is one of the planned ones. *)
LEMMA PatchPlanned ==
  ASSUME NEW c \in Callers, obs[c] \in CodingObservations,
         obs[c].round \in 1 .. Len(obs[c].plans),
         obs[c].patch \in 1 .. Len(Round(c).patches)
  PROVE  /\ Round(c) \in Rounds
         /\ Patch(c).path \in Paths /\ Patch(c).content \in Contents
  <1>1. obs[c].plans \in Providers /\ obs[c].plans \in Seq(Rounds)
    BY PlansAssumption DEF CodingObservations
  <1>2. Round(c) \in Rounds
    BY <1>1 DEF Round
  <1>3. Patch(c) \in Patches
    <2>1. Round(c).patches \in Seq(Patches)
      BY <1>2, PlansAssumption
    <2> QED BY <2>1 DEF Patch
  <1> QED BY <1>2, <1>3, PlansAssumption DEF Contents

-----------------------------------------------------------------------------
(* What the others may do to a caller.                                       *)

(* A step of somebody else, as the caller d sees it: artifacts that are      *)
(* stored, the workspace and the preview stay; a changed file leaves a mark  *)
(* on d's observation; and nobody but a delivery under way pushes.           *)
Undisturbed(d) ==
  /\ pc'[d] = pc[d] /\ call'[d] = call[d]
  /\ obs'[d] = obs[d] \/ obs'[d] = [obs[d] EXCEPT !.disturbed = TRUE]
  /\ files # None =>
       /\ files' # None
       /\ files' = files \/ pc[d] = "idle" \/ obs'[d] = [obs[d] EXCEPT !.disturbed = TRUE]
  /\ \A s \in Services, x \in Execs : IsStored(s, x) => artifact'[s][x] = artifact[s][x]
  /\ pc[d] = "fill" =>
       artifact'[call[d].service][call[d].exec] = artifact[call[d].service][call[d].exec]
  /\ Late(d) =>
       /\ remote' = remote /\ pull' = pull
       /\ head'.depth > 0 /\ (head' = head \/ head'.depth > 1)
  /\ preview # None => preview' = preview

LEMMA StoredStays ==
  ASSUME NEW s \in Services, NEW x \in Execs, IsStored(s, x), artifact'[s][x] = artifact[s][x]
  PROVE  IsStored(s, x)'
  BY DEF IsStored

LEMMA PreparingStays ==
  ASSUME NEW d \in Callers, Preparing(d), Undisturbed(d),
         {"files", "disturbed", "made"} \subseteq DOMAIN obs[d]
  PROVE  Preparing(d)'
  BY DEF Preparing, Undisturbed

(* The mark on a disturbed observation is all that changes of it. *)
LEMMA MarkedObservation ==
  ASSUME NEW o \in CodingObservations
  PROVE  LET marked == [o EXCEPT !.disturbed = TRUE]
         IN  /\ marked \in CodingObservations
             /\ marked.disturbed
             /\ marked.files = o.files /\ marked.plans = o.plans
             /\ marked.round = o.round /\ marked.patch = o.patch
  BY DEF CodingObservations

LEMMA CodingStays ==
  ASSUME NEW d \in Callers, Coding(d), Undisturbed(d)
  PROVE  Coding(d)'
  <1>1. /\ pc[d] # "idle"
        /\ obs'[d] = obs[d] \/ obs'[d] = [obs[d] EXCEPT !.disturbed = TRUE]
        /\ files' = files \/ obs'[d] = [obs[d] EXCEPT !.disturbed = TRUE]
        /\ obs[d] \in CodingObservations
    BY NoneAssumption DEF Coding, Undisturbed
  <1>2. /\ obs'[d].files = obs[d].files /\ obs'[d].plans = obs[d].plans
        /\ obs'[d].round = obs[d].round /\ obs'[d].patch = obs[d].patch
        /\ obs[d].disturbed => obs'[d].disturbed
        /\ files' = files \/ obs'[d].disturbed
        /\ obs'[d] \in CodingObservations
    BY <1>1, MarkedObservation
  <1>3. Round(d)' = Round(d)
    BY <1>2 DEF Round
  <1>4. Source(d, "workspace")'
    BY DEF Coding, Undisturbed, Source, IsStored, Services
  <1> QED BY <1>1, <1>2, <1>3, <1>4 DEF Coding, Undisturbed, Reviewed, QAPasses, SecurityPasses

LEMMA DeliveringStays ==
  ASSUME NEW d \in Callers, Delivering(d), Undisturbed(d),
         {"files", "disturbed", "made"} \subseteq DOMAIN obs[d]
  PROVE  Delivering(d)'
  <1>1. /\ "commit" \in DOMAIN obs'[d]
        /\ obs'[d].files = obs[d].files /\ obs'[d].commit = obs[d].commit
        /\ obs'[d].made = obs[d].made
        /\ obs[d].disturbed => obs'[d].disturbed
        /\ pc[d] # "idle" => files' = files \/ obs'[d].disturbed
    BY DEF Delivering, Undisturbed
  <1>2. Source(d, "coding")' /\ artifact'["coding"][call[d].from] = artifact["coding"][call[d].from]
    BY DEF Delivering, Undisturbed, Source, IsStored, Services
  <1>3. Late(d) => /\ remote' = remote /\ pull' = pull
                   /\ head'.depth > 0 /\ (head' = head \/ head'.depth > 1)
    BY DEF Undisturbed
  <1>4. pc[d] \in {"push", "pull", "delivered", "status", "digests", "save", "fill"} =>
          /\ remote' = remote /\ pull' = pull
          /\ head'.depth > 0 /\ (head' = head \/ head'.depth > 1)
    BY <1>3 DEF Late, Delivering
  <1>5. pc[d] # "idle"
    BY DEF Delivering
  <1> QED BY <1>1, <1>2, <1>4, <1>5 DEF Delivering, Undisturbed, ChangedPaths

LEMMA DeployingStays ==
  ASSUME NEW d \in Callers, Deploying(d), Undisturbed(d),
         {"files", "disturbed", "made"} \subseteq DOMAIN obs[d]
  PROVE  Deploying(d)'
  <1>1. Source(d, "github")' /\ artifact'["github"][call[d].from] = artifact["github"][call[d].from]
    BY DEF Deploying, Undisturbed, Source, IsStored, Services
  <1> QED BY <1>1 DEF Deploying, Undisturbed

(* What a caller relies on survives the steps of the others. *)
LEMMA CallerStays ==
  ASSUME NEW d \in Callers, CallerOK(d), Undisturbed(d)
  PROVE  CallerOK(d)'
  <1>1. CASE pc[d] = "idle"
    BY <1>1 DEF CallerOK, Undisturbed
  <1>2. CASE pc[d] # "idle"
    <2>1. /\ call[d].exec \in Execs
          /\ {"files", "disturbed", "made"} \subseteq DOMAIN obs[d]
          /\ pc[d] = "fill" => artifact[call[d].service][call[d].exec] = Torn
          /\ Preparing(d) \/ Coding(d) \/ Delivering(d) \/ Deploying(d)
      BY <1>2 DEF CallerOK
    <2>2. /\ call'[d].exec \in Execs
          /\ {"files", "disturbed", "made"} \subseteq DOMAIN obs'[d]
          /\ pc'[d] = "fill" => artifact'[call'[d].service][call'[d].exec] = Torn
      BY <2>1 DEF Undisturbed
    <2>3. Preparing(d)' \/ Coding(d)' \/ Delivering(d)' \/ Deploying(d)'
      BY <2>1, PreparingStays, CodingStays, DeliveringStays, DeployingStays
    <2> QED BY <2>2, <2>3 DEF CallerOK
  <1> QED BY <1>1, <1>2

-----------------------------------------------------------------------------
(* The shape of a step.                                                      *)

(* Stored artifacts stay true as long as nobody pushes, opens a pull request *)
(* or replaces a preview after they were stored.                             *)
LEMMA ArtifactsStay ==
  ASSUME ArtifactsOK, UNCHANGED artifact,
         \A x \in Execs : IsStored("github", x) => remote' = remote /\ pull' = pull,
         preview # None => preview' = preview
  PROVE  ArtifactsOK'
  <1> SUFFICES ASSUME NEW s \in Services, NEW x \in Execs, IsStored(s, x)'
               PROVE  StoredOK(s, x)'
    BY DEF ArtifactsOK
  <1>1. IsStored(s, x) /\ StoredOK(s, x)
    BY DEF ArtifactsOK, IsStored
  <1>2. \A sources \in Services : FromStored(s, x, sources) => FromStored(s, x, sources)'
    BY DEF FromStored, IsStored
  <1>3. s = "github" => remote' = remote /\ pull' = pull
    BY <1>1
  <1> QED BY <1>1, <1>2, <1>3 DEF StoredOK, Services, Reviewed, QAPasses, SecurityPasses

(* A step of the caller c that keeps what the others rely on, starts no      *)
(* first commit, writes no artifact and keeps the shared parts.              *)
LEMMA SharedStep ==
  ASSUME PDInv, NEW c \in Callers,
         \A d \in Callers \ {c} : Undisturbed(d),
         Shapes', RepositoryOK', PlatformOK', ArtifactsOK', UNCHANGED artifact,
         CallerOK(c)', pc'[c] # "fill", Late(c)' => Late(c)
  PROVE  PDInv'
  <1>1. \A d \in Callers : CallerOK(d)'
    <2> SUFFICES ASSUME NEW d \in Callers, d # c PROVE CallerOK(d)'
      OBVIOUS
    <2> QED BY CallerStays DEF PDInv
  <1>2. \A d \in Callers \ {c} : pc'[d] = pc[d] /\ call'[d] = call[d]
    BY DEF Undisturbed
  <1>3. OneWriter'
    BY <1>2 DEF PDInv, OneWriter
  <1>4. \A d \in Callers : Late(d)' => Late(d)
    BY <1>2 DEF Late
  <1>5. OneDelivery'
    BY <1>4 DEF PDInv, OneDelivery, IsStored
  <1> QED BY <1>1, <1>3, <1>5 DEF PDInv

(* A step of the caller c that changes nothing but c. *)
LEMMA LocalStep ==
  ASSUME PDInv, NEW c \in Callers,
         UNCHANGED <<repository, artifact, worktrees, platform>>,
         Apart(c), DOMAIN pc' = Callers, DOMAIN call' = Callers, DOMAIN obs' = Callers,
         CallerOK(c)', pc'[c] # "fill", Late(c)' => Late(c)
  PROVE  PDInv'
  <1>1. /\ UNCHANGED <<source, branch, files, index, head, stage>> /\ UNCHANGED artifact
        /\ UNCHANGED worktrees
        /\ UNCHANGED <<remote, pull, preview, pushes, pulls, deployments>>
    BY DEF repository, platform
  <1>2. \A d \in Callers \ {c} : Undisturbed(d)
    <2> SUFFICES ASSUME NEW d \in Callers, d # c PROVE Undisturbed(d)
      OBVIOUS
    <2>1. Late(d) => head.depth > 0
      BY DEF PDInv, CallerOK, Late, Preparing, Coding, Delivering, Deploying
    <2> QED BY <1>1, <2>1 DEF Undisturbed, Apart
  <1>3. Shapes' /\ RepositoryOK' /\ PlatformOK'
    BY <1>1 DEF PDInv, Shapes, RepositoryOK, PlatformOK
  <1>4. ArtifactsOK'
    BY <1>1, ArtifactsStay DEF PDInv
  <1> QED BY <1>1, <1>2, <1>3, <1>4, SharedStep

(* A call that returns or dies changes nothing but itself. *)
LEMMA ReturnStep ==
  ASSUME PDInv, NEW c \in Callers, Return(c),
         UNCHANGED <<repository, artifact, worktrees, platform>>
  PROVE  PDInv'
  <1>1. /\ pc'[c] = "idle" /\ Apart(c)
        /\ DOMAIN pc' = Callers /\ DOMAIN call' = Callers /\ DOMAIN obs' = Callers
    BY ReturnMoves DEF PDInv
  <1>2. CallerOK(c)' /\ ~Late(c)'
    BY <1>1 DEF CallerOK, Late
  <1> QED BY <1>1, <1>2, LocalStep

(* A step of the caller c that keeps the files, the commit and the platform. *)
LEMMA RepositoryStep ==
  ASSUME PDInv, NEW c \in Callers, RepositoryOK',
         UNCHANGED <<files, head, artifact, platform>>,
         Apart(c), DOMAIN pc' = Callers, DOMAIN call' = Callers, DOMAIN obs' = Callers,
         CallerOK(c)', pc'[c] # "fill", Late(c)' => Late(c)
  PROVE  PDInv'
  <1>1. /\ UNCHANGED <<files, head>> /\ UNCHANGED artifact
        /\ UNCHANGED <<remote, pull, preview, pushes, pulls, deployments>>
    BY DEF platform
  <1>2. \A d \in Callers \ {c} : Undisturbed(d)
    <2> SUFFICES ASSUME NEW d \in Callers, d # c PROVE Undisturbed(d)
      OBVIOUS
    <2>1. Late(d) => head.depth > 0
      BY DEF PDInv, CallerOK, Late, Preparing, Coding, Delivering, Deploying
    <2> QED BY <1>1, <2>1 DEF Undisturbed, Apart
  <1>3. Shapes' /\ PlatformOK'
    BY <1>1 DEF PDInv, Shapes, PlatformOK
  <1>4. ArtifactsOK'
    BY <1>1, ArtifactsStay DEF PDInv
  <1> QED BY <1>1, <1>2, <1>3, <1>4, SharedStep

(* A step that only moves the caller c on. *)
LEMMA GotoStep ==
  ASSUME PDInv, NEW c \in Callers, NEW label, Goto(c, label), UNCHANGED <<call, obs>>,
         UNCHANGED <<repository, artifact, worktrees, platform>>,
         CallerOK(c)', label # "fill", Late(c)' => Late(c)
  PROVE  PDInv'
  <1>1. /\ pc'[c] = label /\ Apart(c)
        /\ DOMAIN pc' = Callers /\ DOMAIN call' = Callers /\ DOMAIN obs' = Callers
    BY GotoMoves DEF PDInv, Apart, Shapes
  <1> QED BY <1>1, LocalStep

(* A call that begins changes nothing but itself. *)
LEMMA BeginMoves ==
  ASSUME PDInv, NEW c \in Callers, NEW request, NEW authority, NEW label, NEW observation,
         Begin(c, request, authority, label, observation), UNCHANGED platform
  PROVE  /\ pc'[c] = label /\ call'[c] = request /\ obs'[c] = observation /\ Apart(c)
         /\ DOMAIN pc' = Callers /\ DOMAIN call' = Callers /\ DOMAIN obs' = Callers
         /\ UNCHANGED <<repository, artifact, worktrees, platform>>
  BY GotoMoves DEF Begin, PDInv, Shapes, Apart

-----------------------------------------------------------------------------

LEMMA InitInvariant == Init => PDInv
  <1> SUFFICES ASSUME Init PROVE PDInv
    OBVIOUS
  <1>1. Shapes
    BY DEF Init, CodingInit, Shapes
  <1>2. RepositoryOK
    BY DEF Init, CodingInit, RepositoryOK, NoStage
  <1>3. PlatformOK
    BY DEF Init, PlatformOK
  <1>4. \A s \in Services, x \in Execs : ~IsStored(s, x)
    BY DEF Init, CodingInit, IsStored
  <1>5. \A c \in Callers : pc[c] = "idle"
    BY DEF Init, CodingInit
  <1> QED BY <1>1, <1>2, <1>3, <1>4, <1>5
          DEF PDInv, ArtifactsOK, OneWriter, OneDelivery, CallerOK, Late

-----------------------------------------------------------------------------
(* runtime/product_workspace.                                                *)

(* A new preparation has made nothing yet. *)
LEMMA PrepareBeginInvariant ==
  ASSUME PDInv, NEW c \in Callers, PrepareBegin(c), UNCHANGED platform
  PROVE  PDInv'
  <1>1. PICK exec \in Execs, orchestration \in Orchestrations, authority \in Authorities :
          Begin(c, WorkspaceRequest(exec, orchestration, authority), authority, "prepare",
                WorkspaceObservation)
    BY DEF PrepareBegin
  <1>2. /\ pc'[c] = "prepare" /\ obs'[c] = WorkspaceObservation /\ Apart(c)
        /\ call'[c] = WorkspaceRequest(exec, orchestration, authority)
        /\ DOMAIN pc' = Callers /\ DOMAIN call' = Callers /\ DOMAIN obs' = Callers
        /\ UNCHANGED <<repository, artifact, worktrees, platform>>
    BY <1>1, BeginMoves
  <1>3. BaseFiles \in Files
    BY DEF BaseFiles, Files, Contents
  <1>4. Preparing(c)' /\ {"files", "disturbed", "made"} \subseteq DOMAIN obs'[c]
        /\ call'[c].exec \in Execs
    BY <1>2, <1>3 DEF Preparing, WorkspaceRequest, Request, WorkspaceObservation
  <1>5. CallerOK(c)' /\ ~Late(c)'
    BY <1>2, <1>4 DEF CallerOK, Late
  <1> QED BY <1>2, <1>5, LocalStep

(* The inspection before the effect. *)
LEMMA PrepareInspectInvariant ==
  ASSUME PDInv, NEW c \in Callers, PrepareInspect(c), UNCHANGED platform
  PROVE  PDInv'
  <1>1. pc[c] = "prepare" /\ UNCHANGED <<repository, artifact, worktrees, platform>>
    BY DEF PrepareInspect
  <1>2. CASE Goto(c, "worktree") /\ UNCHANGED <<call, obs>>
    <2>1. pc'[c] = "worktree"
      BY <1>2, GotoMoves DEF PDInv
    <2>2. CallerOK(c)' /\ ~Late(c)'
      BY <1>1, <1>2, <2>1 DEF PDInv, CallerOK, Preparing, Coding, Delivering, Deploying, Late
    <2> QED BY <1>1, <1>2, <2>2, GotoStep
  <1>3. CASE Return(c)
    BY <1>1, <1>3, ReturnStep
  <1> QED BY <1>2, <1>3 DEF PrepareInspect

(* The last inspection of the new worktree. *)
LEMMA PrepareConfirmInvariant ==
  ASSUME PDInv, NEW c \in Callers, PrepareConfirm(c), UNCHANGED platform
  PROVE  PDInv'
  <1>1. pc[c] = "prepared" /\ UNCHANGED <<repository, artifact, worktrees, platform>>
    BY DEF PrepareConfirm
  <1>2. CASE Goto(c, "save") /\ UNCHANGED <<call, obs>>
    <2>1. pc'[c] = "save"
      BY <1>2, GotoMoves DEF PDInv
    <2>2. CallerOK(c)' /\ ~Late(c)'
      BY <1>1, <1>2, <2>1 DEF PDInv, CallerOK, Preparing, Coding, Delivering, Deploying, Late
    <2> QED BY <1>1, <1>2, <2>2, GotoStep
  <1>3. CASE Return(c)
    BY <1>1, <1>3, ReturnStep
  <1> QED BY <1>2, <1>3 DEF PrepareConfirm

(* git worktree add: only where there is neither a branch nor a directory,   *)
(* so nobody works in the workspace yet.                                     *)
LEMMA PrepareWorktreeInvariant ==
  ASSUME PDInv, NEW c \in Callers, PrepareWorktree(c), UNCHANGED platform
  PROVE  PDInv'
  <1>1. /\ pc[c] = "worktree" /\ WorktreeAdd(c)
        /\ UNCHANGED <<source, stage>> /\ UNCHANGED artifact
        /\ UNCHANGED <<remote, pull, preview, pushes, pulls, deployments>>
    BY DEF PrepareWorktree, platform
  <1>2. CASE MayCreate
    <2>1. /\ ~branch /\ files = None
          /\ branch' = TRUE /\ files' = BaseFiles /\ index' = BaseFiles /\ head' = BaseCommit
          /\ worktrees' = worktrees + 1
          /\ Goto(c, "prepared") /\ Note(c, "made", {"worktree"}) /\ UNCHANGED call
      BY <1>1, <1>2 DEF WorktreeAdd, MayCreate
    <2>2. BaseFiles \in Files /\ BaseFiles # None /\ BaseCommit \in Commits
      BY NoneAssumption DEF BaseFiles, BaseCommit, Files, Contents, Commits
    <2>3. /\ pc'[c] = "prepared" /\ obs'[c] = Noted(obs[c], "made", {"worktree"})
          /\ Apart(c)
          /\ DOMAIN pc' = Callers /\ DOMAIN call' = Callers /\ DOMAIN obs' = Callers
      BY <2>1, GotoNoteMoves DEF PDInv
    <2>4. \A d \in Callers \ {c} : Undisturbed(d)
      <3> SUFFICES ASSUME NEW d \in Callers, d # c PROVE Undisturbed(d)
        OBVIOUS
      <3>1. ~Late(d)
        BY <2>1 DEF PDInv, CallerOK, Late, Preparing, Coding, Delivering, Deploying
      <3> QED BY <1>1, <2>1, <2>3, <3>1 DEF Undisturbed, Apart
    <2>5. Shapes'
      BY <1>1, <2>3 DEF PDInv, Shapes
    <2>6. RepositoryOK'
      BY <1>1, <2>1, <2>2 DEF PDInv, RepositoryOK
    <2>7. PlatformOK'
      BY <1>1, <2>1 DEF PDInv, PlatformOK
    <2>8. ArtifactsOK'
      BY <1>1, ArtifactsStay DEF PDInv
    <2>9. Preparing(c) /\ call[c].exec \in Execs
          /\ {"files", "disturbed", "made"} \subseteq DOMAIN obs[c]
      BY <1>1 DEF PDInv, CallerOK, Preparing, Coding, Delivering, Deploying
    <2>10. CallerOK(c)' /\ ~Late(c)'
      BY <2>1, <2>3, <2>9 DEF CallerOK, Preparing, Late, Noted
    <2> QED BY <1>1, <2>3, <2>4, <2>5, <2>6, <2>7, <2>8, <2>10, SharedStep
  <1>3. CASE ~MayCreate
    <2>1. Return(c) /\ UNCHANGED <<repository, artifact, worktrees, platform>>
      BY <1>1, <1>3 DEF WorktreeAdd, repository, platform
    <2> QED BY <2>1, ReturnStep
  <1> QED BY <1>2, <1>3

-----------------------------------------------------------------------------
(* runtime/coding_review.                                                    *)

(* A coding run that is not saving yet moves on, without changing anything   *)
(* but itself.                                                               *)
LEMMA CodingMoves ==
  ASSUME PDInv, NEW c \in Callers,
         UNCHANGED <<repository, artifact, worktrees, platform>>, UNCHANGED call, Apart(c),
         DOMAIN pc' = Callers, DOMAIN call' = Callers, DOMAIN obs' = Callers,
         call[c].exec \in Execs, pc'[c] # "fill", Coding(c)'
  PROVE  PDInv'
  <1>1. {"files", "disturbed", "made"} \subseteq DOMAIN obs'[c]
    BY DEF Coding, CodingObservations
  <1>2. CallerOK(c)' /\ ~Late(c)'
    BY <1>1 DEF CallerOK, Coding, Late
  <1> QED BY <1>2, LocalStep

(* What is known of a coding run at one of its own steps. *)
LEMMA CodingKnown ==
  ASSUME PDInv, NEW c \in Callers,
         pc[c] \in {"round", "check", "open", "replace", "qa", "security", "reviewed"}
  PROVE  Coding(c) /\ call[c].exec \in Execs
  BY DEF PDInv, CallerOK, Preparing, Coding, Delivering, Deploying

LEMMA RoundsNotEmpty == \A round \in Rounds : 1 \in 1 .. Len(round.patches)
  <1> SUFFICES ASSUME NEW round \in Rounds PROVE 1 \in 1 .. Len(round.patches)
    OBVIOUS
  <1>1. PICK n \in 1 .. 16 : n = Len(round.patches)
    BY PlansAssumption
  <1>2. 1 \in 1 .. n
    OBVIOUS
  <1> QED BY <1>1, <1>2

(* A new run has its workspace and its planned rounds before it. *)
LEMMA CodingBeginInvariant ==
  ASSUME PDInv, NEW c \in Callers, CodingBegin(c), UNCHANGED platform
  PROVE  PDInv'
  <1>1. PICK exec \in Execs, from \in Execs, orchestration \in Orchestrations,
             authority \in Authorities, plans \in Providers :
          /\ CodingSources(CodingRequest(exec, orchestration, from, authority))
          /\ CodingBefore
          /\ Len(plans) \in 1 .. authority.rounds
          /\ Begin(c, CodingRequest(exec, orchestration, from, authority), authority, "round",
                   CodingObservation(plans))
    BY DEF CodingBegin
  <1>2. /\ pc'[c] = "round" /\ obs'[c] = CodingObservation(plans) /\ Apart(c)
        /\ call'[c] = CodingRequest(exec, orchestration, from, authority)
        /\ DOMAIN pc' = Callers /\ DOMAIN call' = Callers /\ DOMAIN obs' = Callers
        /\ UNCHANGED <<repository, artifact, worktrees, platform>>
    BY <1>1, BeginMoves
  <1>3. /\ call'[c].service = "workspace" \/ call'[c].service = "coding"
        /\ call'[c].service = "coding" /\ call'[c].exec = exec
        /\ call'[c].from = from /\ call'[c].orchestration = orchestration
    BY <1>2 DEF CodingRequest, Request
  <1>4. Source(c, "workspace")'
    <2>1. /\ Load("workspace", from) # None
          /\ Load("workspace", from).orchestration = orchestration
      BY <1>1 DEF CodingSources, WorkspaceArtifact, CodingRequest, Request
    <2>2. /\ IsStored("workspace", from)
          /\ artifact["workspace"][from].orchestration = orchestration
      BY <2>1, LoadStored
    <2> QED BY <1>2, <1>3, <2>2 DEF Source, IsStored
  <1>5. CodingObservation(plans) \in CodingObservations
    BY DEF CodingObservation, CodingObservations
  <1>6. /\ obs'[c].round = 1 /\ obs'[c].patch = 1 /\ obs'[c].plans = plans
    BY <1>2 DEF CodingObservation
  <1>7. Len(plans) >= 1 /\ plans \in Seq(Rounds) /\ Len(plans) \in Nat
    <2>1. plans \in Seq(Rounds)
      BY PlansAssumption
    <2>2. Len(plans) \in Nat
      BY <2>1
    <2>3. authority.rounds \in Int
      BY AuthorityAssumption
    <2> QED BY <1>1, <2>1, <2>2, <2>3
  <1>8. /\ 1 \in 1 .. Len(plans)
        /\ Round(c)' \in Rounds
    <2>1. 1 \in 1 .. Len(plans) /\ plans[1] \in Rounds
      BY <1>7
    <2>2. Round(c)' = plans[1]
      BY <1>6 DEF Round
    <2> QED BY <2>1, <2>2
  <1>9. 1 \in 1 .. Len(Round(c)'.patches)
    BY <1>8, RoundsNotEmpty
  <1>10. files' # None
    BY <1>1, <1>2 DEF CodingBefore, repository
  <1>11. Coding(c)'
    BY <1>2, <1>3, <1>4, <1>5, <1>6, <1>8, <1>9, <1>10 DEF Coding
  <1>12. {"files", "disturbed", "made"} \subseteq DOMAIN obs'[c]
    BY <1>2 DEF CodingObservation
  <1>13. CallerOK(c)' /\ ~Late(c)'
    BY <1>2, <1>3, <1>11, <1>12 DEF CallerOK, Late
  <1> QED BY <1>2, <1>13, LocalStep

(* A round that answers its findings goes on to its patches. *)
LEMMA StartRoundInvariant ==
  ASSUME PDInv, NEW c \in Callers, StartRound(c), UNCHANGED platform
  PROVE  PDInv'
  <1>1. pc[c] = "round" /\ UNCHANGED <<repository, artifact, worktrees, platform>>
    BY DEF StartRound
  <1>2. CASE Goto(c, "check") /\ UNCHANGED <<call, obs>>
    <2>1. /\ pc'[c] = "check" /\ Apart(c)
          /\ DOMAIN pc' = Callers /\ DOMAIN call' = Callers /\ DOMAIN obs' = Callers
      BY <1>2, GotoMoves DEF PDInv, Shapes, Apart
    <2>2. Coding(c) /\ call[c].exec \in Execs
      BY <1>1, CodingKnown
    <2>3. Coding(c)'
      BY <1>1, <1>2, <2>1, <2>2 DEF Coding, Source, IsStored, Round, repository
    <2> QED BY <1>1, <1>2, <2>1, <2>2, <2>3, CodingMoves
  <1>3. CASE Return(c)
    BY <1>1, <1>3, ReturnStep
  <1> QED BY <1>2, <1>3 DEF StartRound

(* A patch whose stage path is free is opened next. *)
LEMMA CheckStageInvariant ==
  ASSUME PDInv, NEW c \in Callers, CheckStage(c), UNCHANGED platform
  PROVE  PDInv'
  <1>1. pc[c] = "check" /\ UNCHANGED <<repository, artifact, worktrees, platform>>
    BY DEF CheckStage
  <1>2. CASE Goto(c, "open") /\ UNCHANGED <<call, obs>>
    <2>1. /\ pc'[c] = "open" /\ Apart(c)
          /\ DOMAIN pc' = Callers /\ DOMAIN call' = Callers /\ DOMAIN obs' = Callers
      BY <1>2, GotoMoves DEF PDInv, Shapes, Apart
    <2>2. Coding(c) /\ call[c].exec \in Execs
      BY <1>1, CodingKnown
    <2>3. Coding(c)'
      BY <1>1, <1>2, <2>1, <2>2 DEF Coding, Source, IsStored, Round, repository
    <2> QED BY <1>1, <1>2, <2>1, <2>2, <2>3, CodingMoves
  <1>3. CASE Return(c)
    BY <1>1, <1>3, ReturnStep
  <1> QED BY <1>2, <1>3 DEF CheckStage

(* The stage file is created exclusively, or the call that finds one fails   *)
(* and removes it.                                                           *)
LEMMA OpenStageInvariant ==
  ASSUME PDInv, NEW c \in Callers, OpenStage(c), UNCHANGED platform
  PROVE  PDInv'
  <1>1. /\ pc[c] = "open"
        /\ UNCHANGED <<source, branch, files, index, head, artifact, worktrees>>
        /\ UNCHANGED platform
    BY DEF OpenStage
  <1>2. Coding(c) /\ call[c].exec \in Execs
    BY <1>1, CodingKnown
  <1>3. Patch(c).path \in Paths /\ Patch(c).content \in Contents
    BY <1>2, PatchPlanned DEF Coding
  <1>4. PICK value \in Contents \cup {None} : stage' = [stage EXCEPT ![Patch(c).path] = value]
    BY <1>3 DEF OpenStage
  <1>5. RepositoryOK'
    BY <1>1, <1>3, <1>4 DEF PDInv, RepositoryOK
  <1>6. CASE Goto(c, "replace") /\ UNCHANGED <<call, obs>>
    <2>1. /\ pc'[c] = "replace" /\ Apart(c)
          /\ DOMAIN pc' = Callers /\ DOMAIN call' = Callers /\ DOMAIN obs' = Callers
      BY <1>6, GotoMoves DEF PDInv, Shapes, Apart
    <2>2. Coding(c)'
      BY <1>1, <1>2, <1>6, <2>1 DEF Coding, Source, IsStored, Round
    <2>3. {"files", "disturbed", "made"} \subseteq DOMAIN obs'[c]
      BY <2>2 DEF Coding, CodingObservations
    <2>4. CallerOK(c)' /\ ~Late(c)'
      BY <1>2, <1>6, <2>1, <2>2, <2>3 DEF CallerOK, Late
    <2> QED BY <1>1, <1>5, <2>1, <2>4, RepositoryStep
  <1>7. CASE Return(c)
    <2>1. /\ pc'[c] = "idle" /\ Apart(c)
          /\ DOMAIN pc' = Callers /\ DOMAIN call' = Callers /\ DOMAIN obs' = Callers
      BY <1>7, ReturnMoves DEF PDInv
    <2>2. CallerOK(c)' /\ ~Late(c)'
      BY <2>1 DEF CallerOK, Late
    <2> QED BY <1>1, <1>5, <2>1, <2>2, RepositoryStep
  <1> QED BY <1>6, <1>7 DEF OpenStage

(* One more patch, while there is one. *)
LEMMA NextInRange ==
  ASSUME NEW n \in Nat, NEW i \in 1 .. n, i # n
  PROVE  i + 1 \in 1 .. n
  OBVIOUS

(* What a file change shows the other callers. *)
LEMMA DisturbMarks ==
  ASSUME NEW c \in Callers, NEW d \in Callers, d # c
  PROVE  \/ Disturb(c)[d] = obs[d] /\ pc[d] = "idle"
         \/ Disturb(c)[d] = [obs[d] EXCEPT !.disturbed = TRUE]
  BY DEF Disturb

(* The replaced file is one of the planned contents, and everyone else who   *)
(* is under way is told.                                                     *)
LEMMA FileReplaced ==
  ASSUME PDInv, NEW c \in Callers, Coding(c),
         stage[Patch(c).path] # None,
         files' = [files EXCEPT ![Patch(c).path] = stage[Patch(c).path]],
         stage' = [stage EXCEPT ![Patch(c).path] = None],
         UNCHANGED <<source, branch, index, head, artifact, worktrees>>, UNCHANGED platform,
         \A d \in Callers \ {c} : pc'[d] = pc[d] /\ call'[d] = call[d]
                                  /\ obs'[d] = Disturb(c)[d],
         DOMAIN pc' = Callers, DOMAIN call' = Callers, DOMAIN obs' = Callers,
         CallerOK(c)', pc'[c] # "fill", ~Late(c)'
  PROVE  PDInv'
  <1>1. Patch(c).path \in Paths /\ stage[Patch(c).path] \in Contents
    BY PatchPlanned DEF Coding, PDInv, RepositoryOK
  <1>2. files # None /\ files \in Files
    BY DEF Coding, PDInv, RepositoryOK
  <1>3. files' \in Files /\ files' # None
    BY <1>1, <1>2, NoneAssumption DEF Files
  <1>4. stage' \in [Paths -> Contents \cup {None}]
    BY <1>1 DEF PDInv, RepositoryOK
  <1>5. UNCHANGED <<source, branch, index, head, worktrees>> /\ UNCHANGED artifact
        /\ UNCHANGED <<remote, pull, preview, pushes, pulls, deployments>>
    BY DEF platform
  <1>6. RepositoryOK'
    BY <1>2, <1>3, <1>4, <1>5 DEF PDInv, RepositoryOK
  <1>7. \A d \in Callers \ {c} : Undisturbed(d)
    <2> SUFFICES ASSUME NEW d \in Callers, d # c PROVE Undisturbed(d)
      OBVIOUS
    <2>1. Late(d) => head.depth > 0
      BY DEF PDInv, CallerOK, Late, Preparing, Coding, Delivering, Deploying
    <2>2. /\ pc'[d] = pc[d] /\ call'[d] = call[d]
          /\ \/ obs'[d] = obs[d] /\ pc[d] = "idle"
             \/ obs'[d] = [obs[d] EXCEPT !.disturbed = TRUE]
      BY DisturbMarks
    <2> QED BY <1>3, <1>5, <2>1, <2>2 DEF Undisturbed
  <1>8. PlatformOK'
    BY <1>3, <1>5 DEF PDInv, PlatformOK
  <1>9. Shapes'
    BY <1>5 DEF PDInv, Shapes
  <1>10. ArtifactsOK'
    BY <1>5, ArtifactsStay DEF PDInv
  <1> QED BY <1>5, <1>6, <1>7, <1>8, <1>9, <1>10, SharedStep

(* The observation after a written patch. *)
Written(o, next) == [o EXCEPT !.writes = o.writes + 1, !.patch = next]

LEMMA WrittenObservation ==
  ASSUME NEW o \in CodingObservations, NEW next \in Nat
  PROVE  /\ Written(o, next) \in CodingObservations
         /\ Written(o, next).plans = o.plans
         /\ Written(o, next).round = o.round
         /\ Written(o, next).patch = next
  <1>1. o.writes + 1 \in Nat
    BY DEF CodingObservations
  <1> QED BY <1>1 DEF CodingObservations, Written

(* A replaced patch of a run that goes on: the next patch, or QA. *)
LEMMA ReplacedAndOn ==
  ASSUME PDInv, NEW c \in Callers, pc[c] = "replace", NEW last \in BOOLEAN,
         last = (obs[c].patch = Len(Round(c).patches)),
         Goto(c, IF last THEN "qa" ELSE "check"),
         obs' = [Disturb(c) EXCEPT ![c].writes = @ + 1,
                                   ![c].patch = IF last THEN 1 ELSE @ + 1],
         UNCHANGED call, UNCHANGED artifact, files' # None
  PROVE  /\ \A d \in Callers \ {c} : pc'[d] = pc[d] /\ call'[d] = call[d]
                                     /\ obs'[d] = Disturb(c)[d]
         /\ DOMAIN pc' = Callers /\ DOMAIN call' = Callers /\ DOMAIN obs' = Callers
         /\ CallerOK(c)' /\ pc'[c] # "fill" /\ ~Late(c)'
  <1>1. /\ pc'[c] = IF last THEN "qa" ELSE "check"
        /\ \A d \in Callers \ {c} : pc'[d] = pc[d]
        /\ DOMAIN pc' = Callers
    BY GotoMoves DEF PDInv
  <1>2. Coding(c) /\ call[c].exec \in Execs
    BY CodingKnown
  <1>3. PICK o \in CodingObservations : o = obs[c]
    BY <1>2 DEF Coding
  <1>4. Disturb(c)[c] = o /\ DOMAIN Disturb(c) = Callers
    BY <1>3 DEF Disturb
  <1>5. /\ obs'[c] = [o EXCEPT !.writes = o.writes + 1,
                               !.patch = IF last THEN 1 ELSE o.patch + 1]
        /\ \A d \in Callers \ {c} : obs'[d] = Disturb(c)[d]
        /\ DOMAIN obs' = Callers
    BY <1>4
  <1>6. PICK next \in Nat : next = IF last THEN 1 ELSE o.patch + 1
    BY DEF CodingObservations
  <1>7. /\ obs'[c] \in CodingObservations
        /\ obs'[c].plans = o.plans /\ obs'[c].round = o.round /\ obs'[c].patch = next
    <2>1. obs'[c] = [o EXCEPT !.writes = o.writes + 1, !.patch = next]
      <3>1. CASE last
        BY <1>5, <1>6, <3>1
      <3>2. CASE ~last
        BY <1>5, <1>6, <3>2
      <3> QED BY <3>1, <3>2
    <2>2. obs'[c] = Written(o, next)
      BY <2>1 DEF Written
    <2>3. /\ Written(o, next) \in CodingObservations
          /\ Written(o, next).plans = o.plans
          /\ Written(o, next).round = o.round
          /\ Written(o, next).patch = next
      BY WrittenObservation
    <2> QED BY <2>2, <2>3
  <1>8. Round(c)' = Round(c)
    BY <1>3, <1>7 DEF Round
  <1>9. next \in 1 .. Len(Round(c).patches)
    <2>1. PICK n \in Nat : n = Len(Round(c).patches)
      <3>1. Round(c) \in Rounds
        BY <1>2, PatchPlanned DEF Coding
      <3>2. Round(c).patches \in Seq(Patches)
        BY <3>1, PlansAssumption
      <3> QED BY <3>2
    <2>2. o.patch \in 1 .. n
      BY <1>2, <1>3, <2>1 DEF Coding
    <2>3. CASE last
      <3>1. next = 1
        BY <1>6, <2>3
      <3> QED BY <2>1, <2>2, <3>1
    <2>4. CASE ~last
      BY <1>3, <1>6, <2>1, <2>2, <2>4, NextInRange
    <2> QED BY <2>3, <2>4
  <1>10. Coding(c)'
    BY <1>1, <1>2, <1>3, <1>6, <1>7, <1>8, <1>9 DEF Coding, Source, IsStored
  <1>11. {"files", "disturbed", "made"} \subseteq DOMAIN obs'[c]
    BY <1>7 DEF CodingObservations
  <1>12. CallerOK(c)' /\ pc'[c] # "fill" /\ ~Late(c)'
    BY <1>1, <1>2, <1>10, <1>11 DEF CallerOK, Late
  <1> QED BY <1>1, <1>5, <1>12 DEF PDInv, Shapes

(* The stage file is renamed over the file, or the write fails. *)
LEMMA ReplaceFileInvariant ==
  ASSUME PDInv, NEW c \in Callers, ReplaceFile(c), UNCHANGED platform
  PROVE  PDInv'
  <1>. DEFINE path == Patch(c).path
              last == obs[c].patch = Len(Round(c).patches)
  <1>1. /\ pc[c] = "replace"
        /\ UNCHANGED <<source, branch, index, head, artifact, worktrees>>
        /\ UNCHANGED platform /\ UNCHANGED artifact
    BY DEF ReplaceFile
  <1>2. Coding(c) /\ call[c].exec \in Execs
    BY <1>1, CodingKnown
  <1>3. path \in Paths
    BY <1>2, PatchPlanned DEF Coding
  <1>4. CASE /\ stage[path] # None
             /\ files' = [files EXCEPT ![path] = stage[path]]
             /\ stage' = [stage EXCEPT ![path] = None]
             /\ pc' = [pc EXCEPT ![c] = "idle"]
             /\ call' = [call EXCEPT ![c] = None]
             /\ obs' = [Disturb(c) EXCEPT ![c] = None]
    <2>1. /\ \A d \in Callers \ {c} : pc'[d] = pc[d] /\ call'[d] = call[d]
                                      /\ obs'[d] = Disturb(c)[d]
          /\ pc'[c] = "idle"
          /\ DOMAIN pc' = Callers /\ DOMAIN call' = Callers /\ DOMAIN obs' = Callers
      BY <1>4 DEF PDInv, Shapes, Disturb
    <2>2. CallerOK(c)' /\ ~Late(c)'
      BY <2>1 DEF CallerOK, Late
    <2> QED BY <1>1, <1>2, <1>4, <2>1, <2>2, FileReplaced
  <1>5. CASE /\ stage[path] # None
             /\ files' = [files EXCEPT ![path] = stage[path]]
             /\ stage' = [stage EXCEPT ![path] = None]
             /\ Goto(c, IF last THEN "qa" ELSE "check")
             /\ obs' = [Disturb(c) EXCEPT ![c].writes = @ + 1,
                                          ![c].patch = IF last THEN 1 ELSE @ + 1]
             /\ UNCHANGED call
    <2>1. files' # None
      <3>1. stage[path] \in Contents /\ files \in Files
        BY <1>2, <1>3, <1>5 DEF PDInv, RepositoryOK, Coding
      <3>2. files' \in Files
        BY <1>3, <1>5, <3>1 DEF Files
      <3> QED BY <3>2, NoneAssumption DEF Files
    <2>2. PICK final \in BOOLEAN : final = last
      OBVIOUS
    <2>3. /\ \A d \in Callers \ {c} : pc'[d] = pc[d] /\ call'[d] = call[d]
                                      /\ obs'[d] = Disturb(c)[d]
          /\ DOMAIN pc' = Callers /\ DOMAIN call' = Callers /\ DOMAIN obs' = Callers
          /\ CallerOK(c)' /\ pc'[c] # "fill" /\ ~Late(c)'
      BY <1>1, <1>5, <2>1, <2>2, ReplacedAndOn
    <2> QED BY <1>1, <1>2, <1>5, <2>3, FileReplaced
  <1>6. CASE /\ stage' = [stage EXCEPT ![path] = None]
             /\ Return(c) /\ UNCHANGED files
    <2>1. RepositoryOK'
      BY <1>1, <1>3, <1>6 DEF PDInv, RepositoryOK
    <2>2. /\ pc'[c] = "idle" /\ Apart(c)
          /\ DOMAIN pc' = Callers /\ DOMAIN call' = Callers /\ DOMAIN obs' = Callers
      BY <1>6, ReturnMoves DEF PDInv
    <2>3. CallerOK(c)' /\ ~Late(c)'
      BY <2>2 DEF CallerOK, Late
    <2> QED BY <1>1, <1>6, <2>1, <2>2, <2>3, RepositoryStep
  <1> QED BY <1>4, <1>5, <1>6 DEF ReplaceFile

(* The observation of a run that was sent back to its next round. *)
SentBack(o, code) ==
  [o EXCEPT !.round = o.round + 1, !.feedback = {code}, !.commands = o.commands + 1]

LEMMA RoundObservation ==
  ASSUME NEW o \in CodingObservations, NEW code \in {"QA_TEST_FAILURE", "SECURITY_FINDING"}
  PROVE  /\ SentBack(o, code) \in CodingObservations
         /\ SentBack(o, code).plans = o.plans
         /\ SentBack(o, code).round = o.round + 1
         /\ SentBack(o, code).patch = o.patch
  <1>1. o.round + 1 \in Nat /\ o.commands + 1 \in Nat
    BY DEF CodingObservations
  <1> QED BY <1>1 DEF CodingObservations, SentBack

(* The observation of a run whose review passed. *)
LEMMA PassedObservation ==
  ASSUME NEW o \in CodingObservations
  PROVE  LET passed == Noted(o, "commands", o.commands + 1)
         IN  /\ passed \in CodingObservations
             /\ passed.plans = o.plans /\ passed.round = o.round /\ passed.patch = o.patch
             /\ passed.disturbed = o.disturbed
  <1>1. o.commands + 1 \in Nat
    BY DEF CodingObservations
  <1> QED BY <1>1 DEF CodingObservations, Noted

(* A failed review is answered in the next round, while there is one. *)
LEMMA NextRoundInvariant ==
  ASSUME PDInv, NEW c \in Callers, pc[c] \in {"qa", "security"},
         NEW code \in {"QA_TEST_FAILURE", "SECURITY_FINDING"}, NextRound(c, code),
         UNCHANGED <<repository, artifact, worktrees, platform>>
  PROVE  PDInv'
  <1>1. CASE LastRound(c)
    BY <1>1, ReturnStep DEF NextRound
  <1>2. CASE ~LastRound(c)
    <2>1. Coding(c) /\ call[c].exec \in Execs /\ obs[c].patch = 1
      BY CodingKnown DEF Coding
    <2>2. PICK o \in CodingObservations : o = obs[c]
      BY <2>1 DEF Coding
    <2>3. /\ Goto(c, "round") /\ UNCHANGED call
          /\ obs' = [obs EXCEPT ![c].round = @ + 1, ![c].feedback = {code},
                                ![c].commands = @ + 1]
      BY <1>2 DEF NextRound
    <2>4. /\ obs'[c] = SentBack(o, code)
          /\ \A d \in Callers \ {c} : obs'[d] = obs[d]
          /\ DOMAIN obs' = Callers
      BY <2>2, <2>3 DEF PDInv, Shapes, SentBack
    <2>5. /\ pc'[c] = "round" /\ Apart(c)
          /\ DOMAIN pc' = Callers /\ DOMAIN call' = Callers
      BY <2>3, <2>4, GotoMoves DEF PDInv, Shapes, Apart
    <2>6. /\ obs'[c] \in CodingObservations
          /\ obs'[c].plans = o.plans /\ obs'[c].round = o.round + 1 /\ obs'[c].patch = 1
      BY <2>1, <2>2, <2>4, RoundObservation
    <2>7. o.round + 1 \in 1 .. Len(o.plans) /\ o.plans \in Seq(Rounds)
      <3>1. o.plans \in Seq(Rounds)
        BY PlansAssumption DEF CodingObservations
      <3>2. PICK n \in Nat : n = Len(o.plans)
        BY <3>1
      <3>3. o.round \in 1 .. n /\ o.round # n
        BY <1>2, <2>1, <2>2, <3>2 DEF Coding, LastRound
      <3> QED BY <3>1, <3>2, <3>3, NextInRange
    <2>8. Round(c)' \in Rounds
      BY <2>6, <2>7 DEF Round
    <2>9. 1 \in 1 .. Len(Round(c)'.patches)
      BY <2>8, RoundsNotEmpty
    <2>10. Coding(c)'
      BY <2>1, <2>3, <2>5, <2>6, <2>7, <2>9 DEF Coding, Source, IsStored, repository
    <2> QED BY <2>1, <2>3, <2>4, <2>5, <2>10, CodingMoves
  <1> QED BY <1>1, <1>2

(* A review that passed. *)
LEMMA ReviewPassed ==
  ASSUME PDInv, NEW c \in Callers, NEW label \in {"security", "reviewed"},
         pc[c] = IF label = "security" THEN "qa" ELSE "security",
         IF label = "security" THEN QAPasses(files) ELSE SecurityPasses(files),
         Goto(c, label), Note(c, "commands", obs[c].commands + 1), UNCHANGED call,
         UNCHANGED <<repository, artifact, worktrees, platform>>
  PROVE  PDInv'
  <1>1. Coding(c) /\ call[c].exec \in Execs /\ obs[c].patch = 1
    BY CodingKnown DEF Coding
  <1>2. PICK o \in CodingObservations : o = obs[c]
    BY <1>1 DEF Coding
  <1>3. /\ pc'[c] = label /\ obs'[c] = Noted(o, "commands", o.commands + 1) /\ Apart(c)
        /\ DOMAIN pc' = Callers /\ DOMAIN call' = Callers /\ DOMAIN obs' = Callers
    BY <1>2, GotoNoteMoves DEF PDInv
  <1>4. /\ obs'[c] \in CodingObservations
        /\ obs'[c].plans = o.plans /\ obs'[c].round = o.round /\ obs'[c].patch = o.patch
        /\ obs'[c].disturbed = o.disturbed
    BY <1>3, PassedObservation
  <1>5. Round(c)' = Round(c) /\ files' = files /\ call' = call /\ artifact' = artifact
    BY <1>2, <1>4 DEF Round, repository
  <1>6. /\ label = "security" => QAPasses(files)
        /\ label = "reviewed" => obs[c].disturbed \/ Reviewed(files)
    BY <1>1 DEF Coding, Reviewed
  <1>7. Source(c, "workspace")'
    BY <1>1, <1>5 DEF Coding, Source, IsStored
  <1>8. Coding(c)'
    BY <1>1, <1>2, <1>3, <1>4, <1>5, <1>6, <1>7
       DEF Coding, Reviewed, QAPasses, SecurityPasses
  <1> QED BY <1>1, <1>3, <1>8, CodingMoves

(* pytest, on the files as they are now. *)
LEMMA RunQAInvariant ==
  ASSUME PDInv, NEW c \in Callers, RunQA(c), UNCHANGED platform
  PROVE  PDInv'
  <1>1. pc[c] = "qa" /\ UNCHANGED <<repository, artifact, worktrees, platform>>
    BY DEF RunQA
  <1>2. CASE QAPasses(files)
    BY <1>1, <1>2, ReviewPassed DEF RunQA
  <1>3. CASE ~QAPasses(files)
    BY <1>1, <1>3, NextRoundInvariant DEF RunQA
  <1> QED BY <1>2, <1>3

(* The static review, of the files that passed QA or were disturbed since. *)
LEMMA RunSecurityInvariant ==
  ASSUME PDInv, NEW c \in Callers, RunSecurity(c), UNCHANGED platform
  PROVE  PDInv'
  <1>1. pc[c] = "security" /\ UNCHANGED <<repository, artifact, worktrees, platform>>
    BY DEF RunSecurity
  <1>2. CASE SecurityPasses(files) /\ Goto(c, "reviewed")
             /\ Note(c, "commands", obs[c].commands + 1) /\ UNCHANGED call
    BY <1>1, <1>2, ReviewPassed
  <1>3. CASE NextRound(c, "SECURITY_FINDING")
    BY <1>1, <1>3, NextRoundInvariant
  <1>4. CASE Return(c)
    BY <1>1, <1>4, ReturnStep
  <1> QED BY <1>2, <1>3, <1>4 DEF RunSecurity

(* The service keeps the files it finds; nothing was undisturbed and differs *)
(* from what was reviewed.                                                   *)
LEMMA CodingConfirmInvariant ==
  ASSUME PDInv, NEW c \in Callers, CodingConfirm(c), UNCHANGED platform
  PROVE  PDInv'
  <1>1. pc[c] = "reviewed" /\ UNCHANGED <<repository, artifact, worktrees, platform>>
    BY DEF CodingConfirm
  <1>2. CASE CodingAccepted(c) /\ Goto(c, "save") /\ Note(c, "files", files) /\ UNCHANGED call
    <2>1. Coding(c) /\ call[c].exec \in Execs
      BY <1>1, CodingKnown
    <2>2. PICK o \in CodingObservations : o = obs[c]
      BY <2>1 DEF Coding
    <2>3. /\ pc'[c] = "save" /\ obs'[c] = Noted(o, "files", files) /\ Apart(c)
          /\ DOMAIN pc' = Callers /\ DOMAIN call' = Callers /\ DOMAIN obs' = Callers
      BY <1>2, <2>2, GotoNoteMoves DEF PDInv
    <2>4. files \in Files /\ files # BaseFiles
      BY <1>2, <2>1 DEF PDInv, RepositoryOK, Coding, CodingAccepted
    <2>5. /\ obs'[c] \in CodingObservations
          /\ obs'[c].files = files
          /\ obs'[c].plans = o.plans /\ obs'[c].round = o.round /\ obs'[c].patch = o.patch
          /\ obs'[c].disturbed = o.disturbed
      BY <2>2, <2>3, <2>4 DEF CodingObservations, Noted, Files
    <2>6. Round(c)' = Round(c) /\ files' = files /\ call' = call /\ artifact' = artifact
      BY <1>1, <1>2, <2>2, <2>5 DEF Round, repository
    <2>7. o.disturbed \/ Reviewed(files)
      BY <1>1, <2>1, <2>2 DEF Coding
    <2>8. Source(c, "workspace")'
      BY <2>1, <2>6 DEF Coding, Source, IsStored
    <2>9. Coding(c)'
      BY <2>1, <2>2, <2>3, <2>4, <2>5, <2>6, <2>7, <2>8
         DEF Coding, Reviewed, QAPasses, SecurityPasses
    <2> QED BY <1>1, <1>2, <2>1, <2>3, <2>9, CodingMoves
  <1>3. CASE Return(c)
    BY <1>1, <1>3, ReturnStep
  <1> QED BY <1>2, <1>3 DEF CodingConfirm

-----------------------------------------------------------------------------
(* The artifact, and the end of a call.                                      *)

(* A slot that held nothing the stores would load is written: what was       *)
(* stored stays, and so does the slot another caller is filling.             *)
LEMMA WrittenUndisturbed ==
  ASSUME PDInv, NEW c \in Callers, NEW s \in Services, NEW x \in Execs,
         ~IsStored(s, x),
         \A t \in Services, y \in Execs :
           t # s \/ y # x => artifact'[t][y] = artifact[t][y],
         Apart(c), UNCHANGED <<repository, platform>>,
         \A d \in Callers \ {c} :
           pc[d] = "fill" => call[d].service # s \/ call[d].exec # x
  PROVE  \A d \in Callers \ {c} : Undisturbed(d)
  <1> SUFFICES ASSUME NEW d \in Callers, d # c PROVE Undisturbed(d)
    OBVIOUS
  <1>1. UNCHANGED <<files, head>> /\ UNCHANGED <<remote, pull, preview>>
    BY DEF repository, platform
  <1>2. Late(d) => head.depth > 0
    BY DEF PDInv, CallerOK, Late, Preparing, Coding, Delivering, Deploying
  <1>3. \A t \in Services, y \in Execs : IsStored(t, y) => artifact'[t][y] = artifact[t][y]
    OBVIOUS
  <1>4. pc[d] = "fill" => call[d].service \in Services /\ call[d].exec \in Execs
    BY DEF PDInv, CallerOK, Preparing, Coding, Delivering, Deploying, Services
  <1>5. pc[d] = "fill" =>
          artifact'[call[d].service][call[d].exec] = artifact[call[d].service][call[d].exec]
    BY <1>4
  <1> QED BY <1>1, <1>2, <1>3, <1>5 DEF Undisturbed, Apart

(* Every other artifact that is stored stays true.                           *)
LEMMA OthersStayTrue ==
  ASSUME PDInv, NEW s \in Services, NEW x \in Execs, ~IsStored(s, x),
         \A t \in Services, y \in Execs :
           t # s \/ y # x => artifact'[t][y] = artifact[t][y],
         UNCHANGED platform,
         NEW t \in Services, NEW y \in Execs, t # s \/ y # x, IsStored(t, y)'
  PROVE  StoredOK(t, y)'
  <1>1. IsStored(t, y) /\ artifact'[t][y] = artifact[t][y]
    BY DEF IsStored
  <1>2. StoredOK(t, y)
    BY <1>1 DEF PDInv, ArtifactsOK
  <1>3. \A u \in Services, z \in Execs :
          IsStored(u, z) => IsStored(u, z)' /\ artifact'[u][z] = artifact[u][z]
    BY DEF IsStored
  <1>4. \A sources \in Services : FromStored(t, y, sources) => FromStored(t, y, sources)'
    BY <1>1, <1>3 DEF FromStored
  <1>5. t = "github" => artifact'["coding"][artifact[t][y].from]
                          = artifact["coding"][artifact[t][y].from]
    BY <1>2, <1>3 DEF StoredOK, FromStored, Services
  <1>6. remote' = remote /\ pull' = pull /\ preview' = preview
    BY DEF platform
  <1>7. t = "preview" => artifact'["github"][artifact[t][y].from]
                           = artifact["github"][artifact[t][y].from]
    BY <1>2, <1>3 DEF StoredOK, FromStored, Services
  <1> QED BY <1>1, <1>2, <1>4, <1>5, <1>6, <1>7
          DEF StoredOK, Services, Reviewed, QAPasses, SecurityPasses

(* The file is created exclusively: nobody else is filling it. *)
LEMMA SaveInvariant ==
  ASSUME PDInv, NEW c \in Callers, Save(c), UNCHANGED platform
  PROVE  PDInv'
  <1>1. /\ pc[c] = "save" /\ UNCHANGED <<repository, worktrees, platform>>
        /\ UNCHANGED repository /\ UNCHANGED worktrees
        /\ UNCHANGED <<remote, pull, preview, pushes, pulls, deployments>>
        /\ UNCHANGED <<source, branch, files, index, head, stage>>
    BY DEF Save, platform, repository
  <1>4. call[c].service \in Services /\ call[c].exec \in Execs
    BY <1>1 DEF PDInv, CallerOK, Preparing, Coding, Delivering, Deploying, Services
  <1>5. PICK s \in Services, x \in Execs : s = call[c].service /\ x = call[c].exec
    BY <1>4
  <1>2. CASE /\ artifact[s][x] = None
             /\ artifact' = [artifact EXCEPT ![s][x] = Torn]
             /\ Goto(c, "fill") /\ UNCHANGED <<call, obs>>
    <2>1. s = call[c].service /\ x = call[c].exec
      BY <1>5
    <2>2. /\ DOMAIN artifact' = Services
          /\ \A t \in Services : DOMAIN artifact'[t] = Execs
          /\ artifact'[s][x] = Torn
          /\ \A t \in Services, y \in Execs :
               t # s \/ y # x => artifact'[t][y] = artifact[t][y]
      BY <1>2 DEF PDInv, Shapes
    <2>3. /\ pc'[c] = "fill" /\ Apart(c)
          /\ DOMAIN pc' = Callers /\ DOMAIN call' = Callers /\ DOMAIN obs' = Callers
      BY <1>2, GotoMoves DEF PDInv, Shapes, Apart
    <2>4. ~IsStored(s, x) /\ ~IsStored(s, x)' /\ None # Torn
      BY <1>2, <2>2, NoneAssumption DEF IsStored, Torn
    <2>5. \A d \in Callers : pc[d] = "fill" => call[d].service # s \/ call[d].exec # x
      BY <1>2, <2>4 DEF PDInv, CallerOK
    <2>6. \A d \in Callers \ {c} : Undisturbed(d)
      BY <1>1, <2>1, <2>2, <2>3, <2>4, <2>5, WrittenUndisturbed
    <2>7. \A d \in Callers \ {c} : CallerOK(d)'
      BY <2>6, CallerStays DEF PDInv
    <2>8. CallerOK(c)'
      <3>1. /\ call'[c] = call[c] /\ obs'[c] = obs[c]
            /\ x \in Execs /\ {"files", "disturbed", "made"} \subseteq DOMAIN obs[c]
            /\ Preparing(c) \/ Coding(c) \/ Delivering(c) \/ Deploying(c)
        BY <1>1, <1>2 DEF PDInv, CallerOK
      <3>2. \A t \in Services, y \in Execs :
              IsStored(t, y) => IsStored(t, y)' /\ artifact'[t][y] = artifact[t][y]
        BY <2>2, <2>4 DEF IsStored
      <3>3. \A t \in Services : Source(c, t) => Source(c, t)'
        BY <3>1, <3>2 DEF Source
      <3>4. Preparing(c) => Preparing(c)'
        BY <1>1, <2>3, <3>1 DEF Preparing
      <3>5. Coding(c) => Coding(c)'
        <4>1. Round(c)' = Round(c)
          BY <3>1 DEF Round
        <4> QED BY <1>1, <2>3, <3>1, <3>3, <4>1
                DEF Coding, Services, Reviewed, QAPasses, SecurityPasses
      <3>6. Delivering(c) => Delivering(c)'
        <4>1. Delivering(c) => artifact'["coding"][call[c].from] = artifact["coding"][call[c].from]
          BY <3>2 DEF Delivering, Source, Services
        <4> QED BY <1>1, <2>3, <3>1, <3>3, <4>1 DEF Delivering, Services
      <3>7. Deploying(c) => Deploying(c)'
        <4>1. Deploying(c) => artifact'["github"][call[c].from] = artifact["github"][call[c].from]
          BY <3>2 DEF Deploying, Source, Services
        <4> QED BY <1>1, <2>3, <3>1, <3>3, <4>1 DEF Deploying, Services
      <3> QED BY <2>1, <2>2, <2>3, <3>1, <3>4, <3>5, <3>6, <3>7 DEF CallerOK
    <2>9. Shapes' /\ RepositoryOK' /\ PlatformOK'
      BY <1>1, <2>2, <2>3 DEF PDInv, Shapes, RepositoryOK, PlatformOK
    <2>10. ArtifactsOK'
      BY <1>1, <2>1, <2>2, <2>4, OthersStayTrue DEF ArtifactsOK
    <2>11. \A d \in Callers \ {c} : pc'[d] = pc[d] /\ call'[d] = call[d]
      BY <2>3 DEF Apart
    <2>12. OneWriter'
      BY <1>2, <2>1, <2>3, <2>5, <2>11 DEF PDInv, OneWriter
    <2>13. \A d \in Callers : Late(d)' => Late(d)
      BY <1>1, <1>2, <2>3, <2>11 DEF Late
    <2>14. \A y \in Execs : IsStored("github", y)' => IsStored("github", y)
      BY <2>2, <2>4 DEF IsStored, Services
    <2>15. OneDelivery'
      BY <2>13, <2>14 DEF PDInv, OneDelivery
    <2> QED BY <2>7, <2>8, <2>9, <2>10, <2>12, <2>15 DEF PDInv
  <1>3. CASE Return(c) /\ UNCHANGED artifact
    BY <1>1, <1>3, ReturnStep
  <1> QED BY <1>2, <1>3, <1>5 DEF Save

(* What a call stores is true.                                               *)
LEMMA FilledIsTrue ==
  ASSUME PDInv, NEW c \in Callers, pc[c] = "fill",
         \A t \in Services, y \in Execs :
           IsStored(t, y) => IsStored(t, y)' /\ artifact'[t][y] = artifact[t][y],
         NEW s \in Services, NEW x \in Execs, s = call[c].service, x = call[c].exec,
         artifact'[s][x] = ArtifactOf(c),
         UNCHANGED platform
  PROVE  StoredOK(s, x)'
  <1>. DEFINE it == artifact'[s][x]
  <1>1. /\ it.exec = x /\ it.orchestration = call[c].orchestration /\ it.from = call[c].from
        /\ it.files = obs[c].files /\ it.disturbed = obs[c].disturbed /\ it.made = obs[c].made
        /\ it.commit = obs[c].commit
    BY DEF ArtifactOf
  <1>2. \A t \in Services : Source(c, t) => FromStored(s, x, t)'
    BY <1>1 DEF Source, FromStored
  <1>3. remote' = remote /\ pull' = pull /\ preview' = preview
    BY DEF platform
  <1>4. Preparing(c) \/ Coding(c) \/ Delivering(c) \/ Deploying(c)
    BY DEF PDInv, CallerOK
  <1>5. CASE Preparing(c)
    BY <1>1, <1>5 DEF Preparing, StoredOK
  <1>6. CASE Coding(c)
    BY <1>1, <1>2, <1>6 DEF Coding, StoredOK, Services, Reviewed, QAPasses, SecurityPasses
  <1>7. CASE Delivering(c)
    <2>1. artifact'["coding"][call[c].from] = artifact["coding"][call[c].from]
      BY <1>7 DEF Delivering, Source, Services
    <2>2. obs[c].files \in Files
      BY <1>7 DEF Delivering, PDInv, ArtifactsOK, StoredOK, Source, Services
    <2>3. remote # None
      BY <1>7, NoneAssumption DEF Delivering
    <2> QED BY <1>1, <1>2, <1>3, <1>7, <2>1, <2>2, <2>3 DEF Delivering, StoredOK, Services
  <1>8. CASE Deploying(c)
    <2>1. obs[c].files \in Files
      BY <1>8 DEF Deploying, PDInv, ArtifactsOK, StoredOK, Source, Services
    <2>2. artifact'["github"][call[c].from] = artifact["github"][call[c].from]
      BY <1>8 DEF Deploying, Source, Services
    <2> QED BY <1>1, <1>2, <1>3, <1>8, <2>1, <2>2 DEF Deploying, StoredOK, Services
  <1> QED BY <1>4, <1>5, <1>6, <1>7, <1>8

(* The artifact is written, or the file is unlinked.                         *)
LEMMA FillInvariant ==
  ASSUME PDInv, NEW c \in Callers, Fill(c), UNCHANGED platform
  PROVE  PDInv'
  <1>1. /\ pc[c] = "fill" /\ Return(c) /\ UNCHANGED <<repository, platform>>
        /\ UNCHANGED worktrees
        /\ UNCHANGED <<remote, pull, preview, pushes, pulls, deployments>>
        /\ UNCHANGED <<source, branch, files, index, head, stage>>
    BY DEF Fill, platform, repository
  <1>0. call[c].service \in Services /\ call[c].exec \in Execs
    BY <1>1 DEF PDInv, CallerOK, Preparing, Coding, Delivering, Deploying, Services
  <1>a. PICK s \in Services, x \in Execs : s = call[c].service /\ x = call[c].exec
    BY <1>0
  <1>2. PICK stored \in {ArtifactOf(c), None} :
          artifact' = [artifact EXCEPT ![s][x] = stored]
    BY <1>a DEF Fill
  <1>3. s = call[c].service /\ x = call[c].exec /\ ~IsStored(s, x)
    BY <1>1, <1>a DEF PDInv, CallerOK, IsStored
  <1>4. /\ DOMAIN artifact' = Services
        /\ \A t \in Services : DOMAIN artifact'[t] = Execs
        /\ artifact'[s][x] = stored
        /\ \A t \in Services, y \in Execs :
             t # s \/ y # x => artifact'[t][y] = artifact[t][y]
    BY <1>2 DEF PDInv, Shapes
  <1>5. /\ pc'[c] = "idle" /\ Apart(c)
        /\ DOMAIN pc' = Callers /\ DOMAIN call' = Callers /\ DOMAIN obs' = Callers
    BY <1>1, ReturnMoves DEF PDInv
  <1>6. \A d \in Callers \ {c} : pc[d] = "fill" => call[d].service # s \/ call[d].exec # x
    BY <1>1, <1>3 DEF PDInv, OneWriter
  <1>7. \A d \in Callers \ {c} : Undisturbed(d)
    BY <1>1, <1>3, <1>4, <1>5, <1>6, WrittenUndisturbed
  <1>8. \A d \in Callers : CallerOK(d)'
    <2> SUFFICES ASSUME NEW d \in Callers, d # c PROVE CallerOK(d)'
      BY <1>5 DEF CallerOK
    <2> QED BY <1>7, CallerStays DEF PDInv
  <1>9. Shapes' /\ RepositoryOK' /\ PlatformOK'
    BY <1>1, <1>4, <1>5 DEF PDInv, Shapes, RepositoryOK, PlatformOK
  <1>10. \A t \in Services, y \in Execs :
           IsStored(t, y) => IsStored(t, y)' /\ artifact'[t][y] = artifact[t][y]
    BY <1>3, <1>4 DEF IsStored
  <1>11. IsStored(s, x)' => StoredOK(s, x)'
    <2> SUFFICES ASSUME IsStored(s, x)' PROVE StoredOK(s, x)'
      OBVIOUS
    <2>1. stored # None
      BY <1>4 DEF IsStored
    <2>2. artifact'[s][x] = ArtifactOf(c)
      BY <1>2, <1>4, <2>1
    <2> QED BY <1>1, <1>3, <1>10, <2>2, FilledIsTrue
  <1>12. ArtifactsOK'
    BY <1>1, <1>3, <1>4, <1>11, OthersStayTrue DEF ArtifactsOK
  <1>13. \A d \in Callers \ {c} : pc'[d] = pc[d] /\ call'[d] = call[d]
    BY <1>5 DEF Apart
  <1>14. OneWriter'
    BY <1>5, <1>13 DEF PDInv, OneWriter
  <1>15. \A d \in Callers : Late(d)' => Late(d) /\ d # c
    BY <1>5, <1>13 DEF Late
  <1>16. s = "github" => \A d \in Callers : ~Late(d)'
    BY <1>1, <1>3, <1>15 DEF PDInv, OneDelivery, Late
  <1>17. s # "github" => \A y \in Execs : IsStored("github", y)' => IsStored("github", y)
    BY <1>4 DEF IsStored, Services
  <1>18. OneDelivery'
    BY <1>15, <1>16, <1>17 DEF PDInv, OneDelivery
  <1> QED BY <1>8, <1>9, <1>12, <1>14, <1>18 DEF PDInv

(* A process dies. *)
LEMMA CrashInvariant ==
  ASSUME PDInv, NEW c \in Callers, Crash(c), UNCHANGED platform
  PROVE  PDInv'
  BY ReturnStep DEF Crash

-----------------------------------------------------------------------------
(* runtime/github_delivery.                                                  *)

(* What is known of a delivery at one of its own steps. *)
LEMMA DeliveryKnown ==
  ASSUME PDInv, NEW c \in Callers,
         pc[c] \in {"lookup", "add", "commit", "push", "pull", "delivered", "status",
                    "digests"}
  PROVE  /\ Delivering(c) /\ call[c].exec \in Execs
         /\ {"files", "disturbed", "made"} \subseteq DOMAIN obs[c]
  BY DEF PDInv, CallerOK, Preparing, Coding, Delivering, Deploying

(* Whoever is past the first commit finds it under HEAD. *)
LEMMA LateCommitted ==
  ASSUME PDInv, NEW d \in Callers, Late(d)
  PROVE  head.depth > 0
  BY DEF PDInv, CallerOK, Late, Preparing, Coding, Delivering, Deploying

(* A new delivery has its review before it. *)
LEMMA DeliverBeginInvariant ==
  ASSUME PDInv, NEW c \in Callers, DeliverBegin(c)
  PROVE  PDInv'
  <1>1. PICK exec \in Execs, from \in Execs, orchestration \in Orchestrations,
             authority \in Authorities :
          /\ DeliverySource(DeliveryRequest(exec, orchestration, from, authority))
          /\ DeliveryBefore(DeliveryRequest(exec, orchestration, from, authority))
          /\ Begin(c, DeliveryRequest(exec, orchestration, from, authority), authority, "lookup",
                   DeliveryObservation(
                     ReviewArtifact(DeliveryRequest(exec, orchestration, from, authority))))
    BY DEF DeliverBegin
  <1>2. UNCHANGED platform
    BY DEF DeliverBegin
  <1>3. PICK request : request = DeliveryRequest(exec, orchestration, from, authority)
    OBVIOUS
  <1>4. /\ pc'[c] = "lookup" /\ call'[c] = request /\ Apart(c)
        /\ obs'[c] = DeliveryObservation(ReviewArtifact(request))
        /\ DOMAIN pc' = Callers /\ DOMAIN call' = Callers /\ DOMAIN obs' = Callers
        /\ UNCHANGED <<repository, artifact, worktrees, platform>>
    BY <1>1, <1>2, <1>3, BeginMoves
  <1>5. /\ request.service = "github" /\ request.exec = exec
        /\ request.from = from /\ request.orchestration = orchestration
    BY <1>3 DEF DeliveryRequest, Request
  <1>6. /\ Load("coding", from) # None
        /\ Load("coding", from).orchestration = orchestration
    BY <1>1, <1>3, <1>5 DEF DeliverySource, ReviewArtifact
  <1>7. /\ IsStored("coding", from) /\ ReviewArtifact(request) = artifact["coding"][from]
        /\ artifact["coding"][from].orchestration = orchestration
    BY <1>5, <1>6, LoadStored DEF ReviewArtifact
  <1>8. Source(c, "coding")'
    BY <1>4, <1>5, <1>7 DEF Source, IsStored
  <1>9. /\ obs'[c].files = artifact["coding"][from].files
        /\ {"files", "disturbed", "made", "commit"} \subseteq DOMAIN obs'[c]
    BY <1>4, <1>7 DEF DeliveryObservation
  <1>10. files' # None
    BY <1>1, <1>4 DEF DeliveryBefore, repository
  <1>11. Delivering(c)'
    BY <1>4, <1>5, <1>8, <1>9, <1>10 DEF Delivering
  <1>12. CallerOK(c)' /\ ~Late(c)'
    BY <1>4, <1>5, <1>9, <1>11 DEF CallerOK, Late
  <1> QED BY <1>4, <1>12, LocalStep

(* The lookup of the branch and the pull request. *)
LEMMA DeliverLookupInvariant ==
  ASSUME PDInv, NEW c \in Callers, DeliverLookup(c)
  PROVE  PDInv'
  <1>1. pc[c] = "lookup" /\ UNCHANGED <<repository, artifact, worktrees, platform>>
    BY DEF DeliverLookup
  <1>2. CASE Goto(c, "add") /\ UNCHANGED <<call, obs>>
    <2>1. pc'[c] = "add"
      BY <1>2, GotoMoves DEF PDInv
    <2>2. /\ Delivering(c) /\ call[c].exec \in Execs
          /\ {"files", "disturbed", "made"} \subseteq DOMAIN obs[c]
      BY <1>1, DeliveryKnown
    <2>3. CallerOK(c)' /\ ~Late(c)'
      BY <1>1, <1>2, <2>1, <2>2 DEF CallerOK, Delivering, Source, IsStored, Late, repository
    <2> QED BY <1>1, <1>2, <2>3, GotoStep
  <1>3. CASE Return(c)
    BY <1>1, <1>3, ReturnStep
  <1> QED BY <1>2, <1>3 DEF DeliverLookup

(* git add: only the index changes. *)
LEMMA DeliverAddInvariant ==
  ASSUME PDInv, NEW c \in Callers, DeliverAdd(c)
  PROVE  PDInv'
  <1>1. /\ pc[c] = "add"
        /\ UNCHANGED <<source, branch, files, head, stage, artifact, worktrees, platform>>
        /\ index' = [p \in Paths |-> IF p \in ChangedPaths(obs[c].files) THEN files[p]
                                                                        ELSE index[p]]
    BY DEF DeliverAdd
  <1>2. /\ Delivering(c) /\ call[c].exec \in Execs
        /\ {"files", "disturbed", "made"} \subseteq DOMAIN obs[c]
    BY <1>1, DeliveryKnown
  <1>3. files # None /\ files \in Files /\ index \in Files /\ head \in Commits
    BY <1>2 DEF Delivering, PDInv, RepositoryOK
  <1>4. index' \in Files
    BY <1>1, <1>3 DEF Files
  <1>5. RepositoryOK'
    BY <1>1, <1>3, <1>4 DEF PDInv, RepositoryOK
  <1>6. CASE Goto(c, "commit") /\ UNCHANGED <<call, obs>>
    <2>1. /\ pc'[c] = "commit" /\ Apart(c)
          /\ DOMAIN pc' = Callers /\ DOMAIN call' = Callers /\ DOMAIN obs' = Callers
      BY <1>6, GotoMoves DEF PDInv, Shapes, Apart
    <2>2. CallerOK(c)' /\ ~Late(c)'
      BY <1>1, <1>2, <1>6, <2>1 DEF CallerOK, Delivering, Source, IsStored, Late
    <2> QED BY <1>1, <1>5, <2>1, <2>2, RepositoryStep
  <1>7. CASE Return(c)
    <2>1. /\ pc'[c] = "idle" /\ Apart(c)
          /\ DOMAIN pc' = Callers /\ DOMAIN call' = Callers /\ DOMAIN obs' = Callers
      BY <1>7, ReturnMoves DEF PDInv
    <2>2. CallerOK(c)' /\ ~Late(c)'
      BY <2>1 DEF CallerOK, Late
    <2> QED BY <1>1, <1>5, <2>1, <2>2, RepositoryStep
  <1> QED BY <1>6, <1>7 DEF DeliverAdd

(* A review never approved an unchanged workspace. *)
LEMMA ReviewedPathsChanged ==
  ASSUME PDInv, NEW c \in Callers, Delivering(c)
  PROVE  ChangedPaths(obs[c].files) # {} /\ obs[c].files \in Files
  <1>1. obs[c].files \in Files /\ obs[c].files # BaseFiles
    BY DEF Delivering, Source, PDInv, ArtifactsOK, StoredOK, Services
  <1> QED BY <1>1 DEF Files, BaseFiles, ChangedPaths

Committed(o, commit) == [o EXCEPT !.commit = commit, !.made = {"commit"}]

LEMMA CommittedObservation ==
  ASSUME NEW o, {"files", "disturbed", "made", "commit"} \subseteq DOMAIN o, NEW commit
  PROVE  /\ {"files", "disturbed", "made", "commit"} \subseteq DOMAIN Committed(o, commit)
         /\ Committed(o, commit).files = o.files
         /\ Committed(o, commit).commit = commit
         /\ Committed(o, commit).made = {"commit"}
  BY DEF Committed

(* git commit: a delivery goes on to the push only with the first commit     *)
(* above the base, which nobody else can then have made.                     *)
LEMMA DeliverCommitInvariant ==
  ASSUME PDInv, NEW c \in Callers, DeliverCommit(c)
  PROVE  PDInv'
  <1>1. PICK commit : commit = [depth |-> head.depth + 1, files |-> index]
    OBVIOUS
  <1>2. PICK changed : changed = {p \in Paths : index[p] # head.files[p]}
    OBVIOUS
  <1>3. /\ pc[c] = "commit"
        /\ head' = IF changed = {} THEN head ELSE commit
        /\ UNCHANGED <<source, branch, files, index, stage, worktrees>> /\ UNCHANGED artifact
        /\ UNCHANGED <<remote, pull, preview, pushes, pulls, deployments>>
    BY <1>1, <1>2 DEF DeliverCommit, platform
  <1>4. /\ Delivering(c) /\ call[c].exec \in Execs
        /\ {"files", "disturbed", "made"} \subseteq DOMAIN obs[c]
    BY <1>3, DeliveryKnown
  <1>5. files # None /\ index \in Files /\ head \in Commits /\ head.depth \in Nat
    BY <1>4 DEF Delivering, PDInv, RepositoryOK, Commits
  <1>6. commit \in Commits /\ commit.depth = head.depth + 1 /\ commit.depth > 0
    <2>1. head.depth + 1 \in Nat /\ head.depth + 1 > 0
      BY <1>5
    <2> QED BY <1>1, <1>5, <2>1 DEF Commits, Files
  <1>7. /\ head' \in Commits
        /\ head.depth > 0 => head'.depth > 0 /\ (head' = head \/ head'.depth > 1)
    BY <1>3, <1>5, <1>6
  <1>8. RepositoryOK'
    BY <1>3, <1>7 DEF PDInv, RepositoryOK
  <1>9. PlatformOK'
    BY <1>3, <1>7 DEF PDInv, PlatformOK
  <1>10. ArtifactsOK'
    BY <1>3, ArtifactsStay DEF PDInv
  <1>11. Apart(c) => \A d \in Callers \ {c} : Undisturbed(d)
    <2> SUFFICES ASSUME Apart(c), NEW d \in Callers, d # c PROVE Undisturbed(d)
      OBVIOUS
    <2>1. Late(d) => head'.depth > 0 /\ (head' = head \/ head'.depth > 1)
      BY <1>7, LateCommitted
    <2> QED BY <1>3, <2>1 DEF Undisturbed, Apart
  <1>12. CASE /\ commit.depth = 1 /\ changed = ChangedPaths(obs[c].files)
              /\ Goto(c, "push") /\ UNCHANGED call
              /\ obs' = [obs EXCEPT ![c].commit = commit, ![c].made = {"commit"}]
    <2>1. head.depth = 0
      BY <1>5, <1>6, <1>12
    <2>2. head' = commit
      BY <1>3, <1>4, <1>12, ReviewedPathsChanged
    <2>3. remote = None
      BY <2>1 DEF PDInv, PlatformOK
    <2>4. \A d \in Callers : ~Late(d)
      BY <2>1, LateCommitted
    <2>5. \A x \in Execs : ~IsStored("github", x)
      BY <2>3 DEF PDInv, ArtifactsOK, StoredOK, Services
    <2>6. obs'[c] = Committed(obs[c], commit)
      BY <1>12 DEF PDInv, Shapes, Committed
    <2>7. /\ pc'[c] = "push" /\ Apart(c)
          /\ DOMAIN pc' = Callers /\ DOMAIN call' = Callers /\ DOMAIN obs' = Callers
      <3>1. /\ pc'[c] = "push" /\ DOMAIN pc' = Callers
            /\ \A d \in Callers \ {c} : pc'[d] = pc[d]
        BY <1>12, GotoMoves DEF PDInv
      <3>2. /\ DOMAIN obs' = Callers /\ \A d \in Callers \ {c} : obs'[d] = obs[d]
            /\ call' = call /\ DOMAIN call' = Callers
        BY <1>12 DEF PDInv, Shapes
      <3> QED BY <3>1, <3>2 DEF Apart
    <2>8. /\ {"files", "disturbed", "made", "commit"} \subseteq DOMAIN obs'[c]
          /\ obs'[c].files = obs[c].files /\ obs'[c].commit = commit
          /\ obs'[c].made = {"commit"}
      <3>1. {"files", "disturbed", "made", "commit"} \subseteq DOMAIN obs[c]
        BY <1>4 DEF Delivering
      <3> QED BY <2>6, <3>1, CommittedObservation
    <2>9. Source(c, "coding")' /\ call'[c] = call[c]
      BY <1>3, <1>4, <1>12 DEF Delivering, Source, IsStored
    <2>10. Delivering(c)'
      BY <1>3, <1>4, <1>6, <1>12, <2>2, <2>3, <2>7, <2>8, <2>9 DEF Delivering
    <2>11. CallerOK(c)'
      BY <1>4, <2>7, <2>8, <2>9, <2>10 DEF CallerOK
    <2>12. \A d \in Callers : CallerOK(d)'
      <3> SUFFICES ASSUME NEW d \in Callers, d # c PROVE CallerOK(d)'
        BY <2>11
      <3> QED BY <1>11, <2>7, CallerStays DEF PDInv
    <2>13. \A d \in Callers \ {c} : pc'[d] = pc[d] /\ call'[d] = call[d]
      BY <2>7 DEF Apart
    <2>14. OneWriter'
      BY <2>7, <2>13 DEF PDInv, OneWriter
    <2>15. \A d \in Callers \ {c} : ~Late(d)'
      BY <2>4, <2>13 DEF Late
    <2>16. OneDelivery'
      BY <1>3, <2>5, <2>15 DEF OneDelivery, IsStored
    <2>17. Shapes'
      BY <1>3, <2>7 DEF PDInv, Shapes
    <2> QED BY <1>8, <1>9, <1>10, <2>12, <2>14, <2>16, <2>17 DEF PDInv
  <1>13. CASE Return(c)
    <2>1. /\ pc'[c] = "idle" /\ Apart(c)
          /\ DOMAIN pc' = Callers /\ DOMAIN call' = Callers /\ DOMAIN obs' = Callers
      BY <1>13, ReturnMoves DEF PDInv
    <2>2. CallerOK(c)' /\ ~Late(c)'
      BY <2>1 DEF CallerOK, Late
    <2>3. Shapes'
      BY <1>3, <2>1 DEF PDInv, Shapes
    <2> QED BY <1>3, <1>8, <1>9, <1>10, <1>11, <2>1, <2>2, <2>3, SharedStep
  <1> QED BY <1>1, <1>2, <1>12, <1>13 DEF DeliverCommit

(* A step of the one delivery under way on the platform: nobody else can be  *)
(* past the first commit, and no delivery is stored.                         *)
LEMMA PlatformStep ==
  ASSUME PDInv, NEW c \in Callers, Late(c) \/ UNCHANGED <<remote, pull>>,
         UNCHANGED repository, UNCHANGED artifact, UNCHANGED worktrees,
         preview # None => preview' = preview, PlatformOK',
         Apart(c), DOMAIN pc' = Callers, DOMAIN call' = Callers, DOMAIN obs' = Callers,
         CallerOK(c)', pc'[c] # "fill", Late(c)' => Late(c)
  PROVE  PDInv'
  <1>1. UNCHANGED <<source, branch, files, index, head, stage>>
    BY DEF repository
  <1>2. /\ \A d \in Callers \ {c} : Late(d) => UNCHANGED <<remote, pull>>
        /\ \A x \in Execs : IsStored("github", x) => UNCHANGED <<remote, pull>>
    BY DEF PDInv, OneDelivery
  <1>3. \A d \in Callers \ {c} : Undisturbed(d)
    <2> SUFFICES ASSUME NEW d \in Callers, d # c PROVE Undisturbed(d)
      OBVIOUS
    <2>1. Late(d) => head.depth > 0
      BY LateCommitted
    <2> QED BY <1>1, <1>2, <2>1 DEF Undisturbed, Apart
  <1>4. Shapes' /\ RepositoryOK'
    BY <1>1 DEF PDInv, Shapes, RepositoryOK
  <1>5. ArtifactsOK'
    BY <1>2, ArtifactsStay DEF PDInv
  <1> QED BY <1>3, <1>4, <1>5, SharedStep

(* The same for a delivery that returns. *)
LEMMA PlatformReturn ==
  ASSUME PDInv, NEW c \in Callers, Late(c) \/ UNCHANGED <<remote, pull>>,
         UNCHANGED repository, UNCHANGED artifact, UNCHANGED worktrees,
         preview # None => preview' = preview, PlatformOK', Return(c)
  PROVE  PDInv'
  <1>1. /\ pc'[c] = "idle" /\ Apart(c)
        /\ DOMAIN pc' = Callers /\ DOMAIN call' = Callers /\ DOMAIN obs' = Callers
    BY ReturnMoves DEF PDInv
  <1>2. CallerOK(c)' /\ ~Late(c)'
    BY <1>1 DEF CallerOK, Late
  <1> QED BY <1>1, <1>2, PlatformStep

(* The effects a delivery or a deployment adds to its observation. *)
LEMMA MadeNoted ==
  ASSUME NEW o, {"files", "disturbed", "made"} \subseteq DOMAIN o, NEW made
  PROVE  /\ DOMAIN Noted(o, "made", made) = DOMAIN o
         /\ Noted(o, "made", made).files = o.files
         /\ Noted(o, "made", made).made = made
         /\ "commit" \in DOMAIN o => Noted(o, "made", made).commit = o.commit
  BY DEF Noted

(* The push: the remote branch is still free, since only this delivery can   *)
(* push.  It goes on only when the branch holds its own commit.              *)
LEMMA DeliverPushInvariant ==
  ASSUME PDInv, NEW c \in Callers, DeliverPush(c)
  PROVE  PDInv'
  <1>1. /\ pc[c] = "push" /\ UNCHANGED repository /\ UNCHANGED artifact /\ UNCHANGED worktrees
        /\ UNCHANGED <<files, head>>
        /\ UNCHANGED <<pull, preview, pulls, deployments>>
        /\ \/ remote' = head /\ pushes' = pushes + 1
           \/ UNCHANGED <<remote, pushes>>
    BY DEF DeliverPush, repository
  <1>2. /\ Delivering(c) /\ call[c].exec \in Execs /\ Late(c)
        /\ {"files", "disturbed", "made", "commit"} \subseteq DOMAIN obs[c]
    BY <1>1, DeliveryKnown DEF Delivering, Late
  <1>3. /\ remote = None /\ obs[c].made = {"commit"} /\ obs[c].commit \in Commits
        /\ files # None /\ head \in Commits /\ head.depth > 0
    BY <1>1, <1>2 DEF Delivering, PDInv, RepositoryOK
  <1>4. pushes = 0 /\ preview = None
    BY <1>3 DEF PDInv, PlatformOK
  <1>5. PlatformOK'
    <2>1. CASE remote' = head /\ pushes' = pushes + 1
      BY <1>1, <1>3, <1>4, <2>1, NoneAssumption DEF PDInv, PlatformOK
    <2>2. CASE UNCHANGED <<remote, pushes>>
      BY <1>1, <1>3, <1>4, <2>2 DEF PDInv, PlatformOK
    <2> QED BY <1>1, <2>1, <2>2
  <1>6. CASE /\ remote' = obs[c].commit /\ Goto(c, "pull") /\ UNCHANGED call
             /\ Note(c, "made", obs[c].made \cup {e \in {"push"} : pushes' > pushes})
    <2>1. remote' # None
      BY <1>3, <1>6, NoneAssumption
    <2>2. pushes' = 1
      BY <2>1, <1>5 DEF PlatformOK
    <2>3. obs[c].made \cup {e \in {"push"} : pushes' > pushes} = {"commit", "push"}
      BY <1>3, <1>4, <2>2
    <2>4. Note(c, "made", {"commit", "push"})
      BY <1>6, <2>3
    <2>5. /\ pc'[c] = "pull" /\ obs'[c] = Noted(obs[c], "made", {"commit", "push"})
          /\ Apart(c)
          /\ DOMAIN pc' = Callers /\ DOMAIN call' = Callers /\ DOMAIN obs' = Callers
      BY <1>6, <2>4, GotoNoteMoves DEF PDInv
    <2>6. /\ {"files", "disturbed", "made", "commit"} \subseteq DOMAIN obs'[c]
          /\ obs'[c].files = obs[c].files /\ obs'[c].made = {"commit", "push"}
          /\ obs'[c].commit = obs[c].commit
      BY <1>2, <2>5, MadeNoted
    <2>7. Source(c, "coding")' /\ call'[c] = call[c]
      BY <1>1, <1>2, <1>6 DEF Delivering, Source, IsStored
    <2>8. Delivering(c)'
      BY <1>1, <1>2, <1>3, <1>6, <2>5, <2>6, <2>7 DEF Delivering
    <2>9. CallerOK(c)'
      BY <1>2, <2>5, <2>6, <2>7, <2>8 DEF CallerOK
    <2> QED BY <1>1, <1>2, <1>5, <2>5, <2>9, PlatformStep
  <1>7. CASE Return(c)
    BY <1>1, <1>2, <1>5, <1>7, PlatformReturn
  <1> QED BY <1>6, <1>7 DEF DeliverPush

(* The pull request, of the commit that was pushed. *)
LEMMA DeliverPullInvariant ==
  ASSUME PDInv, NEW c \in Callers, DeliverPull(c)
  PROVE  PDInv'
  <1>1. /\ pc[c] = "pull" /\ UNCHANGED repository /\ UNCHANGED artifact /\ UNCHANGED worktrees
        /\ UNCHANGED <<files, head>>
        /\ UNCHANGED <<remote, preview, pushes, deployments>>
    BY DEF DeliverPull, repository
  <1>2. /\ Delivering(c) /\ call[c].exec \in Execs /\ Late(c)
        /\ {"files", "disturbed", "made", "commit"} \subseteq DOMAIN obs[c]
    BY <1>1, DeliveryKnown DEF Delivering, Late
  <1>3. /\ remote = obs[c].commit /\ obs[c].made = {"commit", "push"}
        /\ obs[c].commit \in Commits
    BY <1>1, <1>2 DEF Delivering
  <1>4. CASE /\ pull = None /\ pull' = obs[c].commit /\ pulls' = pulls + 1
             /\ \/ /\ Goto(c, "delivered") /\ UNCHANGED call
                   /\ Note(c, "made", obs[c].made \cup {"pull"})
                \/ Return(c)
    <2>1. PlatformOK'
      <3>1. pull' # None /\ pulls' = 1
        BY <1>3, <1>4, NoneAssumption DEF PDInv, PlatformOK
      <3> QED BY <1>1, <1>3, <1>4, <3>1 DEF PDInv, PlatformOK
    <2>2. CASE Goto(c, "delivered") /\ UNCHANGED call
               /\ Note(c, "made", obs[c].made \cup {"pull"})
      <3>1. obs[c].made \cup {"pull"} = {"commit", "push", "pull"}
        BY <1>3
      <3>2. Note(c, "made", {"commit", "push", "pull"})
        BY <2>2, <3>1
      <3>3. /\ pc'[c] = "delivered" /\ Apart(c)
            /\ obs'[c] = Noted(obs[c], "made", {"commit", "push", "pull"})
            /\ DOMAIN pc' = Callers /\ DOMAIN call' = Callers /\ DOMAIN obs' = Callers
        BY <2>2, <3>2, GotoNoteMoves DEF PDInv
      <3>4. /\ {"files", "disturbed", "made", "commit"} \subseteq DOMAIN obs'[c]
            /\ obs'[c].files = obs[c].files /\ obs'[c].made = {"commit", "push", "pull"}
            /\ obs'[c].commit = obs[c].commit
        BY <1>2, <3>3, MadeNoted
      <3>5. Source(c, "coding")' /\ call'[c] = call[c]
        BY <1>1, <1>2, <2>2 DEF Delivering, Source, IsStored
      <3>6. Delivering(c)'
        BY <1>1, <1>2, <1>3, <1>4, <3>3, <3>4, <3>5 DEF Delivering
      <3>7. CallerOK(c)'
        BY <1>2, <3>3, <3>4, <3>5, <3>6 DEF CallerOK
      <3> QED BY <1>1, <1>2, <2>1, <3>3, <3>7, PlatformStep
    <2>3. CASE Return(c)
      BY <1>1, <1>2, <2>1, <2>3, PlatformReturn
    <2> QED BY <1>4, <2>2, <2>3
  <1>5. CASE Return(c) /\ UNCHANGED <<pull, pulls>>
    <2>1. Return(c) /\ UNCHANGED <<repository, artifact, worktrees, platform>>
      BY <1>1, <1>5 DEF platform
    <2> QED BY <2>1, ReturnStep
  <1> QED BY <1>4, <1>5 DEF DeliverPull

(* A step of a delivery that is checking its result and changes only itself. *)
LEMMA CheckingStep ==
  ASSUME PDInv, NEW c \in Callers, pc[c] \in {"delivered", "status", "digests"},
         UNCHANGED <<repository, artifact, worktrees, platform>>, UNCHANGED call, Apart(c),
         DOMAIN pc' = Callers, DOMAIN call' = Callers, DOMAIN obs' = Callers,
         {"files", "disturbed", "made"} \subseteq DOMAIN obs'[c],
         pc'[c] # "fill", Delivering(c)'
  PROVE  PDInv'
  <1>1. Late(c) /\ call[c].exec \in Execs
    BY DeliveryKnown DEF Late
  <1>2. CallerOK(c)'
    BY <1>1 DEF CallerOK
  <1> QED BY <1>1, <1>2, LocalStep

(* The mark that the closing status resets. *)
LEMMA DisturbedNoted ==
  ASSUME NEW o, {"files", "disturbed", "made", "commit"} \subseteq DOMAIN o, NEW value
  PROVE  LET noted == Noted(o, "disturbed", value)
         IN  /\ DOMAIN noted = DOMAIN o /\ noted.disturbed = value
             /\ noted.files = o.files /\ noted.made = o.made /\ noted.commit = o.commit
  BY DEF Noted

(* The closing status: what is clean holds the files of the commit HEAD is   *)
(* at, and from here on whoever writes leaves a mark.                        *)
LEMMA DeliverStatusInvariant ==
  ASSUME PDInv, NEW c \in Callers, DeliverStatus(c)
  PROVE  PDInv'
  <1>1. pc[c] = "delivered" /\ UNCHANGED <<repository, artifact, worktrees, platform>>
        /\ UNCHANGED <<files, head, remote, pull>> /\ UNCHANGED artifact
    BY DEF DeliverStatus, repository, platform
  <1>2. /\ Delivering(c)
        /\ {"files", "disturbed", "made", "commit"} \subseteq DOMAIN obs[c]
    BY <1>1, DeliveryKnown DEF Delivering
  <1>3. CASE /\ Clean /\ Goto(c, "status") /\ Note(c, "disturbed", FALSE)
             /\ UNCHANGED call
    <2>1. /\ pc'[c] = "status" /\ obs'[c] = Noted(obs[c], "disturbed", FALSE) /\ Apart(c)
          /\ DOMAIN pc' = Callers /\ DOMAIN call' = Callers /\ DOMAIN obs' = Callers
      BY <1>3, GotoNoteMoves DEF PDInv
    <2>2. /\ {"files", "disturbed", "made", "commit"} \subseteq DOMAIN obs'[c]
          /\ obs'[c].files = obs[c].files /\ obs'[c].made = obs[c].made
          /\ obs'[c].commit = obs[c].commit
      <3>1. PICK o : o = obs[c]
        OBVIOUS
      <3>2. {"files", "disturbed", "made", "commit"} \subseteq DOMAIN o
        BY <1>2, <3>1
      <3>3. LET noted == Noted(o, "disturbed", FALSE)
            IN  /\ DOMAIN noted = DOMAIN o
                /\ noted.files = o.files /\ noted.made = o.made /\ noted.commit = o.commit
        BY <3>2, DisturbedNoted
      <3> QED BY <2>1, <3>1, <3>2, <3>3
    <2>3. Source(c, "coding")' /\ call'[c] = call[c]
      BY <1>1, <1>2, <1>3 DEF Delivering, Source, IsStored
    <2>4. files = head.files
      BY <1>3 DEF Clean
    <2>5. Delivering(c)'
      BY <1>1, <1>2, <2>1, <2>2, <2>3, <2>4 DEF Delivering
    <2> QED BY <1>1, <1>3, <2>1, <2>2, <2>5, CheckingStep
  <1>4. CASE Return(c)
    BY <1>1, <1>4, ReturnStep
  <1> QED BY <1>3, <1>4 DEF DeliverStatus

(* HEAD is at the commit of this delivery, and it changes the reviewed paths. *)
LEMMA DeliverHeadInvariant ==
  ASSUME PDInv, NEW c \in Callers, DeliverHead(c)
  PROVE  PDInv'
  <1>1. pc[c] = "status" /\ UNCHANGED <<repository, artifact, worktrees, platform>>
        /\ UNCHANGED <<files, head, remote, pull>> /\ UNCHANGED artifact
    BY DEF DeliverHead, repository, platform
  <1>2. /\ Delivering(c)
        /\ {"files", "disturbed", "made"} \subseteq DOMAIN obs[c]
    BY <1>1, DeliveryKnown
  <1>3. CASE /\ head = obs[c].commit
             /\ ChangedPaths(head.files) = ChangedPaths(obs[c].files)
             /\ Goto(c, "digests") /\ UNCHANGED <<call, obs>>
    <2>1. /\ pc'[c] = "digests" /\ Apart(c)
          /\ DOMAIN pc' = Callers /\ DOMAIN call' = Callers /\ DOMAIN obs' = Callers
      BY <1>3, GotoMoves DEF PDInv, Shapes, Apart
    <2>2. Source(c, "coding")'
      BY <1>1, <1>2, <1>3 DEF Delivering, Source, IsStored
    <2>3. obs[c].disturbed \/ files = obs[c].commit.files
      BY <1>1, <1>2, <1>3 DEF Delivering
    <2>4. Delivering(c)'
      BY <1>1, <1>2, <1>3, <2>1, <2>2, <2>3 DEF Delivering, ChangedPaths
    <2> QED BY <1>1, <1>2, <1>3, <2>1, <2>4, CheckingStep
  <1>4. CASE Return(c)
    BY <1>1, <1>4, ReturnStep
  <1> QED BY <1>3, <1>4 DEF DeliverHead

(* Files that differ from the base on the same paths and agree there agree.  *)
LEMMA SameDigestsSameFiles ==
  ASSUME NEW f \in Files, NEW g \in Files, ChangedPaths(f) = ChangedPaths(g),
         \A p \in ChangedPaths(g) : f[p] = g[p]
  PROVE  f = g
  <1>1. \A p \in Paths : f[p] = g[p]
    BY DEF ChangedPaths
  <1> QED BY <1>1 DEF Files

(* The digests are those of the review: unless somebody has written since    *)
(* the status, they are read off the files of the commit.                    *)
LEMMA DeliverConfirmInvariant ==
  ASSUME PDInv, NEW c \in Callers, DeliverConfirm(c)
  PROVE  PDInv'
  <1>1. pc[c] = "digests" /\ UNCHANGED <<repository, artifact, worktrees, platform>>
        /\ UNCHANGED <<files, head, remote, pull>> /\ UNCHANGED artifact
    BY DEF DeliverConfirm, repository, platform
  <1>2. /\ Delivering(c)
        /\ {"files", "disturbed", "made"} \subseteq DOMAIN obs[c]
    BY <1>1, DeliveryKnown
  <1>3. CASE DigestsMatch(c) /\ Goto(c, "save") /\ UNCHANGED <<call, obs>>
    <2>1. /\ pc'[c] = "save" /\ Apart(c)
          /\ DOMAIN pc' = Callers /\ DOMAIN call' = Callers /\ DOMAIN obs' = Callers
      BY <1>3, GotoMoves DEF PDInv, Shapes, Apart
    <2>2. Source(c, "coding")'
      BY <1>1, <1>2, <1>3 DEF Delivering, Source, IsStored
    <2>3. obs[c].disturbed \/ obs[c].commit.files = obs[c].files
      <3>1. obs[c].files \in Files /\ obs[c].commit.files \in Files
        BY <1>1, <1>2, ReviewedPathsChanged DEF Delivering, Commits, Files
      <3>2. CASE files = obs[c].commit.files
        <4>1. /\ ChangedPaths(obs[c].commit.files) = ChangedPaths(obs[c].files)
              /\ \A p \in ChangedPaths(obs[c].files) :
                   obs[c].commit.files[p] = obs[c].files[p]
          BY <1>1, <1>2, <1>3, <3>2 DEF Delivering, DigestsMatch
        <4> QED BY <3>1, <4>1, SameDigestsSameFiles
      <3> QED BY <1>1, <1>2, <3>2 DEF Delivering
    <2>4. Delivering(c)'
      BY <1>1, <1>2, <1>3, <2>1, <2>2, <2>3 DEF Delivering
    <2> QED BY <1>1, <1>2, <1>3, <2>1, <2>4, CheckingStep
  <1>4. CASE Return(c)
    BY <1>1, <1>4, ReturnStep
  <1> QED BY <1>3, <1>4 DEF DeliverConfirm

-----------------------------------------------------------------------------
(* runtime/preview_deployment.                                               *)

(* What is known of a deployment at one of its own steps. *)
LEMMA DeploymentKnown ==
  ASSUME PDInv, NEW c \in Callers, pc[c] \in {"find", "deploy"}
  PROVE  /\ Deploying(c) /\ call[c].exec \in Execs
         /\ {"files", "disturbed", "made"} \subseteq DOMAIN obs[c]
  BY DEF PDInv, CallerOK, Preparing, Coding, Delivering, Deploying

(* A new deployment has its delivery before it. *)
LEMMA PreviewBeginInvariant ==
  ASSUME PDInv, NEW c \in Callers, PreviewBegin(c)
  PROVE  PDInv'
  <1>1. PICK exec \in Execs, from \in Execs, orchestration \in Orchestrations,
             authority \in Authorities :
          /\ PreviewSources(PreviewRequest(exec, orchestration, from))
          /\ Begin(c, PreviewRequest(exec, orchestration, from), authority, "find",
                   PreviewObservation(
                     DeliveryArtifact(PreviewRequest(exec, orchestration, from))))
    BY DEF PreviewBegin
  <1>2. UNCHANGED platform
    BY DEF PreviewBegin
  <1>3. PICK request : request = PreviewRequest(exec, orchestration, from)
    OBVIOUS
  <1>4. /\ pc'[c] = "find" /\ call'[c] = request /\ Apart(c)
        /\ obs'[c] = PreviewObservation(DeliveryArtifact(request))
        /\ DOMAIN pc' = Callers /\ DOMAIN call' = Callers /\ DOMAIN obs' = Callers
        /\ UNCHANGED <<repository, artifact, worktrees, platform>>
    BY <1>1, <1>2, <1>3, BeginMoves
  <1>5. /\ request.service = "preview" /\ request.exec = exec
        /\ request.from = from /\ request.orchestration = orchestration
    BY <1>3 DEF PreviewRequest, Request
  <1>6. /\ Load("github", from) # None
        /\ Load("github", from).orchestration = orchestration
    BY <1>1, <1>3, <1>5 DEF PreviewSources, DeliveryArtifact
  <1>7. /\ IsStored("github", from) /\ DeliveryArtifact(request) = artifact["github"][from]
        /\ artifact["github"][from].orchestration = orchestration
    BY <1>5, <1>6, LoadStored DEF DeliveryArtifact
  <1>8. Source(c, "github")'
    BY <1>4, <1>5, <1>7 DEF Source, IsStored
  <1>9. /\ obs'[c].files = artifact["github"][from].files
        /\ obs'[c].commit = artifact["github"][from].commit
        /\ {"files", "disturbed", "made", "commit"} \subseteq DOMAIN obs'[c]
    BY <1>4, <1>7 DEF PreviewObservation
  <1>10. Deploying(c)'
    BY <1>4, <1>5, <1>8, <1>9 DEF Deploying
  <1>11. CallerOK(c)' /\ ~Late(c)'
    BY <1>4, <1>5, <1>9, <1>10 DEF CallerOK, Late
  <1> QED BY <1>4, <1>11, LocalStep

(* The lookup of the environment. *)
LEMMA PreviewFindInvariant ==
  ASSUME PDInv, NEW c \in Callers, PreviewFind(c)
  PROVE  PDInv'
  <1>1. pc[c] = "find" /\ UNCHANGED <<repository, artifact, worktrees, platform>>
    BY DEF PreviewFind
  <1>2. CASE Goto(c, "deploy") /\ UNCHANGED <<call, obs>>
    <2>1. pc'[c] = "deploy"
      BY <1>2, GotoMoves DEF PDInv
    <2>2. /\ Deploying(c) /\ call[c].exec \in Execs
          /\ {"files", "disturbed", "made"} \subseteq DOMAIN obs[c]
      BY <1>1, DeploymentKnown
    <2>3. CallerOK(c)' /\ ~Late(c)'
      BY <1>1, <1>2, <2>1, <2>2 DEF CallerOK, Deploying, Source, IsStored, Late
    <2> QED BY <1>1, <1>2, <2>3, GotoStep
  <1>3. CASE Return(c)
    BY <1>1, <1>3, ReturnStep
  <1> QED BY <1>2, <1>3 DEF PreviewFind

(* The environment runs the commit of the delivery it goes by, which is that *)
(* of the remote branch.                                                     *)
LEMMA PreviewDeployInvariant ==
  ASSUME PDInv, NEW c \in Callers, PreviewDeploy(c)
  PROVE  PDInv'
  <1>1. /\ pc[c] = "deploy" /\ UNCHANGED repository /\ UNCHANGED artifact /\ UNCHANGED worktrees
        /\ UNCHANGED files /\ UNCHANGED head
        /\ UNCHANGED <<remote, pull, pushes, pulls>> /\ UNCHANGED <<remote, pull>>
    BY DEF PreviewDeploy, repository
  <1>2. /\ Deploying(c) /\ call[c].exec \in Execs
        /\ {"files", "disturbed", "made", "commit"} \subseteq DOMAIN obs[c]
    BY <1>1, DeploymentKnown DEF Deploying
  <1>3. remote # None /\ obs[c].commit = remote
    BY <1>2 DEF Deploying, Source, PDInv, ArtifactsOK, StoredOK, Services
  <1>4. CASE /\ preview = None
             /\ preview' = obs[c].commit /\ deployments' = deployments + 1
             /\ \/ Goto(c, "save") /\ Note(c, "made", {"preview"}) /\ UNCHANGED call
                \/ Return(c)
    <2>2. preview' \in Commits /\ preview' = remote /\ preview' # None
      BY <1>3, <1>4 DEF PDInv, PlatformOK
    <2>3. PlatformOK'
      BY <1>1, <1>3, <1>4, <2>2 DEF PDInv, PlatformOK
    <2>4. CASE Goto(c, "save") /\ Note(c, "made", {"preview"}) /\ UNCHANGED call
      <3>1. /\ pc'[c] = "save" /\ obs'[c] = Noted(obs[c], "made", {"preview"}) /\ Apart(c)
            /\ DOMAIN pc' = Callers /\ DOMAIN call' = Callers /\ DOMAIN obs' = Callers
        BY <2>4, GotoNoteMoves DEF PDInv
      <3>2. /\ {"files", "disturbed", "made", "commit"} \subseteq DOMAIN obs'[c]
            /\ obs'[c].files = obs[c].files /\ obs'[c].made = {"preview"}
            /\ obs'[c].commit = obs[c].commit
        BY <1>2, <3>1, MadeNoted
      <3>3. Source(c, "github")' /\ call'[c] = call[c]
        BY <1>1, <1>2, <2>4 DEF Deploying, Source, IsStored
      <3>4. Deploying(c)'
        BY <1>1, <1>2, <1>3, <2>2, <3>1, <3>2, <3>3 DEF Deploying
      <3>5. CallerOK(c)' /\ ~Late(c)'
        BY <1>2, <3>1, <3>2, <3>3, <3>4 DEF CallerOK, Late, Deploying
      <3> QED BY <1>1, <1>4, <2>3, <3>1, <3>5, PlatformStep
    <2>5. CASE Return(c)
      BY <1>1, <1>4, <2>3, <2>5, PlatformReturn
    <2> QED BY <1>4, <2>4, <2>5
  <1>5. CASE Return(c) /\ UNCHANGED <<preview, deployments>>
    <2>1. Return(c) /\ UNCHANGED <<repository, artifact, worktrees, platform>>
      BY <1>1, <1>5 DEF platform
    <2> QED BY <2>1, ReturnStep
  <1> QED BY <1>4, <1>5 DEF PreviewDeploy, Deployable

-----------------------------------------------------------------------------
(* The environment, and the whole next-state relation.                       *)

(* A step of nobody that writes no artifact and keeps the platform. *)
LEMMA EnvironmentStep ==
  ASSUME PDInv, \A d \in Callers : Undisturbed(d), Shapes', RepositoryOK', PlatformOK',
         UNCHANGED artifact, UNCHANGED <<remote, pull, preview>>
  PROVE  PDInv'
  <1>1. \A d \in Callers : CallerOK(d)'
    BY CallerStays DEF PDInv
  <1>2. \A d \in Callers : pc'[d] = pc[d] /\ call'[d] = call[d]
    BY DEF Undisturbed
  <1>3. OneWriter'
    BY <1>2 DEF PDInv, OneWriter
  <1>4. \A d \in Callers : Late(d)' => Late(d)
    BY <1>2 DEF Late
  <1>5. OneDelivery'
    BY <1>4 DEF PDInv, OneDelivery, IsStored
  <1>6. ArtifactsOK'
    BY ArtifactsStay DEF PDInv
  <1> QED BY <1>1, <1>3, <1>5, <1>6 DEF PDInv

(* Somebody edits a file: every run under way is marked. *)
LEMMA EditWorkspaceInvariant ==
  ASSUME PDInv, EditWorkspace, UNCHANGED platform
  PROVE  PDInv'
  <1>1. /\ files # None
        /\ UNCHANGED <<source, branch, index, head, stage, artifact, pc, call, worktrees>>
        /\ UNCHANGED artifact /\ UNCHANGED <<remote, pull, preview, pushes, pulls, deployments>>
        /\ obs' = [d \in Callers |->
                     IF pc[d] = "idle" THEN obs[d] ELSE [obs[d] EXCEPT !.disturbed = TRUE]]
    BY DEF EditWorkspace, platform
  <1>2. PICK p \in Paths : files' = [files EXCEPT ![p] = Edited]
    BY DEF EditWorkspace
  <1>3. files \in Files /\ Edited \in Contents
    BY <1>1 DEF PDInv, RepositoryOK, Contents
  <1>4. files' \in Files /\ files' # None
    BY <1>2, <1>3, NoneAssumption DEF Files
  <1>5. Shapes' /\ RepositoryOK' /\ PlatformOK'
    BY <1>1, <1>4 DEF PDInv, Shapes, RepositoryOK, PlatformOK
  <1>6. \A d \in Callers : Undisturbed(d)
    <2> SUFFICES ASSUME NEW d \in Callers PROVE Undisturbed(d)
      OBVIOUS
    <2>1. Late(d) => head.depth > 0
      BY LateCommitted
    <2>2. \/ pc[d] = "idle" /\ obs'[d] = obs[d]
          \/ obs'[d] = [obs[d] EXCEPT !.disturbed = TRUE]
      BY <1>1
    <2> QED BY <1>1, <1>4, <2>1, <2>2 DEF Undisturbed
  <1> QED BY <1>1, <1>5, <1>6, EnvironmentStep

(* Somebody commits to the approved checkout. *)
LEMMA ChangeSourceInvariant ==
  ASSUME PDInv, ChangeSource, UNCHANGED platform
  PROVE  PDInv'
  <1>1. /\ source' = "changed"
        /\ UNCHANGED <<branch, files, index, head, stage, artifact, pc, call, obs, worktrees>>
        /\ UNCHANGED artifact /\ UNCHANGED <<remote, pull, preview, pushes, pulls, deployments>>
    BY DEF ChangeSource, platform
  <1>2. Shapes' /\ RepositoryOK' /\ PlatformOK'
    BY <1>1 DEF PDInv, Shapes, RepositoryOK, PlatformOK
  <1>3. \A d \in Callers : Undisturbed(d)
    <2> SUFFICES ASSUME NEW d \in Callers PROVE Undisturbed(d)
      OBVIOUS
    <2>1. Late(d) => head.depth > 0
      BY LateCommitted
    <2> QED BY <1>1, <2>1 DEF Undisturbed
  <1> QED BY <1>1, <1>2, <1>3, EnvironmentStep

LEMMA StutterInvariant ==
  ASSUME PDInv, UNCHANGED vars
  PROVE  PDInv'
  <1>1. /\ UNCHANGED <<source, branch, files, index, head, stage, artifact, pc, call, obs,
                       worktrees>>
        /\ UNCHANGED artifact /\ UNCHANGED <<remote, pull, preview, pushes, pulls, deployments>>
    BY DEF vars, codingVars, repository, platform
  <1>2. Shapes' /\ RepositoryOK' /\ PlatformOK'
    BY <1>1 DEF PDInv, Shapes, RepositoryOK, PlatformOK
  <1>3. \A d \in Callers : Undisturbed(d)
    <2> SUFFICES ASSUME NEW d \in Callers PROVE Undisturbed(d)
      OBVIOUS
    <2>1. Late(d) => head.depth > 0
      BY LateCommitted
    <2> QED BY <1>1, <2>1 DEF Undisturbed
  <1> QED BY <1>1, <1>2, <1>3, EnvironmentStep

LEMMA NextInvariant ==
  ASSUME PDInv, [Next]_vars
  PROVE  PDInv'
  <1>1. ASSUME NEW c \in Callers, CodingStep(c), UNCHANGED platform PROVE PDInv'
    <2>1. CASE PrepareBegin(c)
      BY <1>1, <2>1, PrepareBeginInvariant
    <2>2. CASE PrepareInspect(c)
      BY <1>1, <2>2, PrepareInspectInvariant
    <2>3. CASE PrepareWorktree(c)
      BY <1>1, <2>3, PrepareWorktreeInvariant
    <2>4. CASE PrepareConfirm(c)
      BY <1>1, <2>4, PrepareConfirmInvariant
    <2>5. CASE CodingBegin(c)
      BY <1>1, <2>5, CodingBeginInvariant
    <2>6. CASE StartRound(c)
      BY <1>1, <2>6, StartRoundInvariant
    <2>7. CASE CheckStage(c)
      BY <1>1, <2>7, CheckStageInvariant
    <2>8. CASE OpenStage(c)
      BY <1>1, <2>8, OpenStageInvariant
    <2>9. CASE ReplaceFile(c)
      BY <1>1, <2>9, ReplaceFileInvariant
    <2>10. CASE RunQA(c)
      BY <1>1, <2>10, RunQAInvariant
    <2>11. CASE RunSecurity(c)
      BY <1>1, <2>11, RunSecurityInvariant
    <2>12. CASE CodingConfirm(c)
      BY <1>1, <2>12, CodingConfirmInvariant
    <2>13. CASE Save(c)
      BY <1>1, <2>13, SaveInvariant
    <2>14. CASE Fill(c)
      BY <1>1, <2>14, FillInvariant
    <2>15. CASE Crash(c)
      BY <1>1, <2>15, CrashInvariant
    <2> QED BY <1>1, <2>1, <2>2, <2>3, <2>4, <2>5, <2>6, <2>7, <2>8, <2>9, <2>10, <2>11,
               <2>12, <2>13, <2>14, <2>15 DEF CodingStep
  <1>2. ASSUME NEW c \in Callers, DeliveryStep(c) PROVE PDInv'
    <2>1. CASE DeliverBegin(c)
      BY <2>1, DeliverBeginInvariant
    <2>2. CASE DeliverLookup(c)
      BY <2>2, DeliverLookupInvariant
    <2>3. CASE DeliverAdd(c)
      BY <2>3, DeliverAddInvariant
    <2>4. CASE DeliverCommit(c)
      BY <2>4, DeliverCommitInvariant
    <2>5. CASE DeliverPush(c)
      BY <2>5, DeliverPushInvariant
    <2>6. CASE DeliverPull(c)
      BY <2>6, DeliverPullInvariant
    <2>7. CASE DeliverStatus(c)
      BY <2>7, DeliverStatusInvariant
    <2>8. CASE DeliverHead(c)
      BY <2>8, DeliverHeadInvariant
    <2>9. CASE DeliverConfirm(c)
      BY <2>9, DeliverConfirmInvariant
    <2>10. CASE PreviewBegin(c)
      BY <2>10, PreviewBeginInvariant
    <2>11. CASE PreviewFind(c)
      BY <2>11, PreviewFindInvariant
    <2>12. CASE PreviewDeploy(c)
      BY <2>12, PreviewDeployInvariant
    <2> QED BY <1>2, <2>1, <2>2, <2>3, <2>4, <2>5, <2>6, <2>7, <2>8, <2>9, <2>10, <2>11,
               <2>12
            DEF DeliveryStep
  <1> QED BY <1>1, <1>2, EditWorkspaceInvariant, ChangeSourceInvariant, StutterInvariant
          DEF Next

-----------------------------------------------------------------------------
(* The theorems.                                                             *)

(* Whatever the callers do, in whatever order, however many die and whatever *)
(* others change: the stored artifacts, the workspace and the platform stay  *)
(* consistent, and every call relies only on what the others keep.           *)
THEOREM DeliveryInvariant == Spec => []PDInv
  <1>1. Init => PDInv
    BY InitInvariant
  <1>2. PDInv /\ [Next]_vars => PDInv'
    BY NextInvariant
  <1> QED BY <1>1, <1>2, PTL DEF Spec

LEMMA InvariantEffects == PDInv => EffectsAreOwn
  <1> SUFFICES ASSUME PDInv PROVE EffectsAreOwn
    OBVIOUS
  <1>1. TypeOK
    <2>1. \A s \in Services, x \in Execs :
            artifact[s][x] \in {None, Torn} \/
              /\ artifact[s][x].exec = x
              /\ artifact[s][x].files \in [Paths -> Contents]
      BY DEF PDInv, ArtifactsOK, StoredOK, IsStored, Files
    <2> QED BY <2>1 DEF TypeOK, PDInv, RepositoryOK, PlatformOK, Files
  <1>2. EffectsAtMostOnce
    BY DEF PDInv, RepositoryOK, PlatformOK, EffectsAtMostOnce
  <1>3. NothingIsAdopted
    <2> SUFFICES ASSUME NEW service \in {"workspace", "github", "preview"}, NEW x \in Execs,
                        Load(service, x) # None
                 PROVE  Load(service, x).made = OwnEffects[service]
      BY DEF NothingIsAdopted, OwnEffects, Stored
    <2>1. IsStored(service, x) /\ Load(service, x) = artifact[service][x]
      BY LoadStored
    <2>2. StoredOK(service, x)
      BY <2>1 DEF PDInv, ArtifactsOK, Services
    <2>3. CASE service = "workspace"
      BY <2>1, <2>2, <2>3 DEF StoredOK, OwnEffects
    <2>4. CASE service = "github"
      BY <2>1, <2>2, <2>4 DEF StoredOK, OwnEffects
    <2>5. CASE service = "preview"
      BY <2>1, <2>2, <2>5 DEF StoredOK, OwnEffects
    <2> QED BY <2>3, <2>4, <2>5
  <1> QED BY <1>1, <1>2, <1>3 DEF EffectsAreOwn

LEMMA InvariantBound == PDInv => DeliveredIsBound
  <1> SUFFICES ASSUME PDInv PROVE DeliveredIsBound
    OBVIOUS
  <1>1. \A s \in Services, x \in Execs :
          x \in Stored(s) => StoredOK(s, x) /\ Load(s, x) = artifact[s][x]
    <2> SUFFICES ASSUME NEW s \in Services, NEW x \in Execs, x \in Stored(s)
                 PROVE  StoredOK(s, x) /\ Load(s, x) = artifact[s][x]
      OBVIOUS
    <2>1. IsStored(s, x) /\ Load(s, x) = artifact[s][x]
      BY LoadStored DEF Stored
    <2> QED BY <2>1 DEF PDInv, ArtifactsOK
  <1>2. \A s \in Services, x \in Execs :
          IsStored(s, x) => x \in Stored(s) /\ Load(s, x) = artifact[s][x]
    BY LoadStored DEF Stored
  <1>3. \A s \in Services : Stored(s) \subseteq Execs
    BY DEF Stored
  <1>4. ASSUME NEW x \in Stored("github")
        PROVE  /\ remote = Load("github", x).commit /\ pull = remote
               /\ Load("github", x).disturbed \/ Load("github", x).files = remote.files
               /\ Load("github", x).files = Load("coding", Load("github", x).from).files
    <2>1. StoredOK("github", x) /\ Load("github", x) = artifact["github"][x]
      BY <1>1, <1>3 DEF Services
    <2>2. /\ artifact["github"][x].from \in Execs
          /\ IsStored("coding", artifact["github"][x].from)
      BY <2>1 DEF StoredOK, FromStored
    <2> QED BY <1>2, <2>1, <2>2 DEF StoredOK, Services
  <1>5. ASSUME NEW x \in Stored("preview")
        PROVE  /\ preview = Load("preview", x).commit /\ preview = remote
               /\ Load("preview", x).commit = Load("github", Load("preview", x).from).commit
    <2>1. StoredOK("preview", x) /\ Load("preview", x) = artifact["preview"][x]
      BY <1>1, <1>3 DEF Services
    <2>2. /\ artifact["preview"][x].from \in Execs
          /\ IsStored("github", artifact["preview"][x].from)
      BY <2>1 DEF StoredOK, FromStored
    <2> QED BY <1>2, <2>1, <2>2 DEF StoredOK, PDInv, PlatformOK, Services
  <1>6. OneOrchestration
    <2> SUFFICES ASSUME NEW s \in Services, NEW t \in Services,
                        <<s, t>> \in {<<"coding", "workspace">>, <<"github", "coding">>,
                                      <<"preview", "github">>},
                        NEW x \in Stored(s)
                 PROVE  /\ Load(s, x).from \in Stored(t)
                        /\ Load(t, Load(s, x).from).orchestration = Load(s, x).orchestration
      BY DEF OneOrchestration, Services
    <2>1. StoredOK(s, x) /\ Load(s, x) = artifact[s][x]
      BY <1>1, <1>3
    <2>2. FromStored(s, x, t)
      BY <2>1 DEF StoredOK
    <2> QED BY <1>2, <2>1, <2>2 DEF FromStored
  <1> QED BY <1>4, <1>5, <1>6 DEF DeliveredIsBound

LEMMA InvariantReviewed == PDInv => UndisturbedIsReviewed
  <1> SUFFICES ASSUME PDInv, NEW x \in Execs, Load("coding", x) # None
               PROVE  \/ Load("coding", x).disturbed
                      \/ \A p \in Paths :
                           Load("coding", x).files[p] \notin QAFailing \cup Insecure
    BY DEF UndisturbedIsReviewed, Stored
  <1>1. IsStored("coding", x) /\ Load("coding", x) = artifact["coding"][x]
    BY LoadStored
  <1>2. StoredOK("coding", x)
    BY <1>1 DEF PDInv, ArtifactsOK, Services
  <1> QED BY <1>1, <1>2 DEF StoredOK, Reviewed, QAPasses, SecurityPasses

(* Retries, overlapping callers and callers that died never make a second    *)
(* worktree, push, pull request or preview, and an artifact reports exactly  *)
(* the effects of its own call.                                              *)
THEOREM EffectsOwn == Spec => []EffectsAreOwn
  BY DeliveryInvariant, InvariantEffects, PTL

(* A delivery artifact tells the truth about the branch, the pull request    *)
(* and the review it names, and about the files of the commit unless         *)
(* somebody wrote in the workspace after the closing status; a preview       *)
(* artifact about its environment; and the whole chain goes back to one      *)
(* orchestration.                                                            *)
THEOREM DeliveredBound == Spec => []DeliveredIsBound
  BY DeliveryInvariant, InvariantBound, PTL

(* A review that nobody disturbed is stored only for files that pass QA and  *)
(* Security, whatever rounds and findings came before.                       *)
THEOREM UndisturbedReviewed == Spec => []UndisturbedIsReviewed
  BY DeliveryInvariant, InvariantReviewed, PTL
=============================================================================
