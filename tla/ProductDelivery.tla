-------------------------- MODULE ProductDelivery --------------------------
(* Delivery of the reviewed workspace to GitHub (runtime/github_delivery)    *)
(* and of the delivered commit to a preview (runtime/preview_deployment),    *)
(* composed with the workspace and coding services of ProductCoding: each    *)
(* service takes the artifact that the one before it persisted.              *)
EXTENDS ProductCoding

VARIABLES
  remote,        \* the feature branch on the remote: None or its commit
  pull,          \* the draft pull request: None or its head commit
  preview,       \* the preview environment: None or its deployed commit
  pushes, pulls, deployments   \* effects ever made

platform == <<remote, pull, preview, pushes, pulls, deployments>>
vars == <<codingVars, platform>>

Init ==
  /\ CodingInit
  /\ remote = None /\ pull = None /\ preview = None
  /\ pushes = 0 /\ pulls = 0 /\ deployments = 0

-----------------------------------------------------------------------------
(* runtime/github_delivery                                                  *)

ChangedPaths(contents) == {p \in Paths : contents[p] # Original}

\* _validate_source_artifact: the persisted review, for the same orchestration.
ReviewArtifact(request) == Load("coding", request.from)

DeliverySource(request) ==
  /\ ReviewArtifact(request) # None
  /\ ReviewArtifact(request).orchestration = request.orchestration

\* _validate_before: source unchanged, workspace on the base with an empty
\* index, and the reviewed files with the reviewed digests, no other.
DeliveryBefore(request) ==
  /\ SourceIsBase
  /\ files # None /\ head = BaseCommit /\ index = BaseFiles /\ stage = NoStage
  /\ files = ReviewArtifact(request).files

DeliveryRequest(exec, orchestration, from, authority) ==
  Request("github", exec, orchestration, from, authority.network)

DeliveryObservation(review) ==
  [files |-> review.files, disturbed |-> FALSE, made |-> {}, commit |-> None]

DeliverBegin(c) ==
  /\ \E exec, from \in Execs, orchestration \in Orchestrations, authority \in Authorities :
       LET request == DeliveryRequest(exec, orchestration, from, authority) IN
         /\ DeliverySource(request)
         /\ DeliveryBefore(request)
         /\ Begin(c, request, authority, "lookup",
                  DeliveryObservation(ReviewArtifact(request)))
  /\ UNCHANGED platform

\* The provider refuses a branch or a pull request that is already there.
RemoteIsFree == remote = None /\ pull = None

DeliverLookup(c) ==
  /\ pc[c] = "lookup"
  /\ IF RemoteIsFree THEN Goto(c, "add") /\ UNCHANGED <<call, obs>> ELSE Return(c)
  /\ UNCHANGED <<repository, artifact, worktrees, bounds, platform>>

\* git add of the reviewed paths takes the files as they are now; the staged
\* paths must be the reviewed ones.
DeliverAdd(c) ==
  LET reviewed == ChangedPaths(obs[c].files)
      staged == [p \in Paths |-> IF p \in reviewed THEN files[p] ELSE index[p]]
  IN
    /\ pc[c] = "add"
    /\ index' = staged
    /\ IF {p \in Paths : staged[p] # head.files[p]} = reviewed
         THEN Goto(c, "commit") /\ UNCHANGED <<call, obs>>
         ELSE Return(c)
    /\ UNCHANGED <<source, branch, files, head, stage, artifact, worktrees, bounds,
                   platform>>

\* git commit fails with nothing to commit; the new commit must be the only one
\* above the base and change the reviewed paths.
DeliverCommit(c) ==
  LET commit == [depth |-> head.depth + 1, files |-> index]
      changed == {p \in Paths : index[p] # head.files[p]}
  IN
    /\ pc[c] = "commit"
    /\ head' = IF changed = {} THEN head ELSE commit
    /\ IF commit.depth = 1 /\ changed = ChangedPaths(obs[c].files)
         THEN /\ Goto(c, "push") /\ UNCHANGED call
              /\ obs' = [obs EXCEPT ![c].commit = commit, ![c].made = {"commit"}]
         ELSE Return(c)
    /\ UNCHANGED <<source, branch, files, index, stage, artifact, worktrees, bounds,
                   platform>>

\* The push sends the branch as it is now, without force; the answer may be lost
\* or time out with or without the effect.
PushAccepted == IF remote = None THEN TRUE ELSE head.depth > remote.depth

DeliverPush(c) ==
  /\ pc[c] = "push"
  /\ \/ PushAccepted /\ remote' = head /\ pushes' = pushes + 1
     \/ UNCHANGED <<remote, pushes>>
  /\ \/ /\ remote' = obs[c].commit
        /\ Goto(c, "pull") /\ UNCHANGED call
        /\ Note(c, "made", obs[c].made \cup {e \in {"push"} : pushes' > pushes})
     \/ Return(c)
  /\ UNCHANGED <<repository, artifact, worktrees, bounds, pull, preview, pulls,
                 deployments>>

\* Two remote lookups, the pull-request lookup, the push and the creation.
NetworkCalls == 5

\* The gateway creates one draft per branch, or fails.  The network budget is
\* looked at when everything has been done.
DeliverPull(c) ==
  /\ pc[c] = "pull"
  /\ \/ /\ pull = None
        /\ pull' = obs[c].commit /\ pulls' = pulls + 1
        /\ \/ /\ NetworkCalls <= call[c].limit
              /\ Goto(c, "delivered") /\ UNCHANGED call
              /\ Note(c, "made", obs[c].made \cup {"pull"})
           \/ Return(c)
     \/ Return(c) /\ UNCHANGED <<pull, pulls>>
  /\ UNCHANGED <<repository, artifact, worktrees, bounds, remote, preview, pushes,
                 deployments>>

\* The closing snapshots and _validate_after, in the order in which they look:
\* the status of both repositories, the commit HEAD is at with its paths, and
\* the digests of the reviewed files.
DeliverStatus(c) ==
  /\ pc[c] = "delivered"
  /\ IF SourceIsBase /\ Clean
       THEN Goto(c, "status") /\ Note(c, "disturbed", FALSE) /\ UNCHANGED call
       ELSE Return(c)
  /\ UNCHANGED <<repository, artifact, worktrees, bounds, platform>>

DeliverHead(c) ==
  /\ pc[c] = "status"
  /\ IF head = obs[c].commit /\ ChangedPaths(head.files) = ChangedPaths(obs[c].files)
       THEN Goto(c, "digests") /\ UNCHANGED <<call, obs>>
       ELSE Return(c)
  /\ UNCHANGED <<repository, artifact, worktrees, bounds, platform>>

DigestsMatchUnread(c) == TRUE

DigestsMatch(c) ==
  \A p \in ChangedPaths(obs[c].files) : files[p] = obs[c].files[p]

DeliverConfirm(c) ==
  /\ pc[c] = "digests"
  /\ IF DigestsMatch(c) THEN Goto(c, "save") /\ UNCHANGED <<call, obs>> ELSE Return(c)
  /\ UNCHANGED <<repository, artifact, worktrees, bounds, platform>>

-----------------------------------------------------------------------------
(* runtime/preview_deployment                                               *)

\* _validate_github_delivery and _validate_devops: the persisted delivery and
\* DevOps plans that bind the same QA and Security as the delivery.
DeliveryArtifact(request) == Load("github", request.from)

PreviewSources(request) ==
  /\ DeliveryArtifact(request) # None
  /\ DeliveryArtifact(request).orchestration = request.orchestration

PreviewRequest(exec, orchestration, from) ==
  Request("preview", exec, orchestration, from, None)

PreviewObservation(delivery) ==
  [files |-> delivery.files, disturbed |-> FALSE, made |-> {},
   commit |-> delivery.commit]

PreviewBegin(c) ==
  /\ \E exec, from \in Execs, orchestration \in Orchestrations, authority \in Authorities :
       LET request == PreviewRequest(exec, orchestration, from) IN
         /\ PreviewSources(request)
         /\ Begin(c, request, authority, "find",
                  PreviewObservation(DeliveryArtifact(request)))
  /\ UNCHANGED platform

PreviewFind(c) ==
  /\ pc[c] = "find"
  /\ IF preview = None THEN Goto(c, "deploy") /\ UNCHANGED <<call, obs>> ELSE Return(c)
  /\ UNCHANGED <<repository, artifact, worktrees, bounds, platform>>

\* The platform creates an environment and never replaces one.
Deployable == preview = None

\* Deploy the approved commit and inspect it: health checks or a lost answer may
\* stop the run after the environment exists, or the platform fails before.
PreviewDeploy(c) ==
  /\ pc[c] = "deploy"
  /\ \/ /\ Deployable
        /\ preview' = obs[c].commit /\ deployments' = deployments + 1
        /\ \/ Goto(c, "save") /\ Note(c, "made", {"preview"}) /\ UNCHANGED call
           \/ Return(c)
     \/ Return(c) /\ UNCHANGED <<preview, deployments>>
  /\ UNCHANGED <<repository, artifact, worktrees, bounds, remote, pull, pushes, pulls>>

-----------------------------------------------------------------------------
DeliveryStep(c) ==
  \/ DeliverBegin(c) \/ DeliverLookup(c) \/ DeliverAdd(c) \/ DeliverCommit(c)
  \/ DeliverPush(c) \/ DeliverPull(c) \/ DeliverStatus(c) \/ DeliverHead(c)
  \/ DeliverConfirm(c)
  \/ PreviewBegin(c) \/ PreviewFind(c) \/ PreviewDeploy(c)

Next ==
  \/ \E c \in Callers : CodingStep(c) /\ UNCHANGED platform
  \/ \E c \in Callers : DeliveryStep(c)
  \/ (EditWorkspace \/ ChangeSource) /\ UNCHANGED platform

Spec == Init /\ [][Next]_vars

-----------------------------------------------------------------------------
(* Properties.                                                              *)

\* Every variable keeps its type, and an artifact on disk has the shape its
\* store loads.
TypeOK ==
  /\ source \in {"base", "changed"} /\ branch \in BOOLEAN
  /\ files = None \/ (files \in [Paths -> Contents] /\ index \in [Paths -> Contents])
  /\ head = None \/ head \in Commits
  /\ stage \in [Paths -> Contents \cup {None}]
  /\ \A s \in Services, x \in Execs :
       artifact[s][x] \in {None, Torn} \/
         /\ artifact[s][x].exec = x
         /\ artifact[s][x].files \in [Paths -> Contents]
  /\ remote = None \/ remote \in Commits
  /\ pull = None \/ pull \in Commits
  /\ preview = None \/ preview \in Commits

Stored(service) == {x \in Execs : Load(service, x) # None}

\* Retries, overlapping callers and callers that died never make a second
\* worktree, push, pull request or preview environment: each provider looks
\* before it acts, and each platform refuses what exists.
EffectsAtMostOnce == worktrees <= 1 /\ pushes <= 1 /\ pulls <= 1 /\ deployments <= 1

\* Every artifact of the chain goes back to one orchestration, hence to one pair
\* of QA and Security artifacts.
OneOrchestration ==
  \A link \in {<<"coding", "workspace">>, <<"github", "coding">>, <<"preview", "github">>} :
    \A x \in Stored(link[1]) :
      LET it == Load(link[1], x) IN
        /\ it.from \in Stored(link[2])
        /\ Load(link[2], it.from).orchestration = it.orchestration

\* A delivery artifact tells the truth about GitHub: branch and pull request
\* hold the commit it names, and its files are those of the review.  They are
\* the files of that commit too, unless somebody wrote in the workspace after
\* the closing status and before the digests.  A preview artifact's environment
\* runs the delivered commit.
DeliveredIsBound ==
  /\ \A x \in Stored("github") :
       LET delivery == Load("github", x) IN
         /\ remote = delivery.commit /\ pull = delivery.commit
         /\ delivery.files = Load("coding", delivery.from).files
         /\ delivery.disturbed \/ delivery.files = remote.files
  /\ \A x \in Stored("preview") :
       LET it == Load("preview", x) IN
         /\ preview = it.commit /\ preview = remote
         /\ it.commit = Load("github", it.from).commit
  /\ OneOrchestration

\* A review that nobody disturbed is only stored for files that pass both QA and
\* Security, whatever rounds and findings came before.
UndisturbedIsReviewed ==
  \A x \in Stored("coding") :
    LET review == Load("coding", x) IN
      review.disturbed \/ \A p \in Paths : review.files[p] \notin QAFailing \cup Insecure

\* An artifact reports what its own call did.  A worktree, delivery or preview
\* whose call failed or died before its artifact, and one that an overlapping
\* call made, is never adopted: it stays for a human to reconcile.
OwnEffects == [workspace |-> {"worktree"}, github |-> {"commit", "push", "pull"},
               preview |-> {"preview"}]

NothingIsAdopted ==
  \A service \in DOMAIN OwnEffects : \A x \in Stored(service) :
    Load(service, x).made = OwnEffects[service]

\* Worktree, commit, push, pull request and preview are made once, and by the
\* call whose artifact reports them.
EffectsAreOwn == TypeOK /\ EffectsAtMostOnce /\ NothingIsAdopted

\* The commit of a stored delivery holds the reviewed bytes of every file its
\* artifact names (test_commit_contains_only_exact_reviewed_files_and_digests).
CommitHoldsDigests ==
  \A x \in Stored("github") : remote.files = Load("github", x).files

\* What the delivery documentation says of the pull request: it holds the output
\* that QA and Security reviewed.
DeliveredIsReviewed ==
  \A x \in Stored("github") :
    \A p \in Paths : Load("github", x).files[p] \notin QAFailing \cup Insecure
=============================================================================
