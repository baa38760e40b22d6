--------------------------- MODULE CustomerJourney ---------------------------
(***************************************************************************)
(* The customer's product journey (runtime/customer_application,           *)
(* customer_requirements, customer_prd, customer_roadmap and               *)
(* customer_estimate): a chain of documents, each kept in a file of its    *)
(* own, each generated or approved by one web form and each bound to its   *)
(* predecessors by their digests.  A request handler reads the whole chain *)
(* (the service's context), checks the form it was posted, builds a        *)
(* document and writes its file; other handlers run between the reads and  *)
(* the write, and between the exclusive creation of the file and the       *)
(* writing of its content.                                                 *)
(*                                                                         *)
(* Abstractions.  A digest stands for the identity of a document: the      *)
(* handler that built it ("by", which stands for the time of its creation: *)
(* two handlers never build at the same instant) with its business         *)
(* content.  Text, identifiers and the rendering of pages are left out.    *)
(* All the reads of one request are one step; every write is a step.       *)
(***************************************************************************)
EXTENDS Naturals, Sequences

CONSTANTS Handlers,      \* the threads that serve requests
          Contents,      \* the business content a customer may type in
          MaxRevisions,  \* bound on requirements revisions (1000 in the code)
          MaxCrashes     \* bound on process crashes

ASSUME JourneyAssumption == /\ MaxRevisions \in Nat \ {0}
                            /\ MaxCrashes \in Nat

VARIABLES drafts,    \* the requirements revisions, in order
          doc,       \* the other documents, one file each
          temp,      \* the roadmap's ".regenerating" file exists
          handler,   \* what each handler is doing
          overlap,   \* history: two requests have been in progress at once
          crashes

journeyVars == <<drafts, doc, temp, handler, overlap, crashes>>

-----------------------------------------------------------------------------
(* Files.  O_CREAT|O_EXCL makes an empty file that the same handler then   *)
(* fills; a reader that meets the empty file raises its Corrupt error.     *)

Absent == [file |-> "absent"]
Torn == [file |-> "torn"]

Docs == {"request", "approval", "prd", "criteria", "prdApproval", "roadmap",
         "roadmapApproval", "estimate"}

Builders == Handlers \cup {"past"}

Digest(d) == <<d.by, d.content>>

Digests == Builders \X (Contents \cup {"none"})

(* The documents.  "content" is what a customer typed or, where the        *)
(* document is derived from its predecessors alone, "none".                *)

Document(Bindings) ==
  [file: {"whole"}, by: Builders, content: Contents \cup {"none"}, binds: Bindings]

CustomerProductRequest == Document({<<>>})

CustomerRequirementsDraft ==
  [file: {"whole"}, by: Builders, content: Contents, revision: 1..MaxRevisions,
   binds: Digests]

CustomerRequirementsApproval == Document((1..MaxRevisions) \X Digests)

CustomerPrdDraft == Document(Digests)

CustomerPrdCriteriaRefinement == Document(Digests)

CustomerPrdApproval == Document(Digests \X (Contents \cup {"none"}))

CustomerRoadmapDraft == Document(Digests)

CustomerRoadmapApproval == Document(Digests)

CustomerDeliveryEstimateDraft == Document(Digests)

Stored == [request |-> CustomerProductRequest,
           approval |-> CustomerRequirementsApproval,
           prd |-> CustomerPrdDraft,
           criteria |-> CustomerPrdCriteriaRefinement,
           prdApproval |-> CustomerPrdApproval,
           roadmap |-> CustomerRoadmapDraft,
           roadmapApproval |-> CustomerRoadmapApproval,
           estimate |-> CustomerDeliveryEstimateDraft]

NoForm == <<"none">>

Idle == [pc |-> "idle", op |-> "none", form |-> NoForm, candidate |-> Absent]

-----------------------------------------------------------------------------
(* The stores' find: an absent file is None, a whole one is its record, an *)
(* empty one raises.  The roadmap's directory must hold nothing but the    *)
(* roadmap: a ".regenerating" file makes every read raise.                 *)

Present(d) == doc[d].file = "whole"

FindRequest == doc["request"].file = "whole"

DraftHistory == \A i \in DOMAIN drafts : drafts[i].file = "whole"

FindApproval == doc["approval"].file # "torn"

FindPrd == doc["prd"].file # "torn"

FindCriteria == doc["criteria"].file # "torn"

FindPrdApproval == doc["prdApproval"].file # "torn"

FindRoadmap == doc["roadmap"].file # "torn" /\ ~temp

FindRoadmapApproval == doc["roadmapApproval"].file # "torn"

FindEstimate == doc["estimate"].file # "torn"

Latest == drafts[Len(drafts)]

DraftDigestNext(d) == <<d.revision + 1, <<d.by, d.content>>>>

DraftDigest(d) == <<d.revision, <<d.by, d.content>>>>

(* The PRD with the customer's criteria laid over it has a digest of its   *)
(* own (CustomerPrdCriteriaService.effective_prd).                         *)
EffectivePrd ==
  <<Digest(doc["prd"]),
    IF Present("criteria") THEN doc["criteria"].content ELSE "none">>

-----------------------------------------------------------------------------
(* The services' context: every document up to the stage is readable and   *)
(* binds the predecessor that is stored now; otherwise it raises.          *)

RequirementsContext ==
  /\ FindRequest
  /\ DraftHistory
  /\ drafts # <<>> => Latest.binds = Digest(doc["request"])

ApprovalContext ==
  /\ RequirementsContext
  /\ FindApproval
  /\ Present("approval") => /\ drafts # <<>>
                            /\ doc["approval"].binds = DraftDigest(Latest)

PrdContext ==
  /\ ApprovalContext
  /\ FindPrd
  /\ Present("prd") => /\ Present("approval")
                       /\ doc["prd"].binds = Digest(doc["approval"])

CriteriaContext ==
  /\ PrdContext
  /\ FindCriteria
  /\ Present("criteria") => /\ Present("prd")
                            /\ doc["criteria"].binds = Digest(doc["prd"])

PrdApprovalContext ==
  /\ CriteriaContext
  /\ FindPrdApproval
  /\ Present("prdApproval") => /\ Present("prd")
                               /\ doc["prdApproval"].binds = EffectivePrd

RoadmapContext ==
  /\ PrdApprovalContext
  /\ FindRoadmap
  /\ Present("roadmap") => /\ Present("prdApproval")
                           /\ doc["roadmap"].binds = Digest(doc["prdApproval"])

RoadmapApprovalContext ==
  /\ RoadmapContext
  /\ FindRoadmapApproval
  /\ Present("roadmapApproval") =>
        /\ Present("roadmap")
        /\ doc["roadmapApproval"].binds = Digest(doc["roadmap"])

EstimateContext ==
  /\ RoadmapApprovalContext
  /\ FindEstimate
  /\ Present("estimate") => /\ Present("roadmapApproval")
                            /\ doc["estimate"].binds = Digest(doc["roadmapApproval"])

(* A roadmap of an earlier release, which is replaced, never approved.     *)
Legacy == Present("roadmap") /\ doc["roadmap"].by = "past"

-----------------------------------------------------------------------------
(* Requests.  A page shows a form that carries the digest of what it       *)
(* shows; the form is posted at any later time.  A request that is refused *)
(* or finds its document already there ends; one that must write goes on   *)
(* with the document it built.                                             *)

InProgress(h) == handler[h].pc \notin {"idle", "form"}

Show(h, op, form) ==
  /\ handler[h].pc \in {"idle", "form"}
  /\ handler' = [handler EXCEPT ![h] = [pc |-> "form", op |-> op, form |-> form,
                                        candidate |-> Absent]]
  /\ UNCHANGED <<drafts, doc, temp, overlap, crashes>>

Posted(h, op) == handler[h].pc = "form" /\ handler[h].op = op

Form(h) == handler[h].form

Enter(h) ==
  /\ overlap' = (overlap \/ \E g \in Handlers \ {h} : InProgress(g))
  /\ UNCHANGED <<drafts, doc, temp, crashes>>

Refuse(h) == handler' = [handler EXCEPT ![h] = Idle]

Build(h, pc, content, binds) ==
  handler' = [handler EXCEPT ![h].pc = pc,
                             ![h].candidate = [file |-> "whole", by |-> h,
                                               content |-> content, binds |-> binds]]

(* A service call: the candidate is built if the checks hold and no        *)
(* document is there yet; otherwise the call returns or raises.            *)
Serve(h, op, checks, content, binds) ==
  /\ Posted(h, op)
  /\ Enter(h)
  /\ IF checks /\ ~Present(op)
     THEN Build(h, "create", content, binds)
     ELSE Refuse(h)

-----------------------------------------------------------------------------
(* The nine forms of the journey.                                          *)

NewRequestPage(h) == Show(h, "request", NoForm)

Submit(h) == \E c \in Contents :
  Serve(h, "request", doc["request"].file # "torn", c, <<>>)

UnlockedAlways == TRUE

(* The approval is the lock of the requirements (is_locked).               *)
Unlocked == FindApproval /\ ~Present("approval")

RequirementsPage(h) ==
  /\ RequirementsContext
  /\ Unlocked
  /\ Show(h, "draft", <<Len(drafts)>>)

SaveRequirements(h) == \E c \in Contents :
  /\ Posted(h, "draft")
  /\ Enter(h)
  /\ IF /\ RequirementsContext
        /\ Unlocked
        /\ drafts # <<>> => Latest.content # c
        /\ Form(h) = <<Len(drafts)>>
        /\ Len(drafts) < MaxRevisions
     THEN handler' = [handler EXCEPT ![h].pc = "append",
            ![h].candidate = [file |-> "whole", by |-> h, content |-> c,
                              revision |-> Len(drafts) + 1,
                              binds |-> Digest(doc["request"])]]
     ELSE Refuse(h)

ApprovalPage(h) ==
  /\ ApprovalContext /\ ~Present("approval")
  /\ drafts # <<>>
  /\ Show(h, "approval", DraftDigest(Latest))

ApproveRequirements(h) ==
  Serve(h, "approval",
        ApprovalContext /\ drafts # <<>> /\ Form(h) = DraftDigest(Latest),
        "none", Form(h))

PrdPage(h) ==
  /\ PrdContext /\ ~Present("prd")
  /\ Present("approval")
  /\ Show(h, "prd", Digest(doc["approval"]))

GeneratePrd(h) ==
  Serve(h, "prd",
        PrdContext /\ Present("approval") /\ Form(h) = Digest(doc["approval"]),
        "none", Form(h))

CriteriaPage(h) ==
  /\ FindPrdApproval /\ ~Present("prdApproval")
  /\ CriteriaContext /\ ~Present("criteria")
  /\ Present("prd")
  /\ Show(h, "criteria", Digest(doc["prd"]))

LockCriteria(h) == \E c \in Contents :
  Serve(h, "criteria",
        /\ FindPrdApproval /\ ~Present("prdApproval")
        /\ CriteriaContext
        /\ Present("prd") /\ Form(h) = Digest(doc["prd"]),
        c, Form(h))

PrdApprovalPage(h) ==
  /\ PrdApprovalContext /\ ~Present("prdApproval")
  /\ Present("prd") /\ Present("criteria")
  /\ Show(h, "prdApproval", EffectivePrd)

ApprovePrd(h) ==
  Serve(h, "prdApproval",
        /\ PrdApprovalContext
        /\ Present("prd") /\ Form(h) = EffectivePrd
        /\ Present("criteria"),
        "none", Form(h))

RoadmapPage(h) ==
  /\ FindRoadmapApproval /\ ~Present("roadmapApproval")
  /\ RoadmapContext /\ Present("prdApproval")
  /\ Present("roadmap") => Legacy
  /\ Show(h, "roadmap", Digest(doc["prdApproval"]))

GenerateRoadmap(h) ==
  LET checks == /\ FindRoadmapApproval /\ ~Present("roadmapApproval")
                /\ RoadmapContext /\ Present("prdApproval")
                /\ Form(h) = Digest(doc["prdApproval"])
  IN \/ ~Legacy /\ Serve(h, "roadmap", checks, "none", Form(h))
     \/ /\ Legacy
        /\ Posted(h, "roadmap")
        /\ Enter(h)
        /\ IF checks THEN Build(h, "compare", "none", Form(h)) ELSE Refuse(h)

RoadmapApprovalPage(h) ==
  /\ RoadmapApprovalContext /\ ~Present("roadmapApproval")
  /\ Present("roadmap")
  /\ Show(h, "roadmapApproval", Digest(doc["roadmap"]))

ApproveRoadmap(h) ==
  Serve(h, "roadmapApproval",
        /\ RoadmapApprovalContext
        /\ Present("roadmap") /\ ~Legacy
        /\ Form(h) = Digest(doc["roadmap"]),
        "none", Form(h))

EstimatePage(h) ==
  /\ EstimateContext /\ ~Present("estimate")
  /\ Present("roadmapApproval")
  /\ Show(h, "estimate", Digest(doc["roadmapApproval"]))

GenerateEstimate(h) ==
  Serve(h, "estimate",
        /\ EstimateContext /\ Present("roadmapApproval")
        /\ Form(h) = Digest(doc["roadmapApproval"]),
        "none", Form(h))

-----------------------------------------------------------------------------
(* The writes.                                                             *)

At(h, pc) == handler[h].pc = pc

Candidate(h) == handler[h].candidate

Goto(h, pc) == handler' = [handler EXCEPT ![h].pc = pc]

(* save of a one-file store: the exclusive creation fails if the file is   *)
(* there, and since the handler's document cannot be the stored one, the   *)
(* request ends with a conflict.                                           *)
CreateDocOver(h) ==
  LET d == handler[h].op
  IN /\ At(h, "create")
     /\ doc' = [doc EXCEPT ![d] = Torn] /\ Goto(h, "write")
     /\ UNCHANGED <<drafts, temp, overlap, crashes>>

CreateDoc(h) ==
  LET d == handler[h].op
  IN /\ At(h, "create")
     /\ IF doc[d].file = "absent" /\ (d = "roadmap" => ~temp)
        THEN doc' = [doc EXCEPT ![d] = Torn] /\ Goto(h, "write")
        ELSE doc' = doc /\ Refuse(h)
     /\ UNCHANGED <<drafts, temp, overlap, crashes>>

WriteDoc(h) ==
  /\ At(h, "write")
  /\ doc' = [doc EXCEPT ![handler[h].op] = Candidate(h)]
  /\ Refuse(h)
  /\ UNCHANGED <<drafts, temp, overlap, crashes>>

(* The write raises: the handler removes the file it created.              *)
WriteDocFails(h) ==
  /\ At(h, "write")
  /\ doc' = [doc EXCEPT ![handler[h].op] = Absent]
  /\ Refuse(h)
  /\ UNCHANGED <<drafts, temp, overlap, crashes>>

(* save of a requirements revision: the history is read again, and its     *)
(* length must still be one less than the revision.                        *)
AppendDraft(h) ==
  /\ At(h, "append")
  /\ IF DraftHistory /\ Candidate(h).revision = Len(drafts) + 1
     THEN /\ drafts' = Append(drafts, Torn)
          /\ Goto(h, "writeDraft")
     ELSE drafts' = drafts /\ Refuse(h)
  /\ UNCHANGED <<doc, temp, overlap, crashes>>

WriteDraft(h) ==
  /\ At(h, "writeDraft")
  /\ drafts' = [drafts EXCEPT ![Candidate(h).revision] = Candidate(h)]
  /\ Refuse(h)
  /\ UNCHANGED <<doc, temp, overlap, crashes>>

(* The write raises: the handler removes the file, the last of the history.*)
WriteDraftFails(h) ==
  /\ At(h, "writeDraft")
  /\ drafts' = SubSeq(drafts, 1, Candidate(h).revision - 1)
  /\ Refuse(h)
  /\ UNCHANGED <<doc, temp, overlap, crashes>>

(* replace_legacy: compare the stored roadmap with the one that was read,  *)
(* create the temporary file exclusively, then rename it.                  *)
CompareLegacy(h) ==
  /\ At(h, "compare")
  /\ IF FindRoadmap /\ Legacy THEN Goto(h, "temp") ELSE Refuse(h)
  /\ UNCHANGED <<drafts, doc, temp, overlap, crashes>>

CreateTemp(h) ==
  /\ At(h, "temp")
  /\ IF temp THEN temp' = temp /\ Refuse(h) ELSE temp' = TRUE /\ Goto(h, "rename")
  /\ UNCHANGED <<drafts, doc, overlap, crashes>>

RenameTemp(h) ==
  /\ At(h, "rename")
  /\ doc' = [doc EXCEPT !["roadmap"] = Candidate(h)]
  /\ temp' = FALSE
  /\ Refuse(h)
  /\ UNCHANGED <<drafts, overlap, crashes>>

(* The temporary file cannot be written or renamed: it is removed.         *)
RenameTempFails(h) ==
  /\ At(h, "rename")
  /\ temp' = FALSE
  /\ Refuse(h)
  /\ UNCHANGED <<drafts, doc, overlap, crashes>>

(* The process dies: every request in progress is lost, every form the     *)
(* customers hold is still there to be posted.                             *)
ServerCrash ==
  /\ crashes < MaxCrashes
  /\ \E h \in Handlers : InProgress(h)
  /\ crashes' = crashes + 1
  /\ handler' = [h \in Handlers |-> IF InProgress(h) THEN Idle ELSE handler[h]]
  /\ UNCHANGED <<drafts, doc, temp, overlap>>

-----------------------------------------------------------------------------
Empty == drafts = <<>> /\ doc = [d \in Docs |-> Absent]

(* A store of an earlier release: everything up to a legacy roadmap.       *)
PastDoc(content, binds) ==
  [file |-> "whole", by |-> "past", content |-> content, binds |-> binds]

Past == \E c \in Contents :
  LET none == <<"past", "none">>
  IN /\ drafts = <<[file |-> "whole", by |-> "past", content |-> c, revision |-> 1,
                    binds |-> <<"past", c>>]>>
     /\ doc = [d \in Docs |->
          CASE d = "request"     -> PastDoc(c, <<>>)
            [] d = "approval"    -> PastDoc("none", <<1, <<"past", c>>>>)
            [] d = "prd"         -> PastDoc("none", none)
            [] d = "criteria"    -> PastDoc(c, none)
            [] d = "prdApproval" -> PastDoc("none", <<none, c>>)
            [] d = "roadmap"     -> PastDoc("none", none)
            [] OTHER             -> Absent]

JourneyInit ==
  /\ Empty \/ Past
  /\ temp = FALSE
  /\ handler = [h \in Handlers |-> Idle]
  /\ overlap = FALSE
  /\ crashes = 0

Pages(h) ==
  \/ NewRequestPage(h)
  \/ RequirementsPage(h)
  \/ ApprovalPage(h)
  \/ PrdPage(h)
  \/ CriteriaPage(h)
  \/ PrdApprovalPage(h)
  \/ RoadmapPage(h)
  \/ RoadmapApprovalPage(h)
  \/ EstimatePage(h)

Posts(h) ==
  \/ Submit(h)
  \/ SaveRequirements(h)
  \/ ApproveRequirements(h)
  \/ GeneratePrd(h)
  \/ LockCriteria(h)
  \/ ApprovePrd(h)
  \/ GenerateRoadmap(h)
  \/ ApproveRoadmap(h)
  \/ GenerateEstimate(h)

Writes(h) ==
  \/ CreateDoc(h)
  \/ WriteDoc(h)
  \/ WriteDocFails(h)
  \/ AppendDraft(h)
  \/ WriteDraft(h)
  \/ WriteDraftFails(h)
  \/ CompareLegacy(h)
  \/ CreateTemp(h)
  \/ RenameTemp(h)
  \/ RenameTempFails(h)

JourneyNext == ServerCrash \/ \E h \in Handlers : Pages(h) \/ Posts(h) \/ Writes(h)

JourneySpec == JourneyInit /\ [][JourneyNext]_journeyVars

-----------------------------------------------------------------------------
(* Every file holds a document of its own kind, and only the newest        *)
(* revision can be half written.                                           *)
JourneyOK ==
  /\ \A d \in Docs : doc[d] \in Stored[d] \cup {Absent, Torn}
  /\ \A i \in DOMAIN drafts :
       \/ drafts[i] \in CustomerRequirementsDraft /\ drafts[i].revision = i
       \/ drafts[i] = Torn /\ i = Len(drafts)
  /\ temp \in BOOLEAN /\ overlap \in BOOLEAN
  /\ crashes \in 0..MaxCrashes

(* Nothing half written: no crash and no failed handler has left an empty  *)
(* or temporary file, and none is being written.                           *)
AllWhole ==
  /\ ~temp
  /\ \A i \in DOMAIN drafts : drafts[i] # Torn
  /\ \A d \in Docs : doc[d] # Torn

(* As long as requests come one after the other (the single-threaded       *)
(* server of runtime/local_uat), the journey never blocks itself: whatever *)
(* was submitted, refused, retried from stale forms or cut short by a      *)
(* crash, the stored chain passes the checks of every later context unless *)
(* the crash left a half-written file.                                     *)
SerialJourneyConsistent ==
  ~overlap /\ FindRequest /\ AllWhole => EstimateContext

DerivedFrom(d, source) == Present(source) /\ doc[d].binds = Digest(doc[source])

(* However requests interleave, a stored document binds the document it    *)
(* was derived from, and that document is still in its store: the approved *)
(* revision is in the history, the PRD is of the stored approval, the PRD  *)
(* approval is of the PRD under the locked criteria, and so on down to the *)
(* estimate.  (Only two links can go stale, because their target is not    *)
(* write-once: the latest revision and the legacy roadmap.)                *)
StoredBindings ==
  /\ JourneyOK
  /\ Present("approval") =>
       \E i \in DOMAIN drafts :
          drafts[i].file = "whole" /\ doc["approval"].binds = DraftDigest(drafts[i])
  /\ Present("prd") => DerivedFrom("prd", "approval")
  /\ Present("criteria") => DerivedFrom("criteria", "prd")
  /\ Present("prdApproval") => /\ Present("prd") /\ Present("criteria")
                               /\ doc["prdApproval"].binds = EffectivePrd
  /\ Present("roadmap") => DerivedFrom("roadmap", "prdApproval")
  /\ Present("estimate") => DerivedFrom("estimate", "roadmapApproval")

(* What a customer has submitted, saved or approved is never altered or    *)
(* lost, by another request, a retry, a failed write or a crash: a whole   *)
(* document keeps its content, a legacy roadmap until it is regenerated    *)
(* (two regenerations that overlap may both land, one over the other).     *)
PublishedStays ==
  [][/\ \A d \in Docs : Present(d) =>
          \/ doc'[d] = doc[d]
          \/ d = "roadmap" /\ (Legacy \/ overlap) /\ doc'[d].file = "whole"
     /\ \A i \in DOMAIN drafts :
          drafts[i].file = "whole" => i \in DOMAIN drafts' /\ drafts'[i] = drafts[i]]_journeyVars

(* The approval is the lock of the requirements: the revision a customer   *)
(* approved stays the latest one (docs/CUSTOMER_REQUIREMENTS_APPROVAL.md). *)
ApprovedRevisionIsLatest ==
  Present("approval") /\ DraftHistory => doc["approval"].binds = DraftDigest(Latest)
=============================================================================
