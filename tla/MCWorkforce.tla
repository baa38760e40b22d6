----------------------------- MODULE MCWorkforce -----------------------------
EXTENDS Workforce, TLC

CONSTANTS c1, c2

MCCallers == {c1, c2}

MCStage == [ceo1 |-> "ceo", plan1 |-> "plan", arch1 |-> "architecture",
            arch2 |-> "architecture", back1 |-> "backend", front1 |-> "frontend",
            ai1 |-> "ai", data1 |-> "data", qa1 |-> "qa",
            sec1 |-> "security", ops1 |-> "devops",
            doc1 |-> "documentation",
            doc2 |-> "documentation", orch1 |-> "orchestration"]

(* Two executions outside the agents call tools: one whose provider acts   *)
(* on the world, and one that is run again after a crash.                  *)
MCExecutions == DOMAIN MCStage \cup {"direct1", "direct2"}

MCLive == {"direct1"}

MCTools == {"direct1", "direct2"}

(* One work order has the longest title there is.                          *)
MCTitle == [e \in DOMAIN MCStage |-> IF e = "doc2" THEN TitleLimit ELSE 200]

(* The second architecture proposal comes before the engineers, who work   *)
(* one after the other; only the backend engineer may work from it.        *)
InOrder ==
  /\ \A c \in Callers : call[c].exec = "arch2" => intent["back1"] = Absent
  /\ intent["front1"] # Absent => Whole(artifact["back1"])
  /\ intent["ai1"] # Absent => Whole(artifact["front1"])
  /\ intent["data1"] # Absent => Whole(artifact["ai1"])
  /\ \A e \in {"front1", "ai1", "data1"} :
       Whole(intent[e]) => \A d \in intent[e].request.sources : d[1] = "arch1"

(* Executions share no file but the artifacts they read once stored, so    *)
(* callers need to race on one execution only, and a direct execution,     *)
(* which reads none, needs no other beside it.  The runtime and the stores *)
(* are the same for every agent: they race on some, and ask for some again *)
(* that have their artifact.                                               *)
Raced == {"plan1", "arch2", "qa1", "orch1", "direct1", "direct2"}

Independent ==
  /\ \A c, d \in Callers : c = d \/ Ready(c) \/ Ready(d)
                             \/ (call[c].exec = call[d].exec /\ call[c].exec \in Raced)
  /\ \A c \in Callers : At(c, "lock") /\ call[c].exec \notin Raced =>
                          ~Whole(artifact[call[c].exec])
  /\ InOrder
  /\ \A e \in MCTools :
       intent[e] # Absent => \A f \in MCExecutions \ {e} : intent[f] = Absent

Symmetry == Permutations(MCCallers)
=============================================================================
