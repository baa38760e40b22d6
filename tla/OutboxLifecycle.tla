--------------------------- MODULE OutboxLifecycle ---------------------------
(***************************************************************************)
(* What the outbox promises about one external operation, without claims,   *)
(* fencing tokens, workers or time: the phases of an operation, and the     *)
(* effect it has at the provider.  OutboxDispatch implements this.          *)
(***************************************************************************)
CONSTANT Ops

VARIABLES
    phase,    \* the phase of each operation
    effect    \* the operations the provider has carried out

vars == <<phase, effect>>

Phases == {"absent", "queued", "held", "sent", "uncertain", "succeeded",
           "dead", "cancelled"}

\* The moves an operation may make in one step.  A held operation has not
\* been sent under the present claim; one that has been sent can leave only
\* with an answer, or become uncertain.  Success is final.
Moves == {<<"absent", "queued">>,
          <<"queued", "held">>, <<"queued", "cancelled">>, <<"queued", "dead">>,
          <<"held", "sent">>, <<"held", "queued">>, <<"held", "uncertain">>,
          <<"held", "succeeded">>, <<"held", "dead">>,
          <<"sent", "succeeded">>, <<"sent", "queued">>, <<"sent", "dead">>,
          <<"sent", "uncertain">>,
          <<"uncertain", "held">>, <<"uncertain", "dead">>,
          <<"dead", "queued">>, <<"cancelled", "dead">>}

Init ==
    /\ phase = [o \in Ops |-> "absent"]
    /\ effect = {}

\* Any number of operations move at once (one recovery handles them all); an
\* operation succeeds only if the provider carried it out; the provider
\* carries out only operations that were recorded first; nothing is undone.
Next ==
    /\ phase' \in [Ops -> Phases]
    /\ \A o \in Ops : phase'[o] # phase[o] => <<phase[o], phase'[o]>> \in Moves
    /\ \A o \in Ops : phase'[o] = "succeeded" => o \in effect
    /\ effect \subseteq effect'
    /\ \A o \in effect' \ effect : o \in Ops /\ phase[o] # "absent"

Spec == Init /\ [][Next]_vars
=============================================================================
