--------------------------- MODULE CircuitBreaker ---------------------------
(***************************************************************************)
(* The health record of one provider and capability                        *)
(* (runtime/providers/health): the circuit breaker that admits calls and    *)
(* counts their outcomes, and the operators that disable, enable and reset  *)
(* it, over the SQLite repository that several processes have open.         *)
(*                                                                          *)
(* A repository keeps the records in memory, reads them there, and stores   *)
(* all of them in one UPDATE that compares the stored text with the one it  *)
(* stored or loaded last.  Memory changes before the UPDATE: it stays       *)
(* changed when the UPDATE is refused or fails, and the call raises.  A     *)
(* repository that was refused once is refused until it is opened again.    *)
(*                                                                          *)
(* A process runs on one thread, so nothing of it comes between the read    *)
(* and the save of an operation; other processes store what they like at    *)
(* any time, and calls that were admitted may overlap.  The in-memory       *)
(* repository is the case of one process whose writes succeed.              *)
(*                                                                          *)
(* Data abstraction.  open_until is the number of ticks left; a failing     *)
(* report has read the clock up to OpenTicks before its save.  The counters *)
(* of consecutive outcomes stop at the thresholds, the only values they are *)
(* compared with.                                                           *)
(***************************************************************************)
EXTENDS Integers, FiniteSets

CONSTANTS
    Nodes,              \* processes, each with a repository opened on the file
    Clients,            \* calls of the provider that may be out at a time
    Home,               \* the process of each
    FailureThreshold, SuccessThreshold, OpenTicks,
    MaxProbes,          \* maximum_half_open_probes
    MaxInFlight         \* maximum_in_flight

ASSUME BreakerAssumption ==
    /\ IsFiniteSet(Clients)
    /\ Home \in [Clients -> Nodes]
    /\ FailureThreshold \in Nat \ {0} /\ SuccessThreshold \in Nat \ {0}
    /\ OpenTicks \in Nat
    /\ MaxProbes \in Nat \ {0} /\ MaxInFlight \in Nat \ {0}

VARIABLES
    health,             \* the stored ProviderHealthState
    cache,              \* the one in the memory of each process
    current,            \* the processes whose _persisted_state is stored
    step,               \* where each caller is
    probing,            \* history: outstanding calls admitted half open
    asked               \* history: processes told to enable since they opened

breakerVars == <<health, cache, current, step, probing, asked>>

Status == {"UNKNOWN", "HEALTHY", "DEGRADED", "OPEN", "HALF_OPEN", "DISABLED"}

States ==
    [status : Status, successes : 0..SuccessThreshold,
     failures : 0..FailureThreshold, open : 0..OpenTicks,
     probes : 0..MaxProbes, inFlight : Nat, disabled : BOOLEAN]

NewState ==
    [status |-> "UNKNOWN", successes |-> 0, failures |-> 0, open |-> 0,
     probes |-> 0, inFlight |-> 0, disabled |-> FALSE]

BreakerInit ==
    /\ health = NewState
    /\ cache = [n \in Nodes |-> NewState]
    /\ current = Nodes
    /\ step = [c \in Clients |-> "idle"]
    /\ probing = {}
    /\ asked = {}

Capped(n, most) == IF n < most THEN n ELSE most
Less(n, d) == IF n > d THEN n - d ELSE 0

\* No operation of process n is between two saves.
Quiet(n) == \A c \in Clients : Home[c] = n => step[c] # "admitting"

\* Mutant: the UPDATE compares nothing.
StoredBlindly(n, state) ==
    /\ cache' = [cache EXCEPT ![n] = state]
    /\ health' = state
    /\ current' = {n}

\* repository.save in process n, stored.  The new version makes the new text
\* differ from all before it.
Stored(n, state) ==
    /\ n \in current
    /\ cache' = [cache EXCEPT ![n] = state]
    /\ health' = state
    /\ current' = {n}

\* repository.save that raises: the text in the file is not the one the
\* repository knows, or the statement fails, as on a locked database.
NotStored(n, state) ==
    /\ cache' = [cache EXCEPT ![n] = state]
    /\ UNCHANGED <<health, current>>

Moves(c, s) == step' = [step EXCEPT ![c] = s]

(***************************************************************************)
(* allow: an expired circuit is saved as half open and then, in a second    *)
(* save, as admitting this call.  A refusal changes nothing.                *)
(***************************************************************************)
AdmissibleUnbounded(state) == state.status \notin {"DISABLED", "OPEN"}

Admissible(state) ==
    /\ state.status \notin {"DISABLED", "OPEN"}
    /\ IF state.status = "HALF_OPEN" THEN state.probes < MaxProbes
                                     ELSE state.inFlight < MaxInFlight

AdmittedUncounted(state) ==
    [state EXCEPT !.probes = IF state.status = "HALF_OPEN" THEN @ + 1 ELSE @]

Admitted(state) ==
    [state EXCEPT !.probes = IF state.status = "HALF_OPEN" THEN @ + 1 ELSE @,
                  !.inFlight = @ + 1]

\* The save that admits c; the call is made only if it is stored.
Admission(c) ==
    LET state == cache[Home[c]] IN
    /\ Admissible(state)
    /\ \/ /\ Stored(Home[c], Admitted(state))
          /\ Moves(c, "calling")
          /\ probing' = IF state.status = "HALF_OPEN" THEN probing \cup {c}
                                                      ELSE probing
       \/ NotStored(Home[c], Admitted(state)) /\ Moves(c, "idle") /\ UNCHANGED probing
    /\ UNCHANGED asked

Allow(c) ==
    /\ step[c] = "idle"
    /\ Quiet(Home[c])
    /\ Admission(c)

HalfOpened(state) == [state EXCEPT !.status = "HALF_OPEN", !.probes = 0]

HalfOpen(c) ==
    LET state == cache[Home[c]] IN
    /\ step[c] = "idle"
    /\ Quiet(Home[c])
    /\ state.status = "OPEN" /\ state.open = 0
    /\ \/ Stored(Home[c], HalfOpened(state)) /\ Moves(c, "admitting")
       \/ NotStored(Home[c], HalfOpened(state)) /\ UNCHANGED step
    /\ UNCHANGED <<probing, asked>>

Admit(c) ==
    /\ step[c] = "admitting"
    /\ Admission(c)

(***************************************************************************)
(* The provider answers or raises, and the outcome is reported.  A report   *)
(* that is not stored is lost: nothing makes it again.                      *)
(***************************************************************************)
SucceededEvenDisabled(state) ==
    LET counted == [state EXCEPT !.inFlight = Less(@, 1),
                                 !.successes = Capped(@ + 1, SuccessThreshold),
                                 !.failures = 0]
    IN  IF counted.successes >= SuccessThreshold
        THEN [counted EXCEPT !.status = "HEALTHY", !.open = 0, !.probes = 0]
        ELSE counted

Succeeded(state) ==
    LET counted == [state EXCEPT !.inFlight = Less(@, 1),
                                 !.successes = Capped(@ + 1, SuccessThreshold),
                                 !.failures = 0]
    IN  IF state.status # "DISABLED" /\ counted.successes >= SuccessThreshold
        THEN [counted EXCEPT !.status = "HEALTHY", !.open = 0, !.probes = 0]
        ELSE counted

\* The circuit opens for OpenTicks from the moment the clock was read.
Failed(state, ago) ==
    LET counted == [state EXCEPT !.inFlight = Less(@, 1),
                                 !.failures = Capped(@ + 1, FailureThreshold),
                                 !.successes = 0]
    IN  CASE state.status = "DISABLED" -> counted
          [] state.status # "DISABLED" /\ counted.failures >= FailureThreshold ->
               [counted EXCEPT !.status = "OPEN", !.probes = 0,
                               !.open = Less(OpenTicks, ago)]
          [] OTHER -> [counted EXCEPT !.status = "DEGRADED"]

Report(c, state) ==
    /\ step[c] = "calling"
    /\ Quiet(Home[c])
    /\ Stored(Home[c], state) \/ NotStored(Home[c], state)
    /\ Moves(c, "idle")
    /\ probing' = probing \ {c}
    /\ UNCHANGED asked

Success(c) == Report(c, Succeeded(cache[Home[c]]))

Failure(c) == \E ago \in 0..OpenTicks : Report(c, Failed(cache[Home[c]], ago))

(***************************************************************************)
(* ProviderHealthService: the commands of an operator.                      *)
(***************************************************************************)
Disabled(state) == [state EXCEPT !.status = "DISABLED", !.disabled = TRUE]
Enabled(state) == [state EXCEPT !.status = "UNKNOWN", !.disabled = FALSE]
Cleared(state) ==
    [state EXCEPT !.status = "UNKNOWN", !.failures = 0, !.successes = 0,
                  !.open = 0, !.probes = 0]

Command(n, state) ==
    /\ Quiet(n)
    /\ Stored(n, state) \/ NotStored(n, state)
    /\ UNCHANGED <<step, probing>>

Disable(n) == Command(n, Disabled(cache[n])) /\ UNCHANGED asked

Enable(n) == Command(n, Enabled(cache[n])) /\ asked' = asked \cup {n}

ResetCircuit(n) ==
    /\ ~cache[n].disabled
    /\ Command(n, Cleared(cache[n]))
    /\ UNCHANGED asked

\* The process ends, with the calls it has out, and another opens the file.
Reopen(n) ==
    /\ cache' = [cache EXCEPT ![n] = health]
    /\ current' = current \cup {n}
    /\ step' = [c \in Clients |-> IF Home[c] = n THEN "idle" ELSE step[c]]
    /\ probing' = {c \in probing : Home[c] # n}
    /\ asked' = asked \ {n}
    /\ UNCHANGED health

Later(state) == [state EXCEPT !.open = Less(@, 1)]

BreakerTick ==
    /\ health' = Later(health)
    /\ cache' = [n \in Nodes |-> Later(cache[n])]
    /\ UNCHANGED <<current, step, probing, asked>>

Call(c) == Allow(c) \/ HalfOpen(c) \/ Admit(c) \/ Success(c) \/ Failure(c)
Operate(n) == Disable(n) \/ Enable(n) \/ ResetCircuit(n)

BreakerNext ==
    \/ \E c \in Clients : Call(c)
    \/ \E n \in Nodes : Operate(n) \/ Reopen(n)
    \/ BreakerTick

BreakerSpec == BreakerInit /\ [][BreakerNext]_breakerVars

-----------------------------------------------------------------------------
(***************************************************************************)
(* Properties.                                                              *)
(***************************************************************************)
BreakerOK ==
    /\ health \in States
    /\ cache \in [Nodes -> States]
    /\ current \subseteq Nodes
    /\ step \in [Clients -> {"idle", "admitting", "calling"}]
    /\ probing \subseteq Clients
    /\ asked \subseteq Nodes

Outstanding == {c \in Clients : step[c] = "calling"}

\* The calls that are really outstanding are all counted in the stored
\* current_in_flight, however refused and failed saves, deaths and operator
\* commands interleave (the max(0, ...) of success and failure never hides a
\* call).
EveryCallIsCounted == health.inFlight >= Cardinality(Outstanding)

\* With one half-open probe at a time current_in_flight never exceeds
\* maximum_in_flight, although allow does not compare them when half open:
\* the failure that opened the circuit has given a place back.
InFlightBounded == MaxProbes = 1 => health.inFlight <= MaxInFlight

\* docs/CIRCUIT_BREAKERS.md: "Operator-disabled state cannot be bypassed
\* automatically."  A call is never admitted by a record that is disabled or
\* open; and a process that could store its memory over a disabled record has
\* it disabled too, unless an operator told that process to enable it: also a
\* command that raised, which a later save of the process carries out.
DisabledIsRespected ==
    [](\A n \in current :
          health.disabled => cache[n].status = "DISABLED" \/ n \in asked)
    /\ [][\A c \in Clients : step[c] # "calling" /\ step'[c] = "calling"
              => health'.status \notin {"OPEN", "DISABLED"} /\ ~health'.disabled
         ]_breakerVars

\* docs/PROVIDER_HEALTH.md: "Operator state changes require identity and
\* reason and append an audit record."  The stored operator_disabled changes
\* in an operator's command.
CommandsAreAudited ==
    [][health'.disabled # health.disabled
       => \E n \in Nodes : Disable(n) \/ Enable(n)]_breakerVars

\* docs/CIRCUIT_BREAKERS.md: "An injected clock moves an expired circuit to
\* half-open with bounded probe concurrency."  No more calls admitted half
\* open are outstanding than maximum_half_open_probes.
ProbeConcurrencyBounded == Cardinality(probing) <= MaxProbes
=============================================================================
