--------------------------- MODULE ProviderProofs ---------------------------
(***************************************************************************)
(* What is promised of the providers the runtime calls, for any processes, *)
(* operations, paths and bounds.                                           *)
(*                                                                         *)
(* CircuitBreaker.  Good is what every record satisfies, stored or in the  *)
(* memory of a process that was refused.  A process that may still store   *)
(* counts in memory every call that is out (MemoryOK).                     *)
(*                                                                         *)
(* CodingProviders.  A call that begins while another on the same operation*)
(* is under way marks that operation, so the caller of an unmarked one is  *)
(* alone on its records: what it has loaded is what is stored.  The files  *)
(* belong to all operations: they are as their caller left them, or hold   *)
(* the result of an operation that was applied at the same time.           *)
(***************************************************************************)
EXTENDS CircuitBreaker, CodingProviders, SequenceTheorems, FiniteSetTheorems, TLAPS

-----------------------------------------------------------------------------
(* CircuitBreaker.                                                          *)

Bounded(s) ==
    MaxProbes = 1 =>
        /\ s.inFlight <= MaxInFlight
        /\ s.status = "OPEN" => s.inFlight <= MaxInFlight - 1
        /\ s.status = "HALF_OPEN" => s.inFlight <= MaxInFlight - 1 + s.probes

Good(s) ==
    /\ s \in States
    /\ s.disabled <=> s.status = "DISABLED"
    /\ Bounded(s)

-----------------------------------------------------------------------------
\* What the arithmetic helpers return.
LEMMA LessType == \A n, d \in Nat : Less(n, d) \in 0..n /\ (n > 0 => Less(n, 1) = n - 1)
BY DEF Less

\* A capped counter stays within its cap.
LEMMA CappedType == \A n, m \in Nat : Capped(n, m) \in 0..m
BY DEF Capped

\* The record a provider is registered with is good.
LEMMA NewGood == Good(NewState)
BY BreakerAssumption DEF Good, Bounded, NewState, States, Status

\* Moving an expired circuit to half open keeps the record good.
LEMMA HalfOpenedGood ==
    ASSUME NEW s, Good(s), s.status = "OPEN"
    PROVE  Good(HalfOpened(s)) /\ Admissible(HalfOpened(s))
           /\ HalfOpened(s).inFlight = s.inFlight
<1>1. s \in States /\ s.inFlight \in Nat /\ s.disabled \in BOOLEAN
  BY DEF Good, States
<1>2. 0 \in 0..MaxProbes /\ 0 < MaxProbes /\ "HALF_OPEN" \in Status
  BY BreakerAssumption DEF Status
<1>3. HalfOpened(s) \in States /\ HalfOpened(s).status = "HALF_OPEN"
      /\ HalfOpened(s).probes = 0 /\ HalfOpened(s).inFlight = s.inFlight
      /\ HalfOpened(s).disabled = s.disabled
  BY <1>1, <1>2 DEF HalfOpened, States
<1>4. Bounded(HalfOpened(s))
  BY <1>1, <1>3, BreakerAssumption DEF Good, Bounded
<1> QED  BY <1>2, <1>3, <1>4 DEF Good, Admissible

\* Admitting a call that allow accepted keeps the record good.
LEMMA AdmittedGood ==
    ASSUME NEW s, Good(s), Admissible(s)
    PROVE  Good(Admitted(s)) /\ Admitted(s).inFlight = s.inFlight + 1
<1>1. s \in States /\ s.inFlight \in Nat /\ s.probes \in 0..MaxProbes
  BY DEF Good, States
<1>2. CASE s.status = "HALF_OPEN"
  <2>1. s.probes + 1 \in 0..MaxProbes /\ s.inFlight + 1 \in Nat
    BY <1>1, <1>2, BreakerAssumption DEF Admissible
  <2>2. Admitted(s) = [s EXCEPT !.probes = s.probes + 1, !.inFlight = s.inFlight + 1]
    BY <1>1, <1>2 DEF Admitted, States
  <2>3. Admitted(s) \in States /\ Admitted(s).status = s.status
        /\ Admitted(s).disabled = s.disabled
        /\ Admitted(s).probes = s.probes + 1 /\ Admitted(s).inFlight = s.inFlight + 1
    BY <1>1, <2>1, <2>2 DEF States
  <2>4. Bounded(Admitted(s))
    BY <1>1, <1>2, <2>3, BreakerAssumption DEF Good, Bounded, Admissible
  <2> QED  BY <2>3, <2>4 DEF Good
<1>3. CASE s.status # "HALF_OPEN"
  <2>1. s.inFlight + 1 \in Nat  BY <1>1
  <2>2. Admitted(s) = [s EXCEPT !.probes = s.probes, !.inFlight = s.inFlight + 1]
    BY <1>1, <1>3 DEF Admitted, States
  <2>3. Admitted(s) \in States /\ Admitted(s).status = s.status
        /\ Admitted(s).disabled = s.disabled
        /\ Admitted(s).inFlight = s.inFlight + 1
    BY <1>1, <2>1, <2>2 DEF States
  <2>4. Bounded(Admitted(s))
    BY <1>1, <1>3, <2>3, BreakerAssumption DEF Good, Bounded, Admissible
  <2> QED  BY <2>3, <2>4 DEF Good
<1> QED  BY <1>2, <1>3

\* A reported success keeps the record good and gives back one place.
LEMMA SucceededGood ==
    ASSUME NEW s, Good(s)
    PROVE  Good(Succeeded(s)) /\ Succeeded(s).inFlight = Less(s.inFlight, 1)
<1>1. s \in States /\ s.inFlight \in Nat /\ s.successes \in 0..SuccessThreshold
      /\ s.disabled \in BOOLEAN /\ s.probes \in 0..MaxProbes
  BY DEF Good, States
<1> DEFINE f == Less(s.inFlight, 1)
           n == Capped(s.successes + 1, SuccessThreshold)
           k == [s EXCEPT !.inFlight = f, !.successes = n,
                          !.failures = 0]
<1>2. n \in 0..SuccessThreshold
  <2>1. s.successes + 1 \in Nat /\ SuccessThreshold \in Nat
    BY <1>1, BreakerAssumption
  <2> QED  BY <2>1, CappedType
<1>3. f \in Nat /\ f <= s.inFlight /\ (f = 0 \/ f = s.inFlight - 1)
  BY <1>1 DEF Less
<1>0. 0 \in 0..SuccessThreshold /\ 0 \in 0..FailureThreshold /\ 0 \in 0..OpenTicks
      /\ 0 \in 0..MaxProbes
  BY BreakerAssumption
<1> HIDE DEF f, n
<1>4. k \in States /\ k.inFlight = f /\ k.status = s.status
      /\ k.disabled = s.disabled /\ k.probes = s.probes /\ k.successes = n
  BY <1>0, <1>1, <1>2, <1>3 DEF States
<1>5. Succeeded(s) = IF s.status # "DISABLED" /\ k.successes >= SuccessThreshold
                     THEN [k EXCEPT !.status = "HEALTHY", !.open = 0, !.probes = 0]
                     ELSE k
  BY DEF Succeeded, f, n
<1> HIDE DEF k
<1>6. CASE Succeeded(s) = k
  BY <1>1, <1>3, <1>4, <1>6, BreakerAssumption DEF Good, Bounded, f
<1>7. CASE s.status # "DISABLED"
           /\ Succeeded(s) = [k EXCEPT !.status = "HEALTHY", !.open = 0, !.probes = 0]
  <2>1. Succeeded(s) \in States /\ Succeeded(s).inFlight = f
        /\ Succeeded(s).status = "HEALTHY" /\ Succeeded(s).disabled = s.disabled
    BY <1>0, <1>4, <1>7 DEF States, Status
  <2> QED  BY <1>1, <1>3, <1>7, <2>1, BreakerAssumption DEF Good, Bounded, f
<1> QED  BY <1>5, <1>6, <1>7

\* A reported failure keeps the record good and gives back one place.
LEMMA FailedGood ==
    ASSUME NEW s, Good(s), NEW ago \in 0..OpenTicks
    PROVE  Good(Failed(s, ago)) /\ Failed(s, ago).inFlight = Less(s.inFlight, 1)
<1>1. s \in States /\ s.inFlight \in Nat /\ s.failures \in 0..FailureThreshold
      /\ s.disabled \in BOOLEAN /\ s.probes \in 0..MaxProbes
  BY DEF Good, States
<1> DEFINE f == Less(s.inFlight, 1)
           n == Capped(s.failures + 1, FailureThreshold)
           k == [s EXCEPT !.inFlight = f, !.failures = n,
                          !.successes = 0]
           left == Less(OpenTicks, ago)
<1>2. n \in 0..FailureThreshold
  <2>1. s.failures + 1 \in Nat /\ FailureThreshold \in Nat
    BY <1>1, BreakerAssumption
  <2> QED  BY <2>1, CappedType
<1>3. f \in Nat /\ f <= s.inFlight /\ (f = 0 \/ f = s.inFlight - 1)
  BY <1>1 DEF Less
<1>0. 0 \in 0..SuccessThreshold /\ 0 \in 0..FailureThreshold /\ 0 \in 0..OpenTicks
      /\ 0 \in 0..MaxProbes
  BY BreakerAssumption
<1>8. left \in 0..OpenTicks
  BY LessType, BreakerAssumption
<1> HIDE DEF f, n, left
<1>4. k \in States /\ k.inFlight = f /\ k.status = s.status
      /\ k.disabled = s.disabled /\ k.probes = s.probes /\ k.failures = n
  BY <1>0, <1>1, <1>2, <1>3 DEF States
<1>5. Failed(s, ago) =
        CASE s.status = "DISABLED" -> k
          [] s.status # "DISABLED" /\ k.failures >= FailureThreshold ->
               [k EXCEPT !.status = "OPEN", !.probes = 0, !.open = left]
          [] OTHER -> [k EXCEPT !.status = "DEGRADED"]
  BY DEF Failed, f, n, left
<1> HIDE DEF k
<1>6. CASE s.status = "DISABLED"
  <2>1. Failed(s, ago) = k  BY <1>5, <1>6
  <2> QED  BY <1>1, <1>3, <1>4, <1>6, <2>1, BreakerAssumption DEF Good, Bounded, f
<1>7. CASE s.status # "DISABLED" /\ k.failures >= FailureThreshold
  <2>1. Failed(s, ago) = [k EXCEPT !.status = "OPEN", !.probes = 0, !.open = left]
    BY <1>5, <1>7
  <2>2. Failed(s, ago) \in States /\ Failed(s, ago).inFlight = f
        /\ Failed(s, ago).status = "OPEN" /\ Failed(s, ago).disabled = s.disabled
    BY <1>0, <1>4, <1>8, <2>1 DEF States, Status
  <2> QED  BY <1>1, <1>3, <1>7, <2>2, BreakerAssumption DEF Good, Bounded, f
<1>9. CASE s.status # "DISABLED" /\ ~(k.failures >= FailureThreshold)
  <2>1. Failed(s, ago) = [k EXCEPT !.status = "DEGRADED"]
    BY <1>5, <1>9
  <2>2. Failed(s, ago) \in States /\ Failed(s, ago).inFlight = f
        /\ Failed(s, ago).status = "DEGRADED" /\ Failed(s, ago).disabled = s.disabled
    BY <1>4, <2>1 DEF States, Status
  <2> QED  BY <1>1, <1>3, <1>9, <2>2, BreakerAssumption DEF Good, Bounded, f
<1> QED  BY <1>6, <1>7, <1>9

\* The operator's commands keep the record good; a reset is never of a
\* disabled record.
LEMMA CommandsGood ==
    ASSUME NEW s, Good(s)
    PROVE  /\ Good(Disabled(s)) /\ Disabled(s).inFlight = s.inFlight
           /\ Disabled(s).disabled /\ Good(Enabled(s)) /\ Enabled(s).inFlight = s.inFlight
           /\ ~s.disabled => Good(Cleared(s))
           /\ Cleared(s).inFlight = s.inFlight
<1>1. s \in States  BY DEF Good
<1>2. Disabled(s) \in States /\ Disabled(s).inFlight = s.inFlight
      /\ Disabled(s).status = "DISABLED" /\ Disabled(s).disabled = TRUE
  BY <1>1 DEF Disabled, States, Status
<1>3. Enabled(s) \in States /\ Enabled(s).inFlight = s.inFlight
      /\ Enabled(s).status = "UNKNOWN" /\ Enabled(s).disabled = FALSE
  BY <1>1 DEF Enabled, States, Status
<1>4. Cleared(s) \in States /\ Cleared(s).inFlight = s.inFlight
      /\ Cleared(s).status = "UNKNOWN" /\ Cleared(s).disabled = s.disabled
  <2>1. 0 \in 0..SuccessThreshold /\ 0 \in 0..FailureThreshold
        /\ 0 \in 0..OpenTicks /\ 0 \in 0..MaxProbes
    BY BreakerAssumption
  <2> QED  BY <1>1, <2>1 DEF Cleared, States, Status
<1> QED  BY <1>2, <1>3, <1>4 DEF Good, Bounded

\* The passing of time keeps the record good and changes no decision.
LEMMA LaterGood ==
    ASSUME NEW s \in States
    PROVE  /\ Later(s) \in States
           /\ Later(s).status = s.status /\ Later(s).inFlight = s.inFlight
           /\ Later(s).probes = s.probes /\ Later(s).disabled = s.disabled
           /\ Good(s) => Good(Later(s))
<1>1. s.open \in Nat /\ Less(s.open, 1) \in 0..s.open
  BY LessType, BreakerAssumption DEF States
<1>2. Less(s.open, 1) \in 0..OpenTicks
  BY <1>1, BreakerAssumption DEF States
<1>3. /\ Later(s) \in States
      /\ Later(s).status = s.status /\ Later(s).inFlight = s.inFlight
      /\ Later(s).probes = s.probes /\ Later(s).disabled = s.disabled
  BY <1>2 DEF Later, States
<1> QED  BY <1>3 DEF Good, Bounded

\* What a caller or the clock computes from a record keeps the operator's flag.
LEMMA FlagKept ==
    ASSUME NEW s \in States, NEW ago
    PROVE  /\ HalfOpened(s).disabled = s.disabled
           /\ Admitted(s).disabled = s.disabled
           /\ Succeeded(s).disabled = s.disabled
           /\ Failed(s, ago).disabled = s.disabled
           /\ Later(s).disabled = s.disabled
<1>1. HalfOpened(s).disabled = s.disabled /\ Admitted(s).disabled = s.disabled
      /\ Later(s).disabled = s.disabled
  BY DEF States, HalfOpened, Admitted, Later
<1>2. Succeeded(s).disabled = s.disabled
  BY DEF States, Succeeded
<1>3. Failed(s, ago).disabled = s.disabled
  BY DEF States, Failed
<1> QED  BY <1>1, <1>2, <1>3

-----------------------------------------------------------------------------
\* Two calls of one process are never both between their two saves.
OneAdmitting ==
    \A c, d \in Clients :
        step[c] = "admitting" /\ step[d] = "admitting" /\ Home[c] = Home[d] => c = d

\* A call between its two saves finds in memory what it stored first.
StillAdmissible ==
    \A c \in Clients : step[c] = "admitting" => Admissible(cache[Home[c]])

\* What a process that may still store has in memory counts every call, and is
\* disabled if the stored record is and nobody told the process to enable it.
MemoryOK ==
    \A n \in current :
        /\ cache[n].inFlight >= Cardinality(Outstanding)
        /\ health.disabled => cache[n].disabled \/ n \in asked

BreakerInv ==
    /\ BreakerOK
    /\ Good(health)
    /\ \A n \in Nodes : Good(cache[n])
    /\ OneAdmitting
    /\ StillAdmissible
    /\ MemoryOK
    /\ EveryCallIsCounted

\* Initially nothing is outstanding and every process has the stored record.
LEMMA InitBreakerInv == BreakerInit => BreakerInv
<1> SUFFICES ASSUME BreakerInit PROVE BreakerInv
  OBVIOUS
<1>1. BreakerOK
  BY NewGood DEF BreakerInit, BreakerOK, Good
<1>2. Good(health) /\ \A n \in Nodes : Good(cache[n])
  BY NewGood DEF BreakerInit
<1>3. Outstanding = {} /\ health.inFlight = 0 /\ \A n \in Nodes : cache[n].inFlight = 0
  BY DEF BreakerInit, Outstanding, NewState
<1>4. EveryCallIsCounted /\ MemoryOK
  BY <1>3, FS_EmptySet DEF EveryCallIsCounted, MemoryOK, BreakerInit, NewState
<1>5. OneAdmitting /\ StillAdmissible
  BY DEF BreakerInit, OneAdmitting, StillAdmissible
<1> QED  BY <1>1, <1>2, <1>4, <1>5 DEF BreakerInv

\* A save, stored or not, keeps the invariant, provided that what is saved is
\* good, counts the calls, keeps what is between two saves admissible and lifts
\* the operator's flag only when told to; a save that raises makes no call.
LEMMA SaveInv ==
    ASSUME BreakerInv, NEW n \in Nodes, NEW s, Good(s),
           \/ Stored(n, s)
           \/ NotStored(n, s) /\ Cardinality(Outstanding') <= Cardinality(Outstanding),
           step' \in [Clients -> {"idle", "admitting", "calling"}],
           Cardinality(Outstanding) \in Nat, Cardinality(Outstanding') \in Nat,
           probing' \subseteq Clients, asked \subseteq asked', asked' \subseteq Nodes,
           \A c \in Clients : step'[c] = "admitting" =>
              IF Home[c] = n THEN Admissible(s) ELSE step[c] = "admitting",
           OneAdmitting',
           n \in current => s.inFlight >= Cardinality(Outstanding'),
           cache[n].disabled /\ ~s.disabled => n \in asked'
    PROVE  BreakerInv'
<1>a. BreakerOK /\ s \in States
  BY DEF BreakerInv, Good
<1>b. cache' = [cache EXCEPT ![n] = s]
  BY DEF Stored, NotStored
<1>c. cache'[n] = s /\ \A m \in Nodes \ {n} : cache'[m] = cache[m]
  BY <1>a, <1>b DEF BreakerOK
<1>1. BreakerOK'
  BY <1>a, <1>b DEF BreakerOK, Stored, NotStored
<1>2. Good(health)'
  <2>1. health' = s \/ health' = health
    BY DEF Stored, NotStored
  <2> QED  BY <2>1 DEF BreakerInv, Good, Bounded
<1>3. (\A m \in Nodes : Good(cache[m]))'
  BY <1>c DEF BreakerInv, Good, Bounded
<1>4. StillAdmissible'
  <2>1. ASSUME NEW c \in Clients, step'[c] = "admitting" PROVE Admissible(cache'[Home[c]])
    <3>1. Home[c] \in Nodes  BY BreakerAssumption
    <3> QED  BY <2>1, <3>1, <1>c DEF BreakerInv, StillAdmissible
  <2> QED  BY <2>1 DEF StillAdmissible, Admissible
<1>5. CASE Stored(n, s)
  <2>1. MemoryOK'
    BY <1>5, <1>c DEF Stored, MemoryOK
  <2>2. EveryCallIsCounted'
    BY <1>5 DEF Stored, EveryCallIsCounted
  <2> QED  BY <1>1, <1>2, <1>3, <1>4, <2>1, <2>2 DEF BreakerInv
<1>6. CASE NotStored(n, s) /\ Cardinality(Outstanding') <= Cardinality(Outstanding)
  <2>1. current' = current /\ health' = health
    BY <1>6 DEF NotStored
  <2>2. ASSUME NEW m \in current
        PROVE  /\ cache'[m].inFlight >= Cardinality(Outstanding')
               /\ health.disabled => cache'[m].disabled \/ m \in asked'
    <3>1. m \in Nodes /\ cache[m] \in States
      BY <1>a DEF BreakerOK
    <3>2. CASE m = n
      BY <1>c, <3>2 DEF BreakerInv, MemoryOK
    <3>3. CASE m # n
      <4>1. cache'[m] = cache[m]  BY <1>c, <3>1, <3>3
      <4>2. cache[m].inFlight \in Nat  BY <3>1 DEF States
      <4>3. cache[m].inFlight >= Cardinality(Outstanding)
            /\ (health.disabled => cache[m].disabled \/ m \in asked)
        BY DEF BreakerInv, MemoryOK
      <4> QED  BY <1>6, <4>1, <4>2, <4>3
    <3> QED  BY <3>2, <3>3
  <2>3. MemoryOK'
    BY <2>1, <2>2 DEF MemoryOK
  <2>4. EveryCallIsCounted'
    <3>1. health.inFlight \in Nat /\ health.inFlight >= Cardinality(Outstanding)
      BY <1>a DEF BreakerInv, EveryCallIsCounted, BreakerOK, States
    <3> QED  BY <1>6, <2>1, <3>1 DEF EveryCallIsCounted
  <2> QED  BY <1>1, <1>2, <1>3, <1>4, <2>3, <2>4 DEF BreakerInv
<1> QED  BY <1>5, <1>6

\* How the outstanding calls change when one caller moves.
LEMMA OutstandingMoves ==
    ASSUME BreakerOK, NEW c \in Clients, NEW next, Moves(c, next)
    PROVE  /\ Cardinality(Outstanding) \in Nat /\ Cardinality(Outstanding') \in Nat
           /\ step'[c] = next /\ \A d \in Clients \ {c} : step'[d] = step[d]
           /\ step[c] # "calling" /\ next = "calling"
                => Cardinality(Outstanding') = Cardinality(Outstanding) + 1
           /\ step[c] # "calling" /\ next # "calling" => Outstanding' = Outstanding
           /\ step[c] = "calling" /\ next # "calling"
                => Cardinality(Outstanding') = Cardinality(Outstanding) - 1
<1>1. IsFiniteSet(Outstanding) /\ IsFiniteSet(Outstanding')
      /\ Cardinality(Outstanding) \in Nat /\ Cardinality(Outstanding') \in Nat
  <2>1. Outstanding \subseteq Clients /\ Outstanding' \subseteq Clients
    BY DEF Outstanding
  <2> QED  BY <2>1, BreakerAssumption, FS_Subset, FS_CardinalityType
<1>2. step'[c] = next /\ \A d \in Clients \ {c} : step'[d] = step[d]
  BY DEF BreakerOK, Moves
<1>3. CASE step[c] # "calling" /\ next = "calling"
  <2>1. c \notin Outstanding /\ Outstanding' = Outstanding \cup {c}
    BY <1>2, <1>3 DEF Outstanding
  <2>2. Cardinality(Outstanding') = Cardinality(Outstanding) + 1
    BY <1>1, <2>1, FS_AddElement
  <2> QED  BY <1>1, <1>2, <1>3, <2>2
<1>4. CASE step[c] # "calling" /\ next # "calling"
  <2>1. Outstanding' = Outstanding
    BY <1>2, <1>4 DEF Outstanding
  <2> QED  BY <1>1, <1>2, <1>4, <2>1
<1>5. CASE step[c] = "calling" /\ next # "calling"
  <2>1. c \in Outstanding /\ Outstanding' = Outstanding \ {c}
    BY <1>2, <1>5 DEF Outstanding
  <2>2. Cardinality(Outstanding') = Cardinality(Outstanding) - 1
    BY <1>1, <2>1, FS_RemoveElement
  <2> QED  BY <1>1, <1>2, <1>5, <2>2
<1>6. CASE step[c] = "calling" /\ next = "calling"
  BY <1>1, <1>2, <1>6
<1> QED  BY <1>3, <1>4, <1>5, <1>6

\* The save that admits a call.
LEMMA AdmissionInv ==
    ASSUME BreakerInv, NEW c \in Clients, step[c] # "calling", Admission(c),
           \A d \in Clients \ {c} : Home[d] = Home[c] => step[d] # "admitting"
    PROVE  BreakerInv'
<1> DEFINE n == Home[c]
           s == cache[n]
<1>a. BreakerOK /\ n \in Nodes /\ Good(s) /\ Admissible(s)
  BY BreakerAssumption DEF BreakerInv, Admission
<1>1. PICK next \in {"idle", "calling"} :
        /\ Moves(c, next)
        /\ next = "calling" => Stored(n, Admitted(s))
        /\ next = "idle" => NotStored(n, Admitted(s))
  BY DEF Admission
<1>2. Good(Admitted(s)) /\ Admitted(s).inFlight = s.inFlight + 1
      /\ Admitted(s).disabled = s.disabled
  BY <1>a, AdmittedGood, FlagKept DEF Good
<1>3. /\ Cardinality(Outstanding) \in Nat /\ Cardinality(Outstanding') \in Nat
      /\ step'[c] = next /\ \A d \in Clients \ {c} : step'[d] = step[d]
      /\ next = "calling" => Cardinality(Outstanding') = Cardinality(Outstanding) + 1
      /\ next = "idle" => Outstanding' = Outstanding
  BY <1>a, <1>1, OutstandingMoves
<1>4. step' \in [Clients -> {"idle", "admitting", "calling"}]
      /\ probing' \subseteq Clients /\ asked' = asked
  BY <1>a, <1>1 DEF BreakerOK, Moves, Admission
<1>5. \A d \in Clients : step'[d] = "admitting" => Home[d] # n /\ step[d] = "admitting"
  BY <1>1, <1>3
<1>6. OneAdmitting'
  BY <1>5 DEF BreakerInv, OneAdmitting
<1>7. n \in current => Admitted(s).inFlight >= Cardinality(Outstanding')
  <2>1. s.inFlight \in Nat  BY <1>a DEF Good, States
  <2>2. n \in current => s.inFlight >= Cardinality(Outstanding)
    BY DEF BreakerInv, MemoryOK
  <2> QED  BY <1>1, <1>2, <1>3, <2>1, <2>2
<1>8. \/ Stored(n, Admitted(s))
      \/ NotStored(n, Admitted(s)) /\ Cardinality(Outstanding') <= Cardinality(Outstanding)
  BY <1>1, <1>3
<1>9. asked \subseteq asked' /\ asked' \subseteq Nodes
  BY <1>4, <1>a DEF BreakerOK
<1> HIDE DEF n, s
<1>10. ~(s.disabled /\ ~Admitted(s).disabled)
  BY <1>2
<1>11. \A d \in Clients : step'[d] = "admitting" =>
          IF Home[d] = n THEN Admissible(Admitted(s)) ELSE step[d] = "admitting"
  BY <1>5
<1>12. s = cache[n]  BY DEF s
<1> QED
  BY <1>a, <1>2, <1>3, <1>4, <1>6, <1>7, <1>8, <1>9, <1>10, <1>11, <1>12, SaveInv

\* A report of an outcome.
LEMMA ReportInv ==
    ASSUME BreakerInv, NEW c \in Clients, NEW s, Good(s),
           s.inFlight = Less(cache[Home[c]].inFlight, 1),
           s.disabled = cache[Home[c]].disabled,
           Report(c, s)
    PROVE  BreakerInv'
<1> DEFINE n == Home[c]
<1>a. BreakerOK /\ n \in Nodes /\ cache[n] \in States
  BY BreakerAssumption DEF BreakerInv, Good
<1>1. Moves(c, "idle") /\ step[c] = "calling" /\ Quiet(n)
      /\ (Stored(n, s) \/ NotStored(n, s))
  BY DEF Report
<1>2. /\ Cardinality(Outstanding) \in Nat /\ Cardinality(Outstanding') \in Nat
      /\ step'[c] = "idle" /\ \A d \in Clients \ {c} : step'[d] = step[d]
      /\ Cardinality(Outstanding') = Cardinality(Outstanding) - 1
  BY <1>a, <1>1, OutstandingMoves
<1>3. step' \in [Clients -> {"idle", "admitting", "calling"}]
      /\ probing' \subseteq Clients /\ asked \subseteq asked' /\ asked' \subseteq Nodes
  BY <1>a, <1>1 DEF BreakerOK, Moves, Report
<1>4. \A d \in Clients : step'[d] = "admitting" => Home[d] # n /\ step[d] = "admitting"
  BY <1>1, <1>2 DEF Quiet
<1>5. OneAdmitting'
  BY <1>4 DEF BreakerInv, OneAdmitting
<1>6. n \in current => s.inFlight >= Cardinality(Outstanding')
  <2>1. cache[n].inFlight \in Nat  BY <1>a DEF States
  <2>2. n \in current => cache[n].inFlight >= Cardinality(Outstanding)
    BY DEF BreakerInv, MemoryOK
  <2>3. cache[n].inFlight > 0 => s.inFlight = cache[n].inFlight - 1
    BY <2>1 DEF Less
  <2> QED  BY <1>2, <2>1, <2>2, <2>3
<1>7. \/ Stored(n, s)
      \/ NotStored(n, s) /\ Cardinality(Outstanding') <= Cardinality(Outstanding)
  BY <1>1, <1>2
<1>8. s.disabled = cache[n].disabled
  OBVIOUS
<1> HIDE DEF n
<1> QED  BY <1>a, <1>2, <1>3, <1>4, <1>5, <1>6, <1>7, <1>8, SaveInv

\* A command of an operator.
LEMMA CommandInv ==
    ASSUME BreakerInv, NEW n \in Nodes, NEW s, Good(s),
           s.inFlight = cache[n].inFlight,
           cache[n].disabled /\ ~s.disabled => n \in asked',
           asked \subseteq asked', asked' \subseteq Nodes,
           Command(n, s)
    PROVE  BreakerInv'
<1>1. BreakerOK /\ Quiet(n) /\ step' = step /\ probing' = probing
      /\ (Stored(n, s) \/ NotStored(n, s))
  BY DEF Command, BreakerInv
<1>2. Outstanding' = Outstanding
  BY <1>1 DEF Outstanding
<1>3. Cardinality(Outstanding) \in Nat
  BY BreakerAssumption, FS_Subset, FS_CardinalityType DEF Outstanding
<1>4. OneAdmitting'
  BY <1>1 DEF BreakerInv, OneAdmitting
<1>5. \A c \in Clients : step'[c] = "admitting" =>
          IF Home[c] = n THEN Admissible(s) ELSE step[c] = "admitting"
  BY <1>1 DEF Quiet
<1>6. n \in current => s.inFlight >= Cardinality(Outstanding')
  BY <1>2 DEF BreakerInv, MemoryOK
<1>7. step' \in [Clients -> {"idle", "admitting", "calling"}] /\ probing' \subseteq Clients
  BY <1>1 DEF BreakerOK
<1>8. \/ Stored(n, s)
      \/ NotStored(n, s) /\ Cardinality(Outstanding') <= Cardinality(Outstanding)
  BY <1>1, <1>2, <1>3
<1>9. Cardinality(Outstanding') \in Nat
  BY <1>2, <1>3
<1> QED  BY <1>3, <1>4, <1>5, <1>6, <1>7, <1>8, <1>9, SaveInv

\* A process that opens the file again has the stored record and no calls.
LEMMA ReopenInv ==
    ASSUME BreakerInv, NEW n \in Nodes, Reopen(n)
    PROVE  BreakerInv'
<1>a. BreakerOK /\ health' = health
  BY DEF BreakerInv, Reopen
<1>b. cache'[n] = health /\ (\A m \in Nodes \ {n} : cache'[m] = cache[m])
      /\ current' = current \cup {n}
  BY <1>a DEF BreakerOK, Reopen
<1>c. \A c \in Clients : step'[c] = IF Home[c] = n THEN "idle" ELSE step[c]
  BY DEF Reopen
<1>1. BreakerOK'
  <2>1. step' \in [Clients -> {"idle", "admitting", "calling"}]
    BY <1>a DEF Reopen, BreakerOK
  <2> QED  BY <1>a, <2>1 DEF BreakerOK, Reopen
<1>2. Good(health)' /\ (\A m \in Nodes : Good(cache[m]))'
  BY <1>a, <1>b DEF BreakerInv, Good, Bounded
<1>3. OneAdmitting'
  BY <1>c DEF BreakerInv, OneAdmitting
<1>4. StillAdmissible'
  <2>1. ASSUME NEW c \in Clients, step'[c] = "admitting" PROVE Admissible(cache'[Home[c]])
    <3>1. Home[c] \in Nodes \ {n} /\ step[c] = "admitting"
      BY <2>1, <1>c, BreakerAssumption
    <3> QED  BY <3>1, <1>b DEF BreakerInv, StillAdmissible
  <2> QED  BY <2>1 DEF StillAdmissible, Admissible
<1>5. /\ Cardinality(Outstanding) \in Nat /\ Cardinality(Outstanding') \in Nat
      /\ Cardinality(Outstanding') <= Cardinality(Outstanding)
  <2>1. Outstanding' \subseteq Outstanding
    BY <1>c DEF Outstanding
  <2>2. IsFiniteSet(Outstanding)
    BY BreakerAssumption, FS_Subset DEF Outstanding
  <2> QED  BY <2>1, <2>2, FS_Subset, FS_CardinalityType
<1>6. health.inFlight \in Nat /\ health.inFlight >= Cardinality(Outstanding)
  BY <1>a DEF BreakerInv, EveryCallIsCounted, BreakerOK, States
<1>7. EveryCallIsCounted'
  BY <1>a, <1>5, <1>6 DEF EveryCallIsCounted
<1>8. MemoryOK'
  <2>1. ASSUME NEW m \in current'
        PROVE  /\ cache'[m].inFlight >= Cardinality(Outstanding')
               /\ health.disabled => cache'[m].disabled \/ m \in asked'
    <3>1. CASE m = n
      BY <1>b, <1>5, <1>6, <3>1
    <3>2. CASE m # n
      <4>1. m \in current /\ m \in Nodes /\ cache'[m] = cache[m] /\ cache[m].inFlight \in Nat
        BY <1>a, <1>b, <2>1, <3>2 DEF BreakerOK, States
      <4>2. /\ cache[m].inFlight >= Cardinality(Outstanding)
            /\ health.disabled => cache[m].disabled \/ m \in asked
        BY <4>1 DEF BreakerInv, MemoryOK
      <4>3. m \in asked => m \in asked'
        BY <3>2 DEF Reopen
      <4> QED  BY <1>5, <4>1, <4>2, <4>3
    <3> QED  BY <3>1, <3>2
  <2> QED  BY <1>a, <2>1 DEF MemoryOK
<1> QED  BY <1>1, <1>2, <1>3, <1>4, <1>7, <1>8 DEF BreakerInv

\* The passing of time keeps the invariant.
LEMMA TickInv ==
    ASSUME BreakerInv, BreakerTick
    PROVE  BreakerInv'
<1>a. BreakerOK /\ health \in States /\ \A n \in Nodes : cache[n] \in States
  BY DEF BreakerInv, BreakerOK
<1>b. /\ health' = Later(health) /\ \A n \in Nodes : cache'[n] = Later(cache[n])
      /\ current' = current /\ step' = step /\ asked' = asked /\ probing' = probing
  BY DEF BreakerTick
<1>c. /\ health' \in States /\ health'.inFlight = health.inFlight
      /\ health'.disabled = health.disabled /\ Good(health')
  BY <1>a, <1>b, LaterGood DEF BreakerInv
<1>d. ASSUME NEW n \in Nodes
      PROVE  /\ cache'[n] \in States /\ Good(cache'[n])
             /\ cache'[n].status = cache[n].status /\ cache'[n].inFlight = cache[n].inFlight
             /\ cache'[n].probes = cache[n].probes /\ cache'[n].disabled = cache[n].disabled
  BY <1>a, <1>b, LaterGood DEF BreakerInv
<1>1. BreakerOK'
  <2>1. cache' \in [Nodes -> States]
    BY <1>d DEF BreakerTick
  <2> QED  BY <1>a, <1>b, <1>c, <2>1 DEF BreakerOK
<1>2. Good(health)' /\ (\A n \in Nodes : Good(cache[n]))'
  BY <1>c, <1>d DEF Good, Bounded
<1>3. Outstanding' = Outstanding
  BY <1>b DEF Outstanding
<1>4. EveryCallIsCounted' /\ OneAdmitting'
  BY <1>b, <1>c, <1>3 DEF BreakerInv, EveryCallIsCounted, OneAdmitting
<1>5. MemoryOK'
  <2>1. \A n \in current : n \in Nodes  BY <1>a DEF BreakerOK
  <2> QED  BY <1>b, <1>c, <1>d, <1>3, <2>1 DEF BreakerInv, MemoryOK
<1>6. StillAdmissible'
  <2>1. ASSUME NEW c \in Clients, step'[c] = "admitting" PROVE Admissible(cache'[Home[c]])
    <3>1. Home[c] \in Nodes  BY BreakerAssumption
    <3>2. Admissible(cache[Home[c]])  BY <1>b, <2>1 DEF BreakerInv, StillAdmissible
    <3> QED  BY <1>d, <3>1, <3>2 DEF Admissible
  <2> QED  BY <2>1 DEF StillAdmissible, Admissible
<1> QED  BY <1>1, <1>2, <1>4, <1>5, <1>6 DEF BreakerInv

\* Every step keeps the invariant.
LEMMA StepIInv == BreakerInv /\ [BreakerNext]_breakerVars => BreakerInv'
<1> SUFFICES ASSUME BreakerInv, [BreakerNext]_breakerVars PROVE BreakerInv'
  OBVIOUS
<1>a. BreakerOK /\ \A n \in Nodes : Good(cache[n]) /\ cache[n] \in States
  BY DEF BreakerInv, Good
<1>b. \A c \in Clients : Home[c] \in Nodes
  BY BreakerAssumption
<1>1. ASSUME NEW c \in Clients, Allow(c) PROVE BreakerInv'
  <2>1. step[c] # "calling" /\ Admission(c)
        /\ \A d \in Clients \ {c} : Home[d] = Home[c] => step[d] # "admitting"
    BY <1>1 DEF Allow, Quiet
  <2> QED  BY <2>1, AdmissionInv
<1>2. ASSUME NEW c \in Clients, Admit(c) PROVE BreakerInv'
  <2>1. step[c] # "calling" /\ Admission(c)
        /\ \A d \in Clients \ {c} : Home[d] = Home[c] => step[d] # "admitting"
    BY <1>2 DEF Admit, BreakerInv, OneAdmitting
  <2> QED  BY <2>1, AdmissionInv
<1>3. ASSUME NEW c \in Clients, HalfOpen(c) PROVE BreakerInv'
  <2> DEFINE n == Home[c]
             s == HalfOpened(cache[n])
  <2>1. n \in Nodes /\ Good(cache[n]) /\ cache[n].status = "OPEN" /\ Quiet(n)
        /\ step[c] = "idle" /\ probing' = probing /\ asked' = asked
    BY <1>3, <1>a, <1>b DEF HalfOpen
  <2>2. Good(s) /\ Admissible(s) /\ s.inFlight = cache[n].inFlight
        /\ s.disabled = cache[n].disabled
    BY <1>a, <2>1, HalfOpenedGood, FlagKept
  <2>3. PICK next \in {"idle", "admitting"} :
          Moves(c, next) /\ (next = "admitting" => Stored(n, s)) /\ (Stored(n, s) \/ NotStored(n, s))
    <3>1. CASE Stored(n, s) /\ Moves(c, "admitting")  BY <3>1
    <3>2. CASE NotStored(n, s) /\ UNCHANGED step
      <4>1. Moves(c, "idle")  BY <1>a, <2>1, <3>2 DEF Moves, BreakerOK
      <4> QED  BY <3>2, <4>1
    <3> QED  BY <1>3, <3>1, <3>2 DEF HalfOpen
  <2>4. /\ Cardinality(Outstanding) \in Nat /\ Outstanding' = Outstanding
        /\ step'[c] = next /\ \A d \in Clients \ {c} : step'[d] = step[d]
    BY <1>a, <2>1, <2>3, OutstandingMoves
  <2>5. \A d \in Clients : step'[d] = "admitting" =>
            IF Home[d] = n THEN Admissible(s) /\ d = c ELSE step[d] = "admitting"
    BY <2>1, <2>2, <2>4 DEF Quiet
  <2>6. OneAdmitting'
    BY <2>5 DEF BreakerInv, OneAdmitting
  <2>7. step' \in [Clients -> {"idle", "admitting", "calling"}] /\ probing' \subseteq Clients
        /\ asked \subseteq asked' /\ asked' \subseteq Nodes
    BY <1>a, <2>1, <2>3 DEF BreakerOK, Moves
  <2>8. n \in current => s.inFlight >= Cardinality(Outstanding')
    BY <2>2, <2>4 DEF BreakerInv, MemoryOK
  <2>9. \/ Stored(n, s)
        \/ NotStored(n, s) /\ Cardinality(Outstanding') <= Cardinality(Outstanding)
    BY <2>3, <2>4
  <2>10. Cardinality(Outstanding') \in Nat
    BY <2>4
  <2> HIDE DEF n, s
  <2> QED  BY <2>1, <2>2, <2>4, <2>5, <2>6, <2>7, <2>8, <2>9, <2>10, SaveInv
<1>4. ASSUME NEW c \in Clients, Success(c) PROVE BreakerInv'
  <2>1. cache[Home[c]] \in States /\ Good(cache[Home[c]])
    BY <1>a, <1>b
  <2>2. LET s == Succeeded(cache[Home[c]])
        IN  Good(s) /\ s.inFlight = Less(cache[Home[c]].inFlight, 1)
            /\ s.disabled = cache[Home[c]].disabled
    BY <2>1, SucceededGood, FlagKept
  <2> QED  BY <1>4, <2>2, ReportInv DEF Success
<1>5. ASSUME NEW c \in Clients, Failure(c) PROVE BreakerInv'
  <2>1. cache[Home[c]] \in States /\ Good(cache[Home[c]])
    BY <1>a, <1>b
  <2>2. PICK ago \in 0..OpenTicks : Report(c, Failed(cache[Home[c]], ago))
    BY <1>5 DEF Failure
  <2>3. LET s == Failed(cache[Home[c]], ago)
        IN  Good(s) /\ s.inFlight = Less(cache[Home[c]].inFlight, 1)
            /\ s.disabled = cache[Home[c]].disabled
    BY <2>1, FailedGood, FlagKept
  <2> QED  BY <2>2, <2>3, ReportInv
<1>6. ASSUME NEW n \in Nodes, Disable(n) PROVE BreakerInv'
  <2>1. Good(Disabled(cache[n])) /\ Disabled(cache[n]).inFlight = cache[n].inFlight
        /\ Disabled(cache[n]).disabled
    BY <1>a, CommandsGood
  <2>2. Command(n, Disabled(cache[n])) /\ asked' = asked /\ asked' \subseteq Nodes
    BY <1>a, <1>6 DEF Disable, BreakerOK
  <2> QED  BY <2>1, <2>2, CommandInv
<1>7. ASSUME NEW n \in Nodes, Enable(n) PROVE BreakerInv'
  <2>1. Good(Enabled(cache[n])) /\ Enabled(cache[n]).inFlight = cache[n].inFlight
    BY <1>a, CommandsGood
  <2>2. Command(n, Enabled(cache[n])) /\ asked' = asked \cup {n} /\ asked' \subseteq Nodes
    BY <1>a, <1>7 DEF Enable, BreakerOK
  <2> QED  BY <2>1, <2>2, CommandInv
<1>8. ASSUME NEW n \in Nodes, ResetCircuit(n) PROVE BreakerInv'
  <2>1. ~cache[n].disabled /\ Command(n, Cleared(cache[n])) /\ asked' = asked
        /\ asked' \subseteq Nodes
    BY <1>a, <1>8 DEF ResetCircuit, BreakerOK
  <2>2. Good(Cleared(cache[n])) /\ Cleared(cache[n]).inFlight = cache[n].inFlight
    BY <1>a, <2>1, CommandsGood
  <2> QED  BY <2>1, <2>2, CommandInv
<1>9. CASE UNCHANGED breakerVars
  <2>1. Outstanding' = Outstanding
    BY <1>9 DEF breakerVars, Outstanding
  <2> QED
    BY <1>9, <2>1 DEF breakerVars, BreakerInv, BreakerOK, Good, Bounded, OneAdmitting,
                      StillAdmissible, Admissible, MemoryOK, EveryCallIsCounted
<1> QED
  BY <1>1, <1>2, <1>3, <1>4, <1>5, <1>6, <1>7, <1>8, <1>9, ReopenInv, TickInv
  DEF BreakerNext, Call, Operate

-----------------------------------------------------------------------------
\* The inductive invariant holds in every reachable state.
THEOREM BreakerInvHolds == BreakerSpec => []BreakerInv
BY InitBreakerInv, StepIInv, PTL DEF BreakerSpec

\* The record and what every process has in memory stay well typed.
THEOREM BreakerTypes == BreakerSpec => []BreakerOK
<1>1. BreakerInv => BreakerOK  BY DEF BreakerInv
<1> QED  BY <1>1, BreakerInvHolds, PTL

\* Every outstanding call is counted, for any number of processes and callers.
THEOREM CallsCounted == BreakerSpec => []EveryCallIsCounted
<1>1. BreakerInv => EveryCallIsCounted  BY DEF BreakerInv
<1> QED  BY <1>1, BreakerInvHolds, PTL

\* With one half-open probe at a time, maximum_in_flight is never exceeded.
THEOREM CapacityKept == BreakerSpec => []InFlightBounded
<1>1. BreakerInv => InFlightBounded  BY DEF BreakerInv, Good, Bounded, InFlightBounded
<1> QED  BY <1>1, BreakerInvHolds, PTL

\* No refused or failed save lifts an operator's disable that nobody asked to
\* lift, or admits a call of a record that is disabled or open.
THEOREM DisableIsRespected == BreakerSpec => DisabledIsRespected
<1> DEFINE Kept == \A n \in current :
                      health.disabled => cache[n].status = "DISABLED" \/ n \in asked
           Step == \A c \in Clients : step[c] # "calling" /\ step'[c] = "calling"
                      => health'.status \notin {"OPEN", "DISABLED"} /\ ~health'.disabled
<1>1. BreakerInv => Kept
  BY DEF BreakerInv, BreakerOK, MemoryOK, Good
<1>2. ASSUME BreakerInv, BreakerNext PROVE Step
  <2>1. ASSUME NEW c \in Clients, step[c] # "calling", step'[c] = "calling"
        PROVE  health'.status \notin {"OPEN", "DISABLED"} /\ ~health'.disabled
    <3>a. BreakerOK /\ \A d \in Clients : Home[d] \in Nodes
      BY <1>2, BreakerAssumption DEF BreakerInv
    <3>1. ASSUME NEW d \in Clients, NEW next, Moves(d, next) PROVE d = c /\ next = "calling"
      BY <2>1, <3>a, <3>1 DEF BreakerOK, Moves
    <3>2. Admission(c)
      <4>1. ASSUME NEW d \in Clients, Allow(d) \/ Admit(d) PROVE Admission(c)
        BY <3>1, <4>1 DEF Allow, Admit, Admission
      <4>2. ASSUME NEW d \in Clients, HalfOpen(d) PROVE FALSE
        <5>1. CASE Moves(d, "admitting")
          <6>1. "admitting" = "calling"  BY <3>1, <5>1
          <6> QED  BY <6>1
        <5> QED  BY <2>1, <4>2, <5>1 DEF HalfOpen
      <4>3. ASSUME NEW d \in Clients, Success(d) \/ Failure(d) PROVE FALSE
        <5>1. Moves(d, "idle")  BY <4>3 DEF Success, Failure, Report
        <5>2. "idle" = "calling"  BY <3>1, <5>1
        <5> QED  BY <5>2
      <4>4. ASSUME NEW n \in Nodes, Operate(n) \/ Reopen(n) PROVE FALSE
        BY <2>1, <4>4 DEF Operate, Disable, Enable, ResetCircuit, Command, Reopen
      <4>5. CASE BreakerTick
        BY <2>1, <4>5 DEF BreakerTick
      <4> QED  BY <1>2, <4>1, <4>2, <4>3, <4>4, <4>5 DEF BreakerNext, Call
    <3>3. health' = Admitted(cache[Home[c]]) /\ Admissible(cache[Home[c]])
          /\ Good(cache[Home[c]])
      <4>1. Good(cache[Home[c]])  BY <1>2, <3>a DEF BreakerInv
      <4>2. ~Moves(c, "idle")
        <5>1. Moves(c, "idle") => "idle" = "calling"  BY <3>1
        <5> QED  BY <5>1
      <4> QED  BY <3>2, <4>1, <4>2 DEF Admission, Stored
    <3>4. health'.status = cache[Home[c]].status /\ health'.disabled = cache[Home[c]].disabled
      BY <3>3 DEF Good, States, Admitted
    <3> QED  BY <3>3, <3>4 DEF Admissible, Good
  <2> QED  BY <2>1
<1> HIDE DEF Kept, Step
<1>3. BreakerInv /\ [BreakerNext]_breakerVars => [Step]_breakerVars
  BY <1>2
<1>4. []Kept /\ [][Step]_breakerVars => DisabledIsRespected
  BY DEF Kept, Step, DisabledIsRespected
<1> QED  BY <1>1, <1>3, <1>4, BreakerInvHolds, PTL DEF BreakerSpec

-----------------------------------------------------------------------------
(* CodingProviders.                                                        *)

(* Where a caller has an answer in hand, where it applies it, where the    *)
(* operation goes on from a submission, and where it is cancelled.         *)
PatchSteps ==
  {"staging", "stage", "replace", "completed", "applied", "verify", "accept",
   "patchFailed", "reconcilePatch"}
AnswerSteps == {"sink", "receipt", "saveResult", "saveReceipt", "apply"} \cup PatchSteps
GoingSteps ==
  {"poll", "result", "saveResult", "saveReceipt", "reference", "apply", "acceptOperation"}
    \cup PatchSteps
CancelSteps ==
  {"cancelIntent", "cancelRequest", "cancelProgress", "cancelTask", "cancelStatus",
   "cancelled"}

GoingStates == {"SUBMITTED", "RESULT_AVAILABLE", "RESULT_ACCEPTED"}
EffectFields == {"state", "result", "commit", "completed", "manifest"}
FrameFields == {"op", "record", "result", "effect", "done"}

AnswerTo(o, answer) == answer \in Results /\ answer.op = o
EffectOf(o, value) == DOMAIN value = EffectFields /\ AnswerTo(o, value.result)
Whole(value) ==
  \A p \in Paths : \/ value.manifest[p] = value.result
                   \/ edited /\ value.manifest[p] = Edited
                   \/ CrossedAt(value.result.op, value.manifest[p])
Received(o) == receipt[o] # None /\ result[o] # None

-----------------------------------------------------------------------------
(* The inductive invariant: the records of an operation, what a caller has *)
(* loaded and where it is, and, unless two calls have overlapped, how the  *)
(* two agree.                                                              *)

RecordsOK(o) ==
  /\ operation[o] # None => operation[o] \in Operations
  /\ result[o] # None => AnswerTo(o, result[o])
  /\ receipt[o] # None => receipt[o] \in Receipts
  /\ effect[o] # None => EffectOf(o, effect[o])
  /\ cancellation[o] # None => operation[o] \in Operations /\ o \notin LiveOps
  /\ charges[o] \in Nat
  /\ o \in LiveOps /\ receipt[o] # None => result[o] # None
  /\ o \in LiveOps /\ InState(o, GoingStates) => receipt[o] # None

(* A live operation is charged once, after it was prepared, and goes on    *)
(* with the receipt of its result.                                         *)
PaidFor(o) ==
  /\ (InState(o, {"PREPARED"}) \/ operation[o] = None) =>
       charges[o] = 0 /\ receipt[o] = None
  /\ charges[o] <= 1
  /\ InState(o, GoingStates) =>
       ReceiptMatches(receipt[o], result[o]) /\ receipt[o].task = operation[o].task

AcceptedWhole(o) ==
  effect[o] # None => (effect[o].state = "ACCEPTED" => Whole(effect[o]))

AloneOK(o) ==
  o \notin overlapped => (o \in LiveOps => PaidFor(o)) /\ AcceptedWhole(o)

FrameOK(c) ==
  /\ DOMAIN frame[c] = FrameFields
  /\ Op(c) \in Ops
  /\ pc[c] # "prepare" => Record(c) \in Operations /\ operation[Op(c)] \in Operations
  /\ pc[c] \in AnswerSteps => AnswerTo(Op(c), frame[c].result)
  /\ pc[c] \in {"staging", "verify", "accept", "reconcilePatch"} =>
       EffectOf(Op(c), frame[c].effect)
  /\ pc[c] \in PatchSteps => EffectOf(Op(c), effect[Op(c)])
  /\ frame[c].done \in Seq(Paths)
  /\ pc[c] \in {"apply", "staging", "stage"} => Done(c) = {}
  /\ pc[c] \in {"applied", "verify"} => Done(c) = Paths
  /\ pc[c] \in CancelSteps => Op(c) \notin LiveOps
  /\ pc[c] \in {"sink", "receipt"} => Op(c) \in LiveOps
  /\ pc[c] = "receipt" => result[Op(c)] # None
  /\ pc[c] \in GoingSteps /\ Op(c) \in LiveOps => Received(Op(c))

(* The caller of a live operation: the turn is not charged before it is    *)
(* sent, its receipt is not there before the result, and what goes on is   *)
(* as stored and has the answer of the receipt.                            *)
SubmissionOK(c) ==
  LET o == Op(c) IN
  /\ pc[c] = "submit" => InState(o, {"PREPARED"})
  /\ pc[c] \in {"invoke", "sink", "receipt"} =>
       InState(o, {"SUBMISSION_IN_PROGRESS"}) /\ receipt[o] = None
  /\ pc[c] = "invoke" => charges[o] = 0
  /\ pc[c] \in GoingSteps =>
       InState(o, GoingStates) /\ Record(c) = operation[o]
  /\ pc[c] \in {"saveResult", "saveReceipt"} => ReceiptMatches(receipt[o], frame[c].result)

(* The caller of a patch: it is the patch of the result in hand, what was  *)
(* replaced shows it or an edit, what was not is as it was committed, or   *)
(* either has the result of an operation that was applied at the same time.*)
PatchOK(c) ==
  LET answer == frame[c].result IN
  /\ pc[c] \in {"staging", "stage", "replace", "completed", "applied"} =>
       effect[Op(c)].result = answer
  /\ pc[c] \in {"staging", "verify", "accept", "reconcilePatch"} =>
       frame[c].effect.result = answer
  /\ pc[c] \in {"replace", "completed", "applied", "verify"} =>
       \A p \in Done(c) : \/ files[p] = answer
                          \/ edited /\ files[p] \in {Edited, base[p]}
                          \/ CrossedAt(Op(c), files[p])
  /\ pc[c] \in {"staging", "stage", "replace", "completed"} /\ ~edited =>
       \A p \in Paths \ Done(c) : files[p] = base[p] \/ CrossedAt(Op(c), files[p])
  /\ pc[c] = "accept" => Whole(frame[c].effect)

UndisturbedOK(c) ==
  Op(c) \notin overlapped =>
    /\ pc[c] = "prepare" => operation[Op(c)] = None
    /\ Op(c) \in LiveOps => SubmissionOK(c)
    /\ PatchOK(c)

CallerOK(c) == pc[c] # "idle" => FrameOK(c) /\ UndisturbedOK(c)

(* What the provider of a caller remembers.                                *)
Remembered(o) == o \in LiveOps => Received(o)
TasksOK(c) ==
  /\ tasks[c] \in Seq(Results)
  /\ \A i \in DOMAIN tasks[c] : Remembered(tasks[c][i].op)

(* Two calls at once on one operation mark it, and two applications at     *)
(* once of different ones are remembered.                                  *)
Apart == \A c, d \in Callers :
  c # d /\ pc[c] # "idle" /\ pc[d] # "idle" /\ Op(c) = Op(d) => Op(c) \in overlapped

Crossing == \A c, d \in Callers :
  pc[c] \in ApplySteps /\ pc[d] \in ApplySteps /\ Op(c) # Op(d) =>
    {Op(c), Op(d)} \in crossed

Domains ==
  /\ DOMAIN operation = Ops /\ DOMAIN result = Ops /\ DOMAIN receipt = Ops
  /\ DOMAIN effect = Ops /\ DOMAIN cancellation = Ops /\ DOMAIN charges = Ops
  /\ DOMAIN pc = Callers /\ DOMAIN frame = Callers /\ DOMAIN tasks = Callers
  /\ files \in Files /\ base \in Files /\ staged \subseteq Ops

IInv ==
  /\ Domains
  /\ \A o \in Ops : RecordsOK(o) /\ AloneOK(o)
  /\ \A c \in Callers : CallerOK(c) /\ TasksOK(c)
  /\ Apart /\ Crossing

-----------------------------------------------------------------------------
(* A step of a caller in the middle of its call.  It leaves the records of *)
(* other operations and the frames of other callers alone, takes away      *)
(* nothing that another caller of the same operation relies on, and writes *)
(* no file but with the result that it applies.                            *)

SameRecords(o) ==
  /\ operation'[o] = operation[o] /\ result'[o] = result[o] /\ receipt'[o] = receipt[o]
  /\ effect'[o] = effect[o] /\ cancellation'[o] = cancellation[o]
  /\ charges'[o] = charges[o]

SameCaller(c) == pc'[c] = pc[c] /\ frame'[c] = frame[c] /\ tasks'[c] = tasks[c]

Kept(o) ==
  /\ operation[o] \in Operations => operation'[o] \in Operations
  /\ result[o] # None => result'[o] # None
  /\ receipt[o] # None => receipt'[o] # None
  /\ EffectOf(o, effect[o]) => EffectOf(o, effect'[o])

Serves(c, o) ==
  /\ pc[c] # "idle"
  /\ pc'[c] # "idle" => frame'[c].op = o
  /\ \A x \in Ops \ {o} : SameRecords(x)
  /\ \A d \in Callers \ {c} : SameCaller(d)
  /\ Kept(o)
  /\ pc'[c] \in ApplySteps => pc[c] \in ApplySteps
  /\ \/ files' = files
     \/ /\ pc[c] = "replace"
        /\ \E p \in Paths : files' = [files EXCEPT ![p] = frame[c].result]
  /\ UNCHANGED <<overlapped, crossed, edited, base>>

LEMMA AllKept ==
  ASSUME NEW c \in Callers, NEW o \in Ops, Serves(c, o)
  PROVE  \A x \in Ops : Kept(x)
BY DEF Serves, Kept, SameRecords

LEMMA OthersRecords ==
  ASSUME NEW c \in Callers, NEW o \in Ops, Serves(c, o), NEW x \in Ops \ {o},
         RecordsOK(x), AloneOK(x)
  PROVE  RecordsOK(x)' /\ AloneOK(x)'
<1>1. SameRecords(x) /\ UNCHANGED <<overlapped, crossed, edited>>
  BY DEF Serves
<1>2. RecordsOK(x)'
  BY <1>1 DEF RecordsOK, SameRecords, AnswerTo, EffectOf, InState
<1>3. AloneOK(x)'
  BY <1>1 DEF AloneOK, PaidFor, AcceptedWhole, Whole, CrossedAt, InState, ReceiptMatches, SameRecords
<1> QED BY <1>2, <1>3

(* A file that another caller writes has its result, and the operations of *)
(* the two were applied at the same time.                                  *)
LEMMA OthersPatch ==
  ASSUME NEW c \in Callers, NEW o \in Ops, o = Op(c), Serves(c, o), FrameOK(c),
         NEW d \in Callers \ {c}, Op(d) \in Ops \ {o}, frame[d].done \in Seq(Paths),
         Domains, Crossing, PatchOK(d)
  PROVE  PatchOK(d)'
<1>1. /\ pc'[d] = pc[d] /\ frame'[d] = frame[d] /\ Op(d)' = Op(d) /\ Done(d)' = Done(d)
      /\ effect'[Op(d)] = effect[Op(d)] /\ UNCHANGED <<crossed, edited, base>>
  BY DEF Serves, SameCaller, SameRecords, Op, Done
<1>2. ASSUME files' = files PROVE PatchOK(d)'
  BY <1>1, <1>2 DEF PatchOK, Whole, CrossedAt
<1>3. ASSUME pc[c] = "replace",
             \E p \in Paths : files' = [files EXCEPT ![p] = frame[c].result]
      PROVE  PatchOK(d)'
  <2>1. \A q \in Paths : files'[q] = files[q] \/ files'[q] = frame[c].result
    BY <1>3 DEF Domains, Files
  <2>2. frame[c].result \in Results /\ frame[c].result.op = o
    BY <1>3 DEF FrameOK, AnswerSteps, PatchSteps, AnswerTo
  <2>3. pc[d] \in ApplySteps => CrossedAt(Op(d), frame[c].result)
    <3>1. {o, Op(d)} = {Op(d), o}
      OBVIOUS
    <3> QED BY <1>3, <2>2, <3>1 DEF Crossing, CrossedAt, ApplySteps
  <2>4. Done(d) \subseteq Paths
    <3>1. \A i \in DOMAIN frame[d].done : frame[d].done[i] \in Paths
      OBVIOUS
    <3> QED BY <3>1 DEF Done
  <2>5. pc[d] \notin ApplySteps => PatchOK(d)'
    BY <1>1 DEF PatchOK, ApplySteps
  <2>6. ASSUME pc[d] \in ApplySteps
        PROVE  \A q \in Paths : files'[q] = files[q] \/ CrossedAt(Op(d), files'[q])
    BY <2>1, <2>3, <2>6
  <2>7. ASSUME pc[d] \in ApplySteps PROVE PatchOK(d)'
    <3>1. pc[d] = "accept" => Whole(frame[d].effect)'
      BY <1>1 DEF PatchOK, Whole, CrossedAt
    <3>2. \A content : CrossedAt(Op(d), content) => CrossedAt(Op(d), content)'
      BY <1>1 DEF CrossedAt
    <3>3. pc[d] \in {"replace", "completed", "applied", "verify"} =>
            \A q \in Done(d) : \/ files'[q] = frame[d].result
                               \/ edited /\ files'[q] \in {Edited, base[q]}
                               \/ CrossedAt(Op(d), files'[q])
      BY <2>4, <2>6, <2>7 DEF PatchOK
    <3>4. pc[d] \in {"staging", "stage", "replace", "completed"} /\ ~edited =>
            \A q \in Paths \ Done(d) : files'[q] = base[q] \/ CrossedAt(Op(d), files'[q])
      BY <2>6, <2>7 DEF PatchOK
    <3> QED BY <1>1, <3>1, <3>3, <3>4 DEF PatchOK, CrossedAt
  <2> QED BY <2>5, <2>7
<1> QED BY <1>2, <1>3 DEF Serves

LEMMA OthersFrames ==
  ASSUME NEW c \in Callers, NEW o \in Ops, o = Op(c), Serves(c, o), CallerOK(c),
         NEW d \in Callers \ {c}, Domains, Apart, Crossing, CallerOK(d)
  PROVE  CallerOK(d)'
<1>1. SameCaller(d) /\ pc[c] # "idle" /\ UNCHANGED overlapped
  BY DEF Serves
<1> SUFFICES ASSUME pc[d] # "idle"
    PROVE  FrameOK(d)' /\ UndisturbedOK(d)'
  BY <1>1 DEF CallerOK, SameCaller
<1>2. FrameOK(d) /\ UndisturbedOK(d) /\ Op(d) \in Ops /\ frame[d].done \in Seq(Paths)
  BY DEF CallerOK, FrameOK
<1>3. Op(d)' = Op(d) /\ Record(d)' = Record(d) /\ Done(d)' = Done(d)
  BY <1>1 DEF Op, Record, Done, SameCaller
<1>4. Kept(Op(d))
  BY <1>2, AllKept
<1>5. FrameOK(d)'
  BY <1>1, <1>2, <1>3, <1>4 DEF FrameOK, SameCaller, Kept, Received
<1>6. CASE Op(d) = o
  BY <1>1, <1>3, <1>5, <1>6 DEF UndisturbedOK, Apart
<1>7. CASE Op(d) # o
  <2>1. SameRecords(Op(d))
    BY <1>2, <1>7 DEF Serves
  <2>2. SubmissionOK(d) => SubmissionOK(d)'
    BY <1>1, <1>3, <2>1 DEF SubmissionOK, SameRecords, SameCaller, InState, ReceiptMatches
  <2>3. PatchOK(d) => PatchOK(d)'
    BY <1>1, <1>2, <1>7, OthersPatch DEF CallerOK
  <2> QED BY <1>1, <1>2, <1>3, <1>5, <2>1, <2>2, <2>3 DEF UndisturbedOK, SameRecords, SameCaller
<1> QED BY <1>5, <1>6, <1>7

LEMMA TaskIsResult ==
  ASSUME NEW c \in Callers, TasksOK(c), NEW i \in DOMAIN tasks[c]
  PROVE  tasks[c][i] \in Results /\ tasks[c][i].op \in Ops
<1>1. tasks[c] \in Seq(Results)
  BY DEF TasksOK
<1>2. tasks[c][i] \in Results
  BY <1>1
<1> QED BY <1>2 DEF Results

LEMMA StillRemembered ==
  ASSUME NEW c \in Callers, NEW o \in Ops, Serves(c, o),
         NEW d \in Callers, TasksOK(d), tasks'[d] = tasks[d]
  PROVE  TasksOK(d)'
<1>1. \A i \in DOMAIN tasks[d] : tasks[d][i].op \in Ops
  BY TaskIsResult
<1>2. \A x \in Ops : Kept(x)
  BY AllKept
<1> QED BY <1>1, <1>2 DEF TasksOK, Remembered, Received, Kept

LEMMA StillApart ==
  ASSUME NEW c \in Callers, NEW o \in Ops, o = Op(c), Serves(c, o), Apart, Crossing
  PROVE  Apart' /\ Crossing'
<1>1. /\ UNCHANGED <<overlapped, crossed>> /\ pc[c] # "idle"
      /\ pc'[c] # "idle" => Op(c)' = Op(c)
      /\ pc'[c] \in ApplySteps => pc[c] \in ApplySteps
      /\ \A d \in Callers \ {c} : pc'[d] = pc[d] /\ Op(d)' = Op(d)
  BY DEF Serves, SameCaller, Op
<1>2. Apart'
  BY <1>1 DEF Apart
<1>3. "idle" \notin ApplySteps
  BY DEF ApplySteps
<1>4. \A d \in Callers : pc'[d] \in ApplySteps => pc[d] \in ApplySteps /\ Op(d)' = Op(d)
  BY <1>1, <1>3
<1>5. Crossing'
  BY <1>1, <1>4 DEF Crossing
<1> QED BY <1>2, <1>5

LEMMA ServiceKeeps ==
  ASSUME IInv, NEW c \in Callers, NEW o \in Ops, o = Op(c), Serves(c, o), Domains',
         RecordsOK(o)', AloneOK(o)', CallerOK(c)', TasksOK(c)'
  PROVE  IInv'
<1>1. \A x \in Ops : RecordsOK(x)' /\ AloneOK(x)'
  BY OthersRecords DEF IInv
<1>2. \A d \in Callers : CallerOK(d)'
  BY OthersFrames DEF IInv
<1>3. \A d \in Callers : TasksOK(d)'
  <2> SUFFICES ASSUME NEW d \in Callers \ {c} PROVE TasksOK(d)'
    OBVIOUS
  <2> QED BY StillRemembered DEF IInv, Serves, SameCaller
<1> QED BY <1>1, <1>2, <1>3, StillApart DEF IInv

-----------------------------------------------------------------------------
(* The ways in which a call ends: nothing is saved, the operation is, or   *)
(* the effect is.                                                          *)

LEMMA Returning ==
  ASSUME Domains, NEW c \in Callers, Return(c)
  PROVE  /\ pc'[c] = "idle"
         /\ \A d \in Callers \ {c} : pc'[d] = pc[d] /\ frame'[d] = frame[d]
         /\ DOMAIN pc' = Callers /\ DOMAIN frame' = Callers
BY DEF Domains, Return, Goto

LEMMA RecordExists ==
  ASSUME NEW o \in Ops, operation[o] \in Operations
  PROVE  operation[o] # None
BY NoneAssumption

LEMMA NothingSaved ==
  ASSUME IInv, NEW c \in Callers, NEW o \in Ops, o = Op(c), pc[c] # "idle", Return(c),
         UNCHANGED <<store, workspace, provider, history>>
  PROVE  IInv'
<1>1. Domains'
  BY Returning DEF IInv, Domains, store, workspace, provider
<1>2. Serves(c, o)
  BY Returning DEF IInv, Serves, ApplySteps, SameRecords, SameCaller, Kept, store, workspace, provider,
    history
<1>3. RecordsOK(o)' /\ AloneOK(o)'
  BY DEF IInv, RecordsOK, AnswerTo, EffectOf, InState, AloneOK, PaidFor, AcceptedWhole, Whole, CrossedAt,
    ReceiptMatches, store, workspace, provider, history
<1>4. CallerOK(c)'
  BY Returning DEF IInv, CallerOK
<1>5. TasksOK(c)'
  BY <1>2, StillRemembered DEF IInv, provider
<1> QED BY <1>1, <1>2, <1>3, <1>4, <1>5, ServiceKeeps

LEMMA OperationSaved ==
  ASSUME IInv, NEW c \in Callers, NEW o \in Ops, o = Op(c), pc[c] # "idle", Return(c),
         NEW record \in Operations, operation' = [operation EXCEPT ![o] = record],
         UNCHANGED <<result, receipt, effect, cancellation, workspace, provider, history>>,
         o \in LiveOps /\ record.state \in GoingStates => receipt[o] # None,
         o \in LiveOps /\ o \notin overlapped =>
           /\ record.state = "PREPARED" => charges[o] = 0 /\ receipt[o] = None
           /\ record.state \in GoingStates =>
                ReceiptMatches(receipt[o], result[o]) /\ receipt[o].task = record.task
  PROVE  IInv'
<1>1. Domains'
  BY Returning DEF IInv, Domains, workspace, provider
<1>2. operation'[o] = record /\ \A x \in Ops \ {o} : operation'[x] = operation[x]
  BY DEF IInv, Domains
<1>3. Serves(c, o)
  BY <1>2, Returning DEF IInv, Serves, ApplySteps, SameRecords, SameCaller, Kept, workspace, provider,
    history
<1>4. record # None
  BY NoneAssumption
<1>5. RecordsOK(o)'
  BY <1>2, <1>4 DEF IInv, RecordsOK, AnswerTo, EffectOf, InState, provider
<1>6. AloneOK(o)'
  BY <1>2, <1>4 DEF IInv, AloneOK, PaidFor, AcceptedWhole, Whole, CrossedAt, InState, ReceiptMatches,
    provider, history
<1>7. CallerOK(c)'
  BY Returning DEF IInv, CallerOK
<1>8. TasksOK(c)'
  BY <1>3, StillRemembered DEF IInv, provider
<1> QED BY <1>1, <1>3, <1>5, <1>6, <1>7, <1>8, ServiceKeeps

LEMMA EffectSaved ==
  ASSUME IInv, NEW c \in Callers, NEW o \in Ops, o = Op(c), pc[c] # "idle", Return(c),
         NEW value, EffectOf(o, value), effect' = [effect EXCEPT ![o] = value],
         UNCHANGED <<operation, result, receipt, cancellation, workspace, provider, history>>,
         o \notin overlapped => (value.state = "ACCEPTED" => Whole(value))
  PROVE  IInv'
<1>1. Domains'
  BY Returning DEF IInv, Domains, workspace, provider
<1>2. effect'[o] = value /\ \A x \in Ops \ {o} : effect'[x] = effect[x]
  BY DEF IInv, Domains
<1>3. Serves(c, o)
  BY <1>2, Returning DEF IInv, Serves, ApplySteps, SameRecords, SameCaller, Kept, workspace, provider,
    history
<1>4. RecordsOK(o)'
  BY <1>2 DEF IInv, RecordsOK, AnswerTo, EffectOf, InState, provider
<1>5. AloneOK(o)'
  BY <1>2 DEF IInv, AloneOK, PaidFor, AcceptedWhole, Whole, CrossedAt, InState, ReceiptMatches,
    provider, history
<1>6. CallerOK(c)'
  BY Returning DEF IInv, CallerOK
<1>7. TasksOK(c)'
  BY <1>3, StillRemembered DEF IInv, provider
<1> QED BY <1>1, <1>3, <1>4, <1>5, <1>6, <1>7, ServiceKeeps

-----------------------------------------------------------------------------
(* prepare, submit, poll, result and reconcile.                            *)

LEMMA InCall ==
  ASSUME IInv, NEW c \in Callers, pc[c] # "idle"
  PROVE  /\ Op(c) \in Ops /\ FrameOK(c) /\ UndisturbedOK(c) /\ TasksOK(c) /\ Domains
         /\ RecordsOK(Op(c)) /\ AloneOK(Op(c))
BY DEF IInv, CallerOK, FrameOK

LEMMA StateReplaced ==
  ASSUME NEW r \in Operations, NEW s \in OperationStates
  PROVE  /\ [r EXCEPT !.state = s] \in Operations
         /\ [r EXCEPT !.state = s].state = s /\ [r EXCEPT !.state = s].task = r.task
BY DEF Operations

LEMMA NewTask ==
  ASSUME NEW r \in Operations, NEW s \in OperationStates, NEW t \in TaskIds \cup {None}
  PROVE  /\ [r EXCEPT !.state = s, !.task = t] \in Operations
         /\ [r EXCEPT !.state = s, !.task = t].state = s
         /\ [r EXCEPT !.state = s, !.task = t].task = t
<1>1. [r EXCEPT !.state = s, !.task = t] \in Operations
  BY DEF Operations
<1>2. [r EXCEPT !.state = s, !.task = t].state = s
  BY DEF Operations
<1>3. [r EXCEPT !.state = s, !.task = t].task = t
  BY DEF Operations
<1> QED BY <1>1, <1>2, <1>3

LEMMA PrepareSaveKeeps ==
  ASSUME IInv, NEW c \in Callers, PrepareSave(c)
  PROVE  IInv'
<1>1. pc[c] = "prepare" /\ pc[c] # "idle"
  BY DEF PrepareSave
<1> DEFINE record == [state |-> "PREPARED", task |-> None, reference |-> FALSE]
<1>2. record \in Operations /\ record.state = "PREPARED"
  BY DEF Operations, OperationStates
<1>3. Op(c) \in LiveOps /\ Op(c) \notin overlapped => charges[Op(c)] = 0 /\ receipt[Op(c)] = None
  BY <1>1, InCall DEF UndisturbedOK, AloneOK, PaidFor
<1>4. operation' = [operation EXCEPT ![Op(c)] = record] /\ Return(c) /\ SavesOperation
  BY DEF PrepareSave, SaveOperation
<1> HIDE DEF record
<1> QED BY <1>1, <1>2, <1>3, <1>4, InCall, OperationSaved DEF SavesOperation, GoingStates

LEMMA SubmitUncertainKeeps ==
  ASSUME IInv, NEW c \in Callers, SubmitUncertain(c)
  PROVE  IInv'
<1>1. pc[c] = "uncertain" /\ pc[c] # "idle"
  BY DEF SubmitUncertain
<1> DEFINE record == [Record(c) EXCEPT !.state = "UNCERTAIN", !.task = None]
<1>2. Record(c) \in Operations
  BY <1>1, InCall DEF FrameOK
<1>3. record \in Operations /\ record.state = "UNCERTAIN"
  <2>1. "UNCERTAIN" \in OperationStates
    BY DEF OperationStates
  <2> QED BY <1>2, <2>1 DEF Operations
<1>4. operation' = [operation EXCEPT ![Op(c)] = record] /\ Return(c) /\ SavesOperation
  BY DEF SubmitUncertain, SaveOperation
<1> HIDE DEF record
<1> QED BY <1>1, <1>3, <1>4, InCall, OperationSaved DEF SavesOperation, GoingStates

LEMMA SubmitSaveKeeps ==
  ASSUME IInv, NEW c \in Callers, SubmitSave(c)
  PROVE  IInv'
<1>1. pc[c] = "submitted" /\ pc[c] # "idle"
  BY DEF SubmitSave
<1>2. Record(c) \in Operations
  BY <1>1, InCall DEF FrameOK
<1>3. CASE SubmitVerified(c)
  <2> DEFINE record == [Record(c) EXCEPT !.state = "SUBMITTED"]
  <2>1. record \in Operations /\ record.state = "SUBMITTED" /\ record.task = Record(c).task
    BY <1>2, StateReplaced DEF OperationStates
  <2>2. operation' = [operation EXCEPT ![Op(c)] = record] /\ Return(c) /\ SavesOperation
    BY <1>3 DEF SubmitSave, SaveState, SaveOperation
  <2>3. Op(c) \in LiveOps => /\ receipt[Op(c)] # None
                             /\ ReceiptMatches(receipt[Op(c)], result[Op(c)])
                             /\ receipt[Op(c)].task = record.task
    BY <1>3, <2>1 DEF SubmitVerified
  <2> HIDE DEF record
  <2> QED BY <1>1, <2>1, <2>2, <2>3, InCall, OperationSaved DEF SavesOperation
<1>4. CASE ~SubmitVerified(c)
  <2> DEFINE record == [Record(c) EXCEPT !.state = "RECONCILIATION_REQUIRED", !.task = None]
  <2>1. record \in Operations /\ record.state = "RECONCILIATION_REQUIRED"
    <3>1. "RECONCILIATION_REQUIRED" \in OperationStates
      BY DEF OperationStates
    <3> QED BY <1>2, <3>1 DEF Operations
  <2>2. operation' = [operation EXCEPT ![Op(c)] = record] /\ Return(c) /\ SavesOperation
    BY <1>4 DEF SubmitSave, SaveOperation
  <2> HIDE DEF record
  <2> QED BY <1>1, <2>1, <2>2, InCall, OperationSaved DEF SavesOperation, GoingStates
<1> QED BY <1>3, <1>4

(* _reconciliation: the state needs no receipt.                            *)
LEMMA ReconciliationKeeps ==
  ASSUME IInv, NEW c \in Callers, pc[c] \notin {"idle", "prepare"}, Reconciliation(c),
         SavesOperation
  PROVE  IInv'
<1> DEFINE record == [Record(c) EXCEPT !.state = "RECONCILIATION_REQUIRED"]
<1>1. Record(c) \in Operations
  BY InCall DEF FrameOK
<1>2. record \in Operations /\ record.state = "RECONCILIATION_REQUIRED"
  BY <1>1, StateReplaced DEF OperationStates
<1>3. operation' = [operation EXCEPT ![Op(c)] = record] /\ Return(c)
  BY DEF Reconciliation, SaveState, SaveOperation
<1> HIDE DEF record
<1> QED BY <1>2, <1>3, InCall, OperationSaved DEF SavesOperation, GoingStates

LEMMA PolledStates ==
  ASSUME NEW status \in Statuses \cup {"SUCCEEDED", "CANCELLED"}
  PROVE  /\ PolledState(status) \in OperationStates
         /\ PolledState(status) # "PREPARED"
BY ProvidersAssumption DEF PolledState, OperationStates, ResultStatuses

LEMMA PollSaveKeeps ==
  ASSUME IInv, NEW c \in Callers, PollSave(c)
  PROVE  IInv'
<1>1. pc[c] = "poll" /\ pc[c] # "idle" /\ Return(c) /\ SavesOperation
  BY DEF PollSave
<1>2. Record(c) \in Operations
  BY <1>1, InCall DEF FrameOK
<1>3. CASE Task(c, Record(c).task) = {}
  BY <1>1, <1>3, InCall, NothingSaved DEF PollSave, SavesOperation, store
<1>4. CASE Task(c, Record(c).task) # {}
  <2>1. PICK task \in Task(c, Record(c).task) :
          SaveState(c, IF task.op = Op(c) THEN PolledState(task.status)
                                          ELSE "RECONCILIATION_REQUIRED")
    BY <1>4 DEF PollSave
  <2>2. task \in Results
    BY <1>1, InCall, TaskIsResult DEF Task
  <2>3. PICK state : state = IF task.op = Op(c) THEN PolledState(task.status)
                                                ELSE "RECONCILIATION_REQUIRED"
    OBVIOUS
  <2>4. state \in OperationStates /\ state # "PREPARED"
    BY <2>2, <2>3, PolledStates DEF Results, OperationStates
  <2> DEFINE record == [Record(c) EXCEPT !.state = state]
  <2>5. record \in Operations /\ record.state = state /\ record.task = Record(c).task
    BY <1>2, <2>4, StateReplaced
  <2>6. operation' = [operation EXCEPT ![Op(c)] = record]
    BY <2>1, <2>3 DEF SaveState, SaveOperation
  <2>7. Op(c) \in LiveOps => receipt[Op(c)] # None
    BY <1>1, InCall DEF FrameOK, GoingSteps, Received
  <2>8. Op(c) \in LiveOps /\ Op(c) \notin overlapped =>
          ReceiptMatches(receipt[Op(c)], result[Op(c)]) /\ receipt[Op(c)].task = Record(c).task
    BY <1>1, InCall DEF UndisturbedOK, SubmissionOK, GoingSteps, AloneOK, PaidFor
  <2> HIDE DEF record
  <2> QED BY <1>1, <2>4, <2>5, <2>6, <2>7, <2>8, InCall, OperationSaved DEF SavesOperation
<1> QED BY <1>3, <1>4

LEMMA SaveReferenceKeeps ==
  ASSUME IInv, NEW c \in Callers, SaveReference(c)
  PROVE  IInv'
<1>1. pc[c] = "reference" /\ pc[c] # "idle" /\ Return(c) /\ SavesOperation
  BY DEF SaveReference
<1> DEFINE record == [Record(c) EXCEPT !.reference = TRUE]
<1>2. record \in Operations /\ record.state = Record(c).state /\ record.task = Record(c).task
  BY <1>1, InCall DEF FrameOK, Operations
<1>3. operation' = [operation EXCEPT ![Op(c)] = record]
  BY DEF SaveReference, SaveOperation
<1>4. Op(c) \in LiveOps => receipt[Op(c)] # None
  BY <1>1, InCall DEF FrameOK, GoingSteps, Received
<1>5. Op(c) \in LiveOps /\ Op(c) \notin overlapped =>
        /\ record.state \in GoingStates
        /\ ReceiptMatches(receipt[Op(c)], result[Op(c)])
        /\ receipt[Op(c)].task = record.task
  BY <1>1, <1>2, InCall DEF UndisturbedOK, SubmissionOK, GoingSteps, AloneOK, PaidFor, InState
<1> HIDE DEF record
<1> QED BY <1>1, <1>2, <1>3, <1>4, <1>5, InCall, OperationSaved DEF SavesOperation, GoingStates

LEMMA ReconcileSaveKeeps ==
  ASSUME IInv, NEW c \in Callers, ReconcileSave(c)
  PROVE  IInv'
<1> DEFINE o == Op(c)
           ids == {tasks[c][i].task : i \in Known(c, o)}
           matches == ids \cap (IF Record(c).task = None THEN ids ELSE {Record(c).task})
<1>1. pc[c] = "reconcile" /\ pc[c] # "idle" /\ Return(c) /\ SavesOperation
  BY DEF ReconcileSave
<1>2. Record(c) \in Operations /\ o \in Ops
  BY <1>1, InCall DEF FrameOK
<1>3. CASE receipt[o] # None /\ ReceiptMatches(receipt[o], result[o])
  <2> DEFINE record == Reconciled(Record(c), receipt[o])
  <2>1. receipt[o] \in Receipts
    BY <1>1, <1>3, InCall DEF RecordsOK
  <2>2. record \in Operations /\ record.state = "RESULT_AVAILABLE"
          /\ record.task = receipt[o].task
    BY <1>2, <2>1 DEF Reconciled, Operations, OperationStates, Receipts
  <2>3. operation' = [operation EXCEPT ![o] = record]
    BY <1>3 DEF ReconcileSave, SaveOperation
  <2> HIDE DEF record
  <2> QED BY <1>1, <1>2, <1>3, <2>2, <2>3, OperationSaved DEF SavesOperation
<1>4. CASE /\ ~(receipt[o] # None /\ ReceiptMatches(receipt[o], result[o]))
           /\ receipt[o] # None \/ o \in LiveOps \/ matches = {}
  <2>1. SaveState(c, "RECONCILIATION_REQUIRED")
    BY <1>4 DEF ReconcileSave
  <2> QED BY <1>1, <2>1, ReconciliationKeeps DEF Reconciliation
<1>5. CASE receipt[o] = None /\ o \notin LiveOps /\ matches # {}
  <2>1. PICK task \in matches :
          SaveOperation(c, [Record(c) EXCEPT !.state = "SUBMITTED", !.task = task])
    BY <1>5 DEF ReconcileSave
  <2>2. task \in TaskIds
    BY <1>1, InCall, TaskIsResult DEF Known, Results
  <2> DEFINE record == [Record(c) EXCEPT !.state = "SUBMITTED", !.task = task]
  <2>3. record \in Operations
    BY <1>2, <2>2, NewTask DEF OperationStates
  <2>4. operation' = [operation EXCEPT ![o] = record]
    BY <2>1 DEF SaveOperation
  <2> HIDE DEF record
  <2> QED BY <1>1, <1>2, <1>5, <2>3, <2>4, OperationSaved DEF SavesOperation
<1> QED BY <1>3, <1>4, <1>5

-----------------------------------------------------------------------------
(* A step that goes on within its call.                                    *)

LEMMA GoingOn ==
  ASSUME Domains, NEW c \in Callers, NEW label, Goto(c, label)
  PROVE  /\ pc'[c] = label /\ DOMAIN pc' = Callers
         /\ \A d \in Callers \ {c} : pc'[d] = pc[d]
BY DEF Domains, Goto

(* The records are untouched.                                              *)
LEMMA SameRecordsKeep ==
  ASSUME IInv, NEW o \in Ops, SameRecords(o), UNCHANGED <<overlapped, crossed, edited>>
  PROVE  RecordsOK(o)' /\ AloneOK(o)'
<1>1. RecordsOK(o)'
  BY DEF IInv, RecordsOK, SameRecords, AnswerTo, EffectOf, InState
<1>2. AloneOK(o)'
  BY DEF IInv, AloneOK, PaidFor, AcceptedWhole, Whole, CrossedAt, InState, ReceiptMatches, SameRecords
<1> QED BY <1>1, <1>2

LEMMA SubmitIntentKeeps ==
  ASSUME IInv, NEW c \in Callers, SubmitIntent(c)
  PROVE  IInv'
<1> PICK o \in Ops : o = Op(c)
  BY InCall DEF SubmitIntent
<1> DEFINE record == [Record(c) EXCEPT !.state = "SUBMISSION_IN_PROGRESS"]
<1>1. pc[c] = "submit" /\ pc[c] # "idle" /\ SavesOperation /\ Goto(c, "invoke")
  BY DEF SubmitIntent
<1>2. FrameOK(c) /\ UndisturbedOK(c) /\ Domains /\ Record(c) \in Operations
  BY <1>1, InCall DEF FrameOK
<1>3. record \in Operations /\ record.state = "SUBMISSION_IN_PROGRESS" /\ record # None
  BY <1>2, StateReplaced, NoneAssumption DEF OperationStates
<1>4. operation'[o] = record /\ DOMAIN operation' = Ops
        /\ \A x \in Ops \ {o} : operation'[x] = operation[x]
  BY <1>2 DEF SubmitIntent, SaveState, SaveOperation, Domains
<1>5. /\ DOMAIN frame' = Callers /\ \A d \in Callers \ {c} : frame'[d] = frame[d]
      /\ DOMAIN frame'[c] = FrameFields /\ frame'[c].op = o /\ frame'[c].record = record
      /\ frame'[c].done = frame[c].done
  BY <1>2 DEF SubmitIntent, Domains, FrameOK, FrameFields, Op, Record
<1> HIDE DEF record
<1>6. Domains'
  BY <1>1, <1>2, <1>4, <1>5, GoingOn DEF Domains, SavesOperation, workspace, provider
<1>7. Serves(c, o)
  BY <1>1, <1>2, <1>3, <1>4, <1>5, GoingOn DEF Serves, ApplySteps, SameRecords, SameCaller, Kept,
    SavesOperation, workspace, provider, history
<1>8. RecordsOK(o)'
  BY <1>1, <1>3, <1>4 DEF IInv, RecordsOK, SavesOperation, provider, InState, GoingStates,
    AnswerTo, EffectOf
<1>9. AloneOK(o)'
  BY <1>1, <1>3, <1>4 DEF IInv, AloneOK, PaidFor, InState, GoingStates, AcceptedWhole, Whole, CrossedAt,
    SavesOperation, provider, history
<1>10. FrameOK(c)'
  BY <1>1, <1>2, <1>3, <1>4, <1>5, GoingOn DEF FrameOK, Op, Record, AnswerSteps, PatchSteps,
    CancelSteps, GoingSteps
<1>11. o \in LiveOps /\ o \notin overlapped => charges[o] = 0 /\ receipt[o] = None
  BY <1>1, InCall DEF UndisturbedOK, SubmissionOK, AloneOK, PaidFor, InState
<1>12. UndisturbedOK(c)'
  BY <1>1, <1>2, <1>3, <1>4, <1>5, <1>11, GoingOn DEF UndisturbedOK, SubmissionOK, PatchOK, Op, InState,
    GoingSteps, PatchSteps, SavesOperation, provider, history
<1>13. TasksOK(c)'
  BY <1>1, <1>7, StillRemembered DEF IInv, SavesOperation, provider
<1> QED BY <1>6, <1>7, <1>8, <1>9, <1>10, <1>12, <1>13, ServiceKeeps DEF CallerOK

(* What a provider remembers once more.                                    *)
LEMMA TaskAppended ==
  ASSUME NEW c \in Callers, TasksOK(c), NEW answer \in Results, Remembered(answer.op)',
         DOMAIN tasks = Callers, tasks' = [tasks EXCEPT ![c] = Append(@, answer)],
         \A x \in Ops : Remembered(x) => Remembered(x)'
  PROVE  TasksOK(c)'
<1>1. tasks[c] \in Seq(Results) /\ tasks'[c] = Append(tasks[c], answer)
  BY DEF TasksOK
<1>2. /\ tasks'[c] \in Seq(Results)
      /\ \A i \in DOMAIN tasks'[c] : \/ i \in DOMAIN tasks[c] /\ tasks'[c][i] = tasks[c][i]
                                     \/ tasks'[c][i] = answer
  BY <1>1, AppendProperties
<1>3. \A i \in DOMAIN tasks[c] : tasks[c][i].op \in Ops /\ Remembered(tasks[c][i].op)
  BY TaskIsResult DEF TasksOK
<1>4. \A i \in DOMAIN tasks'[c] : tasks'[c][i].op \in LiveOps =>
        receipt'[tasks'[c][i].op] # None /\ result'[tasks'[c][i].op] # None
  BY <1>2, <1>3 DEF Remembered, Received
<1> QED BY <1>2, <1>4 DEF TasksOK, Remembered, Received

LEMMA AnswersAreResults ==
  ASSUME NEW o \in Ops, NEW n \in Nat, NEW answer \in Answers(o, n)
  PROVE  answer \in Results /\ answer.op = o
<1>1. PICK status \in Statuses \cup {"SUCCEEDED"} :
        answer = [op |-> o, task |-> <<o \in LiveOps, n>>, status |-> status]
  BY DEF Answers
<1>2. (o \in LiveOps) \in BOOLEAN
  OBVIOUS
<1>3. <<o \in LiveOps, n>> \in TaskIds
  BY <1>2 DEF TaskIds
<1> HIDE DEF TaskIds
<1> QED BY <1>1, <1>3 DEF Results

LEMMA OfflineTasksNumber ==
  ASSUME NEW c \in Callers, TasksOK(c)
  PROVE  OfflineTasks(c) + 1 \in Nat
<1>1. DOMAIN tasks[c] = 1..Len(tasks[c]) /\ Len(tasks[c]) \in Nat
  BY DEF TasksOK
<1>2. IsFiniteSet(1..Len(tasks[c]))
  BY <1>1, FS_Interval
<1>3. IsFiniteSet({i \in DOMAIN tasks[c] : tasks[c][i].op \notin LiveOps})
  BY <1>1, <1>2, FS_Subset
<1> QED BY <1>3, FS_CardinalityType DEF OfflineTasks

LEMMA SubmitOfflineKeeps ==
  ASSUME IInv, NEW c \in Callers, SubmitOffline(c)
  PROVE  IInv'
<1> PICK o \in Ops : o = Op(c)
  BY InCall DEF SubmitOffline
<1>1. /\ pc[c] = "invoke" /\ pc[c] # "idle" /\ o \notin LiveOps /\ Goto(c, "submitted")
      /\ UNCHANGED <<store, workspace, charges, history>>
  BY DEF SubmitOffline
<1>2. FrameOK(c) /\ UndisturbedOK(c) /\ Domains /\ TasksOK(c) /\ Record(c) \in Operations
  BY <1>1, InCall DEF FrameOK
<1>3. PICK answer \in IF Known(c, o) # {} THEN {tasks[c][i] : i \in Known(c, o)}
                                          ELSE Answers(o, OfflineTasks(c) + 1) :
        /\ tasks' = [tasks EXCEPT ![c] = IF Known(c, o) # {} THEN @ ELSE Append(@, answer)]
        /\ frame' = [frame EXCEPT ![c].record.task = answer.task]
  BY DEF SubmitOffline
<1>4. answer \in Results /\ answer.op = o
  <2>1. CASE Known(c, o) # {}
    BY <1>2, <1>3, <2>1, TaskIsResult DEF Known
  <2>2. CASE Known(c, o) = {}
    BY <1>2, <1>3, <2>2, AnswersAreResults, OfflineTasksNumber
  <2> QED BY <2>1, <2>2
<1>5. answer.task \in TaskIds
  BY <1>4 DEF Results
<1>6. /\ DOMAIN frame' = Callers /\ \A d \in Callers \ {c} : frame'[d] = frame[d]
      /\ DOMAIN frame'[c] = FrameFields /\ frame'[c].op = o
      /\ frame'[c].record \in Operations /\ frame'[c].done = frame[c].done
  BY <1>2, <1>3, <1>5 DEF Domains, FrameOK, FrameFields, Op, Record, Operations
<1>7. Domains'
  BY <1>1, <1>2, <1>3, <1>6, GoingOn DEF Domains, store, workspace
<1>8. SameRecords(o)
  BY <1>1 DEF SameRecords, store
<1>9. Serves(c, o)
  BY <1>1, <1>2, <1>3, <1>6, GoingOn DEF Serves, ApplySteps, SameRecords, SameCaller, Kept, Domains,
    store, workspace, history
<1>10. RecordsOK(o)' /\ AloneOK(o)'
  BY <1>1, <1>8, SameRecordsKeep DEF history
<1>11. FrameOK(c)'
  BY <1>1, <1>2, <1>6, GoingOn DEF FrameOK, Op, Record, AnswerSteps, PatchSteps,
    CancelSteps, GoingSteps, store
<1>12. UndisturbedOK(c)'
  BY <1>1, <1>2, <1>6, GoingOn DEF UndisturbedOK, SubmissionOK, PatchOK, Op
<1>13. TasksOK(c)'
  <2>1. CASE Known(c, o) # {}
    BY <1>2, <1>3, <1>9, <2>1, StillRemembered DEF Domains
  <2>2. CASE Known(c, o) = {}
    <3>1. tasks' = [tasks EXCEPT ![c] = Append(@, answer)]
      BY <1>3, <2>2
    <3>2. Remembered(answer.op)' /\ \A x \in Ops : Remembered(x) => Remembered(x)'
      BY <1>1, <1>4 DEF Remembered, Received, store
    <3> QED BY <1>2, <1>4, <3>1, <3>2, TaskAppended DEF Domains
  <2> QED BY <2>1, <2>2
<1> QED BY <1>7, <1>9, <1>10, <1>11, <1>12, <1>13, ServiceKeeps DEF CallerOK

(* A turn that failed: it is charged or not.                               *)
LEMMA ChargedAtMost ==
  ASSUME IInv, NEW c \in Callers, NEW o \in Ops, o = Op(c), pc[c] = "invoke", o \in LiveOps,
         UNCHANGED <<store, workspace, tasks, history>>,
         charges' \in {charges, [charges EXCEPT ![o] = @ + 1]}
  PROVE  /\ DOMAIN charges' = Ops /\ \A x \in Ops \ {o} : charges'[x] = charges[x]
         /\ RecordsOK(o)' /\ AloneOK(o)'
<1>1. Domains /\ RecordsOK(o) /\ AloneOK(o) /\ UndisturbedOK(c)
  BY InCall
<1>2. charges[o] \in Nat
  BY <1>1 DEF RecordsOK
<1>3. charges'[o] \in {charges[o], charges[o] + 1} /\ DOMAIN charges' = Ops
        /\ \A x \in Ops \ {o} : charges'[x] = charges[x]
  BY <1>1 DEF Domains
<1>4. RecordsOK(o)'
  BY <1>1, <1>2, <1>3 DEF RecordsOK, AnswerTo, EffectOf, InState, store
<1>5. o \notin overlapped => InState(o, {"SUBMISSION_IN_PROGRESS"}) /\ charges[o] = 0
  BY <1>1 DEF UndisturbedOK, SubmissionOK
<1>6. AloneOK(o)'
  BY <1>1, <1>2, <1>3, <1>5 DEF AloneOK, PaidFor, AcceptedWhole, Whole, CrossedAt, InState, GoingStates,
    store, history
<1> QED BY <1>3, <1>4, <1>6

LEMMA SubmitLiveKeeps ==
  ASSUME IInv, NEW c \in Callers, SubmitLive(c)
  PROVE  IInv'
<1> PICK o \in Ops : o = Op(c)
  BY InCall DEF SubmitLive
<1>1. /\ pc[c] = "invoke" /\ pc[c] # "idle" /\ o \in LiveOps
      /\ UNCHANGED <<store, workspace, tasks, history>>
      /\ charges' \in {charges, [charges EXCEPT ![o] = @ + 1]}
  BY DEF SubmitLive
<1>2. FrameOK(c) /\ UndisturbedOK(c) /\ Domains /\ TasksOK(c) /\ Record(c) \in Operations
        /\ operation[o] \in Operations /\ RecordsOK(o)
  BY <1>1, InCall DEF FrameOK
<1>3. /\ DOMAIN charges' = Ops /\ \A x \in Ops \ {o} : charges'[x] = charges[x]
      /\ RecordsOK(o)' /\ AloneOK(o)'
  BY <1>1, ChargedAtMost
<1>4. /\ DOMAIN frame' = Callers /\ \A d \in Callers \ {c} : frame'[d] = frame[d]
      /\ DOMAIN frame'[c] = FrameFields /\ frame'[c].op = o
      /\ frame'[c].record \in Operations /\ frame'[c].done = frame[c].done
      /\ \/ Goto(c, "uncertain")
         \/ Goto(c, "sink") /\ AnswerTo(o, frame'[c].result)
  <2>1. CASE Goto(c, "uncertain") /\ UNCHANGED frame
    BY <1>2, <2>1 DEF Domains, FrameOK, Op, Record
  <2>2. CASE /\ Goto(c, "sink")
             /\ \E answer \in Answers(o, charges[o] + 1) :
                  frame' = [frame EXCEPT ![c].result = answer, ![c].record.task = answer.task]
    <3>1. PICK answer \in Answers(o, charges[o] + 1) :
            frame' = [frame EXCEPT ![c].result = answer, ![c].record.task = answer.task]
      BY <2>2
    <3>2. charges[o] + 1 \in Nat
      BY <1>2 DEF RecordsOK
    <3>3. answer \in Results /\ answer.op = o
      BY <3>1, <3>2, AnswersAreResults
    <3>4. answer.task \in TaskIds
      BY <3>3 DEF Results
    <3> QED BY <1>2, <2>2, <3>1, <3>3, <3>4 DEF Domains, FrameOK, FrameFields, Op, Record, Operations,
      AnswerTo
  <2> QED BY <2>1, <2>2 DEF SubmitLive
<1>5. Domains'
  BY <1>1, <1>2, <1>3, <1>4, GoingOn DEF Domains, store, workspace
<1>6. Serves(c, o)
  BY <1>1, <1>2, <1>3, <1>4, GoingOn DEF Serves, ApplySteps, SameRecords, SameCaller, Kept, Domains,
    store, workspace, history
<1>7. FrameOK(c)'
  BY <1>1, <1>2, <1>4, GoingOn DEF FrameOK, Op, Record, AnswerSteps, PatchSteps,
    CancelSteps, GoingSteps, store, AnswerTo
<1>8. UndisturbedOK(c)'
  BY <1>1, <1>2, <1>4, GoingOn DEF UndisturbedOK, SubmissionOK, PatchOK, Op, InState,
    GoingSteps, PatchSteps, store, history
<1>9. TasksOK(c)'
  BY <1>1, <1>2, <1>6, StillRemembered
<1> QED BY <1>3, <1>5, <1>6, <1>7, <1>8, <1>9, ServiceKeeps DEF CallerOK

(* A step that keeps what its caller has loaded.                           *)
LEMMA MovesOn ==
  ASSUME IInv, NEW c \in Callers, NEW o \in Ops, o = Op(c), pc[c] # "idle",
         NEW label, Goto(c, label), label \in ApplySteps => pc[c] \in ApplySteps,
         UNCHANGED <<frame, overlapped, crossed, edited, files, base>>,
         \A x \in Ops \ {o} : SameRecords(x), Kept(o), \A d \in Callers \ {c} : tasks'[d] = tasks[d]
  PROVE  /\ Serves(c, o) /\ Op(c)' = o /\ pc'[c] = label /\ frame'[c] = frame[c]
         /\ tasks' = tasks => TasksOK(c)'
<1>1. Serves(c, o)
  BY GoingOn DEF IInv, Serves, SameCaller, Op
<1> QED BY <1>1, GoingOn, StillRemembered DEF IInv, Op

LEMMA SinkResultKeeps ==
  ASSUME IInv, NEW c \in Callers, SinkResult(c)
  PROVE  IInv'
<1> PICK o \in Ops : o = Op(c)
  BY InCall DEF SinkResult
<1>1. /\ pc[c] = "sink" /\ pc[c] # "idle"
      /\ UNCHANGED <<operation, receipt, effect, cancellation, workspace, provider, frame, history>>
  BY DEF SinkResult
<1>2. PICK label \in {"receipt", "uncertain"} :
        /\ Goto(c, label)
        /\ \/ label = "receipt" /\ result' = [result EXCEPT ![o] = frame[c].result]
           \/ label = "uncertain" /\ UNCHANGED result
  <2>1. \/ result' = [result EXCEPT ![o] = frame[c].result] /\ Goto(c, "receipt")
        \/ UNCHANGED result /\ Goto(c, "uncertain")
    BY DEF SinkResult
  <2> QED BY <2>1
<1>3. FrameOK(c) /\ UndisturbedOK(c) /\ Domains /\ RecordsOK(o) /\ AloneOK(o)
  BY <1>1, InCall
<1>4. /\ AnswerTo(o, frame[c].result) /\ o \in LiveOps
      /\ o \notin overlapped => InState(o, {"SUBMISSION_IN_PROGRESS"}) /\ receipt[o] = None
  BY <1>1, <1>3 DEF FrameOK, AnswerSteps, UndisturbedOK, SubmissionOK
<1>5. frame[c].result # None
  BY <1>4, NoneAssumption DEF AnswerTo
<1>6. /\ DOMAIN result' = Ops /\ \A x \in Ops \ {o} : result'[x] = result[x]
      /\ \/ label = "receipt" /\ result'[o] = frame[c].result
         \/ label = "uncertain" /\ result'[o] = result[o]
  BY <1>2, <1>3 DEF Domains
<1>7. Domains'
  BY <1>1, <1>2, <1>3, <1>6, GoingOn DEF Domains, workspace, provider
<1>8. /\ Serves(c, o) /\ Op(c)' = o /\ pc'[c] = label /\ frame'[c] = frame[c] /\ TasksOK(c)'
  <2>1. \A x \in Ops \ {o} : SameRecords(x)
    BY <1>1, <1>6 DEF SameRecords, provider
  <2>2. Kept(o)
    BY <1>1, <1>5, <1>6 DEF Kept
  <2> QED BY <1>1, <1>2, <2>1, <2>2, MovesOn DEF ApplySteps, workspace, provider, history
<1>9. RecordsOK(o)'
  BY <1>1, <1>3, <1>4, <1>5, <1>6 DEF RecordsOK, AnswerTo, EffectOf, InState, provider
<1>10. AloneOK(o)'
  BY <1>1, <1>3, <1>4, <1>6 DEF AloneOK, PaidFor, AcceptedWhole, Whole, CrossedAt, InState, GoingStates,
    provider, history
<1>11. FrameOK(c)'
  BY <1>1, <1>2, <1>3, <1>4, <1>5, <1>6, <1>8 DEF FrameOK, Op, Record, Done, AnswerSteps, PatchSteps,
    CancelSteps, GoingSteps, AnswerTo
<1>12. UndisturbedOK(c)'
  BY <1>1, <1>2, <1>4, <1>8 DEF UndisturbedOK, SubmissionOK, PatchOK, InState,
    GoingSteps, PatchSteps, history
<1> QED BY <1>7, <1>8, <1>9, <1>10, <1>11, <1>12, ServiceKeeps DEF CallerOK

LEMMA ReceiptIsReceipt ==
  ASSUME NEW answer \in Results
  PROVE  /\ Receipt(answer) \in Receipts /\ Receipt(answer) # None
         /\ Receipt(answer).task = answer.task /\ ReceiptMatches(Receipt(answer), answer)
<1>1. Receipt(answer) \in Receipts
  BY DEF Receipt, Receipts, Results
<1> QED BY <1>1, NoneAssumption DEF Receipt, ReceiptMatches

LEMMA SinkReceiptKeeps ==
  ASSUME IInv, NEW c \in Callers, SinkReceipt(c)
  PROVE  IInv'
<1> PICK o \in Ops : o = Op(c)
  BY InCall DEF SinkReceipt
<1> PICK answer : answer = frame[c].result
  OBVIOUS
<1>1. /\ pc[c] = "receipt" /\ pc[c] # "idle"
      /\ UNCHANGED <<operation, result, effect, cancellation, workspace, charges, frame, history>>
  BY DEF SinkReceipt
<1>2. FrameOK(c) /\ UndisturbedOK(c) /\ Domains /\ RecordsOK(o) /\ AloneOK(o) /\ TasksOK(c)
  BY <1>1, InCall
<1>3. /\ AnswerTo(o, answer) /\ o \in LiveOps /\ result[o] # None
      /\ o \notin overlapped => InState(o, {"SUBMISSION_IN_PROGRESS"})
  BY <1>1, <1>2 DEF FrameOK, AnswerSteps, UndisturbedOK, SubmissionOK
<1>4. Receipt(answer) \in Receipts /\ Receipt(answer) # None
  BY <1>3, ReceiptIsReceipt DEF AnswerTo
<1>5. PICK label \in {"submitted", "uncertain"} :
        /\ Goto(c, label)
        /\ \/ /\ receipt' = [receipt EXCEPT ![o] = Receipt(answer)]
              /\ tasks' = [tasks EXCEPT ![c] = Append(@, answer)]
           \/ UNCHANGED <<receipt, tasks>>
  <2>1. \/ /\ receipt' = [receipt EXCEPT ![o] = Receipt(answer)]
           /\ tasks' = [tasks EXCEPT ![c] = Append(@, answer)]
           /\ Goto(c, "submitted")
        \/ UNCHANGED <<receipt, tasks>> /\ Goto(c, "uncertain")
    BY DEF SinkReceipt
  <2> QED BY <2>1
<1>6. /\ DOMAIN receipt' = Ops /\ \A x \in Ops \ {o} : receipt'[x] = receipt[x]
      /\ receipt'[o] \in {Receipt(answer), receipt[o]}
      /\ DOMAIN tasks' = Callers /\ \A d \in Callers \ {c} : tasks'[d] = tasks[d]
  BY <1>2, <1>5 DEF Domains
<1>7. Domains'
  BY <1>1, <1>2, <1>5, <1>6, GoingOn DEF Domains, workspace
<1>8. Kept(o) /\ \A x \in Ops \ {o} : SameRecords(x)
  BY <1>1, <1>4, <1>6 DEF Kept, SameRecords
<1>9. /\ Serves(c, o) /\ Op(c)' = o /\ pc'[c] = label /\ frame'[c] = frame[c]
      /\ tasks' = tasks => TasksOK(c)'
  BY <1>1, <1>5, <1>6, <1>8, MovesOn DEF ApplySteps, workspace, history
<1>10. RecordsOK(o)'
  BY <1>1, <1>2, <1>3, <1>4, <1>6 DEF RecordsOK, AnswerTo, EffectOf, InState
<1>11. AloneOK(o)'
  BY <1>1, <1>2, <1>3, <1>6 DEF AloneOK, PaidFor, AcceptedWhole, Whole, CrossedAt, InState, GoingStates,
    history
<1>12. FrameOK(c)'
  BY <1>1, <1>2, <1>3, <1>5, <1>9 DEF FrameOK, Op, Record, Done, AnswerSteps, PatchSteps,
    CancelSteps, GoingSteps
<1>13. UndisturbedOK(c)'
  BY <1>5, <1>9 DEF UndisturbedOK, SubmissionOK, PatchOK, GoingSteps, PatchSteps
<1>14. TasksOK(c)'
  <2>1. CASE UNCHANGED <<receipt, tasks>>
    BY <2>1, <1>9
  <2>2. CASE /\ receipt' = [receipt EXCEPT ![o] = Receipt(answer)]
             /\ tasks' = [tasks EXCEPT ![c] = Append(@, answer)]
    <3>1. receipt'[o] # None /\ result'[o] # None
      BY <1>1, <1>2, <1>3, <1>4, <2>2 DEF Domains
    <3>2. answer \in Results /\ Remembered(answer.op)'
      BY <1>3, <3>1 DEF AnswerTo, Remembered, Received
    <3>3. \A x \in Ops : Remembered(x) => Remembered(x)'
      BY <1>1, <1>6, <3>1 DEF Remembered, Received
    <3> QED BY <1>2, <2>2, <3>2, <3>3, TaskAppended DEF Domains
  <2> QED BY <1>5, <2>1, <2>2
<1> QED BY <1>7, <1>9, <1>10, <1>11, <1>12, <1>13, <1>14, ServiceKeeps DEF CallerOK

(* A step that loads a record and touches none.                            *)
LEMMA LoadsOn ==
  ASSUME IInv, NEW c \in Callers, NEW o \in Ops, o = Op(c), pc[c] # "idle",
         NEW label, Goto(c, label), label \in ApplySteps => pc[c] \in ApplySteps,
         DOMAIN frame' = Callers, frame'[c].op = o,
         \A d \in Callers \ {c} : frame'[d] = frame[d],
         UNCHANGED <<store, workspace, provider, history>>
  PROVE  /\ Domains' /\ Serves(c, o) /\ Op(c)' = o /\ pc'[c] = label
         /\ RecordsOK(o)' /\ AloneOK(o)' /\ TasksOK(c)'
<1>1. Domains'
  BY GoingOn DEF IInv, Domains, store, workspace, provider
<1>2. SameRecords(o)
  BY DEF SameRecords, store, provider
<1>3. Serves(c, o)
  BY GoingOn DEF IInv, Serves, ApplySteps, SameRecords, SameCaller, Kept, store, workspace, provider, history
<1>4. RecordsOK(o)' /\ AloneOK(o)'
  BY <1>2, SameRecordsKeep DEF history
<1>5. TasksOK(c)'
  BY <1>3, StillRemembered DEF IInv, provider
<1> QED BY <1>1, <1>3, <1>4, <1>5, GoingOn DEF IInv, Op

LEMMA ResultFoundKeeps ==
  ASSUME IInv, NEW c \in Callers, pc[c] = "result", NEW task \in Task(c, Record(c).task),
         task.op = Op(c),
         Op(c) \in LiveOps => receipt[Op(c)] # None /\ ReceiptMatches(receipt[Op(c)], task),
         Goto(c, "saveResult"), UNCHANGED operation, SavesOperation,
         frame' = [frame EXCEPT ![c].result = task]
  PROVE  IInv'
<1> PICK o \in Ops : o = Op(c)
  BY InCall
<1>1. pc[c] # "idle" /\ UNCHANGED <<store, workspace, provider, history>>
  BY DEF SavesOperation, store
<1>2. FrameOK(c) /\ UndisturbedOK(c) /\ Domains /\ TasksOK(c)
  BY <1>1, InCall
<1>3. AnswerTo(o, task)
  BY <1>2, TaskIsResult DEF Task, AnswerTo
<1>4. /\ DOMAIN frame' = Callers /\ \A d \in Callers \ {c} : frame'[d] = frame[d]
      /\ DOMAIN frame'[c] = FrameFields /\ frame'[c].op = o
      /\ frame'[c].record = Record(c) /\ frame'[c].result = task
      /\ frame'[c].done = frame[c].done
  BY <1>2 DEF Domains, FrameOK, FrameFields, Op, Record
<1>5. /\ Domains' /\ Serves(c, o) /\ Op(c)' = o /\ pc'[c] = "saveResult"
      /\ RecordsOK(o)' /\ AloneOK(o)' /\ TasksOK(c)'
  BY <1>1, <1>4, LoadsOn DEF ApplySteps
<1>6. FrameOK(c)'
  BY <1>1, <1>2, <1>3, <1>4, <1>5 DEF FrameOK, Record, AnswerSteps, PatchSteps,
    CancelSteps, GoingSteps, store, AnswerTo, Received
<1>7. UndisturbedOK(c)'
  BY <1>1, <1>2, <1>4, <1>5 DEF UndisturbedOK, SubmissionOK, PatchOK, InState, Record,
    GoingSteps, PatchSteps, ReceiptMatches, store, history
<1> QED BY <1>5, <1>6, <1>7, ServiceKeeps DEF CallerOK

LEMMA ResultCheckKeeps ==
  ASSUME IInv, NEW c \in Callers, ResultCheck(c)
  PROVE  IInv'
<1>1. pc[c] = "result" /\ pc[c] # "idle" /\ SavesOperation
  BY DEF ResultCheck
<1>2. CASE Return(c) /\ UNCHANGED operation
  BY <1>1, <1>2, InCall, NothingSaved DEF SavesOperation, store
<1>3. CASE Reconciliation(c)
  BY <1>1, <1>3, ReconciliationKeeps
<1>4. CASE \E task \in Task(c, Record(c).task) :
             /\ task.op = Op(c) /\ task.status = "SUCCEEDED"
             /\ (Op(c) \in LiveOps =>
                   receipt[Op(c)] # None /\ ReceiptMatches(receipt[Op(c)], task))
             /\ Goto(c, "saveResult") /\ UNCHANGED operation
             /\ frame' = [frame EXCEPT ![c].result = task]
  BY <1>1, <1>4, ResultFoundKeeps
<1> QED BY <1>2, <1>3, <1>4 DEF ResultCheck

LEMMA SaveResultKeeps ==
  ASSUME IInv, NEW c \in Callers, SaveResult(c)
  PROVE  IInv'
<1> PICK o \in Ops : o = Op(c)
  BY InCall DEF SaveResult
<1> PICK answer : answer = frame[c].result
  OBVIOUS
<1>1. /\ pc[c] = "saveResult" /\ pc[c] # "idle" /\ Goto(c, "saveReceipt")
      /\ UNCHANGED <<operation, receipt, effect, cancellation, workspace, provider, frame, history>>
      /\ result' = [result EXCEPT ![o] = answer]
  BY DEF SaveResult
<1>2. FrameOK(c) /\ UndisturbedOK(c) /\ Domains /\ RecordsOK(o) /\ AloneOK(o)
  BY <1>1, InCall
<1>3. /\ AnswerTo(o, answer) /\ answer # None
      /\ o \in LiveOps /\ o \notin overlapped => ReceiptMatches(receipt[o], answer)
  BY <1>1, <1>2, NoneAssumption DEF FrameOK, AnswerSteps, UndisturbedOK, SubmissionOK, AnswerTo
<1>4. /\ DOMAIN result' = Ops /\ \A x \in Ops \ {o} : result'[x] = result[x]
      /\ result'[o] = answer
  BY <1>1, <1>2 DEF Domains
<1>5. Domains'
  BY <1>1, <1>2, <1>4, GoingOn DEF Domains, workspace, provider
<1>6. /\ Serves(c, o) /\ Op(c)' = o /\ pc'[c] = "saveReceipt" /\ frame'[c] = frame[c]
      /\ TasksOK(c)'
  <2>1. Kept(o) /\ \A x \in Ops \ {o} : SameRecords(x)
    BY <1>1, <1>3, <1>4 DEF Kept, SameRecords, provider
  <2> QED BY <1>1, <2>1, MovesOn DEF ApplySteps, workspace, provider, history
<1>7. RecordsOK(o)'
  BY <1>1, <1>2, <1>3, <1>4 DEF RecordsOK, AnswerTo, EffectOf, InState, provider
<1>8. AloneOK(o)'
  BY <1>1, <1>2, <1>3, <1>4 DEF AloneOK, PaidFor, AcceptedWhole, Whole, CrossedAt, InState, GoingStates,
    ReceiptMatches, provider, history
<1>9. FrameOK(c)'
  BY <1>1, <1>2, <1>3, <1>4, <1>6 DEF FrameOK, Op, Record, Done, AnswerSteps, PatchSteps,
    CancelSteps, GoingSteps, AnswerTo, Received
<1>10. UndisturbedOK(c)'
  BY <1>1, <1>2, <1>3, <1>6 DEF UndisturbedOK, SubmissionOK, PatchOK, InState, Record,
    ReceiptMatches, GoingSteps, PatchSteps, history
<1> QED BY <1>5, <1>6, <1>7, <1>8, <1>9, <1>10, ServiceKeeps DEF CallerOK

LEMMA SaveReceiptKeeps ==
  ASSUME IInv, NEW c \in Callers, SaveReceipt(c)
  PROVE  IInv'
<1> PICK o \in Ops : o = Op(c)
  BY InCall DEF SaveReceipt
<1> PICK answer : answer = frame[c].result
  OBVIOUS
<1> PICK stored : stored = Receipt(answer)
  OBVIOUS
<1>1. /\ pc[c] = "saveReceipt" /\ pc[c] # "idle" /\ Goto(c, "reference")
      /\ UNCHANGED <<operation, result, effect, cancellation, workspace, provider, frame, history>>
      /\ receipt' = [receipt EXCEPT ![o] = stored]
  BY DEF SaveReceipt
<1>2. FrameOK(c) /\ UndisturbedOK(c) /\ Domains /\ RecordsOK(o) /\ AloneOK(o)
  BY <1>1, InCall
<1>3. AnswerTo(o, answer) /\ stored \in Receipts /\ stored # None
  BY <1>1, <1>2, ReceiptIsReceipt DEF FrameOK, AnswerSteps, AnswerTo
<1>4. o \in LiveOps /\ o \notin overlapped =>
        /\ ReceiptMatches(receipt[o], answer) /\ InState(o, GoingStates)
        /\ receipt[o] # None /\ result[o] # None
  BY <1>1, <1>2 DEF UndisturbedOK, SubmissionOK, GoingSteps, FrameOK, Received
<1>5. o \in LiveOps /\ o \notin overlapped => /\ stored.task = receipt[o].task /\ stored.digest = receipt[o].digest
  BY <1>3, <1>4 DEF Receipt, ReceiptMatches
<1>6. /\ DOMAIN receipt' = Ops /\ \A x \in Ops \ {o} : receipt'[x] = receipt[x]
      /\ receipt'[o] = stored
  BY <1>1, <1>2 DEF Domains
<1>7. Domains'
  BY <1>1, <1>2, <1>6, GoingOn DEF Domains, workspace, provider
<1>8. /\ Serves(c, o) /\ Op(c)' = o /\ pc'[c] = "reference" /\ frame'[c] = frame[c]
      /\ TasksOK(c)'
  <2>1. Kept(o) /\ \A x \in Ops \ {o} : SameRecords(x)
    BY <1>1, <1>3, <1>6 DEF Kept, SameRecords, provider
  <2> QED BY <1>1, <2>1, MovesOn DEF ApplySteps, workspace, provider, history
<1>9. RecordsOK(o)'
  <2>1. o \in LiveOps => result[o] # None
    BY <1>1, <1>2 DEF FrameOK, GoingSteps, Received
  <2> QED BY <1>1, <1>2, <1>3, <1>6, <2>1 DEF RecordsOK, AnswerTo, EffectOf, InState, provider
<1>10. AloneOK(o)'
  BY <1>1, <1>2, <1>4, <1>5, <1>6 DEF AloneOK, PaidFor, AcceptedWhole, Whole, CrossedAt, InState,
    GoingStates, ReceiptMatches, provider, history
<1>11. FrameOK(c)'
  BY <1>1, <1>2, <1>3, <1>6, <1>8 DEF FrameOK, Op, Record, Done, AnswerSteps, PatchSteps,
    CancelSteps, GoingSteps, Received
<1>12. UndisturbedOK(c)'
  BY <1>1, <1>2, <1>8 DEF UndisturbedOK, SubmissionOK, PatchOK, InState, Record,
    GoingSteps, PatchSteps, history
<1> QED BY <1>7, <1>8, <1>9, <1>10, <1>11, <1>12, ServiceKeeps DEF CallerOK

-----------------------------------------------------------------------------
(* cancel and reconcile_cancellation, of operations that are not live.     *)

(* A step of a cancellation leaves result, receipt, effect and charges; an *)
(* operation that it saves has the task it had.                            *)
LEMMA CancellationGoesOn ==
  ASSUME IInv, NEW c \in Callers, NEW o \in Ops, o = Op(c), pc[c] \in CancelSteps,
         NEW label \in CancelSteps, Goto(c, label), UNCHANGED frame,
         \/ UNCHANGED operation
         \/ \E record \in Operations : operation' = [operation EXCEPT ![o] = record],
         \/ UNCHANGED cancellation
         \/ \E value : cancellation' = [cancellation EXCEPT ![o] = value],
         UNCHANGED <<result, receipt, effect, workspace, provider, history>>
  PROVE  IInv'
<1>1. pc[c] # "idle" /\ pc[c] # "prepare" /\ label \notin ApplySteps
  BY DEF CancelSteps, ApplySteps
<1>2. FrameOK(c) /\ UndisturbedOK(c) /\ Domains /\ RecordsOK(o) /\ AloneOK(o)
  BY <1>1, InCall
<1>3. o \notin LiveOps /\ operation[o] \in Operations
  BY <1>1, <1>2 DEF FrameOK
<1>4. /\ DOMAIN operation' = Ops /\ DOMAIN cancellation' = Ops /\ operation'[o] \in Operations
      /\ \A x \in Ops \ {o} :
           operation'[x] = operation[x] /\ cancellation'[x] = cancellation[x]
  BY <1>2, <1>3 DEF Domains
<1>5. Domains'
  BY <1>2, <1>4, GoingOn DEF Domains, workspace, provider
<1>6. /\ Serves(c, o) /\ Op(c)' = o /\ pc'[c] = label /\ frame'[c] = frame[c] /\ TasksOK(c)'
  <2>1. Kept(o) /\ \A x \in Ops \ {o} : SameRecords(x)
    BY <1>4 DEF Kept, SameRecords, provider
  <2> QED BY <1>1, <2>1, MovesOn DEF ApplySteps, workspace, provider, history
<1>7. RecordsOK(o)'
  BY <1>2, <1>3, <1>4 DEF RecordsOK, AnswerTo, EffectOf, provider
<1>8. AloneOK(o)'
  BY <1>2, <1>3 DEF AloneOK, AcceptedWhole, Whole, CrossedAt, history
<1>9. FrameOK(c)'
  BY <1>1, <1>2, <1>3, <1>4, <1>6 DEF FrameOK, Op, Record, Done, AnswerSteps, PatchSteps,
    CancelSteps, GoingSteps
<1>10. UndisturbedOK(c)'
  BY <1>3, <1>6 DEF UndisturbedOK, PatchOK, CancelSteps, PatchSteps
<1> QED BY <1>5, <1>6, <1>7, <1>8, <1>9, <1>10, ServiceKeeps DEF CallerOK

LEMMA CancelIntentKeeps ==
  ASSUME IInv, NEW c \in Callers, CancelIntent(c)
  PROVE  IInv'
BY InCall, CancellationGoesOn DEF CancelIntent, SaveCancellation, CancelSteps

LEMMA CancelProgressKeeps ==
  ASSUME IInv, NEW c \in Callers, CancelProgress(c)
  PROVE  IInv'
BY InCall, CancellationGoesOn DEF CancelProgress, SaveCancellation, CancelSteps

LEMMA CancelRequestKeeps ==
  ASSUME IInv, NEW c \in Callers, CancelRequest(c)
  PROVE  IInv'
<1>1. pc[c] = "cancelRequest" /\ SaveState(c, "CANCELLATION_REQUESTED")
        /\ Goto(c, "cancelProgress")
        /\ UNCHANGED <<result, receipt, effect, cancellation, workspace, provider, frame, history>>
  BY DEF CancelRequest
<1>2. Op(c) \in Ops /\ Record(c) \in Operations
  BY <1>1, InCall DEF FrameOK
<1>3. \E record \in Operations : operation' = [operation EXCEPT ![Op(c)] = record]
  BY <1>1, <1>2, StateReplaced DEF SaveState, SaveOperation, OperationStates
<1> QED BY <1>1, <1>2, <1>3, CancellationGoesOn DEF CancelSteps

(* A cancellation that ends without a new state of the operation.          *)
LEMMA CancellationEnds ==
  ASSUME IInv, NEW c \in Callers, pc[c] \in CancelSteps, Return(c),
         NEW value, cancellation' = [cancellation EXCEPT ![Op(c)] = value],
         UNCHANGED <<operation, result, receipt, effect, workspace, provider, history>>
  PROVE  IInv'
<1> PICK o \in Ops : o = Op(c)
  BY InCall DEF CancelSteps
<1>1. pc[c] # "idle" /\ pc[c] # "prepare"
  BY DEF CancelSteps
<1>2. FrameOK(c) /\ Domains /\ RecordsOK(o) /\ AloneOK(o)
  BY <1>1, InCall
<1>3. o \notin LiveOps /\ operation[o] \in Operations
  BY <1>1, <1>2 DEF FrameOK
<1>4. DOMAIN cancellation' = Ops /\ \A x \in Ops \ {o} : cancellation'[x] = cancellation[x]
  BY <1>2 DEF Domains
<1>5. Domains'
  BY <1>2, <1>4, Returning DEF Domains, workspace, provider
<1>6. Serves(c, o)
  BY <1>1, <1>2, <1>4, Returning DEF Serves, ApplySteps, SameRecords, SameCaller, Kept, workspace, provider,
    history
<1>7. RecordsOK(o)'
  BY <1>2, <1>3 DEF RecordsOK, AnswerTo, EffectOf, provider
<1>8. AloneOK(o)'
  BY <1>2, <1>3 DEF AloneOK, AcceptedWhole, Whole, CrossedAt, history
<1>9. CallerOK(c)'
  BY <1>2, Returning DEF CallerOK
<1>10. TasksOK(c)'
  BY <1>6, StillRemembered DEF IInv, provider
<1> QED BY <1>5, <1>6, <1>7, <1>8, <1>9, <1>10, ServiceKeeps

(* cancel_task changes the status of the tasks it finds.                   *)
Cancelled(seq, id) ==
  [i \in DOMAIN seq |-> IF seq[i].task = id THEN [seq[i] EXCEPT !.status = "CANCELLED"]
                                            ELSE seq[i]]

LEMMA CancelledTasks ==
  ASSUME NEW c \in Callers, TasksOK(c), NEW id, DOMAIN tasks = Callers,
         tasks' = [tasks EXCEPT ![c] = Cancelled(@, id)], UNCHANGED store
  PROVE  TasksOK(c)'
<1>1. tasks'[c] = Cancelled(tasks[c], id)
  OBVIOUS
<1>2. DOMAIN tasks[c] = 1..Len(tasks[c]) /\ Len(tasks[c]) \in Nat
  BY DEF TasksOK
<1>3. \A i \in DOMAIN tasks[c] : tasks[c][i] \in Results /\ Remembered(tasks[c][i].op)
  BY TaskIsResult DEF TasksOK
<1>4. \A i \in DOMAIN tasks[c] : /\ tasks'[c][i] \in Results
                                 /\ tasks'[c][i].op = tasks[c][i].op
  BY <1>1, <1>3 DEF Cancelled, Results
<1>5. tasks'[c] \in Seq(Results)
  <2>1. tasks'[c] \in [1..Len(tasks[c]) -> Results]
    BY <1>1, <1>2, <1>4 DEF Cancelled
  <2> QED BY <1>2, <2>1, SeqDef
<1>6. DOMAIN tasks'[c] = DOMAIN tasks[c]
  BY <1>1 DEF Cancelled
<1>7. \A i \in DOMAIN tasks'[c] : tasks'[c][i].op \in LiveOps =>
        receipt'[tasks'[c][i].op] # None /\ result'[tasks'[c][i].op] # None
  BY <1>3, <1>4, <1>6 DEF Remembered, Received, store
<1> QED BY <1>5, <1>7 DEF TasksOK, Remembered, Received

LEMMA CancelTaskKeeps ==
  ASSUME IInv, NEW c \in Callers, CancelTask(c)
  PROVE  IInv'
<1> PICK o \in Ops : o = Op(c)
  BY InCall DEF CancelTask
<1>1. pc[c] = "cancelTask" /\ pc[c] # "idle" /\ pc[c] \in CancelSteps
        /\ UNCHANGED <<operation, result, receipt, effect, workspace, charges, history>>
  BY DEF CancelTask, CancelSteps
<1>2. FrameOK(c) /\ Domains /\ TasksOK(c) /\ o \notin LiveOps /\ operation[o] \in Operations
  BY <1>1, InCall DEF FrameOK
<1>3. CASE Task(c, Record(c).task) = {}
  BY <1>1, <1>3, CancellationEnds DEF CancelTask, SaveCancellation, provider
<1>4. CASE Task(c, Record(c).task) # {}
  <2>1. /\ tasks' = [tasks EXCEPT ![c] = Cancelled(@, Record(c).task)]
        /\ Goto(c, "cancelStatus") /\ frame' = [frame EXCEPT ![c] = Frame(o)]
        /\ UNCHANGED <<store, workspace, charges, history>>
    BY <1>1, <1>4 DEF CancelTask, Cancelled, store
  <2>2. /\ DOMAIN frame' = Callers /\ \A d \in Callers \ {c} : frame'[d] = frame[d]
        /\ DOMAIN frame'[c] = FrameFields /\ frame'[c].op = o
        /\ frame'[c].record = operation[o] /\ frame'[c].done \in Seq(Paths)
    <3>1. << >> \in Seq(Paths)
      BY EmptySeq
    <3> QED BY <1>2, <2>1, <3>1 DEF Domains, Frame, FrameFields
  <2>3. Domains'
    BY <1>2, <2>1, <2>2, GoingOn DEF Domains, store, workspace
  <2>4. SameRecords(o)
    BY <2>1 DEF SameRecords, store
  <2>5. Serves(c, o)
    BY <1>1, <1>2, <2>1, <2>2, GoingOn DEF Serves, ApplySteps, SameRecords, SameCaller, Kept, Domains,
      store, workspace, history
  <2>6. RecordsOK(o)' /\ AloneOK(o)'
    BY <2>1, <2>4, SameRecordsKeep DEF history
  <2>7. TasksOK(c)'
    BY <1>2, <2>1, CancelledTasks DEF Domains
  <2>8. FrameOK(c)'
    BY <1>2, <2>1, <2>2, GoingOn DEF FrameOK, Op, Record, AnswerSteps, PatchSteps, CancelSteps,
      GoingSteps, store
  <2>9. UndisturbedOK(c)'
    BY <1>2, <2>1, <2>2, GoingOn DEF UndisturbedOK, PatchOK, Op
  <2> QED BY <2>3, <2>5, <2>6, <2>7, <2>8, <2>9, ServiceKeeps DEF CallerOK
<1> QED BY <1>3, <1>4

(* The state of an operation that is not live takes no receipt.            *)
LEMMA CancelledStateKeeps ==
  ASSUME IInv, NEW c \in Callers, pc[c] \in CancelSteps, NEW state \in OperationStates,
         SaveState(c, state), Return(c), SavesOperation
  PROVE  IInv'
<1>1. pc[c] # "idle" /\ pc[c] # "prepare"
  BY DEF CancelSteps
<1> DEFINE record == [Record(c) EXCEPT !.state = state]
<1>2. Op(c) \notin LiveOps /\ Record(c) \in Operations /\ Op(c) \in Ops
  BY <1>1, InCall DEF FrameOK
<1>3. record \in Operations
  BY <1>2, StateReplaced
<1>4. operation' = [operation EXCEPT ![Op(c)] = record]
  BY DEF SaveState, SaveOperation
<1> HIDE DEF record
<1> QED BY <1>1, <1>2, <1>3, <1>4, OperationSaved DEF SavesOperation

LEMMA CancelStatusKeeps ==
  ASSUME IInv, NEW c \in Callers, CancelStatus(c)
  PROVE  IInv'
<1>1. pc[c] = "cancelStatus" /\ pc[c] \in CancelSteps /\ Op(c) \in Ops
        /\ UNCHANGED <<result, receipt, effect, workspace, provider, history>>
  BY InCall DEF CancelStatus, CancelSteps
<1> DEFINE Saved(state) == cancellation' = [cancellation EXCEPT ![Op(c)].state = state]
           statuses == {task.status : task \in Task(c, cancellation[Op(c)].task)}
<1>2. \/ /\ Saved("CANCELLATION_CONFIRMED")
         /\ Goto(c, "cancelled") /\ UNCHANGED <<operation, frame>>
      \/ /\ SaveState(c, "RESULT_AVAILABLE") /\ Return(c)
         /\ UNCHANGED cancellation
      \/ /\ Saved("CANCELLATION_RECONCILIATION_REQUIRED")
         /\ Return(c) /\ UNCHANGED operation
  <2>1. CASE statuses = {"CANCELLED"}
    BY <2>1 DEF CancelStatus
  <2>2. CASE statuses # {"CANCELLED"} /\ statuses = {"SUCCEEDED"}
    BY <2>2 DEF CancelStatus
  <2>3. CASE statuses # {"CANCELLED"} /\ statuses # {"SUCCEEDED"}
    BY <2>3 DEF CancelStatus
  <2> QED BY <2>1, <2>2, <2>3
<1>3. \A state : Saved(state) =>
        \E value : cancellation' = [cancellation EXCEPT ![Op(c)] = value]
  BY <1>1 DEF IInv, Domains
<1>4. CASE /\ Saved("CANCELLATION_CONFIRMED")
           /\ Goto(c, "cancelled") /\ UNCHANGED <<operation, frame>>
  BY <1>1, <1>3, <1>4, CancellationGoesOn DEF CancelSteps
<1>5. CASE /\ SaveState(c, "RESULT_AVAILABLE") /\ Return(c)
           /\ UNCHANGED cancellation
  BY <1>1, <1>5, CancelledStateKeeps DEF SavesOperation, OperationStates
<1>6. CASE /\ Saved("CANCELLATION_RECONCILIATION_REQUIRED")
           /\ Return(c) /\ UNCHANGED operation
  BY <1>1, <1>3, <1>6, CancellationEnds
<1> QED BY <1>2, <1>4, <1>5, <1>6

LEMMA CancelSaveKeeps ==
  ASSUME IInv, NEW c \in Callers, CancelSave(c)
  PROVE  IInv'
BY CancelledStateKeeps DEF CancelSave, CancelSteps, OperationStates

-----------------------------------------------------------------------------
(* apply_and_accept: the steps of a patch.                                 *)

(* What a step within apply_and_accept leaves as it was.                   *)
Applying(c, o, label) ==
  /\ pc[c] \in PatchSteps \cup {"apply"}
  /\ label \in PatchSteps \cup {"acceptOperation"} /\ pc'[c] = label
  /\ DOMAIN frame'[c] = FrameFields /\ frame'[c].op = o
  /\ frame'[c].record = frame[c].record /\ frame'[c].result = frame[c].result
  /\ UNCHANGED <<operation, result, receipt, overlapped>>

LEMMA StillGoing ==
  ASSUME NEW c \in Callers, NEW o \in Ops, o = Op(c), NEW label, Applying(c, o, label),
         FrameOK(c), UndisturbedOK(c), frame'[c].done \in Seq(Paths),
         label \in PatchSteps => EffectOf(o, effect'[o]),
         label \in {"staging", "verify", "accept", "reconcilePatch"} =>
           EffectOf(o, frame'[c].effect),
         label \in {"staging", "stage"} => Done(c)' = {},
         label \in {"applied", "verify"} => Done(c)' = Paths,
         o \notin overlapped => PatchOK(c)'
  PROVE  FrameOK(c)' /\ UndisturbedOK(c)'
<1>1. Op(c)' = o /\ Record(c)' = Record(c)
  BY DEF Applying, Op, Record
<1>2. FrameOK(c)'
  BY <1>1 DEF Applying, FrameOK, AnswerSteps, PatchSteps, GoingSteps, CancelSteps, Received,
    AnswerTo
<1>3. o \in LiveOps /\ o \notin overlapped => SubmissionOK(c)'
  BY <1>1 DEF Applying, UndisturbedOK, SubmissionOK, InState, GoingSteps, PatchSteps
<1>4. UndisturbedOK(c)'
  BY <1>1, <1>3 DEF Applying, UndisturbedOK, PatchSteps
<1> QED BY <1>2, <1>4

LEMMA DoneKept ==
  ASSUME NEW c \in Callers, frame'[c].done = frame[c].done
  PROVE  Done(c)' = Done(c)
BY DEF Done

LEMMA NothingDoneYet ==
  ASSUME NEW c \in Callers, FrameOK(c)
  PROVE  /\ frame[c].done \in Seq(Paths)
         /\ pc[c] \in {"apply", "staging", "stage"} => Done(c) = {}
BY DEF FrameOK

(* SaveEffect on the way to a further step.                                *)
LEMMA EffectGoesOn ==
  ASSUME IInv, NEW c \in Callers, NEW o \in Ops, o = Op(c), pc[c] \in ApplySteps,
         NEW label, Goto(c, label), NEW value, EffectOf(o, value), SaveEffect(c, value),
         SavesEffect, o \notin overlapped => (value.state = "ACCEPTED" => Whole(value))
  PROVE  /\ Domains' /\ Serves(c, o) /\ RecordsOK(o)' /\ AloneOK(o)' /\ TasksOK(c)'
         /\ pc'[c] = label /\ effect'[o] = value
         /\ DOMAIN frame'[c] = FrameFields /\ frame'[c].effect = value
         /\ frame'[c].op = o /\ frame'[c].record = frame[c].record
         /\ frame'[c].result = frame[c].result /\ frame'[c].done = frame[c].done
<1>1. FrameOK(c) /\ Domains /\ pc[c] # "idle"
  BY InCall DEF ApplySteps
<1>2. effect'[o] = value /\ DOMAIN effect' = Ops /\ \A x \in Ops \ {o} : effect'[x] = effect[x]
  BY <1>1 DEF SaveEffect, Domains
<1>3. /\ DOMAIN frame' = Callers /\ \A d \in Callers \ {c} : frame'[d] = frame[d]
      /\ DOMAIN frame'[c] = FrameFields /\ frame'[c].effect = value
      /\ frame'[c].op = o /\ frame'[c].record = frame[c].record
      /\ frame'[c].result = frame[c].result /\ frame'[c].done = frame[c].done
  BY <1>1 DEF SaveEffect, Domains, FrameOK, FrameFields, Op
<1>4. Domains'
  BY <1>1, <1>2, <1>3, GoingOn DEF Domains, SavesEffect, workspace, provider
<1>5. Serves(c, o)
  BY <1>1, <1>2, <1>3, GoingOn DEF Serves, ApplySteps, SameRecords, SameCaller, Kept, SavesEffect,
    workspace, provider, history
<1>6. RecordsOK(o)'
  BY <1>2 DEF IInv, RecordsOK, AnswerTo, EffectOf, InState, SavesEffect, provider
<1>7. AloneOK(o)'
  BY <1>2 DEF IInv, AloneOK, PaidFor, AcceptedWhole, Whole, CrossedAt, InState, ReceiptMatches,
    SavesEffect, provider, history
<1>8. TasksOK(c)'
  BY <1>5, StillRemembered DEF IInv, SavesEffect, provider
<1> QED BY <1>1, <1>2, <1>3, <1>4, <1>5, <1>6, <1>7, <1>8, GoingOn

(* _load_effect: the stored intent goes on to be applied or reconciled.    *)
LEMMA EffectLoadedKeeps ==
  ASSUME IInv, NEW c \in Callers, pc[c] = "apply",
         effect[Op(c)] # None, effect[Op(c)].result = frame[c].result,
         NEW label \in {"staging", "reconcilePatch"}, Goto(c, label),
         label = "staging" => Clean, frame' = [frame EXCEPT ![c].effect = effect[Op(c)]],
         UNCHANGED <<store, workspace, provider, history>>
  PROVE  IInv'
<1> PICK o \in Ops : o = Op(c)
  BY InCall
<1>1. FrameOK(c) /\ UndisturbedOK(c) /\ Domains /\ EffectOf(o, effect[o])
  BY InCall DEF RecordsOK
<1>2. /\ DOMAIN frame' = Callers /\ \A d \in Callers \ {c} : frame'[d] = frame[d]
      /\ DOMAIN frame'[c] = FrameFields /\ frame'[c].effect = effect[o]
      /\ frame'[c].op = o /\ frame'[c].record = frame[c].record
      /\ frame'[c].result = frame[c].result /\ frame'[c].done = frame[c].done
  BY <1>1 DEF Domains, FrameOK, FrameFields, Op
<1>3. /\ Domains' /\ Serves(c, o) /\ Op(c)' = o /\ pc'[c] = label
      /\ RecordsOK(o)' /\ AloneOK(o)' /\ TasksOK(c)'
  BY <1>2, LoadsOn DEF ApplySteps
<1>4. Applying(c, o, label)
  BY <1>2, <1>3 DEF Applying, PatchSteps, store, history
<1>5. PatchOK(c)'
  BY <1>2, <1>3 DEF PatchOK, Clean, Changed, store, workspace
<1>6. FrameOK(c)' /\ UndisturbedOK(c)'
  <2>1. Done(c)' = Done(c) /\ Done(c) = {} /\ frame[c].done \in Seq(Paths)
    BY <1>1, <1>2, DoneKept, NothingDoneYet
  <2> QED BY <1>1, <1>2, <1>3, <1>4, <1>5, <2>1, StillGoing DEF store
<1> QED BY <1>3, <1>6, ServiceKeeps DEF CallerOK

LEMMA EffectIntentKeeps ==
  ASSUME IInv, NEW c \in Callers, pc[c] = "apply", Clean, Goto(c, "staging"), SavesEffect,
         SaveEffect(c, [state |-> "PREPARED", result |-> frame[c].result,
                        commit |-> commits, completed |-> {}, manifest |-> None])
  PROVE  IInv'
<1> PICK o \in Ops : o = Op(c)
  BY InCall
<1> PICK value : value = [state |-> "PREPARED", result |-> frame[c].result,
                          commit |-> commits, completed |-> {}, manifest |-> None]
  OBVIOUS
<1>1. FrameOK(c) /\ UndisturbedOK(c) /\ AnswerTo(o, frame[c].result)
  BY InCall DEF FrameOK, AnswerSteps
<1>2. EffectOf(o, value) /\ value.state = "PREPARED" /\ value.result = frame[c].result
  BY <1>1 DEF EffectOf, EffectFields
<1>3. SaveEffect(c, value)
  OBVIOUS
<1>4. /\ Domains' /\ Serves(c, o) /\ RecordsOK(o)' /\ AloneOK(o)' /\ TasksOK(c)'
      /\ pc'[c] = "staging" /\ effect'[o] = value
      /\ DOMAIN frame'[c] = FrameFields /\ frame'[c].effect = value
      /\ frame'[c].op = o /\ frame'[c].record = frame[c].record
      /\ frame'[c].result = frame[c].result /\ frame'[c].done = frame[c].done
  BY <1>2, <1>3, EffectGoesOn DEF ApplySteps
<1>5. Applying(c, o, "staging")
  BY <1>4 DEF Applying, PatchSteps, SavesEffect, history
<1>6. PatchOK(c)'
  BY <1>2, <1>4 DEF PatchOK, Clean, Changed, SavesEffect, workspace, Op
<1>7. FrameOK(c)' /\ UndisturbedOK(c)'
  <2>1. Done(c)' = Done(c) /\ Done(c) = {} /\ frame[c].done \in Seq(Paths)
    BY <1>1, <1>4, DoneKept, NothingDoneYet
  <2> QED BY <1>1, <1>2, <1>4, <1>5, <1>6, <2>1, StillGoing
<1> QED BY <1>4, <1>7, ServiceKeeps DEF CallerOK

LEMMA ApplyCheckKeeps ==
  ASSUME IInv, NEW c \in Callers, ApplyCheck(c)
  PROVE  IInv'
<1> PICK o \in Ops : o = Op(c)
  BY InCall DEF ApplyCheck
<1> DEFINE answer == frame[c].result
           found == effect[o]
<1>1. pc[c] = "apply" /\ UNCHANGED <<result, receipt, cancellation, workspace, provider, history>>
  BY DEF ApplyCheck
<1>2. CASE ~Record(c).reference \/ ~ReceiptMatches(receipt[o], answer)
  <2>1. Reconciliation(c) /\ SavesOperation
    BY <1>1, <1>2 DEF ApplyCheck, SavesOperation
  <2> QED BY <1>1, <2>1, ReconciliationKeeps
<1>3. CASE Record(c).reference /\ ReceiptMatches(receipt[o], answer)
  <2>1. UNCHANGED operation /\ SavesEffect
    BY <1>1, <1>3 DEF ApplyCheck, SavesEffect
  <2>2. CASE found = None /\ Clean
    <3>1. /\ SaveEffect(c, [state |-> "PREPARED", result |-> frame[c].result,
                            commit |-> commits, completed |-> {}, manifest |-> None])
          /\ Goto(c, "staging")
      BY <1>3, <2>2 DEF ApplyCheck
    <3> QED BY <1>1, <2>1, <2>2, <3>1, EffectIntentKeeps
  <2>3. CASE Return(c) /\ UNCHANGED effect
    BY <1>1, <2>1, <2>3, NothingSaved DEF store
  <2>4. CASE found # None /\ (found.result # answer \/ found.commit # commits)
    <3>1. effect' = [effect EXCEPT ![o].state = "RECONCILIATION_REQUIRED"] /\ Return(c)
      BY <1>3, <2>4 DEF ApplyCheck
    <3> DEFINE value == [effect[o] EXCEPT !.state = "RECONCILIATION_REQUIRED"]
    <3>2. EffectOf(o, effect[o]) /\ Domains
      BY <1>1, <2>4, InCall DEF RecordsOK
    <3>3. EffectOf(o, value) /\ value.state = "RECONCILIATION_REQUIRED"
      BY <3>2 DEF EffectOf, EffectFields
    <3>4. effect' = [effect EXCEPT ![o] = value]
      BY <3>1, <3>2 DEF Domains
    <3> HIDE DEF value
    <3> QED BY <1>1, <2>1, <3>1, <3>3, <3>4, EffectSaved DEF SavesEffect
  <2>5. CASE /\ found # None /\ found.result = answer
             /\ \E label \in {"staging", "reconcilePatch"} :
                  /\ Goto(c, label) /\ frame' = [frame EXCEPT ![c].effect = found]
                  /\ label = "staging" => Clean
             /\ UNCHANGED effect
    BY <1>1, <2>1, <2>5, EffectLoadedKeeps DEF store
  <2>6. CASE found # None /\ found.result = answer /\ found.commit = commits
               /\ found.state # "PREPARED"
    <3>1. /\ UNCHANGED effect /\ Goto(c, "reconcilePatch")
          /\ frame' = [frame EXCEPT ![c].effect = found]
      BY <1>3, <2>6 DEF ApplyCheck
    <3> QED BY <2>5, <2>6, <3>1
  <2>7. CASE found # None /\ found.result = answer /\ found.commit = commits
               /\ found.state = "PREPARED"
    <3>1. \/ /\ Clean /\ UNCHANGED effect /\ Goto(c, "staging")
             /\ frame' = [frame EXCEPT ![c].effect = found]
          \/ Return(c) /\ UNCHANGED effect
      BY <1>3, <2>7 DEF ApplyCheck
    <3> QED BY <2>3, <2>5, <2>7, <3>1
  <2>8. CASE found = None /\ ~Clean
    <3>1. Return(c) /\ UNCHANGED effect
      BY <1>3, <2>8 DEF ApplyCheck
    <3> QED BY <2>3, <3>1
  <2> QED BY <2>2, <2>4, <2>6, <2>7, <2>8
<1> QED BY <1>2, <1>3

LEMMA StageIntentKeeps ==
  ASSUME IInv, NEW c \in Callers, StageIntent(c)
  PROVE  IInv'
<1> PICK o \in Ops : o = Op(c)
  BY InCall DEF StageIntent
<1> PICK value : value = [frame[c].effect EXCEPT !.state = "STAGING"]
  OBVIOUS
<1>1. pc[c] = "staging" /\ pc[c] # "idle" /\ SaveEffect(c, value) /\ Goto(c, "stage") /\ SavesEffect
  BY DEF StageIntent
<1>2. FrameOK(c) /\ UndisturbedOK(c) /\ EffectOf(o, frame[c].effect)
  BY <1>1, InCall DEF FrameOK
<1>3. EffectOf(o, value)
        /\ value.state = "STAGING" /\ value.state # "ACCEPTED" /\ value.result = frame[c].effect.result
  BY <1>2 DEF EffectOf, EffectFields
<1>4. /\ Domains' /\ Serves(c, o) /\ RecordsOK(o)' /\ AloneOK(o)' /\ TasksOK(c)'
      /\ pc'[c] = "stage" /\ effect'[o] = value
      /\ DOMAIN frame'[c] = FrameFields /\ frame'[c].effect = value
      /\ frame'[c].op = o /\ frame'[c].record = frame[c].record
      /\ frame'[c].result = frame[c].result /\ frame'[c].done = frame[c].done
  <2>1. EffectOf(o, value) /\ value.state # "ACCEPTED"
    BY <1>3
  <2> QED BY ONLY IInv, o = Op(c), <1>1, <2>1, EffectGoesOn DEF ApplySteps
<1>5. Applying(c, o, "stage")
  BY <1>1, <1>4 DEF Applying, PatchSteps, SavesEffect, history
<1>6. Op(c)' = o /\ Done(c)' = Done(c) /\ Done(c) = {} /\ frame[c].done \in Seq(Paths)
  BY <1>1, <1>2, <1>4, DoneKept, NothingDoneYet DEF Op
<1>7. o \notin overlapped => PatchOK(c)'
  BY <1>1, <1>2, <1>3, <1>4, <1>6 DEF UndisturbedOK, PatchOK, CrossedAt, SavesEffect, workspace,
    history,
    FrameOK
<1>8. FrameOK(c)' /\ UndisturbedOK(c)'
  BY <1>2, <1>3, <1>4, <1>5, <1>6, <1>7, StillGoing
<1> QED BY <1>4, <1>8, ServiceKeeps DEF CallerOK

(* The workspace changes and no record does.                               *)
LEMMA WorkspaceGoesOn ==
  ASSUME IInv, NEW c \in Callers, NEW o \in Ops, o = Op(c), pc[c] \in ApplySteps,
         NEW label, Goto(c, label), files' \in Files, staged' \subseteq Ops,
         \/ files' = files
         \/ /\ pc[c] = "replace"
            /\ \E p \in Paths : files' = [files EXCEPT ![p] = frame[c].result],
         DOMAIN frame' = Callers, \A d \in Callers \ {c} : frame'[d] = frame[d],
         frame'[c].op = o, UNCHANGED <<store, base, provider, history>>
  PROVE  /\ Domains' /\ Serves(c, o) /\ RecordsOK(o)' /\ AloneOK(o)' /\ TasksOK(c)'
         /\ pc'[c] = label /\ effect'[o] = effect[o]
<1>1. Domains'
  BY GoingOn DEF IInv, Domains, store, provider
<1>2. SameRecords(o)
  BY DEF SameRecords, store, provider
<1>3. Serves(c, o)
  <2>1. pc[c] # "idle"
    BY DEF ApplySteps
  <2> QED BY <2>1, GoingOn DEF IInv, Serves, SameRecords, SameCaller, Kept, store, provider,
    history
<1>4. RecordsOK(o)' /\ AloneOK(o)'
  BY <1>2, SameRecordsKeep DEF history
<1>5. TasksOK(c)'
  BY <1>3, StillRemembered DEF IInv, provider
<1> QED BY <1>1, <1>3, <1>4, <1>5, GoingOn DEF IInv, store

LEMMA StageKeeps ==
  ASSUME IInv, NEW c \in Callers, Stage(c)
  PROVE  IInv'
<1> PICK o \in Ops : o = Op(c)
  BY InCall DEF Stage
<1>1. pc[c] = "stage" /\ UNCHANGED <<store, files, base, commits, provider, frame, history>>
  BY DEF Stage
<1>2. PICK label \in {"replace", "patchFailed"} :
        Goto(c, label) /\ staged' \in {staged, staged \cup {o}}
  BY DEF Stage
<1>3. FrameOK(c) /\ UndisturbedOK(c) /\ Domains
  BY <1>1, InCall
<1>4. /\ Domains' /\ Serves(c, o) /\ RecordsOK(o)' /\ AloneOK(o)' /\ TasksOK(c)'
      /\ pc'[c] = label /\ effect'[o] = effect[o]
  BY <1>1, <1>2, <1>3, WorkspaceGoesOn DEF Domains, Op, ApplySteps
<1>5. Applying(c, o, label)
  BY <1>1, <1>2, <1>3, <1>4 DEF Applying, PatchSteps, FrameOK, store, history, Op
<1>6. EffectOf(o, effect[o]) /\ Done(c)' = Done(c) /\ Op(c)' = o
  BY <1>1, <1>3 DEF FrameOK, PatchSteps, Done, Op
<1>7. o \notin overlapped => PatchOK(c)'
  <2>1. CASE label = "replace"
    BY <1>1, <1>3, <1>4, <1>6, <2>1 DEF UndisturbedOK, PatchOK, CrossedAt, FrameOK, history
  <2>2. CASE label = "patchFailed"
    BY <1>4, <2>2 DEF PatchOK
  <2> QED BY <1>2, <2>1, <2>2
<1>8. FrameOK(c)' /\ UndisturbedOK(c)'
  BY <1>1, <1>2, <1>3, <1>4, <1>5, <1>6, <1>7, StillGoing DEF FrameOK
<1> QED BY <1>4, <1>8, ServiceKeeps DEF CallerOK

LEMMA DoneAppended ==
  ASSUME NEW c \in Callers, NEW p \in Paths, frame[c].done \in Seq(Paths),
         frame'[c].done = Append(frame[c].done, p)
  PROVE  frame'[c].done \in Seq(Paths) /\ Done(c)' = Done(c) \cup {p}
<1> PICK done \in Seq(Paths) : done = frame[c].done
  OBVIOUS
<1> PICK more : more = Append(done, p)
  OBVIOUS
<1>1. /\ more \in Seq(Paths) /\ Len(done) \in Nat
      /\ DOMAIN done = 1..Len(done) /\ DOMAIN more = 1..Len(done) + 1
      /\ \A i \in 1..Len(done) : more[i] = done[i]
      /\ more[Len(done) + 1] = p
  BY AppendProperties
<1>2. {more[i] : i \in DOMAIN more} = {done[i] : i \in DOMAIN done} \cup {p}
  BY <1>1
<1>3. frame'[c].done = more
  OBVIOUS
<1>4. Done(c)' = {more[i] : i \in DOMAIN more} /\ Done(c) = {done[i] : i \in DOMAIN done}
  BY <1>3 DEF Done
<1> QED BY <1>1, <1>2, <1>3, <1>4

LEMMA FileReplacedKeeps ==
  ASSUME IInv, NEW c \in Callers, pc[c] = "replace", NEW p \in Paths \ Done(c),
         files' = [files EXCEPT ![p] = frame[c].result], staged' \subseteq Ops,
         frame' = [frame EXCEPT ![c].done = Append(@, p)], Goto(c, "completed"),
         UNCHANGED <<store, base, commits, provider, history>>
  PROVE  IInv'
<1> PICK o \in Ops : o = Op(c)
  BY InCall
<1>1. /\ FrameOK(c) /\ UndisturbedOK(c) /\ Domains /\ AnswerTo(o, frame[c].result)
      /\ EffectOf(o, effect[o]) /\ frame[c].done \in Seq(Paths)
  BY InCall DEF FrameOK, AnswerSteps, PatchSteps
<1>2. /\ DOMAIN frame' = Callers /\ \A d \in Callers \ {c} : frame'[d] = frame[d]
      /\ DOMAIN frame'[c] = FrameFields /\ frame'[c].op = o
      /\ frame'[c].record = frame[c].record /\ frame'[c].result = frame[c].result
      /\ frame'[c].done = Append(frame[c].done, p)
  BY <1>1 DEF Domains, FrameOK, FrameFields, Op
<1>3. /\ files' \in Files /\ files'[p] = frame[c].result
      /\ \A q \in Paths \ {p} : files'[q] = files[q]
  BY <1>1 DEF Domains, Files, AnswerTo
<1>4. /\ Domains' /\ Serves(c, o) /\ RecordsOK(o)' /\ AloneOK(o)' /\ TasksOK(c)'
      /\ pc'[c] = "completed" /\ effect'[o] = effect[o]
  <2>1. pc[c] \in ApplySteps
    BY DEF ApplySteps
  <2> QED BY <1>2, <1>3, <2>1, WorkspaceGoesOn, ZenonT(60)
<1>5. Applying(c, o, "completed")
  BY <1>2, <1>4 DEF Applying, PatchSteps, store, history
<1>6. frame'[c].done \in Seq(Paths) /\ Done(c)' = Done(c) \cup {p} /\ Op(c)' = o
  BY <1>1, <1>2, DoneAppended DEF Op
<1>7. o \notin overlapped => PatchOK(c)'
  <2> SUFFICES ASSUME o \notin overlapped PROVE PatchOK(c)'
    OBVIOUS
  <2>1. PatchOK(c)
    BY <1>1 DEF UndisturbedOK
  <2>2. effect'[o].result = frame'[c].result
    BY <2>1, <1>2, <1>4 DEF PatchOK
  <2>3. \A q \in Done(c)' : files'[q] = frame'[c].result
                              \/ (edited' /\ files'[q] \in {Edited, base'[q]})
                              \/ CrossedAt(o, files'[q])
    <3>1. Done(c) \subseteq Paths
      BY <1>1 DEF Done
    <3>2. pc[c] = "replace" /\ UNCHANGED <<edited, base, crossed>>
      BY DEF history
    <3> QED BY <2>1, <1>2, <1>3, <1>6, <3>1, <3>2 DEF PatchOK, CrossedAt
  <2>4. ~edited' => \A q \in Paths \ Done(c)' :
                      files'[q] = base'[q] \/ CrossedAt(o, files'[q])
    BY <2>1, <1>3, <1>6 DEF PatchOK, CrossedAt, history
  <2>5. \A content : CrossedAt(o, content) => CrossedAt(o, content)'
    BY DEF CrossedAt, history
  <2> QED BY <1>4, <1>6, <2>2, <2>3, <2>4, <2>5 DEF PatchOK
<1>8. FrameOK(c)' /\ UndisturbedOK(c)'
  BY <1>1, <1>4, <1>5, <1>6, <1>7, StillGoing
<1> QED BY <1>4, <1>8, ServiceKeeps DEF CallerOK

LEMMA ReplaceFileKeeps ==
  ASSUME IInv, NEW c \in Callers, ReplaceFile(c)
  PROVE  IInv'
<1> PICK o \in Ops : o = Op(c)
  BY InCall DEF ReplaceFile
<1>1. pc[c] = "replace" /\ pc[c] # "idle" /\ UNCHANGED <<store, base, commits, provider, history>>
  BY DEF ReplaceFile
<1>2. FrameOK(c) /\ UndisturbedOK(c) /\ Domains
  BY <1>1, InCall
<1>3. CASE \E p \in Paths \ Done(c) :
             /\ files' = [files EXCEPT ![p] = frame[c].result]
             /\ staged' = IF Done(c) \cup {p} = Paths THEN staged \ {o} ELSE staged
             /\ frame' = [frame EXCEPT ![c].done = Append(@, p)]
             /\ Goto(c, "completed")
  <2>1. PICK p \in Paths \ Done(c) :
          /\ files' = [files EXCEPT ![p] = frame[c].result]
          /\ staged' = IF Done(c) \cup {p} = Paths THEN staged \ {o} ELSE staged
          /\ frame' = [frame EXCEPT ![c].done = Append(@, p)]
          /\ Goto(c, "completed")
    BY <1>3
  <2>2. staged' \subseteq Ops
    BY <1>2, <2>1 DEF Domains
  <2> QED BY <1>1, <2>1, <2>2, FileReplacedKeeps
<1>4. CASE Goto(c, "patchFailed") /\ UNCHANGED <<files, staged, frame>>
  <2>1. /\ Domains' /\ Serves(c, o) /\ RecordsOK(o)' /\ AloneOK(o)' /\ TasksOK(c)'
        /\ pc'[c] = "patchFailed" /\ effect'[o] = effect[o]
    BY <1>1, <1>2, <1>4, WorkspaceGoesOn DEF Domains, Op, ApplySteps
  <2>2. Applying(c, o, "patchFailed")
    BY <1>1, <1>2, <1>4, <2>1 DEF Applying, PatchSteps, FrameOK, store, history, Op
  <2>3. PatchOK(c)'
    BY <2>1 DEF PatchOK
  <2>4. EffectOf(o, effect[o]) /\ frame[c].done \in Seq(Paths)
    BY <1>1, <1>2, NothingDoneYet DEF FrameOK, PatchSteps
  <2>5. FrameOK(c)' /\ UndisturbedOK(c)'
    BY <1>2, <1>4, <2>1, <2>2, <2>3, <2>4, StillGoing
  <2> QED BY <2>1, <2>5, ServiceKeeps DEF CallerOK
<1> QED BY <1>3, <1>4 DEF ReplaceFile

(* The effect as it is stored now changes, and the frame does not.         *)
LEMMA CompletedKeeps ==
  ASSUME IInv, NEW c \in Callers, Completed(c)
  PROVE  IInv'
<1> PICK o \in Ops : o = Op(c)
  BY InCall DEF Completed
<1> PICK path : path = frame[c].done[Len(frame[c].done)]
  OBVIOUS
<1> PICK value : value = [effect[o] EXCEPT !.state = "APPLYING", !.completed = @ \cup {path}]
  OBVIOUS
<1> PICK label \in {"applied", "replace"} :
      label = IF Done(c) = Paths THEN "applied" ELSE "replace"
  OBVIOUS
<1>1. /\ pc[c] = "completed" /\ pc[c] # "idle" /\ Goto(c, label)
      /\ UNCHANGED <<operation, result, receipt, cancellation, workspace, provider, frame, history>>
  BY DEF Completed
<1>2. FrameOK(c) /\ UndisturbedOK(c) /\ Domains /\ EffectOf(o, effect[o])
        /\ frame[c].done \in Seq(Paths)
  BY <1>1, InCall, NothingDoneYet DEF FrameOK, PatchSteps
<1>3. /\ effect'[o] = value /\ DOMAIN effect' = Ops
      /\ \A x \in Ops \ {o} : effect'[x] = effect[x]
  BY <1>2 DEF Completed, Domains
<1>4. EffectOf(o, value) /\ value.state = "APPLYING" /\ value.result = effect[o].result
  BY <1>2 DEF EffectOf, EffectFields
<1>5. Domains'
  BY <1>1, <1>2, <1>3, GoingOn DEF Domains, workspace, provider
<1>6. /\ Serves(c, o) /\ Op(c)' = o /\ pc'[c] = label /\ frame'[c] = frame[c] /\ TasksOK(c)'
  <2>1. Kept(o) /\ \A x \in Ops \ {o} : SameRecords(x)
    BY <1>1, <1>3, <1>4 DEF Kept, SameRecords, provider
  <2> QED BY <1>1, <2>1, MovesOn DEF ApplySteps, workspace, provider, history
<1>7. RecordsOK(o)'
  BY <1>1, <1>3, <1>4 DEF IInv, RecordsOK, AnswerTo, EffectOf, InState, provider
<1>8. AloneOK(o)'
  BY <1>1, <1>3, <1>4 DEF IInv, AloneOK, PaidFor, AcceptedWhole, InState, ReceiptMatches,
    provider, history
<1>9. Done(c)' = Done(c)
  BY <1>6, DoneKept
<1>10. Applying(c, o, label)
  BY <1>1, <1>2, <1>6 DEF Applying, PatchSteps, FrameOK, history, Op
<1>11. o \notin overlapped => PatchOK(c)'
  BY <1>1, <1>2, <1>3, <1>4, <1>6, <1>9 DEF UndisturbedOK, PatchOK, CrossedAt, workspace,
    history
<1>12. FrameOK(c)' /\ UndisturbedOK(c)'
  BY <1>2, <1>3, <1>4, <1>6, <1>9, <1>10, <1>11, StillGoing
<1> QED BY <1>5, <1>6, <1>7, <1>8, <1>12, ServiceKeeps DEF CallerOK

LEMMA PatchFailedKeeps ==
  ASSUME IInv, NEW c \in Callers, PatchFailed(c)
  PROVE  IInv'
<1> PICK o \in Ops : o = Op(c)
  BY InCall DEF PatchFailed
<1> PICK value : value = [effect[o] EXCEPT !.state = "UNCERTAIN"]
  OBVIOUS
<1>1. pc[c] = "patchFailed" /\ pc[c] # "idle" /\ Return(c) /\ SavesEffect
  BY DEF PatchFailed
<1>2. EffectOf(o, effect[o]) /\ Domains
  BY <1>1, InCall DEF FrameOK, PatchSteps
<1>3. EffectOf(o, value) /\ value.state # "ACCEPTED"
  BY <1>2 DEF EffectOf, EffectFields
<1>4. effect' = [effect EXCEPT ![o] = value]
  BY <1>2 DEF PatchFailed, Domains
<1> QED BY <1>1, <1>3, <1>4, EffectSaved DEF SavesEffect

LEMMA AppliedKeeps ==
  ASSUME IInv, NEW c \in Callers, Applied(c)
  PROVE  IInv'
<1> PICK o \in Ops : o = Op(c)
  BY InCall DEF Applied
<1> PICK value : value = [effect[o] EXCEPT !.state = "APPLIED"]
  OBVIOUS
<1>1. pc[c] = "applied" /\ pc[c] # "idle" /\ SaveEffect(c, value) /\ Goto(c, "verify")
        /\ SavesEffect
  BY DEF Applied
<1>2. FrameOK(c) /\ UndisturbedOK(c) /\ EffectOf(o, effect[o]) /\ Done(c) = Paths
        /\ frame[c].done \in Seq(Paths)
  BY <1>1, InCall, NothingDoneYet DEF FrameOK, PatchSteps
<1>3. EffectOf(o, value) /\ value.state # "ACCEPTED" /\ value.result = effect[o].result
  BY <1>2 DEF EffectOf, EffectFields
<1>4. /\ Domains' /\ Serves(c, o) /\ RecordsOK(o)' /\ AloneOK(o)' /\ TasksOK(c)'
      /\ pc'[c] = "verify" /\ effect'[o] = value
      /\ DOMAIN frame'[c] = FrameFields /\ frame'[c].effect = value
      /\ frame'[c].op = o /\ frame'[c].record = frame[c].record
      /\ frame'[c].result = frame[c].result /\ frame'[c].done = frame[c].done
  BY ONLY IInv, o = Op(c), <1>1, <1>3, EffectGoesOn DEF ApplySteps
<1>5. Applying(c, o, "verify")
  BY <1>1, <1>4 DEF Applying, PatchSteps, SavesEffect, history
<1>6. Op(c)' = o /\ Done(c)' = Done(c)
  BY <1>4, DoneKept DEF Op
<1>7. o \notin overlapped => PatchOK(c)'
  BY <1>1, <1>2, <1>3, <1>4, <1>6 DEF UndisturbedOK, PatchOK, CrossedAt, SavesEffect, workspace,
    history
<1>8. FrameOK(c)' /\ UndisturbedOK(c)'
  BY <1>2, <1>3, <1>4, <1>5, <1>6, <1>7, StillGoing
<1> QED BY <1>4, <1>8, ServiceKeeps DEF CallerOK

(* Git has seen every path changed, so what is not the answer is an edit.  *)
LEMMA ManifestIsWhole ==
  ASSUME NEW c \in Callers, PatchOK(c), pc[c] = "verify", Done(c) = Paths, ObservedIsPatch,
         NEW value, value.result = frame[c].effect.result, value.manifest = files,
         value.result.op = Op(c)
  PROVE  Whole(value)
<1>1. /\ frame[c].effect.result = frame[c].result
      /\ \A p \in Paths : files[p] = frame[c].result
                            \/ (edited /\ files[p] \in {Edited, base[p]})
                            \/ CrossedAt(Op(c), files[p])
  BY DEF PatchOK
<1>2. \A p \in Paths : files[p] # base[p]
  BY DEF ObservedIsPatch, Changed
<1> QED BY <1>1, <1>2 DEF Whole

LEMMA VerifyKeeps ==
  ASSUME IInv, NEW c \in Callers, Verify(c)
  PROVE  IInv'
<1> PICK o \in Ops : o = Op(c)
  BY InCall DEF Verify
<1>1. pc[c] = "verify" /\ pc[c] # "idle" /\ SavesEffect
  BY DEF Verify
<1>2. FrameOK(c) /\ UndisturbedOK(c) /\ EffectOf(o, frame[c].effect) /\ Done(c) = Paths
        /\ frame[c].done \in Seq(Paths)
  BY <1>1, InCall, NothingDoneYet DEF FrameOK
<1>3. CASE ObservedIsPatch
  <2> PICK value : value = [frame[c].effect EXCEPT !.state = "VERIFIED", !.manifest = files]
    OBVIOUS
  <2>1. SaveEffect(c, value) /\ Goto(c, "accept")
    BY <1>3 DEF Verify
  <2>2. EffectOf(o, value) /\ value.state = "VERIFIED" /\ value.state # "ACCEPTED"
          /\ value.result = frame[c].effect.result /\ value.manifest = files
    BY <1>2 DEF EffectOf, EffectFields
  <2>3. /\ Domains' /\ Serves(c, o) /\ RecordsOK(o)' /\ AloneOK(o)' /\ TasksOK(c)'
        /\ pc'[c] = "accept" /\ effect'[o] = value
        /\ DOMAIN frame'[c] = FrameFields /\ frame'[c].effect = value
        /\ frame'[c].op = o /\ frame'[c].record = frame[c].record
        /\ frame'[c].result = frame[c].result /\ frame'[c].done = frame[c].done
    BY ONLY IInv, o = Op(c), <1>1, <2>1, <2>2, EffectGoesOn DEF ApplySteps
  <2>4. Applying(c, o, "accept")
    BY <1>1, <2>3 DEF Applying, PatchSteps, SavesEffect, history
  <2>5. Op(c)' = o /\ Done(c)' = Done(c)
    BY <2>3, DoneKept DEF Op
  <2>6. o \notin overlapped => PatchOK(c)'
    <3> SUFFICES ASSUME o \notin overlapped PROVE PatchOK(c)'
      OBVIOUS
    <3>1. PatchOK(c)
      BY <1>2 DEF UndisturbedOK
    <3>2. Whole(value) /\ value.result = frame[c].result
      BY <1>1, <1>2, <1>3, <2>2, <3>1, ManifestIsWhole DEF PatchOK, EffectOf, AnswerTo
    <3> QED BY <1>1, <2>3, <3>2 DEF PatchOK, Whole, CrossedAt, SavesEffect, history
  <2>7. FrameOK(c)' /\ UndisturbedOK(c)'
    BY <1>2, <2>2, <2>3, <2>4, <2>5, <2>6, StillGoing
  <2> QED BY <2>3, <2>7, ServiceKeeps DEF CallerOK
<1>4. CASE ~ObservedIsPatch
  <2> PICK value : value = [frame[c].effect EXCEPT !.state = "RECONCILIATION_REQUIRED"]
    OBVIOUS
  <2>1. effect' = [effect EXCEPT ![o] = value] /\ Return(c)
    BY <1>4 DEF Verify
  <2>2. EffectOf(o, value) /\ value.state # "ACCEPTED"
    BY <1>2 DEF EffectOf, EffectFields
  <2> QED BY <1>1, <2>1, <2>2, EffectSaved DEF SavesEffect
<1> QED BY <1>3, <1>4

LEMMA AcceptEffectKeeps ==
  ASSUME IInv, NEW c \in Callers, AcceptEffect(c)
  PROVE  IInv'
<1> PICK o \in Ops : o = Op(c)
  BY InCall DEF AcceptEffect
<1> PICK value : value = [frame[c].effect EXCEPT !.state = "ACCEPTED"]
  OBVIOUS
<1>1. pc[c] = "accept" /\ pc[c] # "idle" /\ SaveEffect(c, value) /\ Goto(c, "acceptOperation")
        /\ SavesEffect
  BY DEF AcceptEffect
<1>2. FrameOK(c) /\ UndisturbedOK(c) /\ EffectOf(o, frame[c].effect)
        /\ frame[c].done \in Seq(Paths)
  BY <1>1, InCall, NothingDoneYet DEF FrameOK
<1>3. EffectOf(o, value) /\ value.result = frame[c].effect.result
        /\ value.manifest = frame[c].effect.manifest
  BY <1>2 DEF EffectOf, EffectFields
<1>4. o \notin overlapped => Whole(value)
  BY <1>1, <1>2, <1>3 DEF UndisturbedOK, PatchOK, Whole, CrossedAt
<1>5. /\ Domains' /\ Serves(c, o) /\ RecordsOK(o)' /\ AloneOK(o)' /\ TasksOK(c)'
      /\ pc'[c] = "acceptOperation" /\ effect'[o] = value
      /\ DOMAIN frame'[c] = FrameFields /\ frame'[c].effect = value
      /\ frame'[c].op = o /\ frame'[c].record = frame[c].record
      /\ frame'[c].result = frame[c].result /\ frame'[c].done = frame[c].done
  BY ONLY IInv, o = Op(c), <1>1, <1>3, <1>4, EffectGoesOn DEF ApplySteps
<1>6. Applying(c, o, "acceptOperation")
  BY <1>1, <1>5 DEF Applying, PatchSteps, SavesEffect, history
<1>7. PatchOK(c)'
  BY <1>5 DEF PatchOK
<1>8. FrameOK(c)' /\ UndisturbedOK(c)'
  BY <1>2, <1>5, <1>6, <1>7, StillGoing DEF PatchSteps
<1> QED BY <1>5, <1>8, ServiceKeeps DEF CallerOK

LEMMA AcceptOperationKeeps ==
  ASSUME IInv, NEW c \in Callers, AcceptOperation(c)
  PROVE  IInv'
<1>1. pc[c] = "acceptOperation" /\ pc[c] # "idle" /\ Return(c) /\ SavesOperation
  BY DEF AcceptOperation
<1> DEFINE record == [Record(c) EXCEPT !.state = "RESULT_ACCEPTED"]
<1>2. Record(c) \in Operations
  BY <1>1, InCall DEF FrameOK
<1>3. record \in Operations /\ record.state = "RESULT_ACCEPTED" /\ record.task = Record(c).task
  BY <1>2, StateReplaced DEF OperationStates
<1>4. operation' = [operation EXCEPT ![Op(c)] = record]
  BY DEF AcceptOperation, SaveState, SaveOperation
<1>5. Op(c) \in LiveOps => receipt[Op(c)] # None
  BY <1>1, InCall DEF FrameOK, GoingSteps, Received
<1>6. Op(c) \in LiveOps /\ Op(c) \notin overlapped =>
        ReceiptMatches(receipt[Op(c)], result[Op(c)]) /\ receipt[Op(c)].task = record.task
  BY <1>1, <1>3, InCall DEF UndisturbedOK, SubmissionOK, GoingSteps, AloneOK, PaidFor
<1> HIDE DEF record
<1> QED BY <1>1, <1>3, <1>4, <1>5, <1>6, InCall, OperationSaved DEF SavesOperation

LEMMA ReconcilePatchKeeps ==
  ASSUME IInv, NEW c \in Callers, ReconcilePatch(c)
  PROVE  IInv'
<1> PICK o \in Ops : o = Op(c)
  BY InCall DEF ReconcilePatch
<1>1. pc[c] = "reconcilePatch" /\ pc[c] # "idle" /\ SavesEffect
  BY DEF ReconcilePatch
<1>2. FrameOK(c) /\ UndisturbedOK(c) /\ EffectOf(o, frame[c].effect)
        /\ frame[c].done \in Seq(Paths)
  BY <1>1, InCall, NothingDoneYet DEF FrameOK
<1>3. CASE /\ effect' = [effect EXCEPT ![o] = [frame[c].effect EXCEPT !.state = "PREPARED",
                                                                     !.completed = {}]]
           /\ Return(c)
  <2> PICK value : value = [frame[c].effect EXCEPT !.state = "PREPARED", !.completed = {}]
    OBVIOUS
  <2>1. EffectOf(o, value) /\ value.state = "PREPARED"
    BY <1>2 DEF EffectOf, EffectFields
  <2> QED BY <1>1, <1>3, <2>1, EffectSaved DEF SavesEffect
<1>4. CASE /\ effect' = [effect EXCEPT ![o] =
                           [frame[c].effect EXCEPT !.state = "RECONCILIATION_REQUIRED"]]
           /\ Return(c)
  <2> PICK value : value = [frame[c].effect EXCEPT !.state = "RECONCILIATION_REQUIRED"]
    OBVIOUS
  <2>1. EffectOf(o, value) /\ value.state # "ACCEPTED"
    BY <1>2 DEF EffectOf, EffectFields
  <2> QED BY <1>1, <1>4, <2>1, EffectSaved DEF SavesEffect
<1>5. CASE /\ PatchOutcome(c) = "accepted"
           /\ SaveEffect(c, [frame[c].effect EXCEPT !.state = "ACCEPTED", !.manifest = files,
                                                    !.completed = Paths])
           /\ Goto(c, "acceptOperation")
  <2> PICK value : value = [frame[c].effect EXCEPT !.state = "ACCEPTED", !.manifest = files,
                                                   !.completed = Paths]
    OBVIOUS
  <2>1. SaveEffect(c, value) /\ Goto(c, "acceptOperation")
    BY <1>5
  <2>2. EffectOf(o, value) /\ value.manifest = files /\ value.result = frame[c].effect.result
    BY <1>2 DEF EffectOf, EffectFields
  <2>3. Matching(c) = Paths
    <3>1. CASE Matching(c) = {}
      BY <1>5, <3>1 DEF PatchOutcome
    <3>2. CASE Matching(c) # {} /\ Matching(c) # Paths
      BY <1>5, <3>2 DEF PatchOutcome
    <3> QED BY <3>1, <3>2
  <2>4. o \notin overlapped => Whole(value)
    BY <1>1, <1>2, <2>2, <2>3 DEF UndisturbedOK, PatchOK, Whole, CrossedAt, Matching
  <2>5. /\ Domains' /\ Serves(c, o) /\ RecordsOK(o)' /\ AloneOK(o)' /\ TasksOK(c)'
        /\ pc'[c] = "acceptOperation" /\ effect'[o] = value
        /\ DOMAIN frame'[c] = FrameFields /\ frame'[c].effect = value
        /\ frame'[c].op = o /\ frame'[c].record = frame[c].record
        /\ frame'[c].result = frame[c].result /\ frame'[c].done = frame[c].done
    BY ONLY IInv, o = Op(c), <1>1, <2>1, <2>2, <2>4, EffectGoesOn DEF ApplySteps
  <2>6. Applying(c, o, "acceptOperation")
    BY <1>1, <2>5 DEF Applying, PatchSteps, SavesEffect, history
  <2>7. PatchOK(c)'
    BY <2>5 DEF PatchOK
  <2>8. FrameOK(c)' /\ UndisturbedOK(c)'
    BY <1>2, <2>5, <2>6, <2>7, StillGoing DEF PatchSteps
  <2> QED BY <2>5, <2>8, ServiceKeeps DEF CallerOK
<1> QED BY <1>3, <1>4, <1>5 DEF ReconcilePatch

-----------------------------------------------------------------------------
(* The beginning of a call.  The caller loads what is stored; a call on the*)
(* same operation that was under way stops being undisturbed.              *)

BeginSteps ==
  {"prepare", "submit", "reconcile", "poll", "result", "cancelIntent", "cancelStatus", "apply"}

LEMMA FrameLoaded ==
  ASSUME NEW o \in Ops
  PROVE  /\ DOMAIN Frame(o) = FrameFields
         /\ Frame(o).op = o /\ Frame(o).record = operation[o] /\ Frame(o).result = result[o]
         /\ Frame(o).done \in Seq(Paths) /\ DOMAIN Frame(o).done = {}
<1>1. << >> \in Seq(Paths) /\ DOMAIN << >> = {}
  BY EmptySeq
<1>2. Frame(o).done = << >>
  BY DEF Frame
<1> QED BY <1>1, <1>2 DEF Frame, FrameFields

LEMMA BeginningUndisturbs ==
  ASSUME IInv, NEW c \in Callers, NEW o \in Ops, NEW label, Begin(c, o, label),
         NEW d \in Callers \ {c}
  PROVE  CallerOK(d)'
<1>1. /\ pc'[d] = pc[d] /\ frame'[d] = frame[d] /\ CallerOK(d)
      /\ UNCHANGED <<store, workspace, provider, edited>>
      /\ overlapped \subseteq overlapped' /\ crossed \subseteq crossed'
  BY DEF Begin, Goto, IInv, Domains
<1> SUFFICES ASSUME pc[d] # "idle"
    PROVE  FrameOK(d)' /\ UndisturbedOK(d)'
  BY <1>1 DEF CallerOK
<1>2. Op(d)' = Op(d) /\ Record(d)' = Record(d) /\ Done(d)' = Done(d)
  BY <1>1 DEF Op, Record, Done
<1>3. FrameOK(d) /\ UndisturbedOK(d)
  BY <1>1 DEF CallerOK
<1>4. FrameOK(d)'
  BY <1>1, <1>2, <1>3 DEF FrameOK, AnswerTo, EffectOf, Received, store
<1>5. SubmissionOK(d) => SubmissionOK(d)'
  BY <1>1, <1>2 DEF SubmissionOK, InState, ReceiptMatches, store, provider
<1>6. PatchOK(d) => PatchOK(d)'
  <2>1. \A x, content : CrossedAt(x, content) => CrossedAt(x, content)'
    BY <1>1 DEF CrossedAt
  <2>2. \A value : Whole(value) => Whole(value)'
    BY <1>1, <2>1 DEF Whole
  <2> QED BY <1>1, <1>2, <2>1, <2>2 DEF PatchOK, store, workspace
<1>7. UndisturbedOK(d)'
  BY <1>1, <1>2, <1>3, <1>5, <1>6 DEF UndisturbedOK, store
<1> QED BY <1>4, <1>7

LEMMA BeginningKeepsApart ==
  ASSUME IInv, NEW c \in Callers, NEW o \in Ops, NEW label \in BeginSteps,
         Begin(c, o, label), Op(c)' = o
  PROVE  Apart' /\ Crossing'
<1>1. /\ pc'[c] = label
      /\ \A x \in Callers \ {c} : pc'[x] = pc[x] /\ frame'[x] = frame[x] /\ Op(x)' = Op(x)
      /\ overlapped \subseteq overlapped' /\ crossed \subseteq crossed'
  BY DEF Begin, Goto, IInv, Domains, Op
<1>2. \A x \in Callers \ {c} : pc[x] # "idle" /\ Op(x) = o => o \in overlapped'
  BY DEF Begin, Busy
<1>3. Apart'
  BY <1>1, <1>2 DEF IInv, Apart
<1>4. label \in ApplySteps => label = "apply"
  BY DEF BeginSteps, ApplySteps
<1>5. \A x \in Callers \ {c} :
        label = "apply" /\ pc[x] \in ApplySteps /\ Op(x) # o => {o, Op(x)} \in crossed'
  BY DEF Begin, Busy, ApplySteps
<1>6. Crossing'
  <2> SUFFICES ASSUME NEW d \in Callers, NEW e \in Callers, Op(d)' # Op(e)',
                      pc'[d] \in ApplySteps, pc'[e] \in ApplySteps
      PROVE  {Op(d)', Op(e)'} \in crossed'
    BY DEF Crossing
  <2>1. CASE d = c
    BY <1>1, <1>4, <1>5, <2>1
  <2>2. CASE e = c
    <3>1. {Op(d)', Op(e)'} = {o, Op(d)'}
      BY <2>2
    <3> QED BY <1>1, <1>4, <1>5, <2>2, <3>1
  <2>3. CASE d # c /\ e # c
    BY <1>1, <2>3 DEF IInv, Crossing
  <2> QED BY <2>1, <2>2, <2>3
<1> QED BY <1>3, <1>6

LEMMA BeginKeeps ==
  ASSUME IInv, NEW c \in Callers, NEW o \in Ops, NEW label \in BeginSteps, Begin(c, o, label),
         label = "prepare" => operation[o] = None,
         label # "prepare" => operation[o] # None,
         label = "submit" => InState(o, {"PREPARED"}),
         label \in {"poll", "result", "apply"} => InState(o, GoingStates),
         label = "apply" => result[o] # None,
         label \in CancelSteps => o \notin LiveOps
  PROVE  IInv'
<1>1. /\ Domains /\ \A x \in Ops : RecordsOK(x) /\ AloneOK(x)
      /\ \A d \in Callers : CallerOK(d) /\ TasksOK(d)
  BY DEF IInv
<1>2. /\ pc'[c] = label /\ frame'[c] = Frame(o) /\ DOMAIN pc' = Callers /\ DOMAIN frame' = Callers
      /\ UNCHANGED <<store, workspace, provider, edited>> /\ overlapped \subseteq overlapped'
      /\ crossed \subseteq crossed'
  BY <1>1 DEF Begin, Goto, Domains
<1>3. Domains'
  BY <1>1, <1>2 DEF Domains, store, workspace, provider
<1>4. \A x \in Ops : RecordsOK(x)' /\ AloneOK(x)'
  <2> SUFFICES ASSUME NEW x \in Ops PROVE RecordsOK(x)' /\ AloneOK(x)'
    OBVIOUS
  <2>1. RecordsOK(x)'
    BY <1>1, <1>2 DEF RecordsOK, AnswerTo, EffectOf, InState, store, provider
  <2>2. AloneOK(x)'
    BY <1>1, <1>2 DEF AloneOK, PaidFor, AcceptedWhole, Whole, CrossedAt, InState, ReceiptMatches, store,
      provider
  <2> QED BY <2>1, <2>2
<1>5. \A d \in Callers : TasksOK(d)'
  BY <1>1, <1>2 DEF TasksOK, Remembered, Received, store, provider
<1>6. Op(c)' = o /\ Record(c)' = operation[o] /\ frame'[c].result = result[o]
        /\ DOMAIN frame'[c] = FrameFields /\ frame'[c].done \in Seq(Paths) /\ Done(c)' = {}
  BY <1>2, FrameLoaded DEF Op, Record, Done
<1>7. /\ label # "prepare" => operation[o] \in Operations
      /\ label = "apply" => AnswerTo(o, result[o])
      /\ label \in {"poll", "result", "apply"} /\ o \in LiveOps => Received(o)
  BY <1>1 DEF RecordsOK, Received
<1>8. FrameOK(c)'
  <2>1. label \in AnswerSteps => label = "apply"
    BY DEF AnswerSteps, PatchSteps, BeginSteps
  <2>2. label \in GoingSteps => label \in {"poll", "result", "apply"}
    BY DEF GoingSteps, PatchSteps, BeginSteps
  <2>3. label \notin PatchSteps /\ label \notin {"sink", "receipt"}
    BY DEF PatchSteps, BeginSteps
  <2> QED BY <1>2, <1>6, <1>7, <2>1, <2>2, <2>3 DEF FrameOK, Received, AnswerTo, store, PatchSteps
<1>9. UndisturbedOK(c)'
  <2>1. SubmissionOK(c)'
    BY <1>2, <1>6 DEF SubmissionOK, InState, GoingSteps, PatchSteps, BeginSteps, store
  <2>2. PatchOK(c)'
    BY <1>2 DEF PatchOK, BeginSteps
  <2> QED BY <1>2, <1>6, <2>1, <2>2 DEF UndisturbedOK, store
<1>10. \A d \in Callers : CallerOK(d)'
  BY <1>8, <1>9, BeginningUndisturbs DEF CallerOK
<1> QED BY <1>3, <1>4, <1>5, <1>6, <1>10, BeginningKeepsApart DEF IInv

(* Every method begins in a state that the service accepts.                *)
LEMMA BeginsKeep ==
  ASSUME IInv, NEW c \in Callers, NEW o \in Ops,
         \/ PrepareBegin(c, o) \/ SubmitBegin(c, o) \/ PollBegin(c, o)
         \/ ResultBegin(c, o) \/ ReconcileBegin(c, o) \/ CancelBegin(c, o)
         \/ ReconcileCancellationBegin(c, o) \/ ApplyBegin(c, o)
  PROVE  IInv'
<1>1. RecordsOK(o)
  BY DEF IInv
<1>2. CASE PrepareBegin(c, o)
  BY <1>2, BeginKeeps DEF PrepareBegin, BeginSteps, CancelSteps
<1>3. CASE SubmitBegin(c, o)
  BY <1>3, BeginKeeps DEF SubmitBegin, InState, BeginSteps, CancelSteps
<1>4. CASE PollBegin(c, o)
  <2>1. operation[o] # None /\ operation[o].state \in {"SUBMITTED", "RUNNING", "RESULT_AVAILABLE"}
    BY <1>4 DEF PollBegin, InState
  <2>2. operation[o].state \in OperationStates
    BY <1>1, <2>1 DEF RecordsOK, Operations
  <2>3. operation[o].state # "RUNNING"
    BY <2>2, ProvidersAssumption DEF OperationStates, ResultStatuses
  <2>4. InState(o, GoingStates)
    BY <2>1, <2>3 DEF InState, GoingStates
  <2> QED BY <1>4, <2>1, <2>4, BeginKeeps DEF PollBegin, BeginSteps, CancelSteps
<1>5. CASE ResultBegin(c, o)
  BY <1>5, BeginKeeps DEF ResultBegin, InState, BeginSteps, CancelSteps, GoingStates
<1>6. CASE ReconcileBegin(c, o)
  BY <1>6, BeginKeeps DEF ReconcileBegin, BeginSteps, CancelSteps
<1>7. CASE CancelBegin(c, o)
  BY <1>7, BeginKeeps DEF CancelBegin, InState, BeginSteps
<1>8. CASE ReconcileCancellationBegin(c, o)
  <2>1. operation[o] # None /\ o \notin LiveOps
    BY <1>1, <1>8, RecordExists DEF ReconcileCancellationBegin, RecordsOK
  <2> QED BY <1>8, <2>1, BeginKeeps DEF ReconcileCancellationBegin, BeginSteps
<1>9. CASE ApplyBegin(c, o)
  BY <1>9, BeginKeeps DEF ApplyBegin, InState, BeginSteps, CancelSteps, GoingStates
<1> QED BY <1>2, <1>3, <1>4, <1>5, <1>6, <1>7, <1>8, <1>9

-----------------------------------------------------------------------------
(* The environment.                                                        *)

(* A process that ends takes its frame and its tasks with it.              *)
LEMMA RestartKeeps ==
  ASSUME IInv, NEW c \in Callers, Restart(c)
  PROVE  IInv'
<1>1. Domains /\ UNCHANGED <<store, workspace, charges, overlapped, crossed, edited>>
  BY DEF IInv, Restart
<1>2. /\ pc'[c] = "idle" /\ DOMAIN pc' = Callers /\ DOMAIN frame' = Callers
      /\ tasks'[c] = << >> /\ DOMAIN tasks' = Callers
      /\ \A d \in Callers \ {c} : SameCaller(d)
  BY <1>1, Returning DEF Restart, Domains, SameCaller
<1>3. Domains'
  BY <1>1, <1>2 DEF Domains, store, workspace
<1>4. ASSUME NEW x \in Ops PROVE RecordsOK(x)' /\ AloneOK(x)'
  <2>1. RecordsOK(x)'
    BY <1>1 DEF IInv, RecordsOK, AnswerTo, EffectOf, InState, store
  <2>2. AloneOK(x)'
    BY <1>1 DEF IInv, AloneOK, PaidFor, AcceptedWhole, Whole, CrossedAt, InState, ReceiptMatches, store
  <2> QED BY <2>1, <2>2
<1>5. ASSUME NEW d \in Callers \ {c} PROVE CallerOK(d)'
  <2>1. SameCaller(d) /\ CallerOK(d)
    BY <1>2 DEF IInv
  <2> SUFFICES ASSUME pc[d] # "idle" PROVE FrameOK(d)' /\ UndisturbedOK(d)'
    BY <2>1 DEF CallerOK, SameCaller
  <2>2. Op(d)' = Op(d) /\ Record(d)' = Record(d) /\ Done(d)' = Done(d)
    BY <2>1 DEF Op, Record, Done, SameCaller
  <2>3. FrameOK(d)'
    BY <1>1, <2>1, <2>2 DEF CallerOK, FrameOK, AnswerTo, EffectOf, Received, SameCaller, store
  <2>4. SubmissionOK(d) => SubmissionOK(d)'
    BY <1>1, <2>1, <2>2 DEF SubmissionOK, InState, ReceiptMatches, SameCaller, store
  <2>5. PatchOK(d) => PatchOK(d)'
    BY <1>1, <2>1, <2>2 DEF PatchOK, Whole, CrossedAt, SameCaller, store, workspace
  <2> QED BY <1>1, <2>1, <2>2, <2>3, <2>4, <2>5 DEF CallerOK, SameCaller, UndisturbedOK, store
<1>6. TasksOK(c)'
  BY <1>2, EmptySeq DEF TasksOK
<1>7. ASSUME NEW d \in Callers \ {c} PROVE TasksOK(d)'
  BY <1>1, <1>2 DEF IInv, TasksOK, Remembered, Received, SameCaller, store
<1>8. Apart' /\ Crossing'
  BY <1>1, <1>2 DEF IInv, Apart, Crossing, ApplySteps, SameCaller, Op
<1> QED BY <1>2, <1>3, <1>4, <1>5, <1>6, <1>7, <1>8 DEF IInv, CallerOK

(* The workspace changes under the callers: an edit is remembered, and a   *)
(* commit makes what is there the base.                                    *)
LEMMA WorkspaceKeeps ==
  ASSUME IInv, UNCHANGED <<store, staged, provider, pc, frame, overlapped, crossed>>,
         files' \in Files, base' \in Files,
         edited => edited',
         \A c \in Callers : PatchOK(c) => PatchOK(c)'
  PROVE  IInv'
<1>1. Domains'
  BY DEF IInv, Domains, store, provider
<1>2. ASSUME NEW x \in Ops PROVE RecordsOK(x)' /\ AloneOK(x)'
  <2>1. RecordsOK(x)'
    BY DEF IInv, RecordsOK, AnswerTo, EffectOf, InState, store, provider
  <2>2. AloneOK(x)'
    BY DEF IInv, AloneOK, PaidFor, AcceptedWhole, Whole, CrossedAt, InState, ReceiptMatches, store, provider
  <2> QED BY <2>1, <2>2
<1>3. ASSUME NEW c \in Callers PROVE CallerOK(c)'
  <2>1. CallerOK(c)
    BY DEF IInv
  <2>2. Op(c)' = Op(c) /\ Record(c)' = Record(c) /\ Done(c)' = Done(c)
    BY DEF Op, Record, Done
  <2>3. FrameOK(c) => FrameOK(c)'
    BY <2>2 DEF FrameOK, AnswerTo, EffectOf, Received, store
  <2>4. SubmissionOK(c) => SubmissionOK(c)'
    BY <2>2 DEF SubmissionOK, InState, ReceiptMatches, store, provider
  <2> QED BY <2>1, <2>2, <2>3, <2>4 DEF CallerOK, UndisturbedOK, store
<1>4. ASSUME NEW c \in Callers PROVE TasksOK(c)'
  BY DEF IInv, TasksOK, Remembered, Received, store, provider
<1>5. Apart' /\ Crossing'
  BY DEF IInv, Apart, Crossing, Op
<1> QED BY <1>1, <1>2, <1>3, <1>4, <1>5 DEF IInv

LEMMA DoneInPaths ==
  ASSUME IInv, NEW c \in Callers, pc[c] # "idle"
  PROVE  Done(c) \subseteq Paths
<1>1. frame[c].done \in Seq(Paths)
  BY InCall DEF FrameOK
<1>2. \A i \in DOMAIN frame[c].done : frame[c].done[i] \in Paths
  BY <1>1
<1> QED BY <1>2 DEF Done

LEMMA EditFileKeeps ==
  ASSUME IInv, EditFile
  PROVE  IInv'
<1>1. /\ edited' /\ UNCHANGED <<store, base, staged, provider, pc, frame, overlapped, crossed>>
      /\ files \in Files /\ base \in Files
  BY DEF EditFile, IInv, Domains
<1>2. PICK p \in Paths :
        \E content \in {Edited, base[p]} : files' = [files EXCEPT ![p] = content]
  BY DEF EditFile
<1>3. files' \in Files
  BY <1>1, <1>2 DEF Files
<1>4. \A q \in Paths : files'[q] = files[q] \/ files'[q] \in {Edited, base[q]}
  BY <1>1, <1>2 DEF Files
<1>5. ASSUME NEW c \in Callers, PatchOK(c) PROVE PatchOK(c)'
  <2>1. pc'[c] = pc[c] /\ frame'[c] = frame[c] /\ Op(c)' = Op(c) /\ Done(c)' = Done(c)
    BY <1>1 DEF Op, Done
  <2>2. Done(c) \subseteq Paths \/ pc[c] \notin {"replace", "completed", "applied", "verify"}
    BY DoneInPaths
  <2>3. pc[c] \in {"replace", "completed", "applied", "verify"} =>
          \A q \in Done(c) : \/ files'[q] = frame[c].result
                             \/ files'[q] \in {Edited, base[q]}
                             \/ CrossedAt(Op(c), files'[q])
    BY <1>4, <1>5, <2>2 DEF PatchOK
  <2> QED BY <1>1, <1>5, <2>1, <2>3 DEF PatchOK, Whole, CrossedAt, store
<1> QED BY <1>1, <1>3, <1>5, WorkspaceKeeps

LEMMA CommitKeeps ==
  ASSUME IInv, Commit
  PROVE  IInv'
<1>1. /\ base' = files /\ files' = files /\ edited' = edited
      /\ UNCHANGED <<store, staged, provider, pc, frame, overlapped, crossed>>
      /\ files \in Files
  BY DEF Commit, IInv, Domains, history
<1>2. ASSUME NEW c \in Callers, PatchOK(c) PROVE PatchOK(c)'
  <2>1. pc'[c] = pc[c] /\ frame'[c] = frame[c] /\ Op(c)' = Op(c) /\ Done(c)' = Done(c)
    BY <1>1 DEF Op, Done
  <2> QED BY <1>1, <1>2, <2>1 DEF PatchOK, Whole, CrossedAt, store
<1> QED BY <1>1, <1>2, WorkspaceKeeps

-----------------------------------------------------------------------------
(* The invariant.                                                          *)

(* Nothing is stored, nobody is in a call and nobody remembers a task.     *)
LEMMA InitIInv ==
  ASSUME Init
  PROVE  IInv
<1>1. Domains
  BY DEF Init, Domains, Files, BaseFiles
<1>2. ASSUME NEW o \in Ops PROVE RecordsOK(o) /\ AloneOK(o)
  BY DEF Init, RecordsOK, AloneOK, PaidFor, AcceptedWhole, InState
<1>3. ASSUME NEW c \in Callers PROVE CallerOK(c) /\ TasksOK(c)
  <2>1. tasks[c] = << >> /\ pc[c] = "idle"
    BY DEF Init
  <2> QED BY <2>1, EmptySeq DEF CallerOK, TasksOK
<1>4. Apart /\ Crossing
  BY DEF Init, Apart, Crossing, ApplySteps
<1> QED BY <1>1, <1>2, <1>3, <1>4 DEF IInv

LEMMA CallStepKeeps ==
  ASSUME IInv, NEW c \in Callers, CallStep(c)
  PROVE  IInv'
<1>1. CASE \E o \in Ops : \/ PrepareBegin(c, o) \/ SubmitBegin(c, o) \/ PollBegin(c, o)
                          \/ ResultBegin(c, o) \/ ReconcileBegin(c, o) \/ CancelBegin(c, o)
                          \/ ReconcileCancellationBegin(c, o) \/ ApplyBegin(c, o)
  BY <1>1, BeginsKeep
<1>2. CASE \/ PrepareSave(c) \/ SubmitIntent(c) \/ SubmitOffline(c) \/ SubmitLive(c)
           \/ SinkResult(c) \/ SinkReceipt(c) \/ SubmitUncertain(c) \/ SubmitSave(c)
  BY <1>2, PrepareSaveKeeps, SubmitIntentKeeps, SubmitOfflineKeeps, SubmitLiveKeeps,
     SinkResultKeeps, SinkReceiptKeeps, SubmitUncertainKeeps, SubmitSaveKeeps
<1>3. CASE \/ PollSave(c) \/ ResultCheck(c) \/ SaveResult(c) \/ SaveReceipt(c)
           \/ SaveReference(c) \/ ReconcileSave(c)
  BY <1>3, PollSaveKeeps, ResultCheckKeeps, SaveResultKeeps, SaveReceiptKeeps,
     SaveReferenceKeeps, ReconcileSaveKeeps
<1>4. CASE \/ CancelIntent(c) \/ CancelRequest(c) \/ CancelProgress(c) \/ CancelTask(c)
           \/ CancelStatus(c) \/ CancelSave(c)
  BY <1>4, CancelIntentKeeps, CancelRequestKeeps, CancelProgressKeeps, CancelTaskKeeps,
     CancelStatusKeeps, CancelSaveKeeps
<1>5. CASE \/ ApplyCheck(c) \/ StageIntent(c) \/ Stage(c) \/ ReplaceFile(c) \/ Completed(c)
           \/ PatchFailed(c)
  BY <1>5, ApplyCheckKeeps, StageIntentKeeps, StageKeeps, ReplaceFileKeeps, CompletedKeeps,
     PatchFailedKeeps
<1>6. CASE \/ Applied(c) \/ Verify(c) \/ AcceptEffect(c) \/ AcceptOperation(c)
           \/ ReconcilePatch(c)
  BY <1>6, AppliedKeeps, VerifyKeeps, AcceptEffectKeeps, AcceptOperationKeeps,
     ReconcilePatchKeeps
<1> QED BY <1>1, <1>2, <1>3, <1>4, <1>5, <1>6 DEF CallStep

LEMMA NextIInv ==
  ASSUME IInv, [Next]_vars
  PROVE  IInv'
<1>1. CASE \E c \in Callers : CallStep(c) \/ Restart(c)
  BY <1>1, CallStepKeeps, RestartKeeps
<1>2. CASE EditFile \/ Commit
  BY <1>2, EditFileKeeps, CommitKeeps
<1>3. CASE UNCHANGED vars
  <2>1. UNCHANGED <<store, staged, provider, pc, frame, overlapped, crossed, files, base, edited>>
    BY <1>3 DEF vars, workspace, history
  <2>2. \A c \in Callers : PatchOK(c) => PatchOK(c)'
    BY <2>1 DEF PatchOK, Whole, CrossedAt, Done, Op, store
  <2> QED BY <2>1, <2>2, WorkspaceKeeps DEF IInv, Domains
<1> QED BY <1>1, <1>2, <1>3 DEF Next

(* Whatever the callers do, however they are interleaved and wherever one  *)
(* of them dies, the records, the frames and the files agree.              *)
THEOREM ProvidersInv == Spec => []IInv
BY InitIInv, NextIInv, PTL DEF Spec

(* Every record has the shape its store loads, a live turn is charged once *)
(* unless two calls on its operation overlapped, and what goes on from a   *)
(* live submission has its durable receipt (submit, reconcile and result of*)
(* CodingProviderService, and the sink of the live provider).              *)
THEOREM LiveTurnsAreChargedAndReceipted == Spec => []ChargedAndReceipted
<1>1. ASSUME IInv PROVE TypeOK
  BY <1>1 DEF IInv, Domains, RecordsOK, AnswerTo, EffectOf, TypeOK
<1>2. ASSUME IInv PROVE ChargedOnce
  BY <1>2, ProvidersAssumption DEF IInv, AloneOK, PaidFor, ChargedOnce
<1>3. ASSUME IInv, NEW o \in LiveOps, InState(o, GoingStates)
      PROVE  /\ receipt[o] # None /\ result[o] # None
             /\ o \notin overlapped =>
                  ReceiptMatches(receipt[o], result[o]) /\ receipt[o].task = operation[o].task
  BY <1>3, ProvidersAssumption DEF IInv, RecordsOK, AloneOK, PaidFor
<1>4. ASSUME IInv PROVE ChargedAndReceipted
  BY <1>1, <1>2, <1>3, <1>4 DEF ChargedAndReceipted, SubmittedIsReceipted, GoingStates
<1> QED BY <1>4, ProvidersInv, PTL

(* The manifest of an accepted patch has every file of the result, or what *)
(* somebody else put there: an edit, or the result of an operation that was*)
(* applied at the same time, which nothing in apply_and_accept and         *)
(* _reconcile_patch prevents.  An operation that two calls worked on at    *)
(* once is left out.                                                       *)
THEOREM AcceptedPatchesAreWhole == Spec => []AcceptedPatchIsWhole
<1>1. ASSUME IInv PROVE AcceptedPatchIsWhole
  BY <1>1 DEF IInv, AloneOK, AcceptedWhole, Whole,
    RecordsOK, EffectOf, AnswerTo, AcceptedPatchIsWhole
<1> QED BY <1>1, ProvidersInv, PTL

-----------------------------------------------------------------------------
(* Who writes over a file.                                                 *)

(* A caller moves on its own step only.                                    *)
LEMMA OthersStay ==
  ASSUME Domains, NEW c \in Callers, NEW d \in Callers \ {c}, CallStep(d) \/ Restart(d)
  PROVE  pc'[c] = pc[c]
<1>1. ASSUME NEW label, Goto(d, label) PROVE pc'[c] = pc[c]
  BY <1>1 DEF Goto, Domains
<1>2. ASSUME Return(d) PROVE pc'[c] = pc[c]
  BY <1>1, <1>2 DEF Return
<1>3. ASSUME NEW o \in Ops, NEW label, Begin(d, o, label) PROVE pc'[c] = pc[c]
  BY <1>1, <1>3 DEF Begin
<1>4. CASE \E o \in Ops : \/ PrepareBegin(d, o) \/ SubmitBegin(d, o) \/ PollBegin(d, o)
                          \/ ResultBegin(d, o) \/ ReconcileBegin(d, o) \/ CancelBegin(d, o)
                          \/ ReconcileCancellationBegin(d, o) \/ ApplyBegin(d, o)
  BY <1>3, <1>4 DEF PrepareBegin, SubmitBegin, PollBegin, ResultBegin, ReconcileBegin,
    CancelBegin, ReconcileCancellationBegin, ApplyBegin
<1>5. CASE PrepareSave(d) \/ SubmitUncertain(d) \/ SubmitSave(d) \/ PollSave(d)
             \/ SaveReference(d) \/ ReconcileSave(d) \/ CancelSave(d) \/ PatchFailed(d)
             \/ AcceptOperation(d) \/ Restart(d)
  BY <1>2, <1>5 DEF PrepareSave, SubmitUncertain, SubmitSave, PollSave, SaveReference,
    ReconcileSave, CancelSave, PatchFailed, AcceptOperation, Restart
<1>6. CASE SubmitIntent(d) \/ SubmitOffline(d) \/ SubmitLive(d) \/ SinkResult(d)
             \/ SinkReceipt(d) \/ SaveResult(d) \/ SaveReceipt(d)
  BY <1>1, <1>6 DEF SubmitIntent, SubmitOffline, SubmitLive, SinkResult, SinkReceipt,
    SaveResult, SaveReceipt
<1>7. CASE CancelIntent(d) \/ CancelRequest(d) \/ CancelProgress(d) \/ StageIntent(d)
             \/ Stage(d) \/ ReplaceFile(d) \/ Completed(d) \/ Applied(d) \/ AcceptEffect(d)
  BY <1>1, <1>7 DEF CancelIntent, CancelRequest, CancelProgress, StageIntent, Stage,
    ReplaceFile, Completed, Applied, AcceptEffect
<1>8. CASE ResultCheck(d) \/ CancelTask(d) \/ CancelStatus(d)
  BY <1>1, <1>2, <1>8 DEF ResultCheck, Reconciliation, CancelTask, CancelStatus
<1>9. CASE ApplyCheck(d) \/ Verify(d) \/ ReconcilePatch(d)
  BY <1>1, <1>2, <1>9 DEF ApplyCheck, Reconciliation, Verify, ReconcilePatch
<1> QED BY <1>4, <1>5, <1>6, <1>7, <1>8, <1>9 DEF CallStep

(* At "replace" a caller replaces a file or its process ends.              *)
LEMMA OnlyReplaces ==
  ASSUME NEW c \in Callers, pc[c] = "replace", CallStep(c)
  PROVE  ReplaceFile(c)
<1>1. ~ \E o \in Ops : \/ PrepareBegin(c, o) \/ SubmitBegin(c, o) \/ PollBegin(c, o)
                       \/ ResultBegin(c, o) \/ ReconcileBegin(c, o) \/ CancelBegin(c, o)
                       \/ ReconcileCancellationBegin(c, o) \/ ApplyBegin(c, o)
  BY DEF PrepareBegin, SubmitBegin, PollBegin, ResultBegin, ReconcileBegin,
    CancelBegin, ReconcileCancellationBegin, ApplyBegin, Begin
<1>2. ~ (PrepareSave(c) \/ SubmitIntent(c) \/ SubmitOffline(c) \/ SubmitLive(c)
           \/ SinkResult(c) \/ SinkReceipt(c) \/ SubmitUncertain(c) \/ SubmitSave(c))
  BY DEF PrepareSave, SubmitIntent, SubmitOffline, SubmitLive, SinkResult, SinkReceipt,
    SubmitUncertain, SubmitSave
<1>3. ~ (PollSave(c) \/ ResultCheck(c) \/ SaveResult(c) \/ SaveReceipt(c)
           \/ SaveReference(c) \/ ReconcileSave(c))
  BY DEF PollSave, ResultCheck, SaveResult, SaveReceipt, SaveReference, ReconcileSave
<1>4. ~ (CancelIntent(c) \/ CancelRequest(c) \/ CancelProgress(c) \/ CancelTask(c)
           \/ CancelStatus(c) \/ CancelSave(c))
  BY DEF CancelIntent, CancelRequest, CancelProgress, CancelTask, CancelStatus, CancelSave
<1>5. ~ (ApplyCheck(c) \/ StageIntent(c) \/ Stage(c) \/ Completed(c) \/ PatchFailed(c))
  BY DEF ApplyCheck, StageIntent, Stage, Completed, PatchFailed
<1>6. ~ (Applied(c) \/ Verify(c) \/ AcceptEffect(c) \/ AcceptOperation(c)
           \/ ReconcilePatch(c))
  BY DEF Applied, Verify, AcceptEffect, AcceptOperation, ReconcilePatch
<1> QED BY <1>1, <1>2, <1>3, <1>4, <1>5, <1>6 DEF CallStep

LEMMA ReplacesCommitted ==
  ASSUME IInv, NEW c \in Callers, pc[c] = "replace", pc'[c] = "completed", ~edited,
         Op(c) \notin overlapped, ReplaceFile(c)
  PROVE  \A p \in Paths : files'[p] # files[p] =>
           files[p] = base[p] \/ CrossedAt(Op(c), files[p])
<1>1. pc[c] # "idle" /\ Domains
  BY DEF IInv
<1>2. ~ Goto(c, "patchFailed")
  BY <1>1 DEF Goto, Domains
<1>3. PICK p \in Paths \ Done(c) : files' = [files EXCEPT ![p] = frame[c].result]
  BY <1>2 DEF ReplaceFile
<1>4. files[p] = base[p] \/ CrossedAt(Op(c), files[p])
  BY <1>1, <1>3, InCall DEF UndisturbedOK, PatchOK
<1> QED BY <1>1, <1>3, <1>4 DEF Domains, Files

LEMMA OverwritesCommitted ==
  ASSUME IInv, [Next]_vars, NEW c \in Callers,
         pc[c] = "replace", pc'[c] = "completed", ~edited, Op(c) \notin overlapped
  PROVE  \A p \in Paths : files'[p] # files[p] =>
           files[p] = base[p] \/ CrossedAt(Op(c), files[p])
<1>1. CASE \E d \in Callers : CallStep(d) \/ Restart(d)
  <2> PICK d \in Callers : CallStep(d) \/ Restart(d)
    BY <1>1
  <2>1. d = c
    BY OthersStay DEF IInv
  <2>2. ~ Restart(c)
    BY Returning DEF Restart, IInv
  <2> QED BY <2>1, <2>2, OnlyReplaces, ReplacesCommitted
<1>2. CASE EditFile \/ Commit \/ UNCHANGED vars
  BY <1>2 DEF EditFile, Commit, vars
<1> QED BY <1>1, <1>2 DEF Next

(* A patch is only written over committed files, or over the files of an   *)
(* operation that is applied at the same time, while nobody edits the      *)
(* workspace and no two calls have worked on the operation at once         *)
(* (ControlledPatchApplier.apply_staged, after what apply_and_accept asks  *)
(* of the workspace).                                                      *)
THEOREM NothingIsWrittenOver == Spec => NothingIsOverwritten
<1>1. ASSUME IInv, [Next]_vars
      PROVE  \A c \in Callers :
               pc[c] = "replace" /\ pc'[c] = "completed" /\ ~edited /\ Op(c) \notin overlapped =>
                 \A p \in Paths : files'[p] # files[p] =>
                   files[p] = base[p] \/ CrossedAt(Op(c), files[p])
  BY <1>1, OverwritesCommitted
<1> QED BY <1>1, ProvidersInv, PTL DEF Spec, NothingIsOverwritten
=============================================================================
