-------------------------- MODULE PersistenceProofs --------------------------
(***************************************************************************)
(* The safety properties of two components whose processes read stored      *)
(* records and write what they made of them later: RuntimePersistence       *)
(* (leases and fenced commits in a database) and CustomerJourney (documents *)
(* in files), for any number of processes and any bounds.                   *)
(*                                                                          *)
(* RuntimePersistence.  The inductive invariant joins the properties with   *)
(* two facts about the past: no stored checkpoint was committed under a     *)
(* fencing token that the counter has not reached, and no process has seen  *)
(* a time to come.                                                          *)
(*                                                                          *)
(* CustomerJourney.  A handler builds a document from what it read and      *)
(* writes it later.  The invariant says of a document that is stored, or    *)
(* still in the hands of a handler, that its sources are stored (Bound):    *)
(* they are write-once, so no other request can take them away.  Two        *)
(* sources may be replaced, the latest revision and the legacy roadmap;     *)
(* what is bound to them (SerialBound) holds as long as no two requests     *)
(* have overlapped, when nobody can come between a request's reads and its  *)
(* write.                                                                   *)
(***************************************************************************)
EXTENDS RuntimePersistence, CustomerJourney, SequenceTheorems, TLAPS

-----------------------------------------------------------------------------
(* RuntimePersistence.                                                      *)

CommitsBelowCounter ==
    \A i \in 1..Len(checkpoints) : checkpoints[i].fence <= latestFence

SeenIsPast == \A w \in Writers : seen[w] <= now

IInv ==
    /\ TypeOK
    /\ FencesAreUnique
    /\ CommitsBelowCounter
    /\ CommitsFollowFences
    /\ EveryCheckpointLoads
    /\ SeenIsPast

\* The counters and the clock are natural numbers; a captured id is a pair.
Captures == [id : Nat \X Nat, events : Seq(Event)]

-----------------------------------------------------------------------------
(* Prefixes.                                                                *)

\* A sequence is a prefix of itself.
LEMMA PrefixReflexive == ASSUME NEW s \in Seq(Event) PROVE Prefix(s, s)
  BY DEF Prefix

\* Prefixes by id compose with extensions: what loads from a stream loads
\* from a longer one.
LEMMA PrefixTransitive ==
  ASSUME NEW s \in Seq(Event), NEW t \in Seq(Event), NEW u \in Seq(Event),
         PrefixById(s, t), Prefix(t, u)
  PROVE  PrefixById(s, u)
  <1>1. Len(s) \in Nat /\ Len(t) \in Nat /\ Len(u) \in Nat
    OBVIOUS
  <1>2. \A i \in 1..Len(s) : i \in 1..Len(t)
    BY <1>1 DEF PrefixById
  <1>3. \A i \in 1..Len(s) : s[i].type = t[i].type /\ t[i] = u[i]
    BY <1>2 DEF Prefix, PrefixById
  <1>4. \A i \in 1..Len(s) : s[i].type = u[i].type
    BY <1>3
  <1> QED
    BY <1>1, <1>4 DEF Prefix, PrefixById

\* The events that commit_checkpoint adds to the durable stream complete it
\* to the events of its checkpoint, up to what ids do not show.
LEMMA ExtendedStream ==
  ASSUME NEW s \in Seq(Event), NEW t \in Seq(Event), PrefixById(s, t),
         NEW u, u = s \o SubSeq(t, Len(s) + 1, Len(t))
  PROVE  u \in Seq(Event) /\ Prefix(s, u) /\ PrefixById(t, u)
  <1>1. Len(s) \in Nat /\ Len(t) \in Nat /\ Len(s) <= Len(t)
    BY DEF PrefixById
  <1> DEFINE e == SubSeq(t, Len(s) + 1, Len(t))
  <1>2. e \in Seq(Event) /\ Len(e) = Len(t) - Len(s)
    BY <1>1
  <1>3. \A i \in 1..Len(e) : e[i] = t[Len(s) + i]
    BY <1>1
  <1> HIDE DEF e
  <1>4. u = s \o e
    BY DEF e
  <1>5. u \in Seq(Event) /\ Len(u) = Len(t)
    BY <1>1, <1>2, <1>4
  <1>6. \A i \in 1..Len(s) : u[i] = s[i]
    BY <1>1, <1>2, <1>4
  <1>7. ASSUME NEW i \in 1..Len(t), i \notin 1..Len(s) PROVE u[i] = t[i]
    <2>1. i - Len(s) \in 1..Len(e)
      BY <1>1, <1>2, <1>7
    <2>2. u[i] = e[i - Len(s)]
      BY <1>1, <1>2, <1>4, <1>7
    <2>3. Len(s) + (i - Len(s)) = i
      BY <1>1
    <2> QED
      BY <1>3, <2>1, <2>2, <2>3
  <1>8. ASSUME NEW i \in 1..Len(t) PROVE t[i].type = u[i].type
    BY <1>6, <1>7 DEF PrefixById
  <1> QED
    BY <1>1, <1>5, <1>6, <1>8 DEF Prefix, PrefixById

\* append_event_batch extends the stream at its end.
LEMMA PrefixAppend ==
  ASSUME NEW s \in Seq(Event), NEW e \in Event
  PROVE  Append(s, e) \in Seq(Event) /\ Prefix(s, Append(s, e))
  BY DEF Prefix

-----------------------------------------------------------------------------
(* Type correctness.                                                        *)

\* Forgetting the locals of a call keeps them well typed.
LEMMA ForgetTyped ==
  ASSUME TypeOK, NEW w \in Writers, Forget(w)
  PROVE  /\ pc' \in [Writers -> {"idle", "acquire", "renew", "update", "break",
                                 "captured", "commit"}]
         /\ seen' \in [Writers -> Nat]
         /\ expected' \in [Writers -> Nat]
         /\ captured' \in [Writers -> Captures]
  <1>1. NoCapture \in Captures
    BY DEF NoCapture, Captures, Event
  <1> QED
    BY <1>1 DEF TypeOK, Forget, Captures

\* What a call that ends leaves alone, and what it forgets.
LEMMA ReturnTyped ==
  ASSUME TypeOK, NEW w \in Writers, Return(w)
  PROVE  /\ pc' \in [Writers -> {"idle", "acquire", "renew", "update", "break",
                                 "captured", "commit"}]
         /\ seen' \in [Writers -> Nat]
         /\ expected' \in [Writers -> Nat]
         /\ captured' \in [Writers -> Captures]
         /\ log' \in [Writers -> Seq(Event)]
         /\ now' \in Nat
         /\ published' \in Nat
  BY ForgetTyped DEF Return, TypeOK

\* Every call of the lease repository keeps the store well typed.
LEMMA LeaseStepTyped ==
  ASSUME TypeOK, NEW w \in Writers, LeaseStep(w)
  PROVE  TypeOK'
  <1> USE PersistenceAssumption
  <1>1. ASSUME NEW l \in {"acquire", "renew", "break"}, Begin(w, l)
        PROVE  TypeOK'
    <2>1. /\ pc' \in [Writers -> {"idle", "acquire", "renew", "update", "break",
                                  "captured", "commit"}]
          /\ seen' \in [Writers -> Nat]
      BY <1>1 DEF Begin, TypeOK
    <2> QED
      BY <1>1, <2>1 DEF Begin, TypeOK, store
  <1>2. CASE Acquire(w)
    <2>0. /\ latestFence \in Nat /\ row \in [fence : Nat, expires : Nat]
          /\ lease \in [Writers -> Nat] /\ seen[w] \in Nat
      BY DEF TypeOK
    <2>1. /\ latestFence + 1 \in Nat
          /\ [fence |-> latestFence + 1, expires |-> seen[w] + TTL]
               \in [fence : Nat, expires : Nat]
      BY <2>0
    <2>2. latestFence' \in Nat /\ row' \in [fence : Nat, expires : Nat]
      <3> HIDE PersistenceAssumption
      <3>1. CASE UNCHANGED <<row, latestFence, lease>>
        BY <2>0, <3>1
      <3>2. CASE /\ latestFence' = latestFence + 1
                 /\ row' = [fence |-> latestFence + 1, expires |-> seen[w] + TTL]
        BY <2>1, <3>2
      <3> QED
        BY <1>2, <3>1, <3>2 DEF Acquire
    <2>3. lease' \in [Writers -> Nat]
      BY <1>2, <2>0, <2>1 DEF Acquire
    <2> QED
      BY <1>2, <2>2, <2>3, ReturnTyped DEF Acquire, TypeOK, Captures
  <1>3. CASE RenewSelect(w)
    BY <1>3, ReturnTyped DEF RenewSelect, TypeOK, Captures, store
  <1>4. CASE RenewUpdate(w)
    <2>1. seen[w] + TTL \in Nat
      BY DEF TypeOK
    <2>2. row' \in [fence : Nat, expires : Nat]
      BY <1>4, <2>1 DEF RenewUpdate, TypeOK, NoRow
    <2> QED
      BY <1>4, <2>2, ReturnTyped DEF RenewUpdate, TypeOK, Captures
  <1>5. CASE Release(w)
    BY <1>5 DEF Release, TypeOK, NoRow, local
  <1>6. CASE Break(w)
    BY <1>6, ReturnTyped DEF Break, TypeOK, Captures, NoRow
  <1> QED
    BY <1>1, <1>2, <1>3, <1>4, <1>5, <1>6
       DEF LeaseStep, BeginAcquire, BeginRenew, BeginBreak

\* The checkpoint a process is about to store is one.
LEMMA PendingTyped ==
  ASSUME TypeOK, NEW w \in Writers
  PROVE  /\ Pending(w) \in Checkpoint
         /\ Pending(w).fence = lease[w]
         /\ Pending(w).events = captured[w].events
  BY DEF TypeOK, Checkpoint, Pending

\* So does every call that reads or writes checkpoints and events.
LEMMA CheckpointStepTyped ==
  ASSUME TypeOK, NEW w \in Writers, CheckpointStep(w)
  PROVE  TypeOK'
  <1>1. CASE Capture(w)
    <2>1. <<Len(log[w]), Len(checkpoints) + 1>> \in Nat \X Nat
      BY DEF TypeOK
    <2>2. [id |-> <<Len(log[w]), Len(checkpoints) + 1>>, events |-> log[w]]
            \in Captures
      BY <2>1 DEF TypeOK, Captures
    <2> QED
      BY <1>1, <2>2 DEF Capture, TypeOK, Captures, store
  <1>2. CASE ReadVersion(w)
    BY <1>2 DEF ReadVersion, TypeOK, store
  <1>3. CASE Commit(w)
    <2>1. captured[w].events \in Seq(Event)
      BY DEF TypeOK
    <2>2. Append(checkpoints, Pending(w)) \in Seq(Checkpoint)
      <3>1. Pending(w) \in Checkpoint
        BY PendingTyped
      <3>2. checkpoints \in Seq(Checkpoint)
        BY DEF TypeOK
      <3> QED
        BY <3>1, <3>2
    <2>3. /\ version' \in Nat
          /\ stream' \in Seq(Event)
          /\ checkpoints' \in Seq(Checkpoint)
      <3>1. CASE UNCHANGED <<version, stream, checkpoints>>
        BY <3>1 DEF TypeOK
      <3>2. CASE /\ MayCommit(w)
                 /\ version' = version + 1
                 /\ stream' = Extended(w)
                 /\ checkpoints' = Append(checkpoints, Pending(w))
        <4>1. stream' \in Seq(Event)
          BY <3>2, <2>1, ExtendedStream DEF MayCommit, Extended, TypeOK
        <4> QED
          BY <3>2, <2>2, <4>1 DEF TypeOK
      <3> QED
        BY <1>3, <3>1, <3>2 DEF Commit
    <2> QED
      BY <1>3, <2>3, ReturnTyped DEF Commit, TypeOK, Captures
  <1>4. ASSUME NEW t \in Types, AppendEvent(w, t) PROVE TypeOK'
    <2>1. NewEvent(t) \in Event
      BY DEF TypeOK, Event, NewEvent
    <2>2. published' \in Nat
      BY <1>4 DEF AppendEvent, TypeOK
    <2>3. stream' \in Seq(Event)
      BY <1>4, <2>1, PrefixAppend DEF AppendEvent, TypeOK
    <2> QED
      BY <1>4, <2>2, <2>3 DEF AppendEvent, TypeOK, local
  <1>5. ASSUME NEW t \in Types, Publish(w, t) PROVE TypeOK'
    <2>0. log[w] \in Seq(Event)
      BY DEF TypeOK
    <2>1. NewEvent(t) \in Event
      BY DEF TypeOK, Event, NewEvent
    <2>2. published' \in Nat
      BY <1>5 DEF Publish, TypeOK
    <2>3. Append(log[w], NewEvent(t)) \in Seq(Event)
      BY <2>0, <2>1, PrefixAppend
    <2>4. log' \in [Writers -> Seq(Event)]
      BY <1>5, <2>3 DEF Publish, TypeOK
    <2> QED
      BY <1>5, <2>2, <2>4 DEF Publish, TypeOK, store
  <1>6. CASE Restore(w)
    <2>1. checkpoints[Len(checkpoints)] \in Checkpoint
      BY <1>6 DEF Restore, TypeOK
    <2>2. checkpoints[Len(checkpoints)].events \in Seq(Event)
      BY <2>1 DEF Checkpoint
    <2> QED
      BY <1>6, <2>2 DEF Restore, TypeOK, store
  <1> QED
    BY <1>1, <1>2, <1>3, <1>4, <1>5, <1>6 DEF CheckpointStep

\* The state stays well typed, crashes and the clock included.
LEMMA NextTyped == TypeOK /\ [Next]_vars => TypeOK'
  <1> SUFFICES ASSUME TypeOK, [Next]_vars PROVE TypeOK'
    OBVIOUS
  <1>1. ASSUME NEW w \in Writers, Crash(w) PROVE TypeOK'
    <2>1. <<>> \in Seq(Event)
      OBVIOUS
    <2> QED
      BY <1>1, <2>1, ForgetTyped DEF Crash, TypeOK, Captures, store
  <1>2. CASE Tick
    BY <1>2 DEF Tick, TypeOK, store, local
  <1>3. CASE UNCHANGED vars
    BY <1>3, Zenon DEF vars, TypeOK
  <1> QED
    BY <1>1, <1>2, <1>3, LeaseStepTyped, CheckpointStepTyped DEF Next

-----------------------------------------------------------------------------
(* Leases.                                                                  *)

\* Of all the steps, only these touch the lease row, the fencing counter or a
\* lease object.
LEMMA LeaseChanges ==
  ASSUME [Next]_vars
  PROVE  \/ UNCHANGED <<row, latestFence, lease>>
         \/ \E w \in Writers : \/ Acquire(w) \/ RenewUpdate(w) \/ Release(w)
                               \/ Break(w) \/ Crash(w)
  BY DEF Next, vars, LeaseStep, CheckpointStep, BeginAcquire, BeginRenew,
         BeginBreak, Begin, RenewSelect, Capture, ReadVersion, Commit,
         AppendEvent, Publish, Restore, Tick, store, local

\* The fencing counter never goes back.
LEMMA FenceGrows ==
  ASSUME TypeOK, [Next]_vars
  PROVE  latestFence <= latestFence'
  <1>1. latestFence' = latestFence \/ latestFence' = latestFence + 1
    BY LeaseChanges DEF Acquire, RenewUpdate, Release, Break, Crash, store
  <1> QED
    BY <1>1 DEF TypeOK

\* Fencing tokens stay unique: acquire_lease hands out the next one, release,
\* expiry and crashes only take one away.
LEMMA FencesPreserved ==
  ASSUME TypeOK, FencesAreUnique, [Next]_vars
  PROVE  FencesAreUnique'
  <1>1. CASE UNCHANGED <<row, latestFence, lease>>
    BY <1>1 DEF FencesAreUnique
  <1>2. ASSUME NEW w \in Writers, Acquire(w) PROVE FencesAreUnique'
    <2>1. CASE UNCHANGED <<row, latestFence, lease>>
      BY <2>1 DEF FencesAreUnique
    <2>2. CASE /\ latestFence' = latestFence + 1
               /\ row' = [fence |-> latestFence + 1, expires |-> seen[w] + TTL]
               /\ lease' = [lease EXCEPT ![w] = latestFence + 1]
      <3>1. row'.fence <= latestFence'
        BY <2>2 DEF TypeOK
      <3>2. \A v \in Writers : lease'[v] = IF v = w THEN latestFence + 1 ELSE lease[v]
        BY <2>2 DEF TypeOK
      <3>3. \A v \in Writers : lease[v] \in Nat /\ lease[v] <= latestFence
        BY DEF TypeOK, FencesAreUnique
      <3>4. \A v \in Writers : lease'[v] <= latestFence'
        <4>1. latestFence \in Nat /\ latestFence' = latestFence + 1
          BY <2>2 DEF TypeOK
        <4>2. ASSUME NEW v \in Writers PROVE lease'[v] <= latestFence'
          <5>1. lease'[v] = latestFence + 1 \/ lease'[v] = lease[v]
            BY <3>2
          <5>2. lease[v] \in Nat /\ lease[v] <= latestFence
            BY <3>3
          <5> QED
            BY <4>1, <5>1, <5>2
        <4> QED
          BY <4>2
      <3>5. ASSUME NEW u \in Writers, NEW v \in Writers,
                   lease'[u] = lease'[v], lease'[u] # 0
            PROVE  u = v
        <4>1. lease[u] # latestFence + 1 /\ lease[v] # latestFence + 1
          <5>1. latestFence \in Nat
            BY DEF TypeOK
          <5>2. /\ lease[u] \in Nat /\ lease[u] <= latestFence
                /\ lease[v] \in Nat /\ lease[v] <= latestFence
            BY <3>3
          <5> QED
            BY <5>1, <5>2
        <4> QED
          BY <3>2, <3>5, <4>1 DEF FencesAreUnique
      <3> QED
        BY <3>1, <3>4, <3>5 DEF FencesAreUnique
    <2> QED
      BY <1>2, <2>1, <2>2 DEF Acquire
  <1>3. ASSUME NEW w \in Writers, RenewUpdate(w) PROVE FencesAreUnique'
    <2>1. row'.fence = row.fence
      BY <1>3 DEF RenewUpdate, TypeOK, NoRow
    <2> QED
      BY <1>3, <2>1 DEF RenewUpdate, FencesAreUnique
  <1>4. ASSUME NEW w \in Writers, Release(w) \/ Break(w) PROVE FencesAreUnique'
    <2>1. row' = row \/ row'.fence = 0
      BY <1>4 DEF Release, Break, NoRow
    <2> QED
      BY <1>4, <2>1 DEF Release, Break, FencesAreUnique, TypeOK, local
  <1>5. ASSUME NEW w \in Writers, Crash(w) PROVE FencesAreUnique'
    <2>1. \A v \in Writers : lease'[v] = IF v = w THEN 0 ELSE lease[v]
      BY <1>5 DEF Crash, TypeOK
    <2>2. row' = row /\ latestFence' = latestFence
      BY <1>5 DEF Crash, store
    <2>3. latestFence \in Nat /\ \A v \in Writers : lease[v] <= latestFence
      BY DEF TypeOK, FencesAreUnique
    <2>4. \A v \in Writers : lease'[v] <= latestFence'
      BY <2>1, <2>2, <2>3
    <2>5. \A u, v \in Writers : lease'[u] = lease'[v] /\ lease'[u] # 0 => u = v
      BY <2>1 DEF FencesAreUnique
    <2> QED
      BY <2>2, <2>4, <2>5 DEF FencesAreUnique
  <1> QED
    BY <1>1, <1>2, <1>3, <1>4, <1>5, LeaseChanges

\* The time a process has seen stays in the past.
LEMMA SeenPreserved ==
  ASSUME TypeOK, SeenIsPast, [Next]_vars
  PROVE  SeenIsPast'
  <1>1. now' = now \/ now' = now + 1
    BY DEF Next, vars, LeaseStep, CheckpointStep, BeginAcquire, BeginRenew,
           BeginBreak, Begin, Acquire, RenewSelect, RenewUpdate, Release, Break,
           Capture, ReadVersion, Commit, AppendEvent, Publish, Restore, Crash,
           Tick, Return
  <1>2. \/ seen' = seen
        \/ \E w \in Writers : seen' = [seen EXCEPT ![w] = now]
        \/ \E w \in Writers : seen' = [seen EXCEPT ![w] = 0]
    BY DEF Next, vars, LeaseStep, CheckpointStep, BeginAcquire, BeginRenew,
           BeginBreak, Begin, Acquire, RenewSelect, RenewUpdate, Release, Break,
           Capture, ReadVersion, Commit, AppendEvent, Publish, Restore, Crash,
           Tick, Return, Forget, local
  <1>3. \A w \in Writers : seen'[w] \in {seen[w], now, 0}
    BY <1>2 DEF TypeOK
  <1>4. ASSUME NEW w \in Writers PROVE seen'[w] <= now'
    <2>1. now \in Nat /\ seen[w] \in Nat /\ seen[w] <= now
      BY DEF TypeOK, SeenIsPast
    <2>2. seen'[w] = seen[w] \/ seen'[w] = now \/ seen'[w] = 0
      BY <1>3
    <2> QED
      BY <1>1, <2>1, <2>2
  <1> QED
    BY <1>4 DEF SeenIsPast

-----------------------------------------------------------------------------
(* Checkpoints and events.                                                  *)

\* A step commits a checkpoint, appends an event, or leaves the durable
\* history alone.
LEMMA HistoryChanges ==
  ASSUME [Next]_vars
  PROVE  \/ UNCHANGED <<version, stream, checkpoints>>
         \/ \E w \in Writers :
              \/ /\ MayCommit(w)
                 /\ version' = version + 1
                 /\ stream' = Extended(w)
                 /\ checkpoints' = Append(checkpoints, Pending(w))
                 /\ latestFence' = latestFence
              \/ \E t \in Types : /\ stream' = Append(stream, NewEvent(t))
                                 /\ UNCHANGED <<version, checkpoints>>
  BY DEF Next, vars, LeaseStep, CheckpointStep, BeginAcquire, BeginRenew,
         BeginBreak, Begin, Acquire, RenewSelect, RenewUpdate, Release, Break,
         Capture, ReadVersion, Commit, AppendEvent, Publish, Restore, Crash,
         Tick, store

\* What a commit adds is the new last checkpoint.
LEMMA Appended ==
  ASSUME TypeOK, NEW c \in Checkpoint, checkpoints' = Append(checkpoints, c)
  PROVE  /\ Len(checkpoints) \in Nat
         /\ Len(checkpoints') = Len(checkpoints) + 1
         /\ checkpoints'[Len(checkpoints) + 1] = c
         /\ \A i \in 1..Len(checkpoints) : checkpoints'[i] = checkpoints[i]
         /\ \A i \in 1..Len(checkpoints) : checkpoints[i] \in Checkpoint
  BY DEF TypeOK

\* The fields of a stored checkpoint.
LEMMA StoredCheckpoint ==
  ASSUME TypeOK, NEW i \in 1..Len(checkpoints)
  PROVE  checkpoints[i].fence \in Nat /\ checkpoints[i].events \in Seq(Event)
  <1>1. checkpoints[i] \in Checkpoint
    BY DEF TypeOK
  <1> QED
    BY <1>1 DEF Checkpoint

\* The durable stream grows at its end.
LEMMA StreamGrows ==
  ASSUME TypeOK, [Next]_vars
  PROVE  Prefix(stream, stream')
  <1>1. CASE UNCHANGED stream
    BY <1>1, PrefixReflexive DEF TypeOK
  <1>2. ASSUME NEW w \in Writers, MayCommit(w), stream' = Extended(w)
        PROVE  Prefix(stream, stream')
    <2>1. captured[w].events \in Seq(Event) /\ stream \in Seq(Event)
      BY DEF TypeOK
    <2> QED
      BY <1>2, <2>1, ExtendedStream DEF MayCommit, Extended
  <1>3. ASSUME NEW t \in Types, stream' = Append(stream, NewEvent(t))
        PROVE  Prefix(stream, stream')
    <2>1. NewEvent(t) \in Event
      BY DEF TypeOK, Event, NewEvent
    <2> QED
      BY <1>3, <2>1, PrefixAppend DEF TypeOK
  <1> QED
    BY <1>1, <1>2, <1>3, HistoryChanges

\* Commits keep following the fencing counter: commit_checkpoint accepts a
\* lease only if its token is the newest one.
LEMMA CommitsPreserved ==
  ASSUME TypeOK, CommitsBelowCounter, CommitsFollowFences, [Next]_vars
  PROVE  CommitsBelowCounter' /\ CommitsFollowFences'
  <1>0. \A i \in 1..Len(checkpoints) : checkpoints[i].fence \in Nat
    BY StoredCheckpoint
  <1>1. CASE UNCHANGED checkpoints
    <2>1. latestFence \in Nat /\ latestFence' \in Nat /\ latestFence <= latestFence'
      BY FenceGrows, NextTyped DEF TypeOK
    <2>2. ASSUME NEW i \in 1..Len(checkpoints)
          PROVE  checkpoints[i].fence <= latestFence'
      <3>1. checkpoints[i].fence \in Nat /\ checkpoints[i].fence <= latestFence
        BY <1>0 DEF CommitsBelowCounter
      <3> QED
        BY <2>1, <3>1
    <2> QED
      BY <1>1, <2>2 DEF CommitsBelowCounter, CommitsFollowFences
  <1>2. ASSUME NEW w \in Writers, MayCommit(w), latestFence' = latestFence,
               checkpoints' = Append(checkpoints, Pending(w))
        PROVE  CommitsBelowCounter' /\ CommitsFollowFences'
    <2> DEFINE c == Pending(w)
               n == Len(checkpoints)
    <2>1. c \in Checkpoint /\ c.fence = lease[w]
      BY PendingTyped
    <2>2. /\ n \in Nat
          /\ Len(checkpoints') = n + 1
          /\ checkpoints'[n + 1] = c
          /\ \A i \in 1..n : checkpoints'[i] = checkpoints[i]
      BY <1>2, <2>1, Appended
    <2>3. latestFence \in Nat /\ (lease[w] = 0 \/ lease[w] = latestFence)
      BY <1>2 DEF MayCommit, LeaseValid, TypeOK
    <2> HIDE DEF c, n
    <2>4. \A i \in 1..(n + 1) : i = n + 1 \/ i \in 1..n
      BY <2>2
    <2>5. \A i \in 1..n : checkpoints[i].fence \in Nat
                         /\ checkpoints[i].fence <= latestFence
      BY <1>0 DEF CommitsBelowCounter, n
    <2>6. c.fence <= latestFence
      BY <2>1, <2>3
    <2>7. CommitsBelowCounter'
      BY <1>2, <2>2, <2>4, <2>5, <2>6 DEF CommitsBelowCounter
    <2>8. ASSUME NEW i \in 1..(n + 1), NEW j \in 1..(n + 1), i < j,
                 checkpoints'[i].fence # 0, checkpoints'[j].fence # 0
          PROVE  checkpoints'[i].fence <= checkpoints'[j].fence
      <3>1. i \in 1..n
        BY <2>2, <2>8
      <3>2. CASE j \in 1..n
        BY <2>2, <2>8, <3>1, <3>2 DEF CommitsFollowFences, n
      <3>3. CASE j = n + 1
        BY <2>1, <2>2, <2>3, <2>5, <2>8, <3>1, <3>3
      <3> QED
        BY <2>4, <3>2, <3>3
    <2> QED
      BY <2>2, <2>7, <2>8 DEF CommitsFollowFences
  <1> QED
    BY <1>1, <1>2, HistoryChanges

\* Every stored checkpoint stays loadable: the stream it is a prefix of only
\* grows, and a commit writes all the events of its own checkpoint.
LEMMA CheckpointsPreserved ==
  ASSUME TypeOK, EveryCheckpointLoads, [Next]_vars
  PROVE  EveryCheckpointLoads'
  <1>1. stream \in Seq(Event) /\ stream' \in Seq(Event)
    BY NextTyped DEF TypeOK
  <1>2. \A i \in 1..Len(checkpoints) : checkpoints[i].events \in Seq(Event)
    BY StoredCheckpoint
  <1>3. \A i \in 1..Len(checkpoints) : PrefixById(checkpoints[i].events, stream')
    BY <1>1, <1>2, StreamGrows, PrefixTransitive DEF EveryCheckpointLoads, Loadable
  <1>4. CASE UNCHANGED <<version, checkpoints>>
    BY <1>3, <1>4 DEF EveryCheckpointLoads, Loadable
  <1>5. ASSUME NEW w \in Writers, version' = version + 1,
               MayCommit(w), stream' = Extended(w),
               checkpoints' = Append(checkpoints, Pending(w))
        PROVE  EveryCheckpointLoads'
    <2> DEFINE c == Pending(w)
               n == Len(checkpoints)
    <2>1. c \in Checkpoint /\ c.events = captured[w].events
      BY PendingTyped
    <2>2. /\ n \in Nat
          /\ Len(checkpoints') = n + 1
          /\ checkpoints'[n + 1] = c
          /\ \A i \in 1..n : checkpoints'[i] = checkpoints[i]
      BY <1>5, <2>1, Appended
    <2>3. \A i \in 1..n : PrefixById(checkpoints[i].events, stream')
      BY <1>3
    <2>4. version = n
      BY DEF EveryCheckpointLoads
    <2> HIDE DEF c, n
    <2>5. \A i \in 1..(n + 1) : i = n + 1 \/ i \in 1..n
      BY <2>2
    <2>6. PrefixById(c.events, stream')
      <3>1. captured[w].events \in Seq(Event)
        BY DEF TypeOK
      <3> QED
        BY <1>1, <1>5, <2>1, <3>1, ExtendedStream DEF MayCommit, Extended
    <2>7. Len(checkpoints') = version'
      BY <1>5, <2>2, <2>4
    <2>8. \A i \in 1..Len(checkpoints') : PrefixById(checkpoints'[i].events, stream')
      BY <2>2, <2>3, <2>5, <2>6
    <2> QED
      BY <2>7, <2>8 DEF EveryCheckpointLoads, Loadable
  <1> QED
    BY <1>4, <1>5, HistoryChanges

-----------------------------------------------------------------------------
(* The invariant, and the theorems.                                         *)

\* A fresh store satisfies the invariant.
LEMMA InitIInv == Init => IInv
  <1> SUFFICES ASSUME Init PROVE IInv
    OBVIOUS
  <1>1. NoCapture \in Captures
    BY DEF NoCapture, Captures, Event
  <1>2. TypeOK
    BY <1>1 DEF Init, TypeOK, NoRow, Captures
  <1>3. FencesAreUnique /\ SeenIsPast
    BY DEF Init, FencesAreUnique, SeenIsPast, NoRow
  <1>4. Len(checkpoints) = 0
    BY DEF Init
  <1>5. CommitsBelowCounter /\ CommitsFollowFences /\ EveryCheckpointLoads
    BY <1>4 DEF Init, CommitsBelowCounter, CommitsFollowFences, EveryCheckpointLoads
  <1> QED
    BY <1>2, <1>3, <1>5 DEF IInv

\* Every step preserves the invariant.
LEMMA NextIInv == IInv /\ [Next]_vars => IInv'
  BY NextTyped, FencesPreserved, CommitsPreserved, CheckpointsPreserved,
     SeenPreserved DEF IInv

\* The inductive invariant holds in every reachable state.
THEOREM InvariantHolds == Spec => []IInv
  BY InitIInv, NextIInv, PTL DEF Spec

\* The store, the leases and the locals of every process stay well typed.
THEOREM TypeCorrect == Spec => []TypeOK
  <1>1. IInv => TypeOK
    BY DEF IInv
  <1> QED
    BY <1>1, InvariantHolds, PTL

\* Fencing tokens are unique and never ahead of the counter, and commits made
\* under leases follow them: a superseded owner never commits again.
THEOREM LeasesFence == Spec => [](FencesAreUnique /\ CommitsFollowFences)
  <1>1. IInv => FencesAreUnique /\ CommitsFollowFences
    BY DEF IInv
  <1> QED
    BY <1>1, InvariantHolds, PTL

\* Every checkpoint ever committed still loads.
THEOREM CheckpointsLoad == Spec => []EveryCheckpointLoads
  <1>1. IInv => EveryCheckpointLoads
    BY DEF IInv
  <1> QED
    BY <1>1, InvariantHolds, PTL

\* The durable event stream only grows at its end.
THEOREM StreamAppendOnly == Spec => StreamIsAppendOnly
  <1>1. IInv /\ [Next]_vars => [Prefix(stream, stream')]_vars
    BY StreamGrows DEF IInv
  <1> QED
    BY <1>1, InvariantHolds, PTL DEF Spec, StreamIsAppendOnly

\* A lease that has not expired disappears only by its own release.
THEOREM BreaksOnlyExpired == Spec => OnlyExpiredLeasesAreBroken
  <1> DEFINE A == /\ row.fence # 0
                  /\ row'.fence # row.fence
                  /\ row.expires > now
                  => \E w \in Writers : Release(w)
  <1>1. IInv /\ [Next]_vars => [A]_vars
    <2> SUFFICES ASSUME IInv, [Next]_vars, row.fence # 0,
                        row'.fence # row.fence, row.expires > now
                 PROVE  \E w \in Writers : Release(w)
      OBVIOUS
    <2>1. /\ row \in [fence : Nat, expires : Nat] /\ now \in Nat
          /\ \A w \in Writers : seen[w] \in Nat /\ seen[w] <= now
      BY DEF IInv, TypeOK, SeenIsPast
    <2>2. \A w \in Writers : row # NoRow /\ row.expires > seen[w]
      BY <2>1 DEF NoRow
    <2>3. \A w \in Writers : ~Acquire(w)
      BY <2>1, <2>2 DEF Acquire
    <2>4. \A w \in Writers : ~RenewUpdate(w)
      BY <2>1 DEF RenewUpdate
    <2>5. \A w \in Writers : ~Break(w)
      BY <2>1, <2>2 DEF Break
    <2>6. \A w \in Writers : ~Crash(w)
      BY DEF Crash, store
    <2> QED
      BY <2>3, <2>4, <2>5, <2>6, LeaseChanges
  <1> QED
    BY <1>1, InvariantHolds, PTL DEF Spec, OnlyExpiredLeasesAreBroken

-----------------------------------------------------------------------------
(* CustomerJourney.                                                         *)

-----------------------------------------------------------------------------
(* The inductive invariant.                                                *)

Whole(i) == i \in DOMAIN drafts /\ drafts[i].file = "whole"

(* What the document c, stored or about to be stored as op, was derived    *)
(* from is stored.                                                         *)
Bound(op, c) ==
  /\ op = "approval" => \E i \in DOMAIN drafts : Whole(i) /\ c.binds = DraftDigest(drafts[i])
  /\ op = "prd" => Present("approval") /\ c.binds = Digest(doc["approval"])
  /\ op = "criteria" => Present("prd") /\ c.binds = Digest(doc["prd"])
  /\ op = "prdApproval" => Present("prd") /\ Present("criteria") /\ c.binds = EffectivePrd
  /\ op = "roadmap" => Present("prdApproval") /\ c.binds = Digest(doc["prdApproval"])
  /\ op = "estimate" => Present("roadmapApproval") /\ c.binds = Digest(doc["roadmapApproval"])

(* The two bindings that only hold while requests are served one by one.   *)
SerialBound(op, c) ==
  /\ op = "approval" => DraftHistory /\ drafts # <<>> /\ c.binds = DraftDigest(Latest)
  /\ op = "roadmapApproval" => /\ Present("roadmap") /\ ~Legacy
                               /\ c.binds = Digest(doc["roadmap"])

Revision(c) ==
  /\ c \in CustomerRequirementsDraft
  /\ Present("request") /\ c.binds = Digest(doc["request"])

Replacing == {"compare", "temp", "rename"}
Labels == {"idle", "form", "create", "write", "append", "writeDraft"} \cup Replacing

(* The request r of a handler.                                             *)
Request(r) ==
  /\ DOMAIN r = {"pc", "op", "form", "candidate"}
  /\ r.pc \in Labels
  /\ r.pc \in {"create", "write"} =>
       /\ r.op \in Docs /\ r.candidate \in Stored[r.op] /\ Bound(r.op, r.candidate)
       /\ overlap \/ SerialBound(r.op, r.candidate)
  /\ r.pc = "write" => doc[r.op] = Torn
  /\ r.pc \in Replacing =>
       /\ r.op = "roadmap" /\ r.candidate \in Stored["roadmap"] /\ Bound("roadmap", r.candidate)
       /\ Present("roadmap") /\ (overlap \/ Legacy)
  /\ r.pc = "rename" => temp
  /\ r.pc \in {"append", "writeDraft"} =>
       Revision(r.candidate) /\ (overlap \/ ~Present("approval"))
  /\ r.pc = "writeDraft" =>
       r.candidate.revision = Len(drafts) /\ drafts[Len(drafts)] = Torn

Exclusive ==
  \A g, h \in Handlers : g # h /\ InProgress(g) /\ InProgress(h) =>
    /\ overlap
    /\ handler[g].pc = "write" /\ handler[h].pc = "write" => handler[g].op # handler[h].op
    /\ ~(handler[g].pc = "rename" /\ handler[h].pc = "rename")
    /\ ~(handler[g].pc = "writeDraft" /\ handler[h].pc = "writeDraft")

Shapes ==
  /\ JourneyOK
  /\ DOMAIN doc = Docs /\ DOMAIN handler = Handlers
  /\ drafts \in Seq(CustomerRequirementsDraft \cup {Torn})

DocsBound ==
  \A d \in Docs : Present(d) => Bound(d, doc[d]) /\ (overlap \/ SerialBound(d, doc[d]))

DraftsBound == \A i \in DOMAIN drafts : Whole(i) => Revision(drafts[i])

CJInv ==
  /\ Shapes
  /\ DocsBound /\ DraftsBound
  /\ Exclusive
  /\ \A h \in Handlers : Request(handler[h])

-----------------------------------------------------------------------------
(* Files.                                                                  *)

(* What is whole is of its own kind.                                       *)
LEMMA WholeKinds == \A d \in Docs : \A c \in Stored[d] : c.file = "whole"
<1>1. \A B : \A c \in Document(B) : c.file = "whole"
  BY DEF Document
<1>2. \A d \in Docs : \E B : Stored[d] = Document(B)
  BY DEF Docs, Stored, CustomerProductRequest, CustomerRequirementsApproval,
       CustomerPrdDraft, CustomerPrdCriteriaRefinement, CustomerPrdApproval,
       CustomerRoadmapDraft, CustomerRoadmapApproval, CustomerDeliveryEstimateDraft
<1> QED BY <1>1, <1>2

(* A file is absent, empty, or holds a document of its kind.               *)
LEMMA Files ==
  ASSUME Shapes, NEW d \in Docs
  PROVE  /\ Present(d) <=> doc[d] \in Stored[d]
         /\ doc[d].file = "absent" <=> doc[d] = Absent
         /\ doc[d].file = "torn" <=> doc[d] = Torn
BY WholeKinds DEF Shapes, JourneyOK, Present, Absent, Torn

LEMMA DraftFiles ==
  ASSUME Shapes, NEW i \in DOMAIN drafts
  PROVE  /\ Whole(i) <=> drafts[i] \in CustomerRequirementsDraft /\ drafts[i].revision = i
         /\ ~Whole(i) <=> drafts[i] = Torn
         /\ ~Whole(i) => i = Len(drafts)
BY DEF Shapes, JourneyOK, Whole, Torn, CustomerRequirementsDraft

-----------------------------------------------------------------------------
(* What stays when a file is written.                                      *)

(* A step that keeps what is published keeps every binding to it.          *)
SourcesStay ==
  /\ \A d \in Docs \ {"roadmap"} : Present(d) => doc'[d] = doc[d]
  /\ \A i \in DOMAIN drafts : Whole(i) => i \in DOMAIN drafts' /\ drafts'[i] = drafts[i]

LEMMA BoundStays ==
  ASSUME SourcesStay, NEW op, NEW c, Bound(op, c)
  PROVE  Bound(op, c)'
<1>1. \A d \in Docs \ {"roadmap"} : Present(d) => Present(d)' /\ Digest(doc[d])' = Digest(doc[d])
  BY DEF SourcesStay, Present, Digest
<1>2. op = "approval" =>
        (\E i \in DOMAIN drafts : Whole(i) /\ c.binds = DraftDigest(drafts[i]))'
  BY DEF Bound, SourcesStay, Whole, DraftDigest
<1>3. op = "prdApproval" => (Present("prd") /\ Present("criteria") /\ c.binds = EffectivePrd)'
  BY <1>1 DEF Bound, Docs, EffectivePrd, SourcesStay
<1> QED BY <1>1, <1>2, <1>3 DEF Bound, Docs

LEMMA RevisionStays ==
  ASSUME SourcesStay, NEW c, Revision(c)
  PROVE  Revision(c)'
BY DEF SourcesStay, Revision, Present, Digest, Docs

LEMMA SerialStays ==
  ASSUME UNCHANGED drafts, doc'["roadmap"] = doc["roadmap"], NEW op, NEW c, SerialBound(op, c)
  PROVE  SerialBound(op, c)'
BY DEF SerialBound, DraftHistory, DraftDigest, Latest, Legacy, Present, Digest

(* Another handler's request is not disturbed by a step that leaves it the *)
(* files it relies on and after which, if it is in progress, requests have *)
(* overlapped or nothing it is bound to has changed.                       *)
LEMMA OthersStay ==
  ASSUME NEW g \in Handlers, Request(handler[g]), handler'[g] = handler[g],
         SourcesStay, overlap => overlap',
         Present("roadmap") => Present("roadmap")',
         InProgress(g) => overlap',
         handler[g].pc = "write" => doc'[handler[g].op] = doc[handler[g].op],
         handler[g].pc = "rename" => temp',
         handler[g].pc = "writeDraft" => UNCHANGED drafts
  PROVE  Request(handler[g])'
<1> PICK r : r = handler[g] OBVIOUS
<1>1. SUFFICES Request(r)' BY DEF Request
<1>2. Request(r) OBVIOUS
<1>3. r.pc \in {"create", "write"} => Bound(r.op, r.candidate)'
  BY <1>2, BoundStays DEF Request
<1>4. r.pc \in Replacing => Bound("roadmap", r.candidate)'
  BY <1>2, BoundStays DEF Request
<1>5. r.pc \in {"append", "writeDraft"} => Revision(r.candidate)'
  BY <1>2, RevisionStays DEF Request
<1> QED BY <1>2, <1>3, <1>4, <1>5 DEF Request, InProgress, Replacing

-----------------------------------------------------------------------------
(* Steps that write no document.                                           *)

LEMMA DocsStay ==
  ASSUME DocsBound, DraftsBound, UNCHANGED <<drafts, doc>>, overlap => overlap'
  PROVE  DocsBound' /\ DraftsBound'
<1>1. \A op, c : Bound(op, c) => Bound(op, c)'
  BY DEF Bound, Whole, DraftDigest, Present, Digest, EffectivePrd
<1>2. \A op, c : SerialBound(op, c) => SerialBound(op, c)'
  BY DEF SerialBound, DraftHistory, DraftDigest, Latest, Legacy, Present, Digest
<1>3. DocsBound' BY <1>1, <1>2 DEF DocsBound, Present
<1> QED BY <1>3 DEF DraftsBound, Whole, Revision, Present, Digest

(* A handler goes on to the request s.                                     *)
LEMMA RequestStep ==
  ASSUME CJInv, NEW h \in Handlers, NEW s,
         handler' = [handler EXCEPT ![h] = s],
         UNCHANGED <<drafts, doc>>,
         temp' \in BOOLEAN, temp => temp',
         overlap' \in BOOLEAN, overlap => overlap',
         crashes' \in 0..MaxCrashes,
         Request(s)', s.pc \notin {"write", "writeDraft"}, s.pc = "rename" => ~temp,
         s.pc \notin {"idle", "form"} => \A g \in Handlers \ {h} : InProgress(g) => overlap'
  PROVE  CJInv'
<1>1. handler'[h] = s /\ \A g \in Handlers \ {h} : handler'[g] = handler[g]
  BY DEF CJInv, Shapes
<1>2. Shapes'
  BY DEF CJInv, Shapes, JourneyOK
<1>3. DocsBound' /\ DraftsBound'
  BY DocsStay DEF CJInv
<1>4. ASSUME NEW g \in Handlers \ {h} PROVE Request(handler[g])'
  <2> PICK r : r = handler[g] OBVIOUS
  <2>1. Request(r) BY DEF CJInv
  <2>2. \A op, c : Bound(op, c) => Bound(op, c)'
    BY DEF Bound, Whole, DraftDigest, Present, Digest, EffectivePrd
  <2>3. \A op, c : SerialBound(op, c) => SerialBound(op, c)'
    BY DEF SerialBound, DraftHistory, DraftDigest, Latest, Legacy, Present, Digest
  <2>4. \A c : Revision(c) => Revision(c)'
    BY DEF Revision, Present, Digest
  <2>5. Request(r)' BY <2>1, <2>2, <2>3, <2>4 DEF Request, Present, Legacy
  <2> QED BY <2>5, <1>1
<1>5. Exclusive'
  <2> SUFFICES ASSUME NEW f \in Handlers, NEW g \in Handlers, f # g, InProgress(f)', InProgress(g)'
               PROVE  /\ overlap'
                      /\ handler'[f].pc = "write" /\ handler'[g].pc = "write"
                           => handler'[f].op # handler'[g].op
                      /\ ~(handler'[f].pc = "rename" /\ handler'[g].pc = "rename")
                      /\ ~(handler'[f].pc = "writeDraft" /\ handler'[g].pc = "writeDraft")
    BY DEF Exclusive
  <2>1. \A k \in Handlers : handler[k].pc = "rename" => temp
    BY DEF CJInv, Request
  <2>2. CASE f # h /\ g # h
    BY <1>1, <2>2 DEF CJInv, Exclusive, InProgress
  <2>3. CASE f = h \/ g = h
    BY <1>1, <2>1, <2>3 DEF InProgress
  <2> QED BY <2>2, <2>3
<1> QED BY <1>1, <1>2, <1>3, <1>4, <1>5 DEF CJInv

LEMMA Idles == Request(Idle)' /\ Idle.pc = "idle"
BY DEF Request, Idle, Labels, Replacing

(* Showing a page.                                                         *)
LEMMA ShowStep ==
  ASSUME CJInv, NEW h \in Handlers, NEW op, NEW form, Show(h, op, form)
  PROVE  CJInv'
<1> PICK s : s = [pc |-> "form", op |-> op, form |-> form, candidate |-> Absent] OBVIOUS
<1>1. Request(s)' /\ s.pc = "form" BY DEF Request, Labels, Replacing
<1> QED BY <1>1, RequestStep DEF Show, CJInv, Shapes, JourneyOK

LEMMA PageStep ==
  ASSUME CJInv, NEW h \in Handlers, Pages(h)
  PROVE  CJInv'
BY ShowStep DEF Pages, NewRequestPage, RequirementsPage, ApprovalPage, PrdPage, CriteriaPage,
     PrdApprovalPage, RoadmapPage, RoadmapApprovalPage, EstimatePage

-----------------------------------------------------------------------------
(* Posting a form.                                                         *)

LEMMA EnterStep ==
  ASSUME CJInv, NEW h \in Handlers, Enter(h), NEW s,
         handler' = [handler EXCEPT ![h] = s],
         Request(s)', s.pc \notin {"write", "writeDraft", "rename"}
  PROVE  CJInv'
<1>1. overlap' \in BOOLEAN BY DEF Enter, CJInv, Shapes, JourneyOK
<1> QED BY <1>1, RequestStep DEF Enter, CJInv, Shapes, JourneyOK

LEMMA RefuseStep ==
  ASSUME CJInv, NEW h \in Handlers, Enter(h), Refuse(h)
  PROVE  CJInv'
<1> PICK s : s = Idle OBVIOUS
<1> QED BY EnterStep, Idles DEF Refuse

(* A handler that was allowed to build goes on with its candidate.         *)
LEMMA BuildStep ==
  ASSUME CJInv, NEW h \in Handlers, Enter(h),
         NEW label \in {"create", "compare"}, NEW op \in Docs, NEW content, NEW binds, NEW c,
         handler[h].op = op, Build(h, label, content, binds),
         c = [file |-> "whole", by |-> h, content |-> content, binds |-> binds],
         c \in Stored[op], Bound(op, c),
         label = "create" => SerialBound(op, c),
         label = "compare" => op = "roadmap" /\ Legacy
  PROVE  CJInv'
<1> PICK s : s = [handler[h] EXCEPT !.pc = label, !.candidate = c] OBVIOUS
<1>1. handler' = [handler EXCEPT ![h] = s]
  BY DEF Build
<1>0. /\ s.pc = label /\ s.candidate = c /\ s.op = op
      /\ DOMAIN s = {"pc", "op", "form", "candidate"}
  BY DEF CJInv, Request
<1>2. Bound(op, c)'
  BY DEF Enter, Bound, Whole, DraftDigest, Present, Digest, EffectivePrd
<1>3. label = "create" => SerialBound(op, c)'
  BY SerialStays DEF Enter
<1>4. Request(s)'
  BY <1>0, <1>2, <1>3 DEF Request, Labels, Replacing, Enter, Legacy, Present
<1> QED BY <1>0, <1>1, <1>4, EnterStep

LEMMA ServeStep ==
  ASSUME CJInv, NEW h \in Handlers, NEW op \in Docs, NEW checks, NEW content, NEW binds, NEW c,
         Serve(h, op, checks, content, binds),
         c = [file |-> "whole", by |-> h, content |-> content, binds |-> binds],
         checks => c \in Stored[op] /\ Bound(op, c) /\ SerialBound(op, c)
  PROVE  CJInv'
<1>1. Enter(h) /\ handler[h].op = op
  BY DEF Serve, Posted
<1>2. CASE checks /\ ~Present(op)
  BY <1>1, <1>2, BuildStep DEF Serve
<1>3. CASE ~(checks /\ ~Present(op))
  BY <1>1, <1>3, RefuseStep DEF Serve
<1> QED BY <1>2, <1>3

(* The digest of what is stored.                                           *)
LEMMA DigestTypes ==
  ASSUME Shapes
  PROVE  /\ \A d \in Docs : Present(d) =>
              Digest(doc[d]) \in Digests /\ doc[d].content \in Contents \cup {"none"}
         /\ \A i \in DOMAIN drafts : Whole(i) =>
              DraftDigest(drafts[i]) \in (1..MaxRevisions) \X Digests
<1>1. ASSUME NEW d \in Docs, Present(d)
      PROVE  doc[d].by \in Builders /\ doc[d].content \in Contents \cup {"none"}
  <2>1. doc[d] \in Stored[d] BY <1>1, Files
  <2>2. \E B : Stored[d] = Document(B)
    BY DEF Docs, Stored, CustomerProductRequest, CustomerRequirementsApproval,
         CustomerPrdDraft, CustomerPrdCriteriaRefinement, CustomerPrdApproval,
         CustomerRoadmapDraft, CustomerRoadmapApproval, CustomerDeliveryEstimateDraft
  <2> QED BY <2>1, <2>2 DEF Document
<1>2. ASSUME NEW i \in DOMAIN drafts, Whole(i)
      PROVE  DraftDigest(drafts[i]) \in (1..MaxRevisions) \X Digests
  <2>1. drafts[i] \in CustomerRequirementsDraft BY <1>2, DraftFiles
  <2> QED BY <2>1 DEF CustomerRequirementsDraft, DraftDigest, Digests
<1> QED BY <1>1, <1>2 DEF Digest, Digests

(* The customer's own request.                                             *)
LEMMA SubmitStep ==
  ASSUME CJInv, NEW h \in Handlers, Submit(h)
  PROVE  CJInv'
<1> PICK content \in Contents :
      Serve(h, "request", doc["request"].file # "torn", content, <<>>)
  BY DEF Submit
<1> PICK c : c = [file |-> "whole", by |-> h, content |-> content, binds |-> <<>>] OBVIOUS
<1>1. c \in Stored["request"]
  BY DEF Stored, CustomerProductRequest, Document, Builders
<1>2. Bound("request", c) /\ SerialBound("request", c)
  BY DEF Bound, SerialBound
<1> QED BY <1>1, <1>2, ServeStep DEF Docs

(* A document that is derived from the one its form showed.                *)
DerivedForm(h, d) == Present(d) /\ Form(h) = Digest(doc[d])

LEMMA DerivedStep ==
  ASSUME CJInv, NEW h \in Handlers, NEW op \in Docs, NEW d \in Docs, NEW checks,
         NEW content \in Contents \cup {"none"},
         Serve(h, op, checks, content, Form(h)),
         checks => DerivedForm(h, d),
         \/ op = "prd" /\ d = "approval"
         \/ op = "criteria" /\ d = "prd"
         \/ op = "roadmap" /\ d = "prdApproval"
         \/ op = "roadmapApproval" /\ d = "roadmap" /\ (checks => ~Legacy)
         \/ op = "estimate" /\ d = "roadmapApproval"
  PROVE  CJInv'
<1> PICK c : c = [file |-> "whole", by |-> h, content |-> content, binds |-> Form(h)] OBVIOUS
<1>1. checks => Form(h) \in Digests
  BY DigestTypes DEF DerivedForm, CJInv
<1>2. checks => c \in Document(Digests)
  BY <1>1 DEF Document, Builders
<1>3. Stored[op] = Document(Digests)
  BY DEF Stored, CustomerPrdDraft, CustomerPrdCriteriaRefinement,
     CustomerRoadmapDraft, CustomerRoadmapApproval, CustomerDeliveryEstimateDraft
<1>4. checks => Bound(op, c) /\ SerialBound(op, c)
  BY DEF Bound, SerialBound, DerivedForm
<1> QED BY <1>2, <1>3, <1>4, ServeStep

LEMMA PrdStep ==
  ASSUME CJInv, NEW h \in Handlers, GeneratePrd(h)
  PROVE  CJInv'
BY DerivedStep DEF GeneratePrd, DerivedForm, Docs

LEMMA RoadmapApprovalStep ==
  ASSUME CJInv, NEW h \in Handlers, ApproveRoadmap(h)
  PROVE  CJInv'
BY DerivedStep DEF ApproveRoadmap, DerivedForm, Docs

LEMMA EstimateStep ==
  ASSUME CJInv, NEW h \in Handlers, GenerateEstimate(h)
  PROVE  CJInv'
BY DerivedStep DEF GenerateEstimate, DerivedForm, Docs

LEMMA CriteriaStep ==
  ASSUME CJInv, NEW h \in Handlers, LockCriteria(h)
  PROVE  CJInv'
BY DerivedStep DEF LockCriteria, DerivedForm, Docs

LEMMA RoadmapStep ==
  ASSUME CJInv, NEW h \in Handlers, GenerateRoadmap(h)
  PROVE  CJInv'
<1> DEFINE checks == /\ FindRoadmapApproval /\ ~Present("roadmapApproval")
                     /\ RoadmapContext /\ Present("prdApproval")
                     /\ Form(h) = Digest(doc["prdApproval"])
<1>1. CASE ~Legacy /\ Serve(h, "roadmap", checks, "none", Form(h))
  BY <1>1, DerivedStep DEF DerivedForm, Docs
<1>2. CASE /\ Legacy /\ Posted(h, "roadmap") /\ Enter(h)
           /\ checks /\ Build(h, "compare", "none", Form(h))
  <2> PICK c : c = [file |-> "whole", by |-> h, content |-> "none", binds |-> Form(h)] OBVIOUS
  <2>1. Form(h) \in Digests
    BY <1>2, DigestTypes DEF CJInv, Docs
  <2>2. c \in Stored["roadmap"]
    BY <2>1 DEF Stored, CustomerRoadmapDraft, Document, Builders
  <2>3. Bound("roadmap", c)
    BY <1>2 DEF Bound
  <2> QED BY <1>2, <2>2, <2>3, BuildStep DEF Posted, Docs
<1>3. CASE Enter(h) /\ Refuse(h)
  BY <1>3, RefuseStep
<1> QED BY <1>1, <1>2, <1>3 DEF GenerateRoadmap

(* The two approvals that bind more than one document.                     *)
LEMMA ApprovalStep ==
  ASSUME CJInv, NEW h \in Handlers, ApproveRequirements(h)
  PROVE  CJInv'
<1> DEFINE checks == ApprovalContext /\ drafts # <<>> /\ Form(h) = DraftDigest(Latest)
<1> PICK c : c = [file |-> "whole", by |-> h, content |-> "none", binds |-> Form(h)] OBVIOUS
<1>1. ASSUME checks
      PROVE  c \in Stored["approval"] /\ Bound("approval", c) /\ SerialBound("approval", c)
  <2>1. Len(drafts) \in DOMAIN drafts
    BY <1>1 DEF CJInv, Shapes
  <2>2. DraftHistory /\ Whole(Len(drafts))
    BY <1>1, <2>1 DEF ApprovalContext, RequirementsContext, DraftHistory, Whole
  <2>3. Form(h) \in (1..MaxRevisions) \X Digests
    BY <1>1, <2>1, <2>2, DigestTypes DEF CJInv, Latest
  <2>4. c \in Stored["approval"]
    BY <2>3 DEF Stored, CustomerRequirementsApproval, Document, Builders
  <2> QED BY <1>1, <2>1, <2>2, <2>4 DEF Bound, SerialBound, Latest
<1> HIDE DEF checks
<1>2. Serve(h, "approval", checks, "none", Form(h))
  BY DEF ApproveRequirements, checks
<1> QED BY <1>1, <1>2, ServeStep DEF Docs

LEMMA PrdApprovalStep ==
  ASSUME CJInv, NEW h \in Handlers, ApprovePrd(h)
  PROVE  CJInv'
<1> DEFINE checks == /\ PrdApprovalContext
                     /\ Present("prd") /\ Form(h) = EffectivePrd
                     /\ Present("criteria")
<1> PICK c : c = [file |-> "whole", by |-> h, content |-> "none", binds |-> Form(h)] OBVIOUS
<1>1. ASSUME checks
      PROVE  c \in Stored["prdApproval"] /\ Bound("prdApproval", c) /\ SerialBound("prdApproval", c)
  <2>1. Form(h) \in Digests \X (Contents \cup {"none"})
    BY <1>1, DigestTypes DEF CJInv, EffectivePrd, Docs
  <2>2. c \in Stored["prdApproval"]
    BY <2>1 DEF Stored, CustomerPrdApproval, Document, Builders
  <2> QED BY <1>1, <2>2 DEF Bound, SerialBound
<1> HIDE DEF checks
<1>2. Serve(h, "prdApproval", checks, "none", Form(h))
  BY DEF ApprovePrd, checks
<1> QED BY <1>1, <1>2, ServeStep DEF Docs

LEMMA SaveStep ==
  ASSUME CJInv, NEW h \in Handlers, SaveRequirements(h)
  PROVE  CJInv'
<1> PICK content \in Contents :
      /\ Enter(h)
      /\ \/ /\ RequirementsContext /\ Unlocked /\ Len(drafts) < MaxRevisions
            /\ handler' = [handler EXCEPT ![h].pc = "append",
                 ![h].candidate = [file |-> "whole", by |-> h, content |-> content,
                                   revision |-> Len(drafts) + 1,
                                   binds |-> Digest(doc["request"])]]
         \/ Refuse(h)
  BY DEF SaveRequirements
<1>1. CASE Refuse(h)
  BY <1>1, RefuseStep
<1>2. CASE ~Refuse(h)
  <2> PICK c : c = [file |-> "whole", by |-> h, content |-> content,
                    revision |-> Len(drafts) + 1, binds |-> Digest(doc["request"])] OBVIOUS
  <2> PICK s : s = [handler[h] EXCEPT !.pc = "append", !.candidate = c] OBVIOUS
  <2>1. /\ RequirementsContext /\ Unlocked /\ Len(drafts) < MaxRevisions
        /\ handler' = [handler EXCEPT ![h] = s]
    BY <1>2
  <2>2. /\ s.pc = "append" /\ s.candidate = c
        /\ DOMAIN s = {"pc", "op", "form", "candidate"}
    BY DEF CJInv, Request
  <2>3. Present("request") /\ Digest(doc["request"]) \in Digests
    BY <2>1, DigestTypes DEF RequirementsContext, FindRequest, Present, CJInv, Docs
  <2>4. Len(drafts) + 1 \in 1..MaxRevisions
    BY <2>1, JourneyAssumption DEF CJInv, Shapes
  <2>5. Revision(c)
    BY <2>3, <2>4 DEF Revision, CustomerRequirementsDraft, Builders
  <2>6. Request(s)'
    BY <2>1, <2>2, <2>5
       DEF Request, Labels, Replacing, Enter, Revision, Unlocked, Present, Digest
  <2> QED BY <2>1, <2>2, <2>6, EnterStep
<1> QED BY <1>1, <1>2

LEMMA PostStep ==
  ASSUME CJInv, NEW h \in Handlers, Posts(h)
  PROVE  CJInv'
BY SubmitStep, SaveStep, ApprovalStep, PrdStep, CriteriaStep, PrdApprovalStep, RoadmapStep,
   RoadmapApprovalStep, EstimateStep DEF Posts

-----------------------------------------------------------------------------
(* Writing.                                                                *)

(* A step of h, to the request s, leaves the files others are writing.     *)
LeavesOthers(h, s) ==
  \A g \in Handlers \ {h} :
    /\ handler[g].pc = "write" => /\ doc'[handler[g].op] = doc[handler[g].op]
                                  /\ s.pc = "write" => s.op # handler[g].op
    /\ handler[g].pc = "rename" => temp' /\ s.pc # "rename"
    /\ handler[g].pc = "writeDraft" => UNCHANGED drafts /\ s.pc # "writeDraft"

(* What the other handlers keep when h, in progress, writes.               *)
LEMMA WriteStep ==
  ASSUME CJInv, NEW h \in Handlers, InProgress(h), NEW s,
         handler' = [handler EXCEPT ![h] = s], UNCHANGED <<overlap, crashes>>,
         Shapes', DocsBound', DraftsBound', SourcesStay, Request(s)',
         Present("roadmap") => Present("roadmap")',
         LeavesOthers(h, s)
  PROVE  CJInv'
<1>1. handler'[h] = s /\ \A g \in Handlers \ {h} : handler'[g] = handler[g]
  BY DEF CJInv, Shapes
<1>2. \A g \in Handlers \ {h} : InProgress(g) => overlap
  BY DEF CJInv, Exclusive
<1>3. ASSUME NEW g \in Handlers \ {h} PROVE Request(handler[g])'
  BY <1>1, <1>2, OthersStay DEF CJInv, LeavesOthers
<1>4. Exclusive'
  <2> SUFFICES ASSUME NEW f \in Handlers, NEW g \in Handlers, f # g, InProgress(f)', InProgress(g)'
               PROVE  /\ overlap'
                      /\ handler'[f].pc = "write" /\ handler'[g].pc = "write"
                           => handler'[f].op # handler'[g].op
                      /\ ~(handler'[f].pc = "rename" /\ handler'[g].pc = "rename")
                      /\ ~(handler'[f].pc = "writeDraft" /\ handler'[g].pc = "writeDraft")
    BY DEF Exclusive
  <2>1. CASE f # h /\ g # h
    BY <1>1, <2>1 DEF CJInv, Exclusive, InProgress
  <2>2. CASE f = h \/ g = h
    BY <1>1, <1>2, <2>2 DEF InProgress, LeavesOthers
  <2> QED BY <2>1, <2>2
<1> QED BY <1>1, <1>3, <1>4 DEF CJInv

(* A handler creates, fills or removes the file of a document that is not  *)
(* there yet.                                                              *)
LEMMA SlotStep ==
  ASSUME CJInv, NEW h \in Handlers, InProgress(h), NEW d \in Docs, ~Present(d),
         NEW v \in Stored[d] \cup {Absent, Torn}, doc' = [doc EXCEPT ![d] = v],
         UNCHANGED <<drafts, temp, overlap, crashes>>,
         v \in Stored[d] => Bound(d, v) /\ (overlap \/ SerialBound(d, v)),
         \A g \in Handlers \ {h} : handler[g].pc = "write" => handler[g].op # d,
         NEW s, handler' = [handler EXCEPT ![h] = s], Request(s)',
         s.pc \in {"idle", "write"}, s.pc = "write" => s.op = d
  PROVE  CJInv'
<1>1. doc'[d] = v /\ \A e \in Docs \ {d} : doc'[e] = doc[e]
  BY DEF CJInv, Shapes
<1>2. Shapes'
  BY <1>1 DEF CJInv, Shapes, JourneyOK
<1>3. SourcesStay
  BY <1>1 DEF SourcesStay
<1>4. DraftsBound'
  BY <1>3, RevisionStays DEF CJInv, DraftsBound, Whole
<1>5. ASSUME NEW e \in Docs, Present(e)'
      PROVE  (Bound(e, doc[e]) /\ (overlap \/ SerialBound(e, doc[e])))'
  <2> PICK c : c = doc'[e] OBVIOUS
  <2>1. CASE e = d
    <3>1. v \in Stored[d] /\ c = v
      BY <1>1, <1>5, <2>1 DEF Present, Absent, Torn
    <3>2. Bound(d, c)' /\ (overlap \/ SerialBound(d, c))
      BY <1>3, <3>1, BoundStays
    <3>3. CASE d # "roadmap"
      <4>1. SerialBound(d, c) => SerialBound(d, c)'
        BY <1>1, <3>3, SerialStays DEF Docs
      <4> QED BY <2>1, <3>2, <4>1
    <3>4. CASE d = "roadmap"
      BY <2>1, <3>2, <3>4 DEF SerialBound
    <3> QED BY <3>3, <3>4
  <2>2. CASE e # d
    <3>1. c = doc[e] /\ Present(e)
      BY <1>1, <1>5, <2>2 DEF Present
    <3>2. Bound(e, c) /\ (overlap \/ SerialBound(e, c))
      BY <3>1 DEF CJInv, DocsBound
    <3>3. Bound(e, c)'
      BY <1>3, <3>2, BoundStays
    <3>4. CASE d # "roadmap"
      <4>1. SerialBound(e, c) => SerialBound(e, c)'
        BY <1>1, <3>4, SerialStays DEF Docs
      <4> QED BY <3>2, <3>3, <4>1
    <3>5. CASE d = "roadmap"
      <4>1. SerialBound(e, c) => SerialBound(e, c)'
        BY <3>5 DEF SerialBound, DraftHistory, DraftDigest, Latest
      <4> QED BY <3>2, <3>3, <4>1
    <3> QED BY <3>4, <3>5
  <2> QED BY <2>1, <2>2
<1>6. DocsBound'
  BY <1>5 DEF DocsBound
<1>7. Present("roadmap") => Present("roadmap")'
  BY <1>1 DEF Present, Docs
<1>8. LeavesOthers(h, s)
  <2> SUFFICES ASSUME NEW g \in Handlers \ {h}
               PROVE  /\ handler[g].pc = "write" =>
                           /\ doc'[handler[g].op] = doc[handler[g].op]
                           /\ s.pc = "write" => s.op # handler[g].op
                      /\ handler[g].pc = "rename" => temp' /\ s.pc # "rename"
                      /\ handler[g].pc = "writeDraft" => UNCHANGED drafts /\ s.pc # "writeDraft"
    BY DEF LeavesOthers
  <2>1. Request(handler[g]) BY DEF CJInv
  <2>2. handler[g].pc = "write" => handler[g].op \in Docs \ {d}
    BY <2>1 DEF Request
  <2>3. handler[g].pc = "rename" => temp
    BY <2>1 DEF Request
  <2> QED BY <1>1, <2>2, <2>3
<1>9. UNCHANGED <<overlap, crashes>>
  OBVIOUS
<1> QED BY <1>2, <1>3, <1>4, <1>6, <1>7, <1>8, <1>9, WriteStep

LEMMA CreateDocStep ==
  ASSUME CJInv, NEW h \in Handlers, CreateDoc(h)
  PROVE  CJInv'
<1> PICK d : d = handler[h].op OBVIOUS
<1> PICK c : c = handler[h].candidate OBVIOUS
<1>1. /\ d \in Docs /\ c \in Stored[d] /\ Bound(d, c)
      /\ overlap \/ SerialBound(d, c)
      /\ DOMAIN handler[h] = {"pc", "op", "form", "candidate"}
      /\ handler[h].pc = "create"
  BY DEF CJInv, Request, CreateDoc, At
<1>2. CASE doc' = doc /\ Refuse(h)
  <2> PICK s : s = Idle OBVIOUS
  <2>1. CJInv' BY <1>2, RequestStep, Idles DEF CreateDoc, Refuse, CJInv, Shapes, JourneyOK
  <2> QED BY <2>1
<1>3. CASE doc[d].file = "absent" /\ doc' = [doc EXCEPT ![d] = Torn] /\ Goto(h, "write")
  <2> PICK s : s = [handler[h] EXCEPT !.pc = "write"] OBVIOUS
  <2>1. /\ s.pc = "write" /\ s.op = d /\ s.candidate = c
        /\ DOMAIN s = {"pc", "op", "form", "candidate"}
        /\ handler' = [handler EXCEPT ![h] = s]
    BY <1>1, <1>3 DEF Goto
  <2>2. ~Present(d) /\ doc[d] # Torn
    BY <1>3 DEF Present, Torn
  <2>3. doc'[d] = Torn /\ \A e \in Docs \ {d} : doc'[e] = doc[e]
    BY <1>1, <1>3 DEF CJInv, Shapes
  <2>4. SourcesStay
    BY <2>2, <2>3 DEF SourcesStay, CreateDoc
  <2>5. Bound(d, c)'
    BY <1>1, <2>4, BoundStays
  <2>6. overlap \/ SerialBound(d, c)'
    <3>1. CASE d # "roadmap"
      BY <1>1, <2>3, <3>1, SerialStays DEF Docs, CreateDoc
    <3>2. CASE d = "roadmap"
      BY <3>2 DEF SerialBound
    <3> QED BY <3>1, <3>2
  <2>7. Request(s)'
    BY <1>1, <2>1, <2>3, <2>5, <2>6 DEF Request, Labels, Replacing, CreateDoc
  <2>8. \A g \in Handlers \ {h} : handler[g].pc = "write" => handler[g].op # d
    BY <2>2 DEF CJInv, Request
  <2>9. UNCHANGED <<drafts, temp, overlap, crashes>> /\ InProgress(h) /\ Torn \notin Stored[d]
    BY <1>1, WholeKinds DEF CreateDoc, InProgress, Torn
  <2> QED BY <1>1, <1>3, <2>1, <2>2, <2>7, <2>8, <2>9, SlotStep
<1> QED BY <1>2, <1>3 DEF CreateDoc

LEMMA FillStep ==
  ASSUME CJInv, NEW h \in Handlers, WriteDoc(h) \/ WriteDocFails(h)
  PROVE  CJInv'
<1> PICK d : d = handler[h].op OBVIOUS
<1> PICK c : c = handler[h].candidate OBVIOUS
<1>1. /\ d \in Docs /\ c \in Stored[d] /\ Bound(d, c) /\ doc[d] = Torn
      /\ overlap \/ SerialBound(d, c)
      /\ handler[h].pc = "write"
  BY DEF CJInv, Request, WriteDoc, WriteDocFails, At
<1> PICK s : s = Idle OBVIOUS
<1>2. /\ handler' = [handler EXCEPT ![h] = s] /\ Request(s)' /\ s.pc = "idle"
      /\ UNCHANGED <<drafts, temp, overlap, crashes>> /\ InProgress(h)
  BY <1>1, Idles DEF WriteDoc, WriteDocFails, Refuse, InProgress
<1>3. ~Present(d) BY <1>1 DEF Present, Torn
<1>4. \A g \in Handlers \ {h} : handler[g].pc = "write" => handler[g].op # d
  BY <1>1 DEF CJInv, Exclusive, InProgress
<1>5. CASE WriteDoc(h)
  BY <1>1, <1>2, <1>3, <1>4, <1>5, SlotStep DEF WriteDoc, Candidate
<1>6. CASE WriteDocFails(h)
  <2>1. Absent \notin Stored[d] BY <1>1, WholeKinds DEF Absent
  <2> QED BY <1>1, <1>2, <1>3, <1>4, <1>6, <2>1, SlotStep DEF WriteDocFails
<1> QED BY <1>5, <1>6

(* A step that changes only the revisions, none of which is approved yet   *)
(* if requests have not overlapped.                                        *)
LEMMA HistoryStep ==
  ASSUME CJInv, NEW h \in Handlers, InProgress(h), overlap \/ ~Present("approval"),
         SourcesStay, Shapes', DraftsBound', UNCHANGED <<doc, temp, overlap, crashes>>,
         NEW s, handler' = [handler EXCEPT ![h] = s], Request(s)', LeavesOthers(h, s)
  PROVE  CJInv'
<1>1. ASSUME NEW e \in Docs, Present(e)'
      PROVE  (Bound(e, doc[e]) /\ (overlap \/ SerialBound(e, doc[e])))'
  <2> PICK c : c = doc[e] OBVIOUS
  <2>1. Present(e) /\ Bound(e, c) /\ (overlap \/ SerialBound(e, c)) /\ c = doc'[e]
    BY <1>1 DEF CJInv, DocsBound, Present
  <2>2. Bound(e, c)' BY <2>1, BoundStays
  <2>3. overlap \/ SerialBound(e, c)'
    BY <2>1 DEF SerialBound, Present, Legacy, Digest
  <2> QED BY <2>1, <2>2, <2>3
<1>2. DocsBound' BY <1>1 DEF DocsBound
<1> QED BY <1>2, WriteStep DEF Present

LEMMA AppendDraftStep ==
  ASSUME CJInv, NEW h \in Handlers, AppendDraft(h)
  PROVE  CJInv'
<1> PICK c : c = handler[h].candidate OBVIOUS
<1>1. /\ handler[h].pc = "append" /\ InProgress(h)
      /\ Revision(c) /\ (overlap \/ ~Present("approval"))
      /\ DOMAIN handler[h] = {"pc", "op", "form", "candidate"}
      /\ UNCHANGED <<doc, temp, overlap, crashes>>
  BY DEF CJInv, Request, AppendDraft, At, InProgress
<1>2. CASE UNCHANGED drafts /\ Refuse(h)
  <2> PICK s : s = Idle OBVIOUS
  <2> QED BY <1>1, <1>2, RequestStep, Idles DEF Refuse, CJInv, Shapes, JourneyOK
<1>3. CASE /\ DraftHistory /\ c.revision = Len(drafts) + 1
           /\ drafts' = Append(drafts, Torn) /\ Goto(h, "writeDraft")
  <2> PICK n \in Nat : n = Len(drafts) BY DEF CJInv, Shapes
  <2> PICK s : s = [handler[h] EXCEPT !.pc = "writeDraft"] OBVIOUS
  <2>1. /\ s.pc = "writeDraft" /\ s.candidate = c
        /\ DOMAIN s = {"pc", "op", "form", "candidate"}
        /\ handler' = [handler EXCEPT ![h] = s]
    BY <1>1, <1>3 DEF Goto
  <2>2. /\ DOMAIN drafts = 1..n /\ DOMAIN drafts' = 1..(n + 1) /\ Len(drafts') = n + 1
        /\ drafts'[n + 1] = Torn /\ \A i \in 1..n : drafts'[i] = drafts[i]
        /\ drafts' \in Seq(CustomerRequirementsDraft \cup {Torn})
    BY <1>3 DEF CJInv, Shapes
  <2>3. \A i \in 1..n : Whole(i)
    BY <1>3, <2>2 DEF DraftHistory, Whole
  <2>4. \A i \in 1..n : drafts[i] \in CustomerRequirementsDraft /\ drafts[i].revision = i
    BY <2>2, <2>3, DraftFiles DEF CJInv
  <2>5. Shapes'
    BY <1>1, <2>1, <2>2, <2>4 DEF CJInv, Shapes, JourneyOK
  <2>6. SourcesStay
    BY <1>1, <2>2 DEF SourcesStay
  <2>7. DraftsBound'
    BY <1>1, <2>2, <2>3 DEF CJInv, DraftsBound, Whole, Torn, Revision, Present, Digest
  <2>8. Request(s)'
    <3>1. Revision(c)' BY <1>1, <2>6, RevisionStays
    <3> QED BY <1>1, <1>3, <2>1, <2>2, <3>1 DEF Request, Labels, Replacing, Present
  <2>9. LeavesOthers(h, s)
    <3> SUFFICES ASSUME NEW g \in Handlers \ {h}
                 PROVE  handler[g].pc # "writeDraft" /\ (handler[g].pc = "rename" => temp')
      BY <1>1, <2>1 DEF LeavesOthers
    <3>1. Request(handler[g]) BY DEF CJInv
    <3>2. handler[g].pc = "writeDraft" => n \in 1..n /\ drafts[n] = Torn
      BY <3>1, <2>4 DEF Request, Revision, CustomerRequirementsDraft
    <3> QED BY <1>1, <2>2, <2>3, <3>1, <3>2 DEF Request, Whole, Torn
  <2> QED BY <1>1, <2>1, <2>5, <2>6, <2>7, <2>8, <2>9, HistoryStep
<1> QED BY <1>2, <1>3 DEF AppendDraft, Candidate

LEMMA WriteDraftStep ==
  ASSUME CJInv, NEW h \in Handlers, WriteDraft(h)
  PROVE  CJInv'
<1> PICK c : c = handler[h].candidate OBVIOUS
<1> PICK n \in Nat : n = Len(drafts) BY DEF CJInv, Shapes
<1> PICK s : s = Idle OBVIOUS
<1>1. /\ handler[h].pc = "writeDraft" /\ InProgress(h)
      /\ Revision(c) /\ (overlap \/ ~Present("approval"))
      /\ c.revision = n /\ drafts[n] = Torn
      /\ UNCHANGED <<doc, temp, overlap, crashes>>
  BY DEF CJInv, Request, WriteDraft, At, InProgress
<1>2. handler' = [handler EXCEPT ![h] = s] /\ Request(s)' /\ s.pc = "idle"
  BY Idles DEF WriteDraft, Refuse
<1>3. n \in 1..n /\ c \in CustomerRequirementsDraft
  BY <1>1 DEF Revision, CustomerRequirementsDraft
<1>4. /\ DOMAIN drafts = 1..n /\ DOMAIN drafts' = 1..n /\ Len(drafts') = n
      /\ drafts'[n] = c /\ \A i \in 1..n : i # n => drafts'[i] = drafts[i]
      /\ drafts' \in Seq(CustomerRequirementsDraft \cup {Torn})
  BY <1>1, <1>3 DEF WriteDraft, Candidate, CJInv, Shapes
<1>5. Shapes'
  BY <1>1, <1>2, <1>3, <1>4 DEF CJInv, Shapes, JourneyOK
<1>6. SourcesStay
  BY <1>1, <1>4 DEF SourcesStay, Whole, Torn
<1>7. DraftsBound'
  BY <1>1, <1>4 DEF CJInv, DraftsBound, Whole, Revision, Present, Digest
<1>8. LeavesOthers(h, s)
  <2> SUFFICES ASSUME NEW g \in Handlers \ {h}
               PROVE  handler[g].pc # "writeDraft" /\ (handler[g].pc = "rename" => temp')
    BY <1>1, <1>2 DEF LeavesOthers
  <2>1. Request(handler[g]) BY DEF CJInv
  <2>2. handler[g].pc # "writeDraft"
    BY <1>1 DEF CJInv, Exclusive, InProgress
  <2> QED BY <1>1, <2>1, <2>2 DEF Request
<1> QED BY <1>1, <1>2, <1>5, <1>6, <1>7, <1>8, HistoryStep

LEMMA WriteDraftFailsStep ==
  ASSUME CJInv, NEW h \in Handlers, WriteDraftFails(h)
  PROVE  CJInv'
<1> PICK c : c = handler[h].candidate OBVIOUS
<1> PICK n \in Nat : n = Len(drafts) BY DEF CJInv, Shapes
<1> PICK s : s = Idle OBVIOUS
<1>1. /\ handler[h].pc = "writeDraft" /\ InProgress(h)
      /\ Revision(c) /\ (overlap \/ ~Present("approval"))
      /\ c.revision = n /\ drafts[n] = Torn
      /\ UNCHANGED <<doc, temp, overlap, crashes>>
  BY DEF CJInv, Request, WriteDraftFails, At, InProgress
<1>2. handler' = [handler EXCEPT ![h] = s] /\ Request(s)' /\ s.pc = "idle"
  BY Idles DEF WriteDraftFails, Refuse
<1>3. n \in 1..n
  BY <1>1 DEF Revision, CustomerRequirementsDraft
<1> PICK m \in Nat : m = n - 1
  BY <1>3
<1>4. /\ DOMAIN drafts = 1..n /\ DOMAIN drafts' = 1..m /\ Len(drafts') = m
      /\ \A i \in 1..m : drafts'[i] = drafts[i]
      /\ drafts' \in Seq(CustomerRequirementsDraft \cup {Torn})
  <2>1. drafts' = SubSeq(drafts, 1, m) /\ drafts \in Seq(CustomerRequirementsDraft \cup {Torn})
    BY <1>1 DEF WriteDraftFails, Candidate, CJInv, Shapes
  <2> QED BY <2>1
<1>5. Shapes'
  BY <1>1, <1>2, <1>3, <1>4 DEF CJInv, Shapes, JourneyOK
<1>6. SourcesStay
  BY <1>1, <1>4 DEF SourcesStay, Whole, Torn
<1>7. DraftsBound'
  BY <1>1, <1>4 DEF CJInv, DraftsBound, Whole, Revision, Present, Digest
<1>8. LeavesOthers(h, s)
  <2> SUFFICES ASSUME NEW g \in Handlers \ {h}
               PROVE  handler[g].pc # "writeDraft" /\ (handler[g].pc = "rename" => temp')
    BY <1>1, <1>2 DEF LeavesOthers
  <2>1. Request(handler[g]) BY DEF CJInv
  <2>2. handler[g].pc # "writeDraft"
    BY <1>1 DEF CJInv, Exclusive, InProgress
  <2> QED BY <1>1, <2>1, <2>2 DEF Request
<1> QED BY <1>1, <1>2, <1>5, <1>6, <1>7, <1>8, HistoryStep

-----------------------------------------------------------------------------
(* Replacing a legacy roadmap.                                             *)

LEMMA ReplacingStep ==
  ASSUME CJInv, NEW h \in Handlers, CompareLegacy(h) \/ CreateTemp(h)
  PROVE  CJInv'
<1>1. /\ handler[h].pc \in {"compare", "temp"} /\ InProgress(h)
      /\ handler[h].op = "roadmap" /\ handler[h].candidate \in Stored["roadmap"]
      /\ Bound("roadmap", handler[h].candidate) /\ Present("roadmap") /\ (overlap \/ Legacy)
      /\ DOMAIN handler[h] = {"pc", "op", "form", "candidate"}
      /\ UNCHANGED <<drafts, doc, overlap, crashes>>
      /\ temp' \in BOOLEAN /\ (temp => temp')
  BY DEF CJInv, Shapes, JourneyOK, Request, Replacing, CompareLegacy, CreateTemp, At, InProgress
<1>2. \A g \in Handlers \ {h} : InProgress(g) => overlap'
  BY <1>1 DEF CJInv, Exclusive
<1>3. CASE Refuse(h)
  <2> PICK s : s = Idle OBVIOUS
  <2> QED BY <1>1, <1>3, RequestStep, Idles DEF Refuse, CJInv, Shapes, JourneyOK
<1>4. ASSUME NEW label \in {"temp", "rename"}, Goto(h, label), label = "rename" => ~temp /\ temp'
      PROVE  CJInv'
  <2> PICK s : s = [handler[h] EXCEPT !.pc = label] OBVIOUS
  <2>1. /\ s.pc = label /\ s.op = "roadmap" /\ s.candidate = handler[h].candidate
        /\ DOMAIN s = {"pc", "op", "form", "candidate"}
        /\ handler' = [handler EXCEPT ![h] = s]
    BY <1>1, <1>4 DEF Goto
  <2>2. Bound("roadmap", s.candidate)'
    BY <1>1, <2>1 DEF Bound, Present, Digest
  <2>3. Request(s)'
    BY <1>1, <1>4, <2>1, <2>2 DEF Request, Labels, Replacing, Present, Legacy
  <2> QED BY <1>1, <1>2, <1>4, <2>1, <2>3, RequestStep DEF CJInv, Shapes, JourneyOK
<1>5. CASE CompareLegacy(h)
  BY <1>3, <1>4, <1>5 DEF CompareLegacy
<1>6. CASE CreateTemp(h)
  <2>1. temp \in BOOLEAN BY DEF CJInv, Shapes, JourneyOK
  <2> QED BY <1>3, <1>4, <1>6, <2>1 DEF CreateTemp
<1> QED BY <1>5, <1>6

LEMMA RenameTempFailsStep ==
  ASSUME CJInv, NEW h \in Handlers, RenameTempFails(h)
  PROVE  CJInv'
<1> PICK s : s = Idle OBVIOUS
<1>1. /\ handler[h].pc = "rename" /\ InProgress(h) /\ Present("roadmap")
      /\ UNCHANGED <<drafts, doc, overlap, crashes>> /\ temp' = FALSE
  BY DEF CJInv, Request, Replacing, RenameTempFails, At, InProgress
<1>2. handler' = [handler EXCEPT ![h] = s] /\ Request(s)' /\ s.pc = "idle"
  BY Idles DEF RenameTempFails, Refuse
<1>3. Shapes'
  BY <1>1, <1>2 DEF CJInv, Shapes, JourneyOK
<1>4. SourcesStay
  BY <1>1 DEF SourcesStay
<1>5. DraftsBound'
  BY <1>1, <1>4, RevisionStays DEF CJInv, DraftsBound, Whole
<1>6. ASSUME NEW e \in Docs, Present(e)'
      PROVE  (Bound(e, doc[e]) /\ (overlap \/ SerialBound(e, doc[e])))'
  <2> PICK k : k = doc[e] OBVIOUS
  <2>1. Present(e) /\ Bound(e, k) /\ (overlap \/ SerialBound(e, k)) /\ k = doc'[e]
    BY <1>1, <1>6 DEF CJInv, DocsBound, Present
  <2>2. Bound(e, k)' BY <1>4, <2>1, BoundStays
  <2>3. overlap \/ SerialBound(e, k)'
    BY <1>1, <2>1 DEF SerialBound, DraftHistory, DraftDigest, Latest, Present, Legacy, Digest
  <2> QED BY <1>1, <2>1, <2>2, <2>3
<1>7. DocsBound' BY <1>6 DEF DocsBound
<1>8. LeavesOthers(h, s)
  <2> SUFFICES ASSUME NEW g \in Handlers \ {h}  PROVE handler[g].pc # "rename"
    BY <1>1, <1>2 DEF LeavesOthers, CJInv, Shapes
  <2> QED BY <1>1 DEF CJInv, Exclusive, InProgress
<1> QED BY <1>1, <1>2, <1>3, <1>4, <1>5, <1>7, <1>8, WriteStep DEF Present

LEMMA RenameTempStep ==
  ASSUME CJInv, NEW h \in Handlers, RenameTemp(h)
  PROVE  CJInv'
<1> PICK c : c = handler[h].candidate OBVIOUS
<1> PICK s : s = Idle OBVIOUS
<1>1. /\ handler[h].pc = "rename" /\ InProgress(h) /\ c \in Stored["roadmap"]
      /\ Bound("roadmap", c) /\ Present("roadmap") /\ (overlap \/ Legacy)
      /\ UNCHANGED <<drafts, overlap, crashes>> /\ temp' = FALSE
  BY DEF CJInv, Request, Replacing, RenameTemp, At, InProgress
<1>2. handler' = [handler EXCEPT ![h] = s] /\ Request(s)' /\ s.pc = "idle"
  BY Idles DEF RenameTemp, Refuse
<1>3. doc'["roadmap"] = c /\ \A e \in Docs \ {"roadmap"} : doc'[e] = doc[e]
  BY DEF RenameTemp, Candidate, CJInv, Shapes, Docs
<1>4. Shapes'
  BY <1>1, <1>2, <1>3 DEF RenameTemp, CJInv, Shapes, JourneyOK
<1>5. SourcesStay
  BY <1>1, <1>3 DEF SourcesStay
<1>6. DraftsBound'
  BY <1>1, <1>5, RevisionStays DEF CJInv, DraftsBound, Whole
<1>7. ASSUME NEW e \in Docs, Present(e)'
      PROVE  (Bound(e, doc[e]) /\ (overlap \/ SerialBound(e, doc[e])))'
  <2> PICK k : k = doc'[e] OBVIOUS
  <2>1. CASE e = "roadmap"
    <3>1. Bound("roadmap", k)' BY <1>1, <1>3, <1>5, <2>1, BoundStays
    <3>2. SerialBound("roadmap", k)' BY DEF SerialBound
    <3> QED BY <2>1, <3>1, <3>2
  <2>2. CASE e # "roadmap"
    <3>1. Present(e) /\ k = doc[e]
      BY <1>3, <1>7, <2>2 DEF Present
    <3>2. Bound(e, k) /\ (overlap \/ SerialBound(e, k))
      BY <3>1 DEF CJInv, DocsBound
    <3>3. Bound(e, k)'
      BY <1>5, <3>2, BoundStays
    <3>4. SerialBound(e, k) => overlap \/ SerialBound(e, k)'
      BY <1>1 DEF SerialBound, DraftHistory, DraftDigest, Latest
    <3> QED BY <1>1, <3>2, <3>3, <3>4
  <2> QED BY <2>1, <2>2
<1>8. DocsBound' BY <1>7 DEF DocsBound
<1>9. Present("roadmap")'
  BY <1>1, <1>3, WholeKinds DEF Present, Docs
<1>10. LeavesOthers(h, s)
  <2> SUFFICES ASSUME NEW g \in Handlers \ {h}
               PROVE  /\ handler[g].pc = "write" => doc'[handler[g].op] = doc[handler[g].op]
                      /\ handler[g].pc # "rename"
    BY <1>1, <1>2 DEF LeavesOthers
  <2>1. Request(handler[g]) BY DEF CJInv
  <2>2. handler[g].pc # "rename"
    BY <1>1 DEF CJInv, Exclusive, InProgress
  <2>3. handler[g].pc = "write" => handler[g].op \in Docs \ {"roadmap"}
    BY <1>1, <2>1 DEF Request, Present, Torn
  <2> QED BY <1>3, <2>2, <2>3
<1> QED BY <1>1, <1>2, <1>4, <1>5, <1>6, <1>8, <1>9, <1>10, WriteStep

-----------------------------------------------------------------------------
LEMMA CrashStep ==
  ASSUME CJInv, ServerCrash
  PROVE  CJInv'
<1>1. UNCHANGED <<drafts, doc, temp, overlap>>
  BY DEF ServerCrash
<1>2. Shapes'
  <2>1. crashes' \in 0..MaxCrashes
    BY JourneyAssumption DEF ServerCrash, CJInv, Shapes, JourneyOK
  <2>2. DOMAIN handler' = Handlers
    BY DEF ServerCrash
  <2> QED BY <1>1, <2>1, <2>2 DEF CJInv, Shapes, JourneyOK
<1>3. DocsBound' /\ DraftsBound'
  BY <1>1, DocsStay DEF CJInv
<1>4. ASSUME NEW h \in Handlers PROVE Request(handler[h])' /\ ~InProgress(h)'
  <2> PICK r : r = handler'[h] OBVIOUS
  <2>1. DOMAIN r = {"pc", "op", "form", "candidate"} /\ r.pc \in {"idle", "form"}
    BY DEF ServerCrash, CJInv, Request, InProgress, Idle
  <2>2. Request(r)' BY <2>1 DEF Request, Labels, Replacing
  <2> QED BY <2>1, <2>2 DEF InProgress
<1> QED BY <1>2, <1>3, <1>4 DEF CJInv, Exclusive

LEMMA StutterStep ==
  ASSUME CJInv, UNCHANGED journeyVars
  PROVE  CJInv'
<1>1. DocsBound' /\ DraftsBound'
  BY DocsStay DEF CJInv, journeyVars
<1>2. Shapes' /\ Exclusive'
  BY DEF journeyVars, CJInv, Shapes, JourneyOK, Exclusive, InProgress
<1>3. ASSUME NEW g \in Handlers PROVE Request(handler[g])'
  <2>1. \A op, c : Bound(op, c) => Bound(op, c)'
    BY DEF journeyVars, Bound, Whole, DraftDigest, Present, Digest, EffectivePrd
  <2>2. \A op, c : SerialBound(op, c) => SerialBound(op, c)'
    BY DEF journeyVars, SerialBound, DraftHistory, DraftDigest, Latest, Legacy, Present, Digest
  <2>3. \A c : Revision(c) => Revision(c)'
    BY DEF journeyVars, Revision, Present, Digest
  <2> PICK r : r = handler[g] OBVIOUS
  <2>4. Request(r) BY DEF CJInv
  <2>5. Request(r)' BY <2>1, <2>2, <2>3, <2>4 DEF Request, Present, Legacy, journeyVars
  <2> QED BY <2>5 DEF journeyVars
<1> QED BY <1>1, <1>2, <1>3 DEF CJInv

(* The stores of an earlier release: the documents, where none, draft and  *)
(* prd are the digests of a derived document, of the draft and of the PRD  *)
(* under its criteria.                                                     *)
PastFiles(c, none, draft, prd, r) ==
  /\ DOMAIN doc = Docs
  /\ doc["request"] = PastDoc(c, <<>>)
  /\ doc["approval"] = PastDoc("none", draft)
  /\ doc["prd"] = PastDoc("none", none)
  /\ doc["criteria"] = PastDoc(c, none)
  /\ doc["prdApproval"] = PastDoc("none", prd)
  /\ doc["roadmap"] = PastDoc("none", none)
  /\ doc["roadmapApproval"] = Absent
  /\ doc["estimate"] = Absent
  /\ drafts = <<r>>

PastDigests(c, none, draft, prd, r) ==
  /\ none = <<"past", "none">>
  /\ draft = <<1, <<"past", c>>>>
  /\ prd = <<none, c>>
  /\ r = [file |-> "whole", by |-> "past", content |-> c, revision |-> 1,
          binds |-> <<"past", c>>]

LEMMA PastFound ==
  ASSUME Past
  PROVE  \E c \in Contents : \E none, draft, prd, r :
            PastFiles(c, none, draft, prd, r) /\ PastDigests(c, none, draft, prd, r)
<1> PICK c \in Contents :
      /\ drafts = <<[file |-> "whole", by |-> "past", content |-> c, revision |-> 1,
                     binds |-> <<"past", c>>]>>
      /\ doc = [d \in Docs |->
           CASE d = "request"     -> PastDoc(c, <<>>)
             [] d = "approval"    -> PastDoc("none", <<1, <<"past", c>>>>)
             [] d = "prd"         -> PastDoc("none", <<"past", "none">>)
             [] d = "criteria"    -> PastDoc(c, <<"past", "none">>)
             [] d = "prdApproval" -> PastDoc("none", <<<<"past", "none">>, c>>)
             [] d = "roadmap"     -> PastDoc("none", <<"past", "none">>)
             [] OTHER             -> Absent]
  BY DEF Past
<1>1. PastFiles(c, <<"past", "none">>, <<1, <<"past", c>>>>, <<<<"past", "none">>, c>>,
                [file |-> "whole", by |-> "past", content |-> c, revision |-> 1,
                 binds |-> <<"past", c>>])
  BY DEF PastFiles, Docs
<1>2. PastDigests(c, <<"past", "none">>, <<1, <<"past", c>>>>, <<<<"past", "none">>, c>>,
                  [file |-> "whole", by |-> "past", content |-> c, revision |-> 1,
                   binds |-> <<"past", c>>])
  BY DEF PastDigests
<1> QED BY <1>1, <1>2

LEMMA PastRecords ==
  /\ \A k, b : /\ PastDoc(k, b).file = "whole" /\ PastDoc(k, b).binds = b
               /\ PastDoc(k, b).content = k /\ Digest(PastDoc(k, b)) = <<"past", k>>
  /\ \A B : \A k \in Contents \cup {"none"} : \A b \in B : PastDoc(k, b) \in Document(B)
BY DEF PastDoc, Digest, Document, Builders

LEMMA PastTypes ==
  ASSUME NEW c \in Contents, NEW none, NEW draft, NEW prd, NEW r,
         PastFiles(c, none, draft, prd, r), PastDigests(c, none, draft, prd, r)
  PROVE  /\ r \in CustomerRequirementsDraft /\ r.file = "whole" /\ r.revision = 1
         /\ \A d \in Docs : doc[d] \in Stored[d] \cup {Absent}
<1>1. none \in Digests /\ <<"past", c>> \in Digests
  BY DEF PastDigests, Digests, Builders
<1>2. 1 \in 1..MaxRevisions
  BY JourneyAssumption
<1>3. r \in CustomerRequirementsDraft /\ r.file = "whole" /\ r.revision = 1
  BY <1>1, <1>2 DEF PastDigests, CustomerRequirementsDraft, Builders
<1>4. draft \in (1..MaxRevisions) \X Digests
  BY <1>1, <1>2 DEF PastDigests
<1>5. prd \in Digests \X (Contents \cup {"none"})
  BY <1>1 DEF PastDigests
<1>6. doc["request"] \in Stored["request"]
  BY PastRecords DEF PastFiles, Stored, CustomerProductRequest
<1>7. doc["approval"] \in Stored["approval"]
  <2> PICK B : B = (1..MaxRevisions) \X Digests OBVIOUS
  <2>1. PastDoc("none", draft) \in Document(B)
    BY <1>4, PastRecords
  <2> QED BY <2>1 DEF PastFiles, Stored, CustomerRequirementsApproval
<1>8. doc["prdApproval"] \in Stored["prdApproval"]
  <2> PICK B : B = Digests \X (Contents \cup {"none"}) OBVIOUS
  <2>1. PastDoc("none", prd) \in Document(B)
    BY <1>5, PastRecords
  <2> QED BY <2>1 DEF PastFiles, Stored, CustomerPrdApproval
<1>9. \A d \in {"prd", "criteria", "roadmap"} : doc[d] \in Stored[d]
  <2>1. \A k \in Contents \cup {"none"} : PastDoc(k, none) \in Document(Digests)
    BY <1>1, PastRecords
  <2>2. \A d \in {"prd", "criteria", "roadmap"} : Stored[d] = Document(Digests)
    BY DEF Stored, CustomerPrdDraft, CustomerPrdCriteriaRefinement, CustomerRoadmapDraft
  <2>3. \A d \in {"prd", "criteria", "roadmap"} : doc[d] \in Document(Digests)
    BY <2>1 DEF PastFiles
  <2> QED BY <2>2, <2>3
<1>10. doc["roadmapApproval"] = Absent /\ doc["estimate"] = Absent
  BY DEF PastFiles
<1> QED BY <1>3, <1>6, <1>7, <1>8, <1>9, <1>10 DEF Docs

LEMMA PastBound ==
  ASSUME NEW c \in Contents, NEW none, NEW draft, NEW prd, NEW r,
         PastFiles(c, none, draft, prd, r), PastDigests(c, none, draft, prd, r)
  PROVE  /\ \A d \in Docs : Present(d) => Bound(d, doc[d]) /\ SerialBound(d, doc[d])
         /\ DraftsBound
<1>1. /\ drafts = <<r>> /\ DOMAIN drafts = {1} /\ Len(drafts) = 1 /\ drafts[1] = r
      /\ drafts # <<>>
  BY DEF PastFiles
<1>2. /\ Present("request") /\ Present("approval") /\ Present("prd") /\ Present("criteria")
      /\ Present("prdApproval") /\ Present("roadmap")
      /\ ~Present("roadmapApproval") /\ ~Present("estimate")
  BY PastRecords DEF Present, PastFiles, Absent
<1>3. /\ Digest(doc["request"]) = <<"past", c>>
      /\ Digest(doc["approval"]) = none
      /\ Digest(doc["prd"]) = none
      /\ Digest(doc["prdApproval"]) = none
  BY PastRecords DEF PastFiles, PastDigests
<1>4. EffectivePrd = prd
  BY <1>2, <1>3, PastRecords DEF EffectivePrd, PastFiles, PastDigests
<1>5. /\ doc["approval"].binds = draft /\ doc["prd"].binds = none
      /\ doc["criteria"].binds = none /\ doc["prdApproval"].binds = prd
      /\ doc["roadmap"].binds = none
  BY PastRecords DEF PastFiles
<1>6. /\ r.file = "whole" /\ r \in CustomerRequirementsDraft
      /\ DraftDigest(r) = draft /\ r.binds = <<"past", c>>
  BY PastTypes DEF PastDigests, DraftDigest
<1>7. Whole(1) /\ DraftHistory /\ Latest = r
  BY <1>1, <1>6 DEF Whole, DraftHistory, Latest
<1>8. ASSUME NEW d \in Docs, Present(d)
      PROVE  Bound(d, doc[d]) /\ SerialBound(d, doc[d])
  <2>1. \E i \in DOMAIN drafts : Whole(i) /\ draft = DraftDigest(drafts[i])
    BY <1>1, <1>6, <1>7
  <2>2. Bound(d, doc[d])
    BY <1>2, <1>3, <1>4, <1>5, <1>8, <2>1 DEF Bound
  <2>3. SerialBound(d, doc[d])
    BY <1>1, <1>2, <1>5, <1>6, <1>7, <1>8 DEF SerialBound
  <2> QED BY <2>2, <2>3
<1>9. DraftsBound
  BY <1>1, <1>2, <1>3, <1>6 DEF DraftsBound, Revision
<1> QED BY <1>8, <1>9

LEMMA InitStep ==
  ASSUME JourneyInit
  PROVE  CJInv
<1>1. \A g \in Handlers : Request(handler[g]) /\ ~InProgress(g)
  BY DEF JourneyInit, Request, Idle, Labels, Replacing, InProgress
<1>2. Exclusive
  BY <1>1 DEF Exclusive
<1>3. temp \in BOOLEAN /\ overlap \in BOOLEAN /\ crashes \in 0..MaxCrashes /\ DOMAIN handler = Handlers
  <2>1. temp \in BOOLEAN /\ overlap \in BOOLEAN BY DEF JourneyInit
  <2>2. crashes \in 0..MaxCrashes BY JourneyAssumption DEF JourneyInit
  <2>3. DOMAIN handler = Handlers BY DEF JourneyInit
  <2> QED BY <2>1, <2>2, <2>3
<1>4. CASE Empty
  <2>1. /\ drafts = <<>> /\ DOMAIN drafts = {} /\ drafts \in Seq(CustomerRequirementsDraft \cup {Torn})
        /\ DOMAIN doc = Docs /\ \A d \in Docs : doc[d] = Absent /\ ~Present(d)
    BY <1>4 DEF Empty, Absent, Present
  <2>2. Shapes
    BY <1>3, <2>1 DEF Shapes, JourneyOK
  <2> QED BY <1>1, <1>2, <2>1, <2>2 DEF CJInv, DocsBound, DraftsBound
<1>5. CASE Past
  <2> PICK c \in Contents : \E none, draft, prd, r :
        PastFiles(c, none, draft, prd, r) /\ PastDigests(c, none, draft, prd, r)
    BY <1>5, PastFound
  <2> PICK none, draft, prd, r :
        PastFiles(c, none, draft, prd, r) /\ PastDigests(c, none, draft, prd, r)
    OBVIOUS
  <2>1. /\ r \in CustomerRequirementsDraft /\ r.revision = 1
        /\ \A d \in Docs : doc[d] \in Stored[d] \cup {Absent}
    BY PastTypes
  <2>2. /\ DOMAIN drafts = {1} /\ Len(drafts) = 1 /\ drafts[1] = r
        /\ drafts \in Seq(CustomerRequirementsDraft \cup {Torn}) /\ DOMAIN doc = Docs
    BY <2>1 DEF PastFiles
  <2>3. Shapes
    BY <1>3, <2>1, <2>2 DEF Shapes, JourneyOK
  <2>4. DocsBound /\ DraftsBound
    BY PastBound DEF DocsBound
  <2> QED BY <1>1, <1>2, <2>3, <2>4 DEF CJInv
<1> QED BY <1>4, <1>5 DEF JourneyInit

LEMMA NextStep ==
  ASSUME CJInv, [JourneyNext]_journeyVars
  PROVE  CJInv'
<1>1. ASSUME NEW h \in Handlers, Writes(h) PROVE CJInv'
  BY <1>1, CreateDocStep, FillStep, AppendDraftStep, WriteDraftStep, WriteDraftFailsStep,
     ReplacingStep, RenameTempStep, RenameTempFailsStep DEF Writes
<1> QED BY <1>1, PageStep, PostStep, CrashStep, StutterStep DEF JourneyNext

-----------------------------------------------------------------------------
(* The theorems.                                                           *)

(* What is stored, and what a request in progress is about to store, binds *)
(* documents that are stored, whatever requests interleave, fail or are    *)
(* cut short by a crash.                                                   *)
THEOREM JourneyInvariant == JourneySpec => []CJInv
<1>1. JourneyInit => CJInv BY InitStep
<1>2. CJInv /\ [JourneyNext]_journeyVars => CJInv' BY NextStep
<1> QED BY <1>1, <1>2, PTL DEF JourneySpec

(* However requests interleave, a stored document binds the document it    *)
(* was derived from, and that document is still in its store.              *)
THEOREM BindingsStored == JourneySpec => []StoredBindings
<1>1. CJInv => StoredBindings
  <2> SUFFICES ASSUME CJInv PROVE StoredBindings OBVIOUS
  <2>1. JourneyOK BY DEF CJInv, Shapes
  <2>2. \A d \in Docs : Present(d) => Bound(d, doc[d])
    BY DEF CJInv, DocsBound
  <2> QED BY <2>1, <2>2 DEF StoredBindings, Bound, DerivedFrom, Docs, Whole
<1> QED BY <1>1, JourneyInvariant, PTL

(* Served one request at a time, the journey never blocks itself: the      *)
(* stored chain passes the checks of every context, unless a crash left a  *)
(* half-written file.                                                      *)
THEOREM SerialConsistent == JourneySpec => []SerialJourneyConsistent
<1>1. CJInv => SerialJourneyConsistent
  <2> SUFFICES ASSUME CJInv, ~overlap, FindRequest, AllWhole PROVE EstimateContext
    BY DEF SerialJourneyConsistent
  <2>1. \A d \in Docs : Present(d) => Bound(d, doc[d]) /\ SerialBound(d, doc[d])
    BY DEF CJInv, DocsBound
  <2>2. \A d \in Docs : doc[d].file # "torn"
    BY Files DEF CJInv, AllWhole
  <2>3. \A i \in DOMAIN drafts : Whole(i) /\ drafts[i].binds = Digest(doc["request"])
    BY DraftFiles DEF CJInv, AllWhole, DraftsBound, Revision
  <2>4. drafts # <<>> => Len(drafts) \in DOMAIN drafts
    BY DEF CJInv, Shapes
  <2>5. RequirementsContext
    BY <2>3, <2>4 DEF RequirementsContext, DraftHistory, Whole, Latest
  <2>6. PrdContext
    BY <2>1, <2>2, <2>5 DEF PrdContext, ApprovalContext, FindApproval, FindPrd, Bound,
       SerialBound, Docs
  <2>7. PrdApprovalContext
    BY <2>1, <2>2, <2>6 DEF PrdApprovalContext, CriteriaContext, FindCriteria,
       FindPrdApproval, Bound, Docs
  <2>8. RoadmapApprovalContext
    BY <2>1, <2>2, <2>7 DEF RoadmapApprovalContext, RoadmapContext, FindRoadmap,
       FindRoadmapApproval, AllWhole, Bound, SerialBound, Docs
  <2> QED BY <2>1, <2>2, <2>8 DEF EstimateContext, FindEstimate, Bound, Docs
<1> QED BY <1>1, JourneyInvariant, PTL

(* A step keeps what it does not create.                                   *)
LEMMA PublishedStep ==
  ASSUME CJInv, [JourneyNext]_journeyVars
  PROVE  /\ \A d \in Docs : Present(d) =>
              \/ doc'[d] = doc[d]
              \/ d = "roadmap" /\ (Legacy \/ overlap) /\ doc'[d].file = "whole"
         /\ \A i \in DOMAIN drafts :
              drafts[i].file = "whole" => i \in DOMAIN drafts' /\ drafts'[i] = drafts[i]
<1>1. CASE UNCHANGED <<drafts, doc>>
  BY <1>1
<1>2. ASSUME NEW h \in Handlers, CreateDoc(h)
      PROVE  UNCHANGED drafts /\ \A d \in Docs : Present(d) => doc'[d] = doc[d]
  BY <1>2 DEF CreateDoc, Present, CJInv, Shapes
<1>3. ASSUME NEW h \in Handlers, WriteDoc(h) \/ WriteDocFails(h)
      PROVE  UNCHANGED drafts /\ \A d \in Docs : Present(d) => doc'[d] = doc[d]
  <2>1. doc[handler[h].op] = Torn
    BY <1>3 DEF CJInv, Request, WriteDoc, WriteDocFails, At
  <2> QED BY <1>3, <2>1 DEF WriteDoc, WriteDocFails, Present, Torn, CJInv, Shapes
<1>4. ASSUME NEW h \in Handlers, AppendDraft(h)
      PROVE  UNCHANGED doc /\ \A i \in DOMAIN drafts : i \in DOMAIN drafts' /\ drafts'[i] = drafts[i]
  BY <1>4 DEF AppendDraft, CJInv, Shapes
<1>5. ASSUME NEW h \in Handlers, WriteDraft(h) \/ WriteDraftFails(h)
      PROVE  /\ UNCHANGED doc
             /\ \A i \in DOMAIN drafts :
                  drafts[i].file = "whole" => i \in DOMAIN drafts' /\ drafts'[i] = drafts[i]
  <2> PICK n \in Nat : n = Len(drafts) BY DEF CJInv, Shapes
  <2>1. n \in 1..n /\ handler[h].candidate.revision = n /\ drafts[n] = Torn
    BY <1>5 DEF CJInv, Request, Revision, CustomerRequirementsDraft, WriteDraft,
                WriteDraftFails, At
  <2>2. CASE WriteDraft(h)
    BY <2>1, <2>2 DEF WriteDraft, Candidate, Torn, CJInv, Shapes
  <2>3. CASE WriteDraftFails(h)
    <3> PICK m \in Nat : m = n - 1 BY <2>1
    <3>1. /\ drafts' = SubSeq(drafts, 1, m) /\ UNCHANGED doc
          /\ drafts \in Seq(CustomerRequirementsDraft \cup {Torn})
      BY <2>1, <2>3 DEF WriteDraftFails, Candidate, CJInv, Shapes
    <3>2. DOMAIN drafts = 1..n /\ DOMAIN drafts' = 1..m /\ \A i \in 1..m : drafts'[i] = drafts[i]
      BY <3>1
    <3> QED BY <2>1, <3>1, <3>2 DEF Torn
  <2> QED BY <1>5, <2>2, <2>3
<1>6. ASSUME NEW h \in Handlers, RenameTemp(h)
      PROVE  /\ UNCHANGED drafts /\ (Legacy \/ overlap) /\ doc'["roadmap"].file = "whole"
             /\ \A d \in Docs \ {"roadmap"} : doc'[d] = doc[d]
  <2>1. handler[h].candidate \in Stored["roadmap"] /\ (Legacy \/ overlap)
    BY <1>6 DEF CJInv, Request, Replacing, RenameTemp, At
  <2> QED BY <1>6, <2>1, WholeKinds DEF RenameTemp, Candidate, CJInv, Shapes, Docs
<1>7. ASSUME NEW h \in Handlers, Posts(h)
      PROVE  UNCHANGED <<drafts, doc>>
  BY <1>7 DEF Posts, Submit, SaveRequirements, ApproveRequirements, GeneratePrd, LockCriteria,
     ApprovePrd, GenerateRoadmap, ApproveRoadmap, GenerateEstimate, Serve, Enter
<1>8. ASSUME NEW h \in Handlers, Pages(h)
      PROVE  UNCHANGED <<drafts, doc>>
  BY <1>8 DEF Pages, NewRequestPage, RequirementsPage, ApprovalPage, PrdPage, CriteriaPage,
     PrdApprovalPage, RoadmapPage, RoadmapApprovalPage, EstimatePage, Show
<1>9. ASSUME NEW h \in Handlers, Writes(h)
      PROVE  \/ UNCHANGED <<drafts, doc>>
             \/ CreateDoc(h) \/ WriteDoc(h) \/ WriteDocFails(h)
             \/ AppendDraft(h) \/ WriteDraft(h) \/ WriteDraftFails(h) \/ RenameTemp(h)
  BY <1>9 DEF Writes, CompareLegacy, CreateTemp, RenameTempFails
<1> QED BY <1>1, <1>2, <1>3, <1>4, <1>5, <1>6, <1>7, <1>8, <1>9 DEF JourneyNext, ServerCrash, journeyVars

(* What a customer has submitted, saved or approved is never altered or    *)
(* lost, by another request, a retry, a failed write or a crash; only a    *)
(* legacy roadmap is replaced, by a whole one.                             *)
THEOREM PublishedKept == JourneySpec => PublishedStays
<1>1. CJInv /\ [JourneyNext]_journeyVars =>
        [/\ \A d \in Docs : Present(d) =>
              \/ doc'[d] = doc[d]
              \/ d = "roadmap" /\ (Legacy \/ overlap) /\ doc'[d].file = "whole"
         /\ \A i \in DOMAIN drafts :
              drafts[i].file = "whole" => i \in DOMAIN drafts' /\ drafts'[i] = drafts[i]]_journeyVars
  BY PublishedStep
<1> QED BY <1>1, JourneyInvariant, PTL DEF JourneySpec, PublishedStays
=============================================================================
