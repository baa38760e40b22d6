------------------------- MODULE RuntimePersistence -------------------------
(***************************************************************************)
(* The SQLite store of one runtime (runtime/persistence/database): its      *)
(* writer lease, its state version, its durable event stream and its        *)
(* checkpoints, and the processes that write to it through                  *)
(* RuntimePersistenceService.                                               *)
(*                                                                          *)
(* Connections are in autocommit mode, so a method without BEGIN IMMEDIATE  *)
(* is one step per statement; and every method reads the clock before it    *)
(* takes the write lock, so a step uses the time its process has `seen`.    *)
(*                                                                          *)
(* Data abstraction.  Owner and token hash of a lease are fresh per         *)
(* acquisition and stand for its fencing token.  The events are those of    *)
(* one aggregate, so the place of an event in a log is its sequence number; *)
(* its id, which EventPublisher.publish derives from aggregate, sequence    *)
(* number and event type, is then its place and its type, and its body is   *)
(* the rest of it and the state change it reports.  A checkpoint is its id, *)
(* its events and, for the properties only, the fencing token it was        *)
(* committed under (0 when the process holds no lease).                     *)
(***************************************************************************)
EXTENDS Integers, Sequences, FiniteSets

CONSTANTS
    Writers,       \* processes that open the store
    Types,         \* event types
    TTL,           \* lease_ttl_seconds
    MaxTime,       \* bound on the clock
    MaxFence,      \* bound on acquisitions
    MaxEvents,     \* bound on the events published
    MaxVersion     \* bound on committed checkpoints

ASSUME PersistenceAssumption ==
    /\ TTL \in Nat \ {0}
    /\ MaxTime \in Nat /\ MaxFence \in Nat
    /\ MaxEvents \in Nat /\ MaxVersion \in Nat

VARIABLES
    now,           \* the clock
    row,           \* runtime_leases: the one lease row, or NoRow
    latestFence,   \* runtime_instances.latest_fencing_token
    version,       \* runtime_instances.current_state_version
    stream,        \* runtime_events by global_position
    checkpoints,   \* runtime_checkpoints by state_version
    pc,            \* where each process is
    lease,         \* the fencing token of the lease object it holds, 0 if none
    seen,          \* the clock value it has read
    expected,      \* the state version it has read
    captured,      \* the events of the checkpoint it is saving, and its id
    log,           \* the events of its in-memory event store
    published      \* the number of events published so far (event ids)

store == <<row, latestFence, version, stream, checkpoints>>
local == <<pc, lease, seen, expected, captured, log>>
vars == <<now, row, latestFence, version, stream, checkpoints,
          pc, lease, seen, expected, captured, log, published>>

NoRow == [fence |-> 0, expires |-> 0]
NoCapture == [id |-> <<0, 0>>, events |-> <<>>]

Init ==
    /\ now = 0
    /\ row = NoRow
    /\ latestFence = 0
    /\ version = 0
    /\ stream = <<>>
    /\ checkpoints = <<>>
    /\ pc = [w \in Writers |-> "idle"]
    /\ lease = [w \in Writers |-> 0]
    /\ seen = [w \in Writers |-> 0]
    /\ expected = [w \in Writers |-> 0]
    /\ captured = [w \in Writers |-> NoCapture]
    /\ log = [w \in Writers |-> <<>>]
    /\ published = 0

Prefix(s, t) == Len(s) <= Len(t) /\ \A i \in 1..Len(s) : s[i] = t[i]

\* The ids of the events of s are the first ids of t.
PrefixById(s, t) ==
    Len(s) <= Len(t) /\ \A i \in 1..Len(s) : s[i].type = t[i].type

\* The event with the next sequence number, its body unlike any other.
NewEvent(t) == [type |-> t, body |-> published + 1]

\* A call starts by reading the clock.
Begin(w, l) ==
    /\ pc[w] = "idle"
    /\ pc' = [pc EXCEPT ![w] = l]
    /\ seen' = [seen EXCEPT ![w] = now]
    /\ UNCHANGED <<now, store, lease, expected, captured, log, published>>

\* The locals of a call are gone when it is over.
Forget(w) ==
    /\ pc' = [pc EXCEPT ![w] = "idle"]
    /\ seen' = [seen EXCEPT ![w] = 0]
    /\ expected' = [expected EXCEPT ![w] = 0]
    /\ captured' = [captured EXCEPT ![w] = NoCapture]

\* A call returns, or raises.
Return(w) == Forget(w) /\ UNCHANGED <<now, log, published>>

-----------------------------------------------------------------------------
(* RuntimeLeaseRepository                                                   *)

BeginAcquire(w) == latestFence < MaxFence /\ Begin(w, "acquire")
BeginRenew(w) == lease[w] # 0 /\ Begin(w, "renew")
BeginBreak(w) == Begin(w, "break")

\* acquire_lease, its transaction: a row that has not expired is a conflict.
Acquire(w) ==
    /\ pc[w] = "acquire"
    /\ \/ /\ row # NoRow /\ row.expires > seen[w]
          /\ UNCHANGED <<row, latestFence, lease>>
       \/ /\ row = NoRow \/ row.expires <= seen[w]
          /\ latestFence' = latestFence + 1
          /\ row' = [fence |-> latestFence + 1, expires |-> seen[w] + TTL]
          /\ lease' = [lease EXCEPT ![w] = latestFence + 1]
    /\ Return(w)
    /\ UNCHANGED <<version, stream, checkpoints>>

\* renew_lease, its SELECT: the identity must be current, and not expired.
RenewSelect(w) ==
    /\ pc[w] = "renew"
    /\ IF row.fence = lease[w] /\ row.expires > seen[w]
       THEN /\ pc' = [pc EXCEPT ![w] = "update"]
            /\ UNCHANGED <<now, seen, expected, captured, log, published>>
       ELSE Return(w)
    /\ UNCHANGED <<store, lease>>

\* renew_lease, its UPDATE: whatever row the runtime has by now.
RenewUpdate(w) ==
    /\ pc[w] = "update"
    /\ row' = IF row = NoRow THEN NoRow
              ELSE [row EXCEPT !.expires = seen[w] + TTL]
    /\ Return(w)
    /\ UNCHANGED <<latestFence, version, stream, checkpoints, lease>>

\* release_lease: one DELETE by full identity, expired or not.  The process
\* may keep the lease object and use it again.
Release(w) ==
    /\ pc[w] = "idle"
    /\ lease[w] # 0 /\ row.fence = lease[w]
    /\ row' = NoRow
    /\ UNCHANGED <<now, latestFence, version, stream, checkpoints, local, published>>

\* Mutant: the expiry is missing from the DELETE.
BreakAny(w) ==
    /\ pc[w] = "break"
    /\ row' = NoRow
    /\ Return(w)
    /\ UNCHANGED <<latestFence, version, stream, checkpoints, lease>>

\* break_expired_lease: one DELETE of a row expired at the time seen.
Break(w) ==
    /\ pc[w] = "break"
    /\ row' = IF row # NoRow /\ row.expires <= seen[w] THEN NoRow ELSE row
    /\ Return(w)
    /\ UNCHANGED <<latestFence, version, stream, checkpoints, lease>>

-----------------------------------------------------------------------------
(* RuntimePersistenceService.save_checkpoint and commit_checkpoint          *)

\* save_checkpoint: capture the payload and choose the checkpoint's id from
\* its event position and the number of checkpoints.
Capture(w) ==
    /\ pc[w] = "idle"
    /\ version < MaxVersion
    /\ pc' = [pc EXCEPT ![w] = "captured"]
    /\ captured' = [captured EXCEPT ![w] =
                      [id |-> <<Len(log[w]), Len(checkpoints) + 1>>,
                       events |-> log[w]]]
    /\ UNCHANGED <<now, store, lease, seen, expected, log, published>>

\* get_state_version, and the clock read of commit_checkpoint.
ReadVersion(w) ==
    /\ pc[w] = "captured"
    /\ pc' = [pc EXCEPT ![w] = "commit"]
    /\ expected' = [expected EXCEPT ![w] = version]
    /\ seen' = [seen EXCEPT ![w] = now]
    /\ UNCHANGED <<now, store, lease, captured, log, published>>

\* Mutant: any lease will do while some lease is active.
LeaseValidForAnyone(w) == row.expires > seen[w]

\* _validate_lease
LeaseValid(w) ==
    /\ lease[w] = latestFence
    /\ row.fence = lease[w]
    /\ row.expires > seen[w]

\* Mutant: only the event positions are compared, not the events.
MayCommitByLength(w) ==
    /\ version = expected[w]
    /\ lease[w] # 0 => LeaseValid(w)
    /\ Len(stream) <= Len(captured[w].events)
    /\ \A i \in 1..Len(checkpoints) : checkpoints[i].id # captured[w].id

\* The checks of commit_checkpoint: the expected version, the lease if the
\* process has one, the ids of the durable events as a prefix, a checkpoint
\* id that is not taken.
MayCommit(w) ==
    /\ version = expected[w]
    /\ lease[w] # 0 => LeaseValid(w)
    /\ PrefixById(stream, captured[w].events)
    /\ \A i \in 1..Len(checkpoints) : checkpoints[i].id # captured[w].id

\* The checkpoint that w is about to store.
Pending(w) ==
    [id |-> captured[w].id, events |-> captured[w].events, fence |-> lease[w]]

\* The durable stream followed by those of the captured events that come
\* after its end.
Extended(w) ==
    stream \o SubSeq(captured[w].events, Len(stream) + 1, Len(captured[w].events))

\* Mutant: the events are written anew from the checkpoint.
CommitRewrites(w) ==
    /\ pc[w] = "commit"
    /\ IF MayCommit(w)
       THEN /\ version' = version + 1
            /\ stream' = captured[w].events
            /\ checkpoints' = Append(checkpoints, Pending(w))
       ELSE UNCHANGED <<version, stream, checkpoints>>
    /\ Return(w)
    /\ UNCHANGED <<row, latestFence, lease>>

Commit(w) ==
    /\ pc[w] = "commit"
    /\ IF MayCommit(w)
       THEN /\ version' = version + 1
            /\ stream' = Extended(w)
            /\ checkpoints' = Append(checkpoints, Pending(w))
       ELSE UNCHANGED <<version, stream, checkpoints>>
    /\ Return(w)
    /\ UNCHANGED <<row, latestFence, lease>>

\* append_event_batch, with one event of the next sequence number.
AppendEvent(w, t) ==
    /\ pc[w] = "idle"
    /\ published < MaxEvents
    /\ published' = published + 1
    /\ stream' = Append(stream, NewEvent(t))
    /\ UNCHANGED <<now, row, latestFence, version, checkpoints, local>>

-----------------------------------------------------------------------------
(* The processes.                                                           *)

\* The runtime publishes an event into its in-memory store.
Publish(w, t) ==
    /\ pc[w] = "idle"
    /\ published < MaxEvents
    /\ published' = published + 1
    /\ log' = [log EXCEPT ![w] = Append(log[w], NewEvent(t))]
    /\ UNCHANGED <<now, store, pc, lease, seen, expected, captured>>

\* select_latest_checkpoint and restore_runtime: the newest checkpoint, if it
\* passes _validate_stored_checkpoint.
Loadable(c) == PrefixById(c.events, stream)

Restore(w) ==
    /\ pc[w] = "idle"
    /\ checkpoints # <<>>
    /\ Loadable(checkpoints[Len(checkpoints)])
    /\ log' = [log EXCEPT ![w] = checkpoints[Len(checkpoints)].events]
    /\ UNCHANGED <<now, store, pc, lease, seen, expected, captured, published>>

\* The process dies in the middle of a call; what it has not committed is
\* lost, what it has committed stays, the lease row too.
Crash(w) ==
    /\ Forget(w)
    /\ lease' = [lease EXCEPT ![w] = 0]
    /\ log' = [log EXCEPT ![w] = <<>>]
    /\ UNCHANGED <<now, store, published>>

Tick ==
    /\ now < MaxTime
    /\ now' = now + 1
    /\ UNCHANGED <<store, local, published>>

LeaseStep(w) ==
    \/ BeginAcquire(w) \/ Acquire(w) \/ BeginRenew(w) \/ RenewSelect(w)
    \/ RenewUpdate(w) \/ Release(w) \/ BeginBreak(w) \/ Break(w)

CheckpointStep(w) ==
    \/ Capture(w) \/ ReadVersion(w) \/ Commit(w) \/ Restore(w)
    \/ \E t \in Types : AppendEvent(w, t) \/ Publish(w, t)

Next ==
    \/ \E w \in Writers : LeaseStep(w) \/ CheckpointStep(w) \/ Crash(w)
    \/ Tick

Spec == Init /\ [][Next]_vars

-----------------------------------------------------------------------------
(* Properties.                                                              *)

Event == [type : Types, body : Nat]
Checkpoint == [id : Nat \X Nat, events : Seq(Event), fence : Nat]

\* The type invariant.
TypeOK ==
    /\ now \in Nat /\ latestFence \in Nat /\ version \in Nat
    /\ row \in [fence : Nat, expires : Nat]
    /\ stream \in Seq(Event)
    /\ checkpoints \in Seq(Checkpoint)
    /\ pc \in [Writers -> {"idle", "acquire", "renew", "update", "break",
                           "captured", "commit"}]
    /\ lease \in [Writers -> Nat]
    /\ seen \in [Writers -> Nat]
    /\ expected \in [Writers -> Nat]
    /\ captured \in [Writers -> [id : Nat \X Nat, events : Seq(Event)]]
    /\ log \in [Writers -> Seq(Event)]
    /\ published \in Nat

\* The stored lease never runs ahead of the fencing counter, and no two
\* processes hold lease objects with the same fencing token.
FencesAreUnique ==
    /\ row.fence <= latestFence
    /\ \A w \in Writers : lease[w] <= latestFence
    /\ \A w, v \in Writers : lease[w] = lease[v] /\ lease[w] # 0 => w = v

\* A superseded owner never commits again: among the checkpoints committed
\* under a lease the fencing tokens never go back.
CommitsFollowFences ==
    \A i, j \in 1..Len(checkpoints) :
        /\ i < j
        /\ checkpoints[i].fence # 0
        /\ checkpoints[j].fence # 0
        => checkpoints[i].fence <= checkpoints[j].fence

\* Every checkpoint ever committed still loads: one per state version, the
\* ids of its events a prefix of those of the durable stream, so that
\* recovery can fall back to any of them and _validate_stored_checkpoint
\* accepts it.
EveryCheckpointLoads ==
    /\ Len(checkpoints) = version
    /\ \A i \in 1..Len(checkpoints) : Loadable(checkpoints[i])

\* The durable event stream only ever grows at its end: no commit drops or
\* replaces an event that another process has made durable.
StreamIsAppendOnly == [][Prefix(stream, stream')]_vars

\* Breaking, and taking over, removes only a lease that has expired: a row
\* disappears or changes hands before its expiry only by its own release.
OnlyExpiredLeasesAreBroken ==
    [][/\ row.fence # 0
       /\ row'.fence # row.fence
       /\ row.expires > now
       => \E w \in Writers : Release(w)]_vars

\* "Renewal and release verify owner, hash, and fencing token"
\* (docs/RUNTIME_LEASES.md:7): a renewal extends no lease but its own.
RenewalIsVerified ==
    [][\A w \in Writers :
         RenewUpdate(w) /\ row' # row => row.fence = lease[w]]_vars
=============================================================================
