----------------------------- MODULE Durability -----------------------------
(***************************************************************************)
(* How a measured write is followed from the moment SlateDB's write call   *)
(* returns until SlateDB reports its sequence number durable:              *)
(* src/workloads/durability.rs, the part of WorkerStats that counts writes *)
(* (stats.rs), and the end of `execute` (mod.rs), which closes the books.  *)
(*                                                                         *)
(* Each client reports its accepted writes on a channel of its own to a    *)
(* shard task.  One observer task follows the database's durable frontier, *)
(* appends every advance to a shared history, and bumps a watch version    *)
(* that wakes the shards.  A shard matches each reported write to the      *)
(* first observation that covers it and records one latency sample.        *)
(*                                                                         *)
(* Steps are the stretches between accesses to shared state: the tasks run *)
(* on a multi-threaded runtime, so any two of them interleave there.       *)
(*                                                                         *)
(* Abstractions.  An Instant is the durable frontier at that instant: two  *)
(* instants the frontier does not separate are equal.  A client's channel  *)
(* and its shard's queue of pending writes are two cursors into the log of *)
(* what the client reported, since both are FIFO.                          *)
(***************************************************************************)
EXTENDS Naturals, Sequences, FiniteSets, Functions

CONSTANTS Clients,     \* the measured clients, one tracker shard each
          MaxSequence, \* bound: sequence numbers the database assigns
          MaxFaults,   \* bound: clients that err, clients that fail, and the
                       \* database going away
          Timed        \* whether instants are kept; no guard reads one

ASSUME ConstantsAssumption ==
  MaxSequence \in Nat /\ MaxFaults \in Nat /\ Timed \in BOOLEAN

VARIABLES
  assigned,       \* the database: last sequence number given to a write
  durable,        \* the database: DbStatus.durable_seq
  statusChanged,  \* the observer has a status change it has not seen
  gone,           \* the database has dropped its status channel
  clientState,    \* per client: idle, writing, stopped, failed
  sequence,       \* per client: the sequence number of its current write, or 0
  writes,         \* per client: WorkerStats.writes
  lastWrite,      \* per client: WorkerStats.last_write_sequence, 0 for None
  erred,          \* per client: whether WorkerStats.errors is above 0
  reported,       \* per client: the AcceptedWrites it has sent
  observerState,  \* start, read, push, bump, select, stopped, failed
  observedAt,     \* the observer's local observed_at, 0 when out of scope
  observed,       \* the observer's local `durable`
  history,        \* FrontierHistory: the observations so far
  version,        \* the frontier watch channel's value
  shardState,     \* per shard: start, select, reload, covered, drain, ok, ...
  received,       \* per shard: AcceptedWrites taken from the channel
  samples,        \* per shard: the observation each recorded write matched
  historyIndex,   \* per shard: history_index
  latestSequence, \* per shard: latest_sequence
  seenVersion,    \* per shard: the frontier version its receiver has seen
  inputClosed,    \* per shard: input_closed
  phase,          \* execute: clients, flush, joining, stopping, or an outcome
  stopSent        \* observer_stop has been sent

dbVars == <<assigned, durable, statusChanged, gone>>
clientVars == <<clientState, sequence, writes, lastWrite, erred, reported>>
observerVars == <<observerState, observedAt, observed, history, version>>
shardVars == <<shardState, received, samples, historyIndex, latestSequence,
               seenVersion, inputClosed>>
mainVars == <<phase, stopSent>>
vars == <<dbVars, clientVars, observerVars, shardVars, mainVars>>

(* AcceptedWrite and FrontierObservation. *)
AcceptedWrite == [sequence : Nat, returned_at : Nat]
FrontierObservation == [sequence : Nat, observed_at : Nat]

Outcomes == {"done", "mismatch", "failed"}

Faults == Cardinality({c \in Clients : erred[c]})
          + Cardinality({c \in Clients : clientState[c] = "failed"})
          + (IF gone THEN 1 ELSE 0)

(* Instant::now() *)
Now == IF Timed THEN durable ELSE 0

LatestObservation == history[Len(history)]

(* The pending queue and the recorded count of a shard. *)
Count(c) == Len(samples[c])
PendingEmpty(c) == Count(c) = received[c]
Front(c) == reported[c][Count(c) + 1]

(* The two checks `execute` makes on a finished tracker's result. *)
CountsReconcile == SumFunction([c \in Clients |-> Count(c)]) = SumFunction(writes)
FrontierCovers == \A c \in Clients : lastWrite[c] <= observed

(* validate_stats, the check that follows them. *)
NoErrors == \A c \in Clients : ~erred[c]

Init ==
  /\ assigned = 0 /\ durable = 0 /\ statusChanged = FALSE /\ gone = FALSE
  /\ clientState = [c \in Clients |-> "idle"]
  /\ sequence = [c \in Clients |-> 0]
  /\ writes = [c \in Clients |-> 0]
  /\ lastWrite = [c \in Clients |-> 0]
  /\ erred = [c \in Clients |-> FALSE]
  /\ reported = [c \in Clients |-> <<>>]
  /\ observerState = "start" /\ observedAt = 0 /\ observed = 0
  /\ history = <<[sequence |-> 0, observed_at |-> 0]>>
  /\ version = 0
  /\ shardState = [c \in Clients |-> "start"]
  /\ received = [c \in Clients |-> 0]
  /\ samples = [c \in Clients |-> <<>>]
  /\ historyIndex = [c \in Clients |-> 1]
  /\ latestSequence = [c \in Clients |-> 0]
  /\ seenVersion = [c \in Clients |-> 0]
  /\ inputClosed = [c \in Clients |-> FALSE]
  /\ phase = "clients" /\ stopSent = FALSE

-----------------------------------------------------------------------------
(* SlateDB, as this code uses it: writes are numbered in order, the durable *)
(* frontier never passes what was assigned, and every advance of it marks  *)
(* the status watch channel as changed.  It may go away at any time.       *)

DurableAdvances ==
  /\ ~gone
  /\ durable' \in (durable + 1) .. assigned
  /\ statusChanged' = TRUE
  /\ UNCHANGED <<assigned, gone, clientVars, observerVars, shardVars, mainVars>>

(* Closing may itself be announced as a status change. *)
DatabaseGone ==
  /\ ~gone /\ Faults < MaxFaults
  /\ gone' = TRUE
  /\ statusChanged' \in {statusChanged, TRUE}
  /\ UNCHANGED <<assigned, durable, clientVars, observerVars, shardVars, mainVars>>

-----------------------------------------------------------------------------
(* A client: one operation at a time until its deadline. *)

BeginWrite(c) ==
  /\ phase = "clients" /\ ~gone
  /\ clientState[c] = "idle"
  /\ assigned < MaxSequence
  /\ assigned' = assigned + 1
  /\ sequence' = [sequence EXCEPT ![c] = assigned + 1]
  /\ clientState' = [clientState EXCEPT ![c] = "writing"]
  /\ UNCHANGED <<durable, statusChanged, gone, writes, lastWrite, erred,
                 reported, observerVars, shardVars, mainVars>>

(* The write returns: stamped, counted and reported.  The delay between the *)
(* stamp and the report is one more delay before the shard receives it.     *)
RecordWrite(c) ==
  /\ phase = "clients"
  /\ clientState[c] = "writing"
  /\ writes' = [writes EXCEPT ![c] = @ + 1]
  /\ lastWrite' = [lastWrite EXCEPT ![c] = IF sequence[c] > @ THEN sequence[c] ELSE @]
  /\ reported' = [reported EXCEPT ![c] =
                    Append(@, [sequence |-> sequence[c], returned_at |-> Now])]
  /\ sequence' = [sequence EXCEPT ![c] = 0]
  /\ clientState' = [clientState EXCEPT ![c] = "idle"]
  /\ UNCHANGED <<dbVars, erred, observerVars, shardVars, mainVars>>

(* The write returns an error, before or after the database numbered it: the *)
(* client counts the error, reports nothing and goes on.                     *)
WriteFails(c) ==
  /\ phase = "clients"
  /\ clientState[c] \in {"idle", "writing"}
  /\ erred[c] \/ Faults < MaxFaults
  /\ erred' = [erred EXCEPT ![c] = TRUE]
  /\ sequence' = [sequence EXCEPT ![c] = 0]
  /\ clientState' = [clientState EXCEPT ![c] = "idle"]
  /\ UNCHANGED <<dbVars, writes, lastWrite, reported, observerVars, shardVars,
                 mainVars>>

(* Mutant: the deadline cancels a client inside its write. *)
ClientStopsInWrite(c) ==
  /\ phase = "clients"
  /\ clientState[c] # "stopped"
  /\ clientState' = [clientState EXCEPT ![c] = "stopped"]
  /\ UNCHANGED <<dbVars, sequence, writes, lastWrite, erred, reported,
                 observerVars, shardVars, mainVars>>

(* The deadline passes: the client ends and drops its DurabilitySender. *)
ClientStops(c) ==
  /\ phase = "clients"
  /\ clientState[c] = "idle"
  /\ clientState' = [clientState EXCEPT ![c] = "stopped"]
  /\ UNCHANGED <<dbVars, sequence, writes, lastWrite, erred, reported,
                 observerVars, shardVars, mainVars>>

(* The task panics or returns an error, and drops its sender likewise. *)
ClientFails(c) ==
  /\ phase = "clients"
  /\ clientState[c] \in {"idle", "writing"}
  /\ Faults < MaxFaults
  /\ sequence' = [sequence EXCEPT ![c] = 0]
  /\ clientState' = [clientState EXCEPT ![c] = "failed"]
  /\ UNCHANGED <<dbVars, writes, lastWrite, erred, reported, observerVars,
                 shardVars, mainVars>>

ClientEnded(c) == clientState[c] \in {"stopped", "failed"}

-----------------------------------------------------------------------------
(* observe_frontier *)

(* The stamp is taken before the status is read. *)
Stamp ==
  /\ observedAt' = Now
  /\ observerState' = "read"

ObserverStarts ==
  /\ observerState = "start"
  /\ Stamp
  /\ UNCHANGED <<dbVars, clientVars, observed, history, version, shardVars, mainVars>>

ObserverWakes ==
  /\ observerState = "select" /\ statusChanged
  /\ statusChanged' = FALSE
  /\ Stamp
  /\ UNCHANGED <<assigned, durable, gone, clientVars, observed, history, version,
                 shardVars, mainVars>>

ObserverReads ==
  /\ observerState = "read"
  /\ statusChanged' = FALSE
  /\ \/ /\ durable > observed
        /\ observed' = durable
        /\ observerState' = "push"
        /\ UNCHANGED observedAt
     \/ /\ durable <= observed
        /\ observerState' = "select"
        /\ observedAt' = 0
        /\ UNCHANGED observed
  /\ UNCHANGED <<assigned, durable, gone, clientVars, history, version, shardVars,
                 mainVars>>

(* The history's write lock: no shard is draining under its read lock. *)
ObserverPushes ==
  /\ observerState = "push"
  /\ \A c \in Clients : shardState[c] # "drain"
  /\ history' = Append(history, [sequence |-> observed, observed_at |-> observedAt])
  /\ observedAt' = 0
  /\ observerState' = "bump"
  /\ UNCHANGED <<dbVars, clientVars, observed, version, shardVars, mainVars>>

ObserverBumps ==
  /\ observerState = "bump"
  /\ version' = version + 1
  /\ observerState' = "select"
  /\ UNCHANGED <<dbVars, clientVars, observedAt, observed, history, shardVars, mainVars>>

ObserverStops ==
  /\ observerState = "select" /\ stopSent
  /\ observerState' = "stopped"
  /\ UNCHANGED <<dbVars, clientVars, observedAt, observed, history, version,
                 shardVars, mainVars>>

(* status.changed() fails once the channel is closed with nothing unseen. *)
ObserverFails ==
  /\ observerState = "select" /\ gone /\ ~statusChanged
  /\ observerState' = "failed"
  /\ UNCHANGED <<dbVars, clientVars, observedAt, observed, history, version,
                 shardVars, mainVars>>

-----------------------------------------------------------------------------
(* track_shard *)

ShardStarts(c) ==
  /\ shardState[c] = "start"
  /\ latestSequence' = [latestSequence EXCEPT ![c] = LatestObservation.sequence]
  /\ shardState' = [shardState EXCEPT ![c] = "select"]
  /\ UNCHANGED <<dbVars, clientVars, observerVars, received, samples, historyIndex,
                 seenVersion, inputClosed, mainVars>>

(* A report arrives; it is drained at once when the cached frontier covers it. *)
ShardReceives(c) ==
  /\ shardState[c] = "select" /\ ~inputClosed[c]
  /\ received[c] < Len(reported[c])
  /\ received' = [received EXCEPT ![c] = @ + 1]
  /\ shardState' = [shardState EXCEPT ![c] =
       IF reported[c][received[c] + 1].sequence <= latestSequence[c]
       THEN "covered" ELSE "select"]
  /\ UNCHANGED <<dbVars, clientVars, observerVars, samples, historyIndex,
                 latestSequence, seenVersion, inputClosed, mainVars>>

(* recv() returns None: the client is gone and its channel is empty. *)
ShardInputCloses(c) ==
  /\ shardState[c] = "select" /\ ~inputClosed[c]
  /\ ClientEnded(c) /\ received[c] = Len(reported[c])
  /\ inputClosed' = [inputClosed EXCEPT ![c] = TRUE]
  /\ UNCHANGED <<dbVars, clientVars, observerVars, shardState, received, samples,
                 historyIndex, latestSequence, seenVersion, mainVars>>

(* Mutant: the shard ends with its input, writes still pending. *)
ShardFinishedEarly(c) == inputClosed[c]

(* The loop ends before another select when nothing is left to come or to do. *)
ShardFinished(c) == inputClosed[c] /\ PendingEmpty(c)

ShardSeesFrontier(c) ==
  /\ shardState[c] = "select" /\ ~ShardFinished(c)
  /\ seenVersion[c] # version
  /\ seenVersion' = [seenVersion EXCEPT ![c] = version]
  /\ shardState' = [shardState EXCEPT ![c] = "reload"]
  /\ UNCHANGED <<dbVars, clientVars, observerVars, received, samples, historyIndex,
                 latestSequence, inputClosed, mainVars>>

(* Mutant: the cached frontier is refreshed, the pending writes are not drained. *)
ShardReloadsOnly(c) ==
  /\ shardState[c] = "reload"
  /\ latestSequence' = [latestSequence EXCEPT ![c] = LatestObservation.sequence]
  /\ shardState' = [shardState EXCEPT ![c] = "select"]
  /\ UNCHANGED <<dbVars, clientVars, observerVars, received, samples, historyIndex,
                 seenVersion, inputClosed, mainVars>>

ShardReloads(c) ==
  /\ shardState[c] = "reload"
  /\ latestSequence' = [latestSequence EXCEPT ![c] = LatestObservation.sequence]
  /\ shardState' = [shardState EXCEPT ![c] = "covered"]
  /\ UNCHANGED <<dbVars, clientVars, observerVars, received, samples, historyIndex,
                 seenVersion, inputClosed, mainVars>>

(* drain_covered: under the history's read lock, pop the writes it covers.  *)
(* The lock is taken with the first step and released with the last.        *)
Draining(c) == shardState[c] \in {"covered", "drain"}

(* Mutants: the latest observation instead of the first; one sequence short. *)
LatestCovering(c, s) == {j \in {Len(history)} : history[j].sequence >= s}
AlmostCovering(c, s) ==
  {j \in historyIndex[c] .. Len(history) :
     /\ history[j].sequence + 1 >= s
     /\ \A k \in historyIndex[c] .. (j - 1) : history[k].sequence + 1 < s}

(* The first observation at or after history_index that covers sequence s. *)
FirstCovering(c, s) ==
  {j \in historyIndex[c] .. Len(history) :
     /\ history[j].sequence >= s
     /\ \A k \in historyIndex[c] .. (j - 1) : history[k].sequence < s}

(* The search has run off the end of the history. *)
NothingCovers(c, s) == \A j \in historyIndex[c] .. Len(history) : history[j].sequence < s

DrainMatches(c) ==
  /\ Draining(c) /\ ~PendingEmpty(c)
  /\ \E j \in FirstCovering(c, Front(c).sequence) :
       /\ historyIndex' = [historyIndex EXCEPT ![c] = j]
       /\ samples' = [samples EXCEPT ![c] = Append(@, j)]
  /\ shardState' = [shardState EXCEPT ![c] = "drain"]
  /\ UNCHANGED <<dbVars, clientVars, observerVars, received,
                 latestSequence, seenVersion, inputClosed, mainVars>>

(* Mutant: the search compares with <= and runs one past the end of the history. *)
DrainEndsPastHistory(c) ==
  /\ Draining(c)
  /\ \/ PendingEmpty(c) /\ UNCHANGED historyIndex
     \/ /\ ~PendingEmpty(c)
        /\ NothingCovers(c, Front(c).sequence)
        /\ historyIndex' = [historyIndex EXCEPT ![c] = Len(history) + 2]
  /\ shardState' = [shardState EXCEPT ![c] = "select"]
  /\ UNCHANGED <<dbVars, clientVars, observerVars, received, samples,
                 latestSequence, seenVersion, inputClosed, mainVars>>

(* Mutant: the version is marked seen after the drain as well as before it. *)
DrainEndsSeen(c) ==
  /\ Draining(c)
  /\ \/ PendingEmpty(c) /\ UNCHANGED historyIndex
     \/ /\ ~PendingEmpty(c)
        /\ NothingCovers(c, Front(c).sequence)
        /\ historyIndex' = [historyIndex EXCEPT ![c] = Len(history) + 1]
  /\ seenVersion' = [seenVersion EXCEPT ![c] = version]
  /\ shardState' = [shardState EXCEPT ![c] = "select"]
  /\ UNCHANGED <<dbVars, clientVars, observerVars, received, samples,
                 latestSequence, inputClosed, mainVars>>

DrainEnds(c) ==
  /\ Draining(c)
  /\ \/ PendingEmpty(c) /\ UNCHANGED historyIndex
     \/ /\ ~PendingEmpty(c)
        /\ NothingCovers(c, Front(c).sequence)
        /\ historyIndex' = [historyIndex EXCEPT ![c] = Len(history) + 1]
  /\ shardState' = [shardState EXCEPT ![c] = "select"]
  /\ UNCHANGED <<dbVars, clientVars, observerVars, received, samples,
                 latestSequence, seenVersion, inputClosed, mainVars>>

ShardReturns(c) ==
  /\ shardState[c] = "select" /\ ShardFinished(c)
  /\ shardState' = [shardState EXCEPT ![c] = "ok"]
  /\ UNCHANGED <<dbVars, clientVars, observerVars, received, samples, historyIndex,
                 latestSequence, seenVersion, inputClosed, mainVars>>

(* frontier.changed() fails: the observer has ended and no bump is unseen. *)
ShardFails(c) ==
  /\ shardState[c] = "select" /\ ~ShardFinished(c)
  /\ observerState \in {"stopped", "failed"} /\ seenVersion[c] = version
  /\ shardState' = [shardState EXCEPT ![c] = "failed"]
  /\ UNCHANGED <<dbVars, clientVars, observerVars, received, samples, historyIndex,
                 latestSequence, seenVersion, inputClosed, mainVars>>

-----------------------------------------------------------------------------
(* execute, from the measured clients to the reconciliation *)

ClientsJoined ==
  /\ phase = "clients"
  /\ \A c \in Clients : clientState[c] = "stopped"
  /\ phase' = "flush"
  /\ UNCHANGED <<dbVars, clientVars, observerVars, shardVars, stopSent>>

FlushSucceeds ==
  /\ phase = "flush"
  /\ phase' = "joining"
  /\ UNCHANGED <<dbVars, clientVars, observerVars, shardVars, stopSent>>

(* DurabilityTracker::abort *)
Abort ==
  /\ phase' = "failed"
  /\ stopSent' = TRUE
  /\ observerState' = "aborted"
  /\ shardState' = [c \in Clients |-> "aborted"]
  /\ UNCHANGED <<observedAt, observed, history, version, received, samples,
                 historyIndex, latestSequence, seenVersion, inputClosed>>

(* The first client error ends run_phase, which drops the other clients. *)
ClientsFail ==
  /\ phase = "clients"
  /\ \E c \in Clients : clientState[c] = "failed"
  /\ Abort
  /\ UNCHANGED <<dbVars, clientVars>>

FlushFails ==
  /\ phase = "flush"
  /\ Abort
  /\ UNCHANGED <<dbVars, clientVars>>

(* DurabilityTracker::finish *)
ShardsJoined ==
  /\ phase = "joining"
  /\ \A c \in Clients : shardState[c] = "ok"
  /\ phase' = "stopping"
  /\ stopSent' = TRUE
  /\ UNCHANGED <<dbVars, clientVars, observerVars, shardVars>>

(* The first shard error ends finish; dropping the tracker drops the stop   *)
(* sender, which the observer takes as a stop, and aborts the other shards. *)
JoinFails ==
  /\ phase = "joining"
  /\ \E c \in Clients : shardState[c] = "failed"
  /\ phase' = "failed"
  /\ stopSent' = TRUE
  /\ shardState' = [c \in Clients |->
       IF shardState[c] \in {"ok", "failed"} THEN shardState[c] ELSE "aborted"]
  /\ UNCHANGED <<dbVars, clientVars, observerVars, received, samples, historyIndex,
                 latestSequence, seenVersion, inputClosed>>

Reconciles ==
  /\ phase = "stopping" /\ observerState = "stopped"
  /\ phase' = IF ~(CountsReconcile /\ FrontierCovers) THEN "mismatch"
              ELSE IF NoErrors THEN "done" ELSE "failed"
  /\ UNCHANGED <<dbVars, clientVars, observerVars, shardVars, stopSent>>

ObserverJoinFails ==
  /\ phase = "stopping" /\ observerState = "failed"
  /\ phase' = "failed"
  /\ UNCHANGED <<dbVars, clientVars, observerVars, shardVars, stopSent>>

(* execute has returned. *)
Returned == phase \in Outcomes /\ UNCHANGED vars

-----------------------------------------------------------------------------
Database == DurableAdvances \/ DatabaseGone

Client(c) ==
  \/ BeginWrite(c) \/ RecordWrite(c) \/ WriteFails(c)
  \/ ClientStops(c) \/ ClientFails(c)

Observer ==
  \/ ObserverStarts \/ ObserverWakes \/ ObserverReads \/ ObserverPushes
  \/ ObserverBumps \/ ObserverStops \/ ObserverFails

Shard(c) ==
  \/ ShardStarts(c) \/ ShardReceives(c) \/ ShardInputCloses(c)
  \/ ShardSeesFrontier(c) \/ ShardReloads(c)
  \/ DrainMatches(c) \/ DrainEnds(c)
  \/ ShardReturns(c) \/ ShardFails(c)

Execute ==
  \/ ClientsJoined \/ ClientsFail \/ FlushSucceeds \/ FlushFails
  \/ ShardsJoined \/ JoinFails \/ Reconciles \/ ObserverJoinFails

(* What is left of the tasks once execute has returned is observed by no one. *)
Running == phase \notin Outcomes

Next ==
  \/ Running /\ Database
  \/ \E c \in Clients : Running /\ (Client(c) \/ Shard(c))
  \/ Running /\ Observer
  \/ Execute
  \/ Returned

Spec == Init /\ [][Next]_vars

(* The runtime schedules every ready task, a client ends at its deadline,   *)
(* and the database keeps making accepted writes durable.  Nothing makes    *)
(* the database go away, touch its status or accept one more write, and     *)
(* nothing makes a write or a client fail.                                  *)
Fairness ==
  /\ WF_vars(Observer)
  /\ WF_vars(DurableAdvances)
  /\ WF_vars(ClientsJoined) /\ WF_vars(ClientsFail)
  /\ WF_vars(FlushSucceeds \/ FlushFails)
  /\ WF_vars(ShardsJoined) /\ WF_vars(JoinFails)
  /\ WF_vars(Reconciles) /\ WF_vars(ObserverJoinFails)
  /\ \A c \in Clients :
       /\ WF_vars(Shard(c))
       /\ WF_vars(RecordWrite(c)) /\ WF_vars(ClientStops(c))

FairSpec == Spec /\ Fairness

-----------------------------------------------------------------------------
VariablesTyped ==
  /\ assigned \in Nat /\ durable \in 0 .. assigned
  /\ statusChanged \in BOOLEAN /\ gone \in BOOLEAN
  /\ clientState \in [Clients -> {"idle", "writing", "stopped", "failed"}]
  /\ sequence \in [Clients -> Nat]
  /\ writes \in [Clients -> Nat] /\ lastWrite \in [Clients -> Nat]
  /\ erred \in [Clients -> BOOLEAN]
  /\ reported \in [Clients -> Seq(AcceptedWrite)]
  /\ observerState \in {"start", "read", "push", "bump", "select", "stopped",
                        "failed", "aborted"}
  /\ observedAt \in Nat /\ observed \in Nat
  /\ history \in Seq(FrontierObservation) /\ Len(history) > 0
  /\ version \in Nat
  /\ shardState \in [Clients -> {"start", "select", "reload", "covered", "drain",
                                 "ok", "failed", "aborted"}]
  /\ received \in [Clients -> Nat]
  /\ samples \in [Clients -> Seq(Nat)]
  /\ historyIndex \in [Clients -> Nat]
  /\ latestSequence \in [Clients -> Nat]
  /\ seenVersion \in [Clients -> Nat]
  /\ inputClosed \in [Clients -> BOOLEAN]
  /\ phase \in {"clients", "flush", "joining", "stopping"} \union Outcomes
  /\ stopSent \in BOOLEAN

CursorsInRange ==
  \A c \in Clients :
    /\ Count(c) <= received[c] /\ received[c] <= Len(reported[c])
    /\ historyIndex[c] \in 1 .. (Len(history) + 1)

(* Type invariant: the values of the tracker's variables.  The cursors of a *)
(* shard stay within what was reported and what was observed.               *)
TypeOK == VariablesTyped /\ CursorsInRange

(* However late a client reports a write, its latency sample is taken from  *)
(* the first observation of the whole history that covers its sequence,     *)
(* although a shard searches onward from where its last search ended.       *)
FirstObservationMatched ==
  \A c \in Clients : \A i \in 1 .. Count(c) :
    LET s == reported[c][i].sequence
        j == samples[c][i]
    IN  /\ j \in DOMAIN history
        /\ history[j].sequence >= s
        /\ \A k \in 1 .. (j - 1) : history[k].sequence < s

(* No lost wakeup: a shard that waits with every bump seen holds back no    *)
(* write the history covers, unless the observer is about to bump again.    *)
NoLostWakeup ==
  \A c \in Clients :
    /\ shardState[c] = "select"
    /\ seenVersion[c] = version
    /\ observerState # "bump"
    /\ ~PendingEmpty(c)
    => Front(c).sequence > LatestObservation.sequence

(* A run that succeeds has sampled every sequence number the database gave  *)
(* out to a client, and every one of them is durable: no write in flight at *)
(* the deadline, none that returned an error after it got its number, no    *)
(* client or task that ended early, is ever taken for coverage.             *)
SuccessMeansCovered ==
  phase = "done" =>
    /\ durable = assigned
    /\ \A s \in 1 .. assigned :
         \E c \in Clients : \E i \in 1 .. Count(c) : reported[c][i].sequence = s

(* The two checks at the end of `execute` are assertions: they fail for no  *)
(* interleaving of clients, shards and observer.                            *)
NeverMismatches == phase # "mismatch"

(* Once the clients have stopped, or one has failed, `execute` ends with a  *)
(* result or with an error, also when the database goes away meanwhile.     *)
DrainTerminates ==
  (phase = "flush" \/ \E c \in Clients : clientState[c] = "failed")
    ~> phase \in Outcomes

(* docs/BENCHMARKS.md: the durable latency runs from the return of the      *)
(* write until the frontier reaches its sequence.  A sample's interval must *)
(* then not end before the frontier got there, unless the write was durable *)
(* when it returned.                                                        *)
LatencyEndsAtCoverage ==
  \A c \in Clients : \A i \in 1 .. Count(c) :
    LET w == reported[c][i]
    IN  w.returned_at < w.sequence => history[samples[c][i]].observed_at >= w.sequence

-----------------------------------------------------------------------------
(* The tracker implements the contract of DurabilityContract. *)
Sequences(c, n) == {reported[c][i].sequence : i \in 1 .. n}

Contract == INSTANCE DurabilityContract WITH
  Numbers  <- 1 .. MaxSequence,
  accepted <- UNION {Sequences(c, Len(reported[c])) : c \in Clients},
  sampled  <- UNION {Sequences(c, Count(c)) : c \in Clients},
  frontier <- durable,
  outcome  <- CASE phase = "done" -> "covered"
                [] phase \in {"mismatch", "failed"} -> "failed"
                [] phase = "clients" -> "measuring"
                [] OTHER -> "draining"

(* Every behaviour of the tracker, seen through that mapping, is one the    *)
(* contract allows: a sample is taken once per accepted write, only when    *)
(* the write is durable, and success is reported only for full coverage.    *)
ImplementsContract == Contract!Spec
=============================================================================
