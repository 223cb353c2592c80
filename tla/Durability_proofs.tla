------------------------- MODULE Durability_proofs -------------------------
(***************************************************************************)
(* The safety properties of Durability, proved for any set of clients, any *)
(* bound on sequence numbers and any number of writes.                     *)
(*                                                                         *)
(* The inductive invariant has a part for each actor.  HistoryInv: what    *)
(* the observer has published.  ClientInv: what the clients have reported. *)
(* SearchInv: no observation before a shard's history_index covers a write *)
(* it has still to match.  WakeupInv: what a waiting shard knows.          *)
(* PhaseInv: what execute has already joined.                              *)
(*                                                                         *)
(* The refinement of DurabilityContract adds NumbersInv: a sequence number *)
(* belongs to one client.                                                  *)
(***************************************************************************)
EXTENDS Durability, TLAPS

(* Nothing is published before the database reported it durable, and the   *)
(* observer's `durable` is the last observation except between the read    *)
(* and the push.                                                           *)
HistoryInv ==
  /\ observed <= durable
  /\ \A j \in 1 .. Len(history) : history[j].sequence <= observed
  /\ observerState \notin {"push", "aborted"} => LatestObservation.sequence = observed
  /\ \A j \in 1 .. Len(history) : history[j].sequence <= LatestObservation.sequence

(* A client has one write in flight at most, numbers its reports in        *)
(* increasing order, and counts what it reports; every number the database *)
(* gave out is in flight or reported, as long as no client lost one.       *)
ReportsOK(c) ==
  /\ clientState[c] = "writing" => sequence[c] \in 1 .. assigned
  /\ clientState[c] # "writing" => sequence[c] = 0
  /\ writes[c] = Len(reported[c])
  /\ reported[c] = <<>> => lastWrite[c] = 0
  /\ reported[c] # <<>> => lastWrite[c] = reported[c][Len(reported[c])].sequence
  /\ \A i \in 1 .. Len(reported[c]) :
       /\ reported[c][i].sequence \in 1 .. assigned
       /\ reported[c][i].sequence <= lastWrite[c]
       /\ clientState[c] = "writing" => reported[c][i].sequence < sequence[c]
       /\ \A k \in 1 .. (i - 1) : reported[c][k].sequence < reported[c][i].sequence

HandedOut(s) == \E c \in Clients :
  \/ sequence[c] = s
  \/ \E i \in 1 .. Len(reported[c]) : reported[c][i].sequence = s

Lost == \E c \in Clients : erred[c] \/ clientState[c] = "failed"

ClientInv ==
  /\ \A c \in Clients : ReportsOK(c)
  /\ Lost \/ \A s \in 1 .. assigned : HandedOut(s)

(* No observation a shard's search has passed covers what is still to come. *)
SearchOK(c) ==
  \A k \in 1 .. (historyIndex[c] - 1) :
    /\ \A i \in (Count(c) + 1) .. Len(reported[c]) :
         history[k].sequence < reported[c][i].sequence
    /\ clientState[c] = "writing" => history[k].sequence < sequence[c]

SearchInv == \A c \in Clients : SearchOK(c)

(* A waiting shard that has seen every bump knows the latest observation,  *)
(* and the observation it knows covers none of its pending writes.         *)
WakeOK(c) ==
  /\ seenVersion[c] <= version
  /\ latestSequence[c] <= LatestObservation.sequence
  /\ shardState[c] = "start" => received[c] = 0
  /\ /\ shardState[c] \in {"select", "covered", "drain"}
     /\ seenVersion[c] = version
     /\ observerState # "bump"
     => latestSequence[c] = LatestObservation.sequence
  /\ shardState[c] = "select" /\ ~PendingEmpty(c)
     => Front(c).sequence > latestSequence[c]

WakeupInv == \A c \in Clients : WakeOK(c)

(* What each phase of execute has already joined. *)
PhaseInv ==
  /\ phase \notin {"clients", "failed"} => \A c \in Clients : clientState[c] = "stopped"
  /\ \A c \in Clients :
       /\ inputClosed[c] => ClientEnded(c) /\ received[c] = Len(reported[c])
       /\ shardState[c] = "ok" => inputClosed[c] /\ PendingEmpty(c)
  /\ phase \in {"stopping", "done"} => \A c \in Clients : shardState[c] = "ok"
  /\ phase = "done" => FrontierCovers /\ NoErrors

Inv ==
  /\ TypeOK
  /\ FirstObservationMatched
  /\ HistoryInv
  /\ ClientInv
  /\ SearchInv
  /\ WakeupInv
  /\ PhaseInv
  /\ NeverMismatches

-----------------------------------------------------------------------------
USE ConstantsAssumption


LEMMA InitTypeOK == Init => TypeOK
<1> SUFFICES ASSUME Init PROVE TypeOK
  OBVIOUS
<1>1. [sequence |-> 0, observed_at |-> 0] \in FrontierObservation
  BY DEF FrontierObservation
<1>2. history \in Seq(FrontierObservation) /\ Len(history) = 1
  BY <1>1 DEF Init
<1>3. /\ reported \in [Clients -> Seq(AcceptedWrite)]
      /\ samples \in [Clients -> Seq(Nat)]
  BY DEF Init
<1>4. statusChanged \in BOOLEAN /\ gone \in BOOLEAN /\ stopSent \in BOOLEAN
  BY Zenon DEF Init
<1>5. VariablesTyped
  BY <1>2, <1>3, <1>4 DEF Init, VariablesTyped, Outcomes
<1>6. CursorsInRange
  BY <1>2 DEF Init, CursorsInRange, Count
<1> QED
  BY <1>5, <1>6 DEF TypeOK

LEMMA NowType == TypeOK => Now \in Nat
BY DEF TypeOK, VariablesTyped, Now

LEMMA LatestType == TypeOK => LatestObservation \in FrontierObservation
BY DEF TypeOK, VariablesTyped, LatestObservation

(* The cursors move only in the steps that write them. *)
LEMMA CursorsKept ==
  TypeOK /\ UNCHANGED <<received, samples, reported, historyIndex, history>>
    => CursorsInRange'
BY DEF TypeOK, CursorsInRange, Count

LEMMA DatabaseTypeOK == TypeOK /\ Database => TypeOK'
<1> SUFFICES ASSUME TypeOK, Database PROVE TypeOK'
  OBVIOUS
<1> USE DEF TypeOK, dbVars, clientVars, observerVars, shardVars, mainVars
<1>1. CASE DurableAdvances
  <2>1. durable' \in 0 .. assigned'
    BY <1>1 DEF DurableAdvances, VariablesTyped
  <2> QED
    BY <1>1, <2>1, CursorsKept DEF DurableAdvances, VariablesTyped
<1>2. CASE DatabaseGone
  <2>1. statusChanged' \in BOOLEAN
    BY <1>2 DEF DatabaseGone, VariablesTyped
  <2> QED
    BY <1>2, <2>1, CursorsKept DEF DatabaseGone, VariablesTyped
<1> QED
  BY <1>1, <1>2 DEF Database

LEMMA ClientTypeOK == ASSUME NEW c \in Clients, TypeOK, Client(c) PROVE TypeOK'
<1> USE DEF TypeOK, dbVars, clientVars, observerVars, shardVars, mainVars
<1>1. CASE BeginWrite(c)
  <2>1. assigned' \in Nat /\ durable' \in 0 .. assigned'
    BY <1>1 DEF BeginWrite, VariablesTyped
  <2>2. sequence' \in [Clients -> Nat]
    BY <1>1 DEF BeginWrite, VariablesTyped
  <2> QED
    BY <1>1, <2>1, <2>2, CursorsKept DEF BeginWrite, VariablesTyped
<1>2. CASE RecordWrite(c)
  <2>1. [sequence |-> sequence[c], returned_at |-> Now] \in AcceptedWrite
    BY NowType DEF VariablesTyped, AcceptedWrite
  <2>2. reported' \in [Clients -> Seq(AcceptedWrite)]
    BY <1>2, <2>1 DEF RecordWrite, VariablesTyped
  <2>3. VariablesTyped'
    <3>1. /\ writes' \in [Clients -> Nat]
          /\ lastWrite' \in [Clients -> Nat]
          /\ sequence' \in [Clients -> Nat]
      BY <1>2 DEF RecordWrite, VariablesTyped
    <3>2. clientState' \in [Clients -> {"idle", "writing", "stopped", "failed"}]
      BY <1>2 DEF RecordWrite, VariablesTyped
    <3>3. UNCHANGED <<dbVars, erred, observerVars, shardVars, mainVars>>
      BY <1>2 DEF RecordWrite
    <3> QED
      BY <2>2, <3>1, <3>2, <3>3 DEF VariablesTyped
  <2>4. \A d \in Clients : Len(reported[d]) <= Len(reported'[d])
    BY <1>2, <2>1 DEF RecordWrite, VariablesTyped
  <2>5. CursorsInRange'
    BY <1>2, <2>3, <2>4 DEF RecordWrite, VariablesTyped, CursorsInRange, Count
  <2> QED
    BY <2>3, <2>5
<1>3. CASE ClientStops(c)
  BY <1>3, CursorsKept DEF ClientStops, VariablesTyped
<1>4. CASE WriteFails(c)
  BY <1>4, CursorsKept DEF WriteFails, VariablesTyped
<1>5. CASE ClientFails(c)
  BY <1>5, CursorsKept DEF ClientFails, VariablesTyped
<1> QED
  BY <1>1, <1>2, <1>3, <1>4, <1>5 DEF Client

LEMMA ObserverTypeOK == TypeOK /\ Observer => TypeOK'
<1> SUFFICES ASSUME TypeOK, Observer PROVE TypeOK'
  OBVIOUS
<1> USE DEF TypeOK, dbVars, clientVars, observerVars, shardVars, mainVars
<1>1. CASE ObserverStarts
  BY <1>1, NowType, CursorsKept DEF ObserverStarts, Stamp, VariablesTyped
<1>2. CASE ObserverWakes
  BY <1>2, NowType, CursorsKept DEF ObserverWakes, Stamp, VariablesTyped
<1>3. CASE ObserverReads
  <2>1. /\ observed' \in Nat /\ observedAt' \in Nat
        /\ observerState' \in {"push", "select"}
    BY <1>3 DEF ObserverReads, VariablesTyped
  <2>2. statusChanged' \in BOOLEAN
    BY <1>3 DEF ObserverReads
  <2>3. VariablesTyped'
    BY <1>3, <2>1, <2>2 DEF ObserverReads, VariablesTyped
  <2> QED
    BY <1>3, <2>3, CursorsKept DEF ObserverReads
<1>4. CASE ObserverPushes
  <2>1. [sequence |-> observed, observed_at |-> observedAt] \in FrontierObservation
    BY DEF VariablesTyped, FrontierObservation
  <2>2. history' \in Seq(FrontierObservation) /\ Len(history') = Len(history) + 1
    BY <1>4, <2>1 DEF ObserverPushes, VariablesTyped
  <2>3. VariablesTyped'
    <3>1. Len(history') > 0
      BY <2>2 DEF VariablesTyped
    <3>2. /\ observedAt' = 0 /\ observerState' = "bump"
          /\ UNCHANGED <<dbVars, clientVars, observed, version, shardVars, mainVars>>
      BY <1>4 DEF ObserverPushes
    <3> QED
      BY <2>2, <3>1, <3>2 DEF VariablesTyped
  <2>4. CursorsInRange'
    BY <1>4, <2>2 DEF ObserverPushes, VariablesTyped, CursorsInRange, Count
  <2> QED
    BY <2>3, <2>4
<1>5. CASE ObserverBumps
  <2>1. version' \in Nat /\ observerState' = "select"
    BY <1>5 DEF ObserverBumps, VariablesTyped
  <2>2. UNCHANGED <<dbVars, clientVars, observedAt, observed, history, shardVars, mainVars>>
    BY <1>5 DEF ObserverBumps
  <2>3. VariablesTyped'
    BY <2>1, <2>2 DEF VariablesTyped
  <2> QED
    BY <2>2, <2>3, CursorsKept
<1>6. CASE ObserverStops
  BY <1>6, CursorsKept DEF ObserverStops, VariablesTyped
<1>7. CASE ObserverFails
  BY <1>7, CursorsKept DEF ObserverFails, VariablesTyped
<1> QED
  BY <1>1, <1>2, <1>3, <1>4, <1>5, <1>6, <1>7 DEF Observer

LEMMA ShardTypeOK == ASSUME NEW c \in Clients, TypeOK, Shard(c) PROVE TypeOK'
<1> USE DEF TypeOK, dbVars, clientVars, observerVars, shardVars, mainVars
<1>1. CASE ShardStarts(c)
  <2>1. LatestObservation.sequence \in Nat
    BY LatestType DEF FrontierObservation
  <2>2. latestSequence' \in [Clients -> Nat]
    BY <1>1, <2>1 DEF ShardStarts, VariablesTyped
  <2> QED
    BY <1>1, <2>2, CursorsKept DEF ShardStarts, VariablesTyped
<1>2. CASE ShardReceives(c)
  <2>1. received' \in [Clients -> Nat]
    <3>1. /\ received' = [received EXCEPT ![c] = @ + 1]
          /\ received \in [Clients -> Nat]
      BY <1>2 DEF ShardReceives, VariablesTyped
    <3> HIDE DEF TypeOK
    <3> QED
      BY <3>1
  <2>2. shardState' \in [Clients -> {"start", "select", "reload", "covered", "drain",
                                    "ok", "failed", "aborted"}]
    BY <1>2 DEF ShardReceives, VariablesTyped
  <2>3. VariablesTyped'
    BY <1>2, <2>1, <2>2 DEF ShardReceives, VariablesTyped
  <2>4. CursorsInRange'
    BY <1>2 DEF ShardReceives, VariablesTyped, CursorsInRange, Count
  <2> QED
    BY <2>3, <2>4
<1>3. CASE ShardInputCloses(c)
  BY <1>3, CursorsKept DEF ShardInputCloses, VariablesTyped
<1>4. CASE ShardSeesFrontier(c)
  BY <1>4, CursorsKept DEF ShardSeesFrontier, VariablesTyped
<1>5. CASE ShardReloads(c)
  <2>1. LatestObservation.sequence \in Nat
    BY LatestType DEF FrontierObservation
  <2>2. latestSequence' \in [Clients -> Nat]
    BY <1>5, <2>1 DEF ShardReloads, VariablesTyped
  <2> QED
    BY <1>5, <2>2, CursorsKept DEF ShardReloads, VariablesTyped
<1>6. CASE DrainMatches(c)
  <2>1. PICK j \in FirstCovering(c, Front(c).sequence) :
          /\ historyIndex' = [historyIndex EXCEPT ![c] = j]
          /\ samples' = [samples EXCEPT ![c] = Append(@, j)]
    BY <1>6 DEF DrainMatches
  <2>2. j \in 1 .. Len(history)
    BY <2>1 DEF FirstCovering, VariablesTyped, CursorsInRange
  <2>3. VariablesTyped'
    <3>1. /\ historyIndex' \in [Clients -> Nat]
          /\ samples' \in [Clients -> Seq(Nat)]
      BY <2>1, <2>2 DEF VariablesTyped
    <3>2. shardState' \in [Clients -> {"start", "select", "reload", "covered", "drain",
                                      "ok", "failed", "aborted"}]
      BY <1>6 DEF DrainMatches, VariablesTyped
    <3>3. UNCHANGED <<dbVars, clientVars, observerVars, received,
                      latestSequence, seenVersion, inputClosed, mainVars>>
      BY <1>6 DEF DrainMatches
    <3> QED
      BY <3>1, <3>2, <3>3 DEF VariablesTyped
  <2>4. \A d \in Clients : Len(samples'[d]) = IF d = c THEN Len(samples[d]) + 1
                                                     ELSE Len(samples[d])
    BY <2>1, <2>2 DEF VariablesTyped
  <2>5. Len(samples[c]) < received[c]
    BY <1>6 DEF DrainMatches, PendingEmpty, Count, VariablesTyped, CursorsInRange
  <2>6. \A d \in Clients : historyIndex'[d] \in 1 .. (Len(history') + 1)
    <3>1. TAKE d \in Clients
    <3>2. history' = history
      BY <1>6 DEF DrainMatches
    <3>3. historyIndex[d] \in 1 .. (Len(history) + 1)
      BY DEF CursorsInRange
    <3>4. historyIndex'[d] = IF d = c THEN j ELSE historyIndex[d]
      BY <2>1 DEF VariablesTyped
    <3> QED
      BY <2>2, <3>2, <3>3, <3>4
  <2>7. \A d \in Clients : Len(samples'[d]) <= received'[d]
    BY <1>6, <2>4, <2>5 DEF DrainMatches, VariablesTyped, CursorsInRange, Count
  <2>8. CursorsInRange'
    BY <1>6, <2>6, <2>7 DEF DrainMatches, CursorsInRange, Count
  <2> QED
    BY <2>3, <2>8
<1>7. CASE DrainEnds(c)
  <2>1. \/ historyIndex' = historyIndex
        \/ historyIndex' = [historyIndex EXCEPT ![c] = Len(history) + 1]
    BY <1>7 DEF DrainEnds
  <2>2. /\ historyIndex' \in [Clients -> Nat]
        /\ \A d \in Clients : historyIndex'[d] \in 1 .. (Len(history) + 1)
    <3>1. Len(history) + 1 \in 1 .. (Len(history) + 1)
      BY DEF VariablesTyped
    <3>2. \A d \in Clients : historyIndex[d] \in 1 .. (Len(history) + 1)
      BY DEF CursorsInRange
    <3>3. CASE historyIndex' = historyIndex
      BY <3>2, <3>3 DEF VariablesTyped
    <3>4. CASE historyIndex' = [historyIndex EXCEPT ![c] = Len(history) + 1]
      <4>1. \A d \in Clients : historyIndex'[d] = IF d = c THEN Len(history) + 1
                                                          ELSE historyIndex[d]
        BY <3>4 DEF VariablesTyped
      <4>2. historyIndex' \in [Clients -> Nat]
        BY <3>1, <3>4 DEF VariablesTyped
      <4> QED
        BY <3>1, <3>2, <4>1, <4>2
    <3> QED
      BY <2>1, <3>3, <3>4
  <2>3. VariablesTyped'
    BY <1>7, <2>2 DEF DrainEnds, VariablesTyped
  <2>4. CursorsInRange'
    BY <1>7, <2>2 DEF DrainEnds, CursorsInRange, Count
  <2> QED
    BY <2>3, <2>4
<1>8. CASE ShardReturns(c)
  BY <1>8, CursorsKept DEF ShardReturns, VariablesTyped
<1>9. CASE ShardFails(c)
  BY <1>9, CursorsKept DEF ShardFails, VariablesTyped
<1> QED
  BY <1>1, <1>2, <1>3, <1>4, <1>5, <1>6, <1>7, <1>8, <1>9 DEF Shard

LEMMA ExecuteTypeOK == TypeOK /\ Execute => TypeOK'
<1> SUFFICES ASSUME TypeOK, Execute PROVE TypeOK'
  OBVIOUS
<1> USE DEF dbVars, clientVars, observerVars, shardVars, mainVars
<1>1. CursorsInRange'
  BY CursorsKept DEF Execute, ClientsJoined, ClientsFail, FlushSucceeds, FlushFails, Abort,
       ShardsJoined, JoinFails, Reconciles, ObserverJoinFails
<1>2. VariablesTyped'
  BY DEF Execute, ClientsJoined, ClientsFail, FlushSucceeds, FlushFails, Abort, ShardsJoined,
       JoinFails, Reconciles, ObserverJoinFails, TypeOK, VariablesTyped, Outcomes
<1> QED
  BY <1>1, <1>2 DEF TypeOK

LEMMA NextTypeOK == TypeOK /\ [Next]_vars => TypeOK'
<1> SUFFICES ASSUME TypeOK, [Next]_vars PROVE TypeOK'
  OBVIOUS
<1>1. CASE UNCHANGED vars
  BY <1>1, CursorsKept
     DEF vars, dbVars, clientVars, observerVars, shardVars, mainVars, TypeOK, VariablesTyped
<1> QED
  BY <1>1, DatabaseTypeOK, ClientTypeOK, ObserverTypeOK, ShardTypeOK, ExecuteTypeOK
     DEF Next, Returned

(* Every variable of the tracker keeps its type, and the cursors of a shard *)
(* never pass what has been reported and observed.                          *)
THEOREM TypeCorrect == Spec => []TypeOK
BY InitTypeOK, NextTypeOK, PTL DEF Spec

-----------------------------------------------------------------------------
(* Which steps touch what the invariant's parts read. *)

LEMMA ObserverFrame ==
  ASSUME TypeOK, [Next]_vars
  PROVE  \/ ObserverReads
         \/ ObserverPushes
         \/ /\ UNCHANGED <<observed, history>>
            /\ durable' >= durable
            /\ observerState' = "push" => observerState = "push"
            /\ observerState' \notin {"push", "aborted"}
               => observerState \notin {"push", "aborted"}
<1> USE DEF vars, dbVars, clientVars, observerVars, shardVars, mainVars
<1>0. durable \in Nat
  BY DEF TypeOK, VariablesTyped
<1>1. CASE Database
  <2>1. durable' \in Nat /\ durable' >= durable /\ UNCHANGED observerVars
    <3>1. CASE DurableAdvances
      BY <1>0, <3>1 DEF DurableAdvances, TypeOK, VariablesTyped
    <3>2. CASE DatabaseGone
      BY <1>0, <3>2 DEF DatabaseGone
    <3> QED
      BY <1>1, <3>1, <3>2 DEF Database
  <2> QED
    BY <2>1
<1>2. CASE \E c \in Clients : Client(c) \/ Shard(c)
  BY <1>0, <1>2 DEF Client, BeginWrite, RecordWrite, WriteFails, ClientStops, ClientFails, Shard, ShardStarts,
       ShardReceives, ShardInputCloses, ShardSeesFrontier, ShardReloads, DrainMatches,
       DrainEnds, ShardReturns, ShardFails
<1>3. CASE Observer
  BY <1>0, <1>3 DEF Observer, ObserverStarts, ObserverWakes, Stamp, ObserverBumps,
       ObserverStops, ObserverFails
<1>4. CASE Execute
  BY <1>0, <1>4 DEF Execute, ClientsJoined, ClientsFail, FlushSucceeds, FlushFails, Abort,
       ShardsJoined, JoinFails, Reconciles, ObserverJoinFails
<1>5. CASE UNCHANGED vars
  BY <1>0, <1>5
<1> QED
  BY <1>1, <1>2, <1>3, <1>4, <1>5 DEF Next, Returned

LEMMA ClientFrame ==
  ASSUME [Next]_vars
  PROVE  \/ \E c \in Clients : Client(c)
         \/ UNCHANGED <<clientVars, assigned>>
<1> USE DEF vars, dbVars, clientVars, observerVars, shardVars, mainVars
<1>1. CASE Database
  BY <1>1 DEF Database, DurableAdvances, DatabaseGone
<1>2. CASE \E c \in Clients : Shard(c)
  BY <1>2 DEF Shard, ShardStarts, ShardReceives, ShardInputCloses, ShardSeesFrontier,
       ShardReloads, DrainMatches, DrainEnds, ShardReturns, ShardFails
<1>3. CASE Observer
  BY <1>3 DEF Observer, ObserverStarts, ObserverWakes, ObserverReads, ObserverPushes,
       ObserverBumps, ObserverStops, ObserverFails
<1>4. CASE Execute
  BY <1>4 DEF Execute, ClientsJoined, ClientsFail, FlushSucceeds, FlushFails, Abort,
       ShardsJoined, JoinFails, Reconciles, ObserverJoinFails
<1>5. CASE UNCHANGED vars
  BY <1>5
<1> QED
  BY <1>1, <1>2, <1>3, <1>4, <1>5 DEF Next, Returned

LEMMA AppendFacts ==
  ASSUME NEW S, NEW q \in Seq(S), NEW e \in S
  PROVE  /\ Append(q, e) \in Seq(S)
         /\ Len(Append(q, e)) = Len(q) + 1
         /\ \A j \in 1 .. Len(q) : Append(q, e)[j] = q[j]
         /\ Append(q, e)[Len(q) + 1] = e
OBVIOUS

LEMMA PushFacts ==
  ASSUME TypeOK, ObserverPushes
  PROVE  /\ Len(history) \in Nat
         /\ Len(history') = Len(history) + 1
         /\ \A j \in 1 .. Len(history) : history'[j] = history[j]
         /\ history'[Len(history) + 1].sequence = observed
         /\ LatestObservation'.sequence = observed
<1>1. [sequence |-> observed, observed_at |-> observedAt] \in FrontierObservation
  BY DEF TypeOK, VariablesTyped, FrontierObservation
<1>2. history \in Seq(FrontierObservation)
  BY DEF TypeOK, VariablesTyped
<1>3. history' = Append(history, [sequence |-> observed, observed_at |-> observedAt])
  BY DEF ObserverPushes
<1> QED
  BY <1>1, <1>2, <1>3, AppendFacts DEF LatestObservation

LEMMA HistoryNumbers ==
  ASSUME TypeOK
  PROVE  /\ Len(history) \in Nat \ {0}
         /\ \A j \in 1 .. Len(history) : history[j].sequence \in Nat
         /\ LatestObservation.sequence \in Nat
         /\ observed \in Nat /\ durable \in Nat /\ assigned \in Nat
         /\ durable <= assigned
<1>1. /\ history \in Seq(FrontierObservation) /\ Len(history) > 0
      /\ Len(history) \in Nat
  BY DEF TypeOK, VariablesTyped
<1>2. \A j \in 1 .. Len(history) : history[j] \in FrontierObservation
  BY <1>1
<1>3. observed \in Nat /\ assigned \in Nat /\ durable \in 0 .. assigned
  BY DEF TypeOK, VariablesTyped
<1> QED
  BY <1>1, <1>2, <1>3 DEF FrontierObservation, LatestObservation

-----------------------------------------------------------------------------
LEMMA HistoryStep ==
  ASSUME TypeOK, HistoryInv, [Next]_vars
  PROVE  HistoryInv'
<1> USE HistoryNumbers
<1>1. CASE ObserverReads
  <2>1. /\ observed' \in Nat /\ observed <= observed' /\ observed' <= durable
        /\ observerState' # "push" => observed' = observed /\ observerState = "read"
    BY <1>1 DEF ObserverReads, HistoryInv
  <2>2. UNCHANGED <<history, durable>>
    BY <1>1 DEF ObserverReads
  <2> QED
    BY <2>1, <2>2 DEF HistoryInv, LatestObservation
<1>2. CASE ObserverPushes
  <2>1. UNCHANGED <<observed, durable>> /\ observerState' = "bump"
    BY <1>2 DEF ObserverPushes, dbVars
  <2>2. \A j \in 1 .. Len(history') : history'[j].sequence <= observed
    BY <1>2, PushFacts DEF HistoryInv
  <2> QED
    BY <1>2, <2>1, <2>2, PushFacts DEF HistoryInv
<1>3. CASE /\ UNCHANGED <<observed, history>>
           /\ durable' >= durable
           /\ observerState' = "push" => observerState = "push"
           /\ observerState' \notin {"push", "aborted"}
              => observerState \notin {"push", "aborted"}
  <2>1. durable' \in Nat
    BY NextTypeOK DEF TypeOK, VariablesTyped
  <2> QED
    BY <1>3, <2>1 DEF HistoryInv, LatestObservation
<1> QED
  BY <1>1, <1>2, <1>3, ObserverFrame

LEMMA RecordFacts ==
  ASSUME TypeOK, NEW c \in Clients, RecordWrite(c)
  PROVE  /\ Len(reported'[c]) = Len(reported[c]) + 1
         /\ \A i \in 1 .. Len(reported[c]) : reported'[c][i] = reported[c][i]
         /\ reported'[c][Len(reported[c]) + 1].sequence = sequence[c]
         /\ \A d \in Clients : d # c => reported'[d] = reported[d]
<1>1. [sequence |-> sequence[c], returned_at |-> Now] \in AcceptedWrite
  BY NowType DEF TypeOK, VariablesTyped, AcceptedWrite
<1>2. reported[c] \in Seq(AcceptedWrite)
  BY DEF TypeOK, VariablesTyped
<1>3. /\ reported'[c] = Append(reported[c], [sequence |-> sequence[c],
                                              returned_at |-> Now])
      /\ \A d \in Clients : d # c => reported'[d] = reported[d]
  BY DEF RecordWrite, TypeOK, VariablesTyped
<1> QED
  BY <1>1, <1>2, <1>3, AppendFacts

LEMMA ClientStep ==
  ASSUME TypeOK, ClientInv, [Next]_vars
  PROVE  ClientInv'
<1>0. /\ assigned \in Nat
      /\ \A c \in Clients :
           /\ sequence[c] \in Nat /\ lastWrite[c] \in Nat /\ writes[c] \in Nat
           /\ reported[c] \in Seq(AcceptedWrite) /\ Len(reported[c]) \in Nat
           /\ \A i \in 1 .. Len(reported[c]) : reported[c][i].sequence \in Nat
  <2>1. /\ assigned \in Nat
        /\ \A c \in Clients :
             /\ sequence[c] \in Nat /\ lastWrite[c] \in Nat /\ writes[c] \in Nat
             /\ reported[c] \in Seq(AcceptedWrite) /\ Len(reported[c]) \in Nat
    BY DEF TypeOK, VariablesTyped
  <2>2. \A c \in Clients : \A i \in 1 .. Len(reported[c]) : reported[c][i] \in AcceptedWrite
    BY <2>1
  <2> QED
    BY <2>1, <2>2 DEF AcceptedWrite
<1>1. ASSUME NEW c \in Clients, BeginWrite(c) PROVE ClientInv'
  <2>1. /\ assigned' = assigned + 1
        /\ UNCHANGED <<writes, lastWrite, reported>>
        /\ clientState[c] = "idle" /\ sequence[c] = 0
        /\ clientState'[c] = "writing" /\ sequence'[c] = assigned + 1
        /\ \A d \in Clients : d # c =>
             clientState'[d] = clientState[d] /\ sequence'[d] = sequence[d]
    BY <1>1 DEF BeginWrite, TypeOK, VariablesTyped, ClientInv, ReportsOK
  <2>2. ASSUME NEW d \in Clients PROVE ReportsOK(d)'
    <3>1. ReportsOK(d)
      BY DEF ClientInv
    <3>2. CASE d = c
      BY <1>0, <2>1, <3>1, <3>2 DEF ReportsOK
    <3>3. CASE d # c
      BY <1>0, <2>1, <3>1, <3>3 DEF ReportsOK
    <3> QED
      BY <3>2, <3>3
  <2>3. ASSUME ~Lost, NEW s \in 1 .. assigned' PROVE HandedOut(s)'
    <3>1. CASE s = assigned + 1
      BY <2>1, <3>1 DEF HandedOut
    <3>2. CASE s # assigned + 1
      <4>1. s \in 1 .. assigned
        BY <1>0, <2>1, <3>2
      <4>2. HandedOut(s)
        BY <2>3, <4>1 DEF ClientInv
      <4> QED
        BY <2>1, <4>1, <4>2 DEF HandedOut
    <3> QED
      BY <3>1, <3>2
  <2>4. Lost => Lost'
    BY <1>1, <2>1 DEF BeginWrite, Lost
  <2> QED
    BY <2>2, <2>3, <2>4 DEF ClientInv
<1>2. ASSUME NEW c \in Clients, RecordWrite(c) PROVE ClientInv'
  <2>1. /\ UNCHANGED assigned
        /\ clientState[c] = "writing" /\ clientState'[c] = "idle" /\ sequence'[c] = 0
        /\ writes'[c] = writes[c] + 1
        /\ lastWrite'[c] = IF sequence[c] > lastWrite[c] THEN sequence[c] ELSE lastWrite[c]
        /\ \A d \in Clients : d # c =>
             /\ clientState'[d] = clientState[d] /\ sequence'[d] = sequence[d]
             /\ writes'[d] = writes[d] /\ lastWrite'[d] = lastWrite[d]
    BY <1>2 DEF RecordWrite, TypeOK, VariablesTyped, dbVars
  <2>2. ReportsOK(c)
    BY DEF ClientInv
  <2>3. sequence[c] > lastWrite[c] /\ lastWrite'[c] = sequence[c]
    BY <1>0, <2>1, <2>2 DEF ReportsOK
  <2>4. ASSUME NEW d \in Clients PROVE ReportsOK(d)'
    <3>1. CASE d = c
      <4>1. reported'[c] # <<>> /\ Len(reported'[c]) = Len(reported[c]) + 1
        BY <1>0, <1>2, RecordFacts
      <4>2. \A i \in 1 .. Len(reported'[c]) :
              /\ reported'[c][i].sequence \in 1 .. assigned
              /\ reported'[c][i].sequence <= lastWrite'[c]
              /\ \A k \in 1 .. (i - 1) :
                   reported'[c][k].sequence < reported'[c][i].sequence
        <5>1. TAKE i \in 1 .. Len(reported'[c])
        <5>2. CASE i \in 1 .. Len(reported[c])
          <6>0. \A k \in 1 .. Len(reported[c]) : reported'[c][k] = reported[c][k]
            BY <1>2, RecordFacts
          <6>1. \A k \in 1 .. i : reported'[c][k] = reported[c][k]
            BY <1>0, <5>2, <6>0
          <6>2. /\ reported[c][i].sequence \in 1 .. assigned
                /\ reported[c][i].sequence <= lastWrite[c]
                /\ \A k \in 1 .. (i - 1) : reported[c][k].sequence < reported[c][i].sequence
            BY <2>2, <5>2 DEF ReportsOK
          <6>3. reported'[c][i] = reported[c][i]
            BY <5>2, <6>0
          <6>4. \A k \in 1 .. (i - 1) : reported'[c][k] = reported[c][k]
            BY <5>2, <6>1
          <6>5. reported'[c][i].sequence \in 1 .. assigned
            BY <6>2, <6>3
          <6>6. reported'[c][i].sequence <= lastWrite'[c]
            BY <1>0, <2>3, <6>2, <6>3
          <6>7. \A k \in 1 .. (i - 1) :
                  reported'[c][k].sequence < reported'[c][i].sequence
            BY <6>2, <6>3, <6>4
          <6> QED
            BY <6>5, <6>6, <6>7
        <5>3. CASE i = Len(reported[c]) + 1
          <6>1. reported'[c][i].sequence = sequence[c]
            BY <1>2, <5>3, RecordFacts
          <6>2. \A k \in 1 .. (i - 1) : reported'[c][k] = reported[c][k]
            BY <1>0, <1>2, <5>3, RecordFacts
          <6>3. \A k \in 1 .. (i - 1) : reported[c][k].sequence < sequence[c]
            BY <1>0, <2>1, <2>2, <5>3 DEF ReportsOK
          <6>4. sequence[c] \in 1 .. assigned /\ lastWrite'[c] = sequence[c]
            BY <2>1, <2>2, <2>3 DEF ReportsOK
          <6>5. reported'[c][i].sequence \in 1 .. assigned
            BY <6>1, <6>4, Zenon
          <6>6. reported'[c][i].sequence <= lastWrite'[c]
            BY <6>1, <6>4
          <6>7. \A k \in 1 .. (i - 1) :
                  reported'[c][k].sequence < reported'[c][i].sequence
            BY <6>1, <6>2, <6>3, Zenon
          <6> QED
            BY <6>5, <6>6, <6>7, Zenon
        <5> QED
          BY <1>0, <4>1, <5>2, <5>3
      <4>3. lastWrite'[c] = reported'[c][Len(reported'[c])].sequence
        BY <1>0, <1>2, <2>3, <4>1, RecordFacts
      <4> QED
        BY <1>0, <2>1, <2>2, <3>1, <4>1, <4>2, <4>3 DEF ReportsOK
    <3>2. CASE d # c
      <4>1. ReportsOK(d)
        BY DEF ClientInv
      <4> QED
        BY <1>2, <2>1, <3>2, <4>1, RecordFacts DEF ReportsOK
    <3> QED
      BY <3>1, <3>2
  <2>5. ASSUME ~Lost, NEW s \in 1 .. assigned' PROVE HandedOut(s)'
    <3>1. s \in 1 .. assigned /\ HandedOut(s)
      BY <2>1, <2>5 DEF ClientInv
    <3>2. PICK d \in Clients : \/ sequence[d] = s
                              \/ \E i \in 1 .. Len(reported[d]) : reported[d][i].sequence = s
      BY <3>1 DEF HandedOut
    <3>3. CASE d = c /\ sequence[d] = s
      BY <1>0, <1>2, <3>3, RecordFacts DEF HandedOut
    <3>4. CASE \E i \in 1 .. Len(reported[d]) : reported[d][i].sequence = s
      <4>1. PICK i \in 1 .. Len(reported[d]) : reported[d][i].sequence = s
        BY <3>4
      <4>2. reported'[d][i] = reported[d][i]
        BY <1>2, RecordFacts
      <4>3. Len(reported[d]) \in Nat
            /\ Len(reported'[d]) \in {Len(reported[d]), Len(reported[d]) + 1}
        BY <1>0, <1>2, RecordFacts
      <4>4. i \in 1 .. Len(reported'[d])
        BY <4>3
      <4> QED
        BY <4>1, <4>2, <4>4 DEF HandedOut
    <3>5. CASE d # c /\ sequence[d] = s
      BY <2>1, <3>5 DEF HandedOut
    <3> QED
      BY <3>2, <3>3, <3>4, <3>5
  <2>6. Lost => Lost'
    BY <1>2, <2>1 DEF RecordWrite, Lost
  <2> QED
    BY <2>4, <2>5, <2>6 DEF ClientInv
<1>3. ASSUME NEW c \in Clients, ClientStops(c) PROVE ClientInv'
  <2>1. /\ UNCHANGED <<assigned, sequence, writes, lastWrite, reported>>
        /\ \A d \in Clients :
             clientState'[d] = IF d = c THEN "stopped" ELSE clientState[d]
        /\ clientState[c] = "idle"
    BY <1>3 DEF ClientStops, TypeOK, VariablesTyped, dbVars
  <2>2. Lost => Lost'
    BY <1>3, <2>1 DEF ClientStops, Lost
  <2> QED
    BY <2>1, <2>2 DEF ClientInv, ReportsOK, HandedOut
<1>4. CASE UNCHANGED <<clientVars, assigned>>
  BY <1>4 DEF clientVars, ClientInv, ReportsOK, HandedOut, Lost
<1>5. ASSUME NEW c \in Clients, WriteFails(c) \/ ClientFails(c) PROVE ClientInv'
  <2>1. /\ UNCHANGED <<assigned, writes, lastWrite, reported>>
        /\ sequence'[c] = 0 /\ clientState'[c] # "writing"
        /\ erred'[c] \/ clientState'[c] = "failed"
        /\ \A d \in Clients : d # c =>
             clientState'[d] = clientState[d] /\ sequence'[d] = sequence[d]
    BY <1>5 DEF WriteFails, ClientFails, TypeOK, VariablesTyped, dbVars
  <2>2. ASSUME NEW d \in Clients PROVE ReportsOK(d)'
    <3>1. ReportsOK(d)
      BY DEF ClientInv
    <3> QED
      BY <2>1, <3>1 DEF ReportsOK
  <2> QED
    BY <2>1, <2>2 DEF ClientInv, Lost
<1> QED
  BY <1>1, <1>2, <1>3, <1>4, <1>5, ClientFrame DEF Client

-----------------------------------------------------------------------------
(* The steps of the search, and all others. *)

LEMMA SearchFrame ==
  ASSUME [Next]_vars
  PROVE  \/ \E c \in Clients : Client(c) \/ DrainMatches(c) \/ DrainEnds(c)
         \/ ObserverPushes
         \/ UNCHANGED <<clientVars, history, historyIndex, samples>>
<1> USE DEF vars, dbVars, clientVars, observerVars, shardVars, mainVars
<1>1. CASE Database
  BY <1>1 DEF Database, DurableAdvances, DatabaseGone
<1>2. CASE \E c \in Clients : Shard(c)
  BY <1>2 DEF Shard, ShardStarts, ShardReceives, ShardInputCloses, ShardSeesFrontier,
       ShardReloads, ShardReturns, ShardFails
<1>3. CASE Observer
  BY <1>3 DEF Observer, ObserverStarts, ObserverWakes, ObserverReads,
       ObserverBumps, ObserverStops, ObserverFails
<1>4. CASE Execute
  BY <1>4 DEF Execute, ClientsJoined, ClientsFail, FlushSucceeds, FlushFails, Abort,
       ShardsJoined, JoinFails, Reconciles, ObserverJoinFails
<1>5. CASE UNCHANGED vars
  BY <1>5
<1> QED
  BY <1>1, <1>2, <1>3, <1>4, <1>5 DEF Next, Returned

LEMMA ShardNumbers ==
  ASSUME TypeOK, NEW c \in Clients
  PROVE  /\ Count(c) \in Nat /\ received[c] \in Nat /\ historyIndex[c] \in Nat
         /\ sequence[c] \in Nat
         /\ Len(reported[c]) \in Nat /\ Count(c) <= received[c]
         /\ received[c] <= Len(reported[c])
         /\ historyIndex[c] >= 1 /\ historyIndex[c] <= Len(history) + 1
         /\ \A i \in 1 .. Len(reported[c]) : reported[c][i].sequence \in Nat
         /\ \A i \in 1 .. Count(c) : samples[c][i] \in Nat
<1>1. /\ reported[c] \in Seq(AcceptedWrite) /\ samples[c] \in Seq(Nat)
      /\ received[c] \in Nat /\ historyIndex[c] \in Nat /\ sequence[c] \in Nat
  BY DEF TypeOK, VariablesTyped
<1>2. \A i \in 1 .. Len(reported[c]) : reported[c][i] \in AcceptedWrite
  BY <1>1
<1>3. /\ Count(c) <= received[c] /\ received[c] <= Len(reported[c])
      /\ historyIndex[c] \in 1 .. (Len(history) + 1)
  BY DEF TypeOK, CursorsInRange
<1>4. Len(history) \in Nat
  BY HistoryNumbers
<1>5. \A i \in 1 .. Count(c) : samples[c][i] \in Nat
  BY <1>1 DEF Count
<1>6. \A i \in 1 .. Len(reported[c]) : reported[c][i].sequence \in Nat
  BY <1>2 DEF AcceptedWrite
<1>7. Count(c) \in Nat /\ Len(reported[c]) \in Nat
  BY <1>1 DEF Count
<1> QED
  BY <1>1, <1>3, <1>4, <1>5, <1>6, <1>7

(* What a match appends, and for which write. *)
LEMMA MatchFacts ==
  ASSUME TypeOK, NEW c \in Clients, DrainMatches(c)
  PROVE  /\ Count(c) < received[c]
         /\ \E j \in historyIndex[c] .. Len(history) :
              /\ history[j].sequence >= Front(c).sequence
              /\ \A k \in historyIndex[c] .. (j - 1) :
                   history[k].sequence < Front(c).sequence
              /\ historyIndex'[c] = j
              /\ samples'[c] = Append(samples[c], j)
         /\ \A d \in Clients : d # c =>
              historyIndex'[d] = historyIndex[d] /\ samples'[d] = samples[d]
         /\ UNCHANGED <<clientVars, history>>
<1>1. PICK j \in FirstCovering(c, Front(c).sequence) :
        /\ historyIndex' = [historyIndex EXCEPT ![c] = j]
        /\ samples' = [samples EXCEPT ![c] = Append(@, j)]
  BY DEF DrainMatches
<1>2. Count(c) < received[c]
  BY ShardNumbers DEF DrainMatches, PendingEmpty
<1> QED
  BY <1>1, <1>2
     DEF FirstCovering, DrainMatches, observerVars, TypeOK, VariablesTyped

(* The front of the pending queue: the search has passed only what does not *)
(* cover it, and every write still to come has a greater sequence.          *)
LEMMA FrontFacts ==
  ASSUME TypeOK, NEW c \in Clients, SearchOK(c), ReportsOK(c), Count(c) < received[c]
  PROVE  /\ Count(c) + 1 \in 1 .. Len(reported[c])
         /\ Front(c).sequence \in Nat
         /\ \A k \in 1 .. (historyIndex[c] - 1) : history[k].sequence < Front(c).sequence
         /\ \A i \in (Count(c) + 2) .. Len(reported[c]) :
              Front(c).sequence < reported[c][i].sequence
         /\ clientState[c] = "writing" => Front(c).sequence < sequence[c]
<1>1. Count(c) + 1 \in 1 .. Len(reported[c]) /\ Count(c) \in Nat /\ Len(reported[c]) \in Nat
  BY ShardNumbers
<1>2. Front(c).sequence \in Nat
  BY <1>1, ShardNumbers DEF Front
<1>3. \A k \in 1 .. (historyIndex[c] - 1) : history[k].sequence < Front(c).sequence
  BY <1>1 DEF SearchOK, Front
<1>4. ASSUME NEW i \in (Count(c) + 2) .. Len(reported[c])
      PROVE  Front(c).sequence < reported[c][i].sequence
  <2>1. i \in 1 .. Len(reported[c]) /\ Count(c) + 1 \in 1 .. (i - 1)
    BY <1>1
  <2> QED
    BY <2>1 DEF ReportsOK, Front
<1>5. clientState[c] = "writing" => Front(c).sequence < sequence[c]
  BY <1>1 DEF ReportsOK, Front
<1> QED
  BY <1>1, <1>2, <1>3, <1>4, <1>5

(* Once the search has passed every observation below j, none of which      *)
(* covers the front, the invariant of the search holds with j.              *)
LEMMA SearchAdvances ==
  ASSUME TypeOK, NEW c \in Clients, SearchOK(c), ReportsOK(c), Count(c) < received[c],
         NEW j \in historyIndex[c] .. (Len(history) + 1),
         \A k \in historyIndex[c] .. (j - 1) : history[k].sequence < Front(c).sequence
  PROVE  \A k \in 1 .. (j - 1) :
           /\ history[k].sequence < Front(c).sequence
           /\ \A i \in (Count(c) + 1) .. Len(reported[c]) :
                history[k].sequence < reported[c][i].sequence
           /\ clientState[c] = "writing" => history[k].sequence < sequence[c]
<1> SUFFICES ASSUME NEW k \in 1 .. (j - 1)
             PROVE  /\ history[k].sequence < Front(c).sequence
                    /\ \A i \in (Count(c) + 1) .. Len(reported[c]) :
                         history[k].sequence < reported[c][i].sequence
                    /\ clientState[c] = "writing" => history[k].sequence < sequence[c]
  OBVIOUS
<1>0. /\ historyIndex[c] \in Nat /\ historyIndex[c] >= 1 /\ Len(history) \in Nat
      /\ Count(c) \in Nat /\ Len(reported[c]) \in Nat /\ sequence[c] \in Nat
      /\ \A i \in 1 .. Len(reported[c]) : reported[c][i].sequence \in Nat
  BY ShardNumbers, HistoryNumbers
<1>1. history[k].sequence < Front(c).sequence /\ history[k].sequence \in Nat
  <2>1. k \in 1 .. (historyIndex[c] - 1) \/ k \in historyIndex[c] .. (j - 1)
    BY <1>0
  <2>2. k \in 1 .. Len(history)
    BY <1>0
  <2> QED
    BY <2>1, <2>2, FrontFacts, HistoryNumbers
<1>2. ASSUME NEW i \in (Count(c) + 1) .. Len(reported[c])
      PROVE  history[k].sequence < reported[c][i].sequence
  <2>1. CASE i = Count(c) + 1
    BY <1>1, <2>1 DEF Front
  <2>2. CASE i \in (Count(c) + 2) .. Len(reported[c])
    <3>1. Front(c).sequence < reported[c][i].sequence /\ Front(c).sequence \in Nat
      BY <2>2, FrontFacts
    <3>2. reported[c][i].sequence \in Nat
      BY <1>0
    <3> QED
      BY <1>1, <3>1, <3>2
  <2> QED
    BY <1>0, <2>1, <2>2
<1>3. clientState[c] = "writing" => history[k].sequence < sequence[c]
  <2>1. /\ clientState[c] = "writing" => Front(c).sequence < sequence[c]
        /\ Front(c).sequence \in Nat
    BY FrontFacts
  <2> QED
    BY <1>0, <1>1, <2>1
<1> QED
  BY <1>1, <1>2, <1>3

LEMMA SearchClientStep ==
  ASSUME TypeOK, HistoryInv, ClientInv, SearchInv, NEW c \in Clients, Client(c)
  PROVE  SearchInv'
<1>1. UNCHANGED <<history, historyIndex, samples>>
  BY DEF Client, BeginWrite, RecordWrite, WriteFails, ClientStops, ClientFails, observerVars, shardVars
<1>2. ASSUME NEW d \in Clients PROVE SearchOK(d)'
  <2>0. SearchOK(d) /\ ReportsOK(d)
    BY DEF SearchInv, SearchOK, ClientInv
  <2>1. CASE d # c
    <3>1. reported'[d] = reported[d] /\ clientState'[d] = clientState[d]
          /\ sequence'[d] = sequence[d]
      BY <2>1 DEF Client, BeginWrite, RecordWrite, WriteFails, ClientStops, ClientFails, TypeOK, VariablesTyped
    <3> QED
      BY <1>1, <2>0, <3>1 DEF SearchOK, Count
  <2>2. CASE d = c /\ BeginWrite(c)
    <3>1. /\ reported' = reported
          /\ clientState'[c] = "writing" /\ sequence'[c] = assigned + 1
      BY <2>2 DEF BeginWrite, TypeOK, VariablesTyped
    <3>2. \A k \in 1 .. (historyIndex[c] - 1) : history[k].sequence < assigned + 1
      <4>1. ASSUME NEW k \in 1 .. (historyIndex[c] - 1)
            PROVE  k \in 1 .. Len(history)
        BY ShardNumbers, HistoryNumbers
      <4>2. \A k \in 1 .. Len(history) :
              /\ history[k].sequence \in Nat /\ history[k].sequence <= observed
        BY HistoryNumbers DEF HistoryInv
      <4>3. observed \in Nat /\ assigned \in Nat /\ durable \in Nat
            /\ observed <= durable /\ durable <= assigned
        BY DEF TypeOK, VariablesTyped, HistoryInv
      <4> QED
        BY <4>1, <4>2, <4>3
    <3> QED
      BY <1>1, <2>0, <2>2, <3>1, <3>2 DEF SearchOK, Count
  <2>3. CASE d = c /\ RecordWrite(c)
    <3>1. clientState[c] = "writing" /\ clientState'[c] = "idle"
      BY <2>3 DEF RecordWrite, TypeOK, VariablesTyped
    <3>2. ASSUME NEW k \in 1 .. (historyIndex[c] - 1),
                 NEW i \in (Count(c) + 1) .. (Len(reported[c]) + 1)
          PROVE  history[k].sequence < reported'[c][i].sequence
      <4>2. CASE i = Len(reported[c]) + 1
        BY <2>0, <2>3, <3>1, <4>2, RecordFacts DEF SearchOK
      <4>3. CASE i <= Len(reported[c])
        <5>1. i \in (Count(c) + 1) .. Len(reported[c]) /\ i \in 1 .. Len(reported[c])
          BY <4>3, ShardNumbers
        <5> QED
          BY <2>0, <2>3, <3>1, <5>1, RecordFacts DEF SearchOK
      <4> QED
        BY <2>3, <4>2, <4>3, RecordFacts, ShardNumbers
    <3> QED
      BY <1>1, <2>3, <3>1, <3>2, RecordFacts DEF SearchOK, Count
  <2>4. CASE d = c /\ ClientStops(c)
    <3>1. reported' = reported /\ clientState'[c] = "stopped"
      BY <2>4 DEF ClientStops, TypeOK, VariablesTyped
    <3> QED
      BY <1>1, <2>0, <2>4, <3>1 DEF SearchOK, Count
  <2>5. CASE d = c /\ (WriteFails(c) \/ ClientFails(c))
    <3>1. reported' = reported /\ clientState'[c] # "writing"
      BY <2>5 DEF WriteFails, ClientFails, TypeOK, VariablesTyped
    <3> QED
      BY <1>1, <2>0, <2>5, <3>1 DEF SearchOK, Count
  <2> QED
    BY <2>1, <2>2, <2>3, <2>4, <2>5 DEF Client
<1> QED
  BY <1>2 DEF SearchInv, SearchOK

LEMMA SearchStep ==
  ASSUME TypeOK, HistoryInv, ClientInv, SearchInv, [Next]_vars
  PROVE  SearchInv'
<1>1. CASE \E c \in Clients : Client(c)
  BY <1>1, SearchClientStep
<1>2. ASSUME NEW c \in Clients, DrainMatches(c) PROVE SearchInv'
  <2>1. PICK j \in historyIndex[c] .. Len(history) :
          /\ \A k \in historyIndex[c] .. (j - 1) : history[k].sequence < Front(c).sequence
          /\ historyIndex'[c] = j
          /\ samples'[c] = Append(samples[c], j)
    BY <1>2, MatchFacts
  <2>2. ASSUME NEW d \in Clients PROVE SearchOK(d)'
    <3>0. SearchOK(d) /\ ReportsOK(d)
      BY DEF SearchInv, SearchOK, ClientInv
    <3>1. CASE d # c
      BY <1>2, <3>0, <3>1, MatchFacts DEF SearchOK, Count, clientVars
    <3>2. CASE d = c
      <4>1. Len(samples'[c]) = Count(c) + 1
        BY <2>1 DEF TypeOK, VariablesTyped, Count
      <4>2. Count(c) < received[c] /\ j \in historyIndex[c] .. (Len(history) + 1)
        BY <1>2, <2>1, MatchFacts, ShardNumbers, HistoryNumbers
      <4>3. \A k \in 1 .. (j - 1) :
              /\ \A i \in (Count(c) + 1) .. Len(reported[c]) :
                   history[k].sequence < reported[c][i].sequence
              /\ clientState[c] = "writing" => history[k].sequence < sequence[c]
        BY <2>1, <3>0, <3>2, <4>2, SearchAdvances
      <4>4. /\ UNCHANGED <<reported, clientState, sequence, history>>
            /\ Count(c) \in Nat /\ Len(reported[c]) \in Nat
        BY <1>2, MatchFacts, ShardNumbers DEF clientVars
      <4>5. Count(c)' = Count(c) + 1
        BY <4>1 DEF Count
      <4>6. \A k \in 1 .. (j - 1) : \A i \in (Count(c) + 2) .. Len(reported[c]) :
              history[k].sequence < reported[c][i].sequence
        BY <4>3, <4>4
      <4>7. Count(c)' + 1 = Count(c) + 2
        BY <4>4, <4>5
      <4> QED
        BY <2>1, <3>2, <4>3, <4>4, <4>6, <4>7 DEF SearchOK
    <3> QED
      BY <3>1, <3>2
  <2> QED
    BY <2>2 DEF SearchInv, SearchOK
<1>3. ASSUME NEW c \in Clients, DrainEnds(c) PROVE SearchInv'
  <2>1. /\ UNCHANGED <<clientVars, history, samples>>
        /\ \A d \in Clients : d # c => historyIndex'[d] = historyIndex[d]
        /\ \/ historyIndex'[c] = historyIndex[c]
           \/ /\ ~PendingEmpty(c) /\ NothingCovers(c, Front(c).sequence)
              /\ historyIndex'[c] = Len(history) + 1
    BY <1>3 DEF DrainEnds, observerVars, TypeOK, VariablesTyped
  <2>2. ASSUME NEW d \in Clients PROVE SearchOK(d)'
    <3>0. SearchOK(d) /\ ReportsOK(d)
      BY DEF SearchInv, SearchOK, ClientInv
    <3>1. CASE historyIndex'[d] = historyIndex[d]
      BY <2>1, <3>0, <3>1 DEF SearchOK, Count, clientVars
    <3>2. CASE /\ d = c /\ ~PendingEmpty(c) /\ NothingCovers(c, Front(c).sequence)
               /\ historyIndex'[c] = Len(history) + 1
      <4>1. Count(c) < received[c]
        BY <3>2, ShardNumbers DEF PendingEmpty
      <4>2. Len(history) + 1 \in historyIndex[c] .. (Len(history) + 1)
        BY ShardNumbers, HistoryNumbers
      <4>3. \A k \in 1 .. Len(history) :
              /\ \A i \in (Count(c) + 1) .. Len(reported[c]) :
                   history[k].sequence < reported[c][i].sequence
              /\ clientState[c] = "writing" => history[k].sequence < sequence[c]
        <5>1. (Len(history) + 1) - 1 = Len(history)
          BY HistoryNumbers
        <5>2. \A k \in historyIndex[c] .. ((Len(history) + 1) - 1) :
                history[k].sequence < Front(c).sequence
          BY <3>2, <5>1 DEF NothingCovers
        <5>3. \A k \in 1 .. ((Len(history) + 1) - 1) :
                /\ \A i \in (Count(c) + 1) .. Len(reported[c]) :
                     history[k].sequence < reported[c][i].sequence
                /\ clientState[c] = "writing" => history[k].sequence < sequence[c]
          BY <3>0, <3>2, <4>1, <4>2, <5>2, SearchAdvances
        <5> QED
          BY <5>1, <5>3
      <4>4. Len(history) \in Nat
        BY HistoryNumbers
      <4> QED
        BY <2>1, <3>2, <4>3, <4>4 DEF SearchOK, Count, clientVars
    <3> QED
      BY <2>1, <3>1, <3>2
  <2> QED
    BY <2>2 DEF SearchInv, SearchOK
<1>4. CASE ObserverPushes
  <2>1. UNCHANGED <<clientVars, historyIndex, samples>>
    BY <1>4 DEF ObserverPushes, shardVars
  <2>2. ASSUME NEW d \in Clients PROVE SearchOK(d)'
    <3>1. \A k \in 1 .. (historyIndex[d] - 1) : history'[k] = history[k]
      BY <1>4, PushFacts, ShardNumbers
    <3> QED
      BY <2>1, <3>1 DEF SearchOK, SearchInv, Count, clientVars
  <2> QED
    BY <2>2 DEF SearchInv, SearchOK
<1>5. CASE UNCHANGED <<clientVars, history, historyIndex, samples>>
  BY <1>5 DEF SearchInv, SearchOK, Count, clientVars
<1> QED
  BY <1>1, <1>2, <1>3, <1>4, <1>5, SearchFrame

(* The i-th sample of shard c is taken from the first covering observation. *)
MatchOK(c, i) ==
  /\ samples[c][i] \in DOMAIN history
  /\ history[samples[c][i]].sequence >= reported[c][i].sequence
  /\ \A k \in 1 .. (samples[c][i] - 1) : history[k].sequence < reported[c][i].sequence

LEMMA FirstObservationStep ==
  ASSUME TypeOK, ClientInv, SearchInv, FirstObservationMatched, [Next]_vars
  PROVE  FirstObservationMatched'
<1> USE DEF MatchOK
<1>0. \A c \in Clients : \A i \in 1 .. Count(c) : MatchOK(c, i)
  BY DEF FirstObservationMatched
<1>1. ASSUME NEW c \in Clients, Client(c) PROVE FirstObservationMatched'
  <2>1. UNCHANGED <<history, samples>>
    BY <1>1 DEF Client, BeginWrite, RecordWrite, WriteFails, ClientStops, ClientFails, observerVars, shardVars
  <2>2. \A d \in Clients : \A i \in 1 .. Len(reported[d]) : reported'[d][i] = reported[d][i]
    BY <1>1, RecordFacts
       DEF Client, BeginWrite, WriteFails, ClientStops, ClientFails
  <2>3. \A d \in Clients : \A i \in 1 .. Count(d) : reported'[d][i] = reported[d][i]
    BY <2>2, ShardNumbers
  <2> QED
    BY <1>0, <2>1, <2>3 DEF FirstObservationMatched, Count
<1>2. ASSUME NEW c \in Clients, DrainMatches(c) PROVE FirstObservationMatched'
  <2>1. PICK j \in historyIndex[c] .. Len(history) :
          /\ history[j].sequence >= Front(c).sequence
          /\ \A k \in historyIndex[c] .. (j - 1) : history[k].sequence < Front(c).sequence
          /\ samples'[c] = Append(samples[c], j)
    BY <1>2, MatchFacts
  <2>2. \A k \in 1 .. (j - 1) : history[k].sequence < Front(c).sequence
    <3>1. SearchOK(c) /\ ReportsOK(c)
      BY DEF SearchInv, SearchOK, ClientInv
    <3>2. Count(c) < received[c] /\ j \in historyIndex[c] .. (Len(history) + 1)
      BY <1>2, <2>1, MatchFacts, ShardNumbers, HistoryNumbers
    <3> QED
      BY <2>1, <3>1, <3>2, SearchAdvances
  <2>3. /\ Len(samples'[c]) = Count(c) + 1
        /\ \A i \in 1 .. Count(c) : samples'[c][i] = samples[c][i]
        /\ samples'[c][Count(c) + 1] = j
    BY <2>1 DEF TypeOK, VariablesTyped, Count
  <2>4. j \in DOMAIN history
    <3>1. /\ historyIndex[c] \in Nat /\ historyIndex[c] >= 1
          /\ Len(history) \in Nat
      BY ShardNumbers, HistoryNumbers
    <3>2. DOMAIN history = 1 .. Len(history)
      BY DEF TypeOK, VariablesTyped
    <3> QED
      BY <2>1, <3>1, <3>2
  <2>5. UNCHANGED <<history, reported>>
    BY <1>2, MatchFacts DEF clientVars
  <2>6. ASSUME NEW d \in Clients, NEW i \in Nat, i \in 1 .. Len(samples'[d])
        PROVE  MatchOK(d, i)'
    <3>1. CASE d # c
      <4>1. samples'[d] = samples[d]
        BY <1>2, <3>1, MatchFacts
      <4>2. MatchOK(d, i)
        BY <1>0, <2>6, <4>1 DEF Count
      <4> QED
        BY <2>5, <4>1, <4>2
    <3>2. CASE d = c /\ i = Count(c) + 1
      BY <2>1, <2>2, <2>3, <2>4, <2>5, <3>2 DEF Front
    <3>3. CASE d = c /\ i # Count(c) + 1
      <4>1. i \in 1 .. Count(c)
        BY <2>3, <2>6, <3>3, ShardNumbers
      <4> QED
        BY <1>0, <2>3, <2>5, <3>3, <4>1
    <3> QED
      BY <3>1, <3>2, <3>3
  <2> QED
    BY <2>6 DEF FirstObservationMatched, Count
<1>3. CASE ObserverPushes
  <2>1. UNCHANGED <<reported, samples>>
    BY <1>3 DEF ObserverPushes, shardVars, clientVars
  <2>2. ASSUME NEW d \in Clients, NEW i \in 1 .. Count(d) PROVE MatchOK(d, i)'
    <3>0. /\ history \in Seq(FrontierObservation)
          /\ history' \in Seq(FrontierObservation)
      BY NextTypeOK DEF TypeOK, VariablesTyped
    <3>1. MatchOK(d, i) /\ samples[d][i] \in 1 .. Len(history)
      BY <1>0, <3>0
    <3>2. samples[d][i] \in DOMAIN history'
      BY <1>3, <3>0, <3>1, PushFacts
    <3> QED
      BY <1>3, <2>1, <3>1, <3>2, PushFacts
  <2> QED
    BY <2>1, <2>2 DEF FirstObservationMatched, Count
<1>4. CASE \E c \in Clients : DrainEnds(c)
  BY <1>0, <1>4 DEF DrainEnds, observerVars, clientVars, FirstObservationMatched, Count
<1>5. CASE UNCHANGED <<clientVars, history, historyIndex, samples>>
  BY <1>0, <1>5 DEF clientVars, FirstObservationMatched, Count
<1> QED
  BY <1>1, <1>2, <1>3, <1>4, <1>5, SearchFrame

-----------------------------------------------------------------------------
LEMMA WakeNumbers ==
  ASSUME TypeOK, NEW c \in Clients
  PROVE  /\ seenVersion[c] \in Nat /\ latestSequence[c] \in Nat /\ version \in Nat
BY DEF TypeOK, VariablesTyped

(* The shard itself steps. *)
LEMMA WakeupShardStep ==
  ASSUME TypeOK, ClientInv, SearchInv, WakeupInv, NEW c \in Clients, Shard(c)
  PROVE  WakeOK(c)'
<1> USE WakeNumbers, HistoryNumbers, ShardNumbers
<1>0. /\ WakeOK(c) /\ SearchOK(c) /\ ReportsOK(c)
      /\ UNCHANGED <<version, observerState, history, reported, LatestObservation>>
  BY DEF WakeupInv, SearchInv, ClientInv, Shard, ShardStarts, ShardReceives,
       ShardInputCloses, ShardSeesFrontier, ShardReloads, DrainMatches, DrainEnds,
       ShardReturns, ShardFails, clientVars, observerVars, LatestObservation
<1>1. CASE ShardStarts(c)
  <2>1. /\ latestSequence'[c] = LatestObservation.sequence
        /\ shardState[c] = "start" /\ shardState'[c] = "select"
        /\ UNCHANGED <<received, samples, seenVersion>>
    BY <1>1 DEF ShardStarts, TypeOK, VariablesTyped
  <2>2. received[c] = 0 /\ Count(c) = 0
    BY <1>0, <2>1 DEF WakeOK
  <2>3. PendingEmpty(c)'
    BY <2>1, <2>2 DEF PendingEmpty, Count
  <2> QED
    BY <1>0, <2>1, <2>3 DEF WakeOK
<1>2. CASE ShardReceives(c)
  <2>1. /\ UNCHANGED <<samples, latestSequence, seenVersion>>
        /\ shardState[c] = "select" /\ received'[c] = received[c] + 1
        /\ received[c] < Len(reported[c])
        /\ shardState'[c] = IF reported[c][received[c] + 1].sequence <= latestSequence[c]
                            THEN "covered" ELSE "select"
    BY <1>2 DEF ShardReceives, TypeOK, VariablesTyped
  <2>2. shardState'[c] = "select" => Front(c).sequence > latestSequence[c]
    <3>1. CASE PendingEmpty(c)
      <4>1. Front(c) = reported[c][received[c] + 1]
        BY <3>1 DEF PendingEmpty, Front
      <4>2. received[c] + 1 \in 1 .. Len(reported[c])
        <5>1. PICK n \in Nat, m \in Nat : n = received[c] /\ m = Len(reported[c])
          BY ShardNumbers, Zenon
        <5>2. n < m
          BY <2>1, <5>1, Zenon
        <5>3. n + 1 \in 1 .. m
          BY <5>2
        <5> QED
          BY <5>1, <5>3, Zenon
      <4>3. Front(c).sequence \in Nat /\ latestSequence[c] \in Nat
        BY <4>1, <4>2
      <4>4. shardState'[c] = "select" => ~(Front(c).sequence <= latestSequence[c])
        BY <2>1, <4>1
      <4> QED
        BY <4>3, <4>4
    <3>2. CASE ~PendingEmpty(c)
      BY <1>0, <2>1, <3>2 DEF WakeOK
    <3> QED
      BY <3>1, <3>2
  <2>3. Front(c)' = Front(c)
    BY <1>0, <2>1 DEF Front, Count
  <2> QED
    BY <1>0, <2>1, <2>2, <2>3 DEF WakeOK
<1>3. CASE ShardInputCloses(c)
  BY <1>0, <1>3 DEF ShardInputCloses, WakeOK, PendingEmpty, Front, Count
<1>4. CASE ShardSeesFrontier(c)
  BY <1>0, <1>4 DEF ShardSeesFrontier, WakeOK, TypeOK, VariablesTyped
<1>5. CASE ShardReloads(c)
  <2>1. /\ latestSequence'[c] = LatestObservation.sequence
        /\ shardState'[c] = "covered"
        /\ UNCHANGED <<received, samples, seenVersion>>
    BY <1>5 DEF ShardReloads, TypeOK, VariablesTyped
  <2> QED
    BY <1>0, <2>1 DEF WakeOK
<1>6. CASE DrainMatches(c)
  <2>1. /\ UNCHANGED <<latestSequence, seenVersion, received>>
        /\ shardState[c] \in {"covered", "drain"} /\ shardState'[c] = "drain"
    BY <1>6 DEF DrainMatches, Draining, TypeOK, VariablesTyped
  <2> QED
    BY <1>0, <2>1 DEF WakeOK
<1>7. CASE DrainEnds(c)
  <2>1. /\ UNCHANGED <<latestSequence, seenVersion, received, samples>>
        /\ shardState[c] \in {"covered", "drain"} /\ shardState'[c] = "select"
        /\ ~PendingEmpty(c) => NothingCovers(c, Front(c).sequence)
    BY <1>7 DEF DrainEnds, Draining, TypeOK, VariablesTyped
  <2>2. UNCHANGED <<PendingEmpty(c), Front(c)>>
    BY <1>0, <2>1 DEF PendingEmpty, Front, Count
  <2>3. ASSUME ~PendingEmpty(c)
        PROVE  Front(c).sequence > LatestObservation.sequence /\ Front(c).sequence \in Nat
    <3>1. Count(c) < received[c]
      BY <2>3 DEF PendingEmpty
    <3>2. /\ Len(history) \in 1 .. (historyIndex[c] - 1)
             \/ Len(history) \in historyIndex[c] .. Len(history)
      OBVIOUS
    <3>3. LatestObservation.sequence < Front(c).sequence
      BY <1>0, <2>1, <2>3, <3>1, <3>2, FrontFacts DEF NothingCovers, LatestObservation
    <3> QED
      BY <1>0, <3>1, <3>3, FrontFacts
  <2>4. ~PendingEmpty(c) => Front(c).sequence > latestSequence[c]
    BY <1>0, <2>3 DEF WakeOK
  <2> QED
    BY <1>0, <2>1, <2>2, <2>4 DEF WakeOK
<1>8. CASE ShardReturns(c)
  BY <1>0, <1>8 DEF ShardReturns, WakeOK, TypeOK, VariablesTyped
<1>9. CASE ShardFails(c)
  BY <1>0, <1>9 DEF ShardFails, WakeOK, TypeOK, VariablesTyped
<1> QED
  BY <1>1, <1>2, <1>3, <1>4, <1>5, <1>6, <1>7, <1>8, <1>9 DEF Shard

(* Nothing of a shard's own changes when another shard steps. *)
LEMMA OtherShard ==
  ASSUME TypeOK, NEW c \in Clients, Shard(c), NEW d \in Clients, d # c
  PROVE  /\ shardState'[d] = shardState[d] /\ received'[d] = received[d]
         /\ samples'[d] = samples[d] /\ latestSequence'[d] = latestSequence[d]
         /\ seenVersion'[d] = seenVersion[d] /\ inputClosed'[d] = inputClosed[d]
         /\ UNCHANGED <<clientVars, observerVars, mainVars>>
BY DEF Shard, ShardStarts, ShardReceives, ShardInputCloses, ShardSeesFrontier, ShardReloads,
       DrainMatches, DrainEnds, ShardReturns, ShardFails, TypeOK, VariablesTyped

LEMMA WakeupStep ==
  ASSUME TypeOK, HistoryInv, ClientInv, SearchInv, WakeupInv, [Next]_vars
  PROVE  WakeupInv'
<1> SUFFICES ASSUME NEW d \in Clients PROVE WakeOK(d)'
  BY DEF WakeupInv
<1>0. WakeOK(d) /\ seenVersion[d] \in Nat /\ latestSequence[d] \in Nat /\ version \in Nat
  BY WakeNumbers DEF WakeupInv
<1> USE DEF dbVars, clientVars, observerVars, shardVars, mainVars
<1>1. CASE Database \/ UNCHANGED vars
  BY <1>0, <1>1 DEF Database, DurableAdvances, DatabaseGone, vars, WakeOK, LatestObservation,
       PendingEmpty, Front, Count
<1>2. ASSUME NEW c \in Clients, Client(c) PROVE WakeOK(d)'
  <2>1. UNCHANGED <<observerVars, shardVars>>
    BY <1>2 DEF Client, BeginWrite, RecordWrite, WriteFails, ClientStops, ClientFails
  <2>2. ~PendingEmpty(d) => Front(d)' = Front(d)
    <3>1. SUFFICES ASSUME ~PendingEmpty(d) PROVE Front(d)' = Front(d)
      OBVIOUS
    <3>2. Count(d) + 1 \in 1 .. Len(reported[d])
      BY <3>1, ShardNumbers DEF PendingEmpty
    <3>3. reported'[d] = reported[d] \/ (d = c /\ RecordWrite(c))
      BY <1>2, RecordFacts
       DEF Client, BeginWrite, WriteFails, ClientStops, ClientFails
    <3>4. reported'[d][Count(d) + 1] = reported[d][Count(d) + 1]
      BY <3>2, <3>3, RecordFacts
    <3> QED
      BY <2>1, <3>4 DEF Front, Count
  <2> QED
    BY <1>0, <2>1, <2>2 DEF WakeOK, LatestObservation, PendingEmpty, Count
<1>3. ASSUME NEW c \in Clients, Shard(c) PROVE WakeOK(d)'
  <2>1. CASE d = c
    BY <1>3, <2>1, WakeupShardStep
  <2>2. CASE d # c
    BY <1>0, <1>3, <2>2, OtherShard
       DEF WakeOK, LatestObservation, PendingEmpty, Front, Count
  <2> QED
    BY <2>1, <2>2
<1>4. CASE ObserverPushes
  <2>1. UNCHANGED <<shardVars, reported, version>> /\ observerState' = "bump"
    BY <1>4 DEF ObserverPushes
  <2>2. LatestObservation.sequence <= LatestObservation'.sequence
    BY <1>4, PushFacts, HistoryNumbers DEF HistoryInv, LatestObservation
  <2>3. LatestObservation'.sequence \in Nat
    BY <1>4, PushFacts, HistoryNumbers
  <2>4. latestSequence'[d] <= LatestObservation'.sequence
    BY <1>0, <2>1, <2>2, <2>3, HistoryNumbers DEF WakeOK
  <2> QED
    BY <1>0, <2>1, <2>4 DEF WakeOK, PendingEmpty, Front, Count
<1>5. CASE ObserverBumps
  BY <1>0, <1>5 DEF ObserverBumps, WakeOK, LatestObservation, PendingEmpty, Front, Count
<1>6. CASE Observer /\ ~ObserverPushes /\ ~ObserverBumps
  BY <1>0, <1>6 DEF Observer, ObserverStarts, ObserverWakes, Stamp, ObserverReads,
       ObserverStops, ObserverFails, WakeOK, LatestObservation, PendingEmpty, Front, Count
<1>7. CASE ClientsFail \/ FlushFails \/ JoinFails
  <2>1. /\ UNCHANGED <<clientVars, history, version, received, samples, latestSequence,
                       seenVersion>>
        /\ shardState'[d] \in {"aborted", "ok", "failed"}
    BY <1>7 DEF ClientsFail, FlushFails, Abort, JoinFails
  <2> QED
    BY <1>0, <2>1 DEF WakeOK, LatestObservation
<1>8. CASE Execute /\ ~ClientsFail /\ ~FlushFails /\ ~JoinFails
  BY <1>0, <1>8 DEF Execute, ClientsJoined, ClientsFail, FlushSucceeds, ShardsJoined, Reconciles,
       ObserverJoinFails, WakeOK, LatestObservation, PendingEmpty, Front, Count
<1> QED
  BY <1>1, <1>2, <1>3, <1>4, <1>5, <1>6, <1>7, <1>8 DEF Next, Returned

-----------------------------------------------------------------------------
(* The phase invariant of one client and its shard. *)
JoinOK(c) ==
  /\ phase \notin {"clients", "failed"} => clientState[c] = "stopped"
  /\ inputClosed[c] => ClientEnded(c) /\ received[c] = Len(reported[c])
  /\ shardState[c] = "ok" => inputClosed[c] /\ PendingEmpty(c)
  /\ phase \in {"stopping", "done"} => shardState[c] = "ok"

LEMMA JoinStep ==
  ASSUME TypeOK, PhaseInv, [Next]_vars, NEW d \in Clients
  PROVE  JoinOK(d)'
<1>0. JoinOK(d)
  BY DEF PhaseInv, JoinOK
<1> USE DEF dbVars, clientVars, observerVars, shardVars, mainVars
<1>1. CASE Database \/ UNCHANGED vars
  BY <1>0, <1>1 DEF Database, DurableAdvances, DatabaseGone, vars, JoinOK, ClientEnded, PendingEmpty, Count
<1>2. ASSUME NEW c \in Clients, Client(c) PROVE JoinOK(d)'
  <2>1. UNCHANGED <<shardVars, mainVars>> /\ phase = "clients"
    BY <1>2 DEF Client, BeginWrite, RecordWrite, WriteFails, ClientStops, ClientFails
  <2>2. \/ UNCHANGED <<clientState[d], reported[d]>>
        \/ clientState[d] \in {"idle", "writing"}
    BY <1>2 DEF Client, BeginWrite, RecordWrite, WriteFails, ClientStops, ClientFails, TypeOK, VariablesTyped
  <2> QED
    BY <1>0, <2>1, <2>2 DEF JoinOK, ClientEnded, PendingEmpty, Count
<1>3. ASSUME NEW c \in Clients, Shard(c) PROVE JoinOK(d)'
  <2>1. CASE d # c
    BY <1>0, <1>3, <2>1, OtherShard DEF JoinOK, ClientEnded, PendingEmpty, Count
  <2>2. CASE d = c
    <3>1. UNCHANGED <<clientVars, mainVars>>
      BY <1>3 DEF Shard, ShardStarts, ShardReceives, ShardInputCloses, ShardSeesFrontier,
           ShardReloads, DrainMatches, DrainEnds, ShardReturns, ShardFails
    <3>2. shardState[d] \notin {"ok", "failed", "aborted"}
      BY <1>3, <2>2 DEF Shard, ShardStarts, ShardReceives, ShardInputCloses,
           ShardSeesFrontier, ShardReloads, DrainMatches, DrainEnds, Draining, ShardReturns,
           ShardFails
    <3>3. inputClosed'[d] => ClientEnded(d) /\ received'[d] = Len(reported[d])
      <4>1. CASE ShardReceives(c)
        BY <2>2, <4>1 DEF ShardReceives, TypeOK, VariablesTyped
      <4>2. CASE ShardInputCloses(c)
        BY <2>2, <4>2 DEF ShardInputCloses, TypeOK, VariablesTyped
      <4>3. CASE ~ShardReceives(c) /\ ~ShardInputCloses(c)
        BY <1>0, <1>3, <4>3 DEF JoinOK, Shard, ShardStarts, ShardSeesFrontier, ShardReloads,
             DrainMatches, DrainEnds, ShardReturns, ShardFails
      <4> QED
        BY <4>1, <4>2, <4>3
    <3>4. shardState'[d] = "ok" => inputClosed'[d] /\ PendingEmpty(d)'
      <4>1. CASE ShardReturns(c)
        BY <2>2, <4>1 DEF ShardReturns, ShardFinished, PendingEmpty, Count
      <4>2. CASE ~ShardReturns(c)
        BY <1>3, <2>2, <4>2 DEF Shard, ShardStarts, ShardReceives, ShardInputCloses,
             ShardSeesFrontier, ShardReloads, DrainMatches, DrainEnds, ShardFails,
             TypeOK, VariablesTyped
      <4> QED
        BY <4>1, <4>2
    <3> QED
      BY <1>0, <3>1, <3>2, <3>3, <3>4 DEF JoinOK, ClientEnded, clientVars, mainVars
  <2> QED
    BY <2>1, <2>2
<1>4. CASE Observer
  BY <1>0, <1>4 DEF Observer, ObserverStarts, ObserverWakes, ObserverReads, ObserverPushes,
       ObserverBumps, ObserverStops, ObserverFails, JoinOK, ClientEnded, PendingEmpty, Count
<1>5. CASE Execute
  <2>1. UNCHANGED <<clientVars, received, samples, inputClosed>>
    BY <1>5 DEF Execute, ClientsJoined, ClientsFail, FlushSucceeds, FlushFails, Abort, ShardsJoined,
         JoinFails, Reconciles, ObserverJoinFails
  <2>2. phase' \notin {"clients", "failed"} => clientState[d] = "stopped"
    BY <1>0, <1>5 DEF JoinOK, Execute, ClientsJoined, ClientsFail, FlushSucceeds, FlushFails, Abort,
         ShardsJoined, JoinFails, Reconciles, ObserverJoinFails
  <2>3. /\ shardState'[d] = "ok" => shardState[d] = "ok"
        /\ phase' \in {"stopping", "done"} => shardState'[d] = "ok"
    BY <1>0, <1>5 DEF JoinOK, Execute, ClientsJoined, ClientsFail, FlushSucceeds, FlushFails, Abort,
         ShardsJoined, JoinFails, Reconciles, ObserverJoinFails
  <2> QED
    BY <1>0, <2>1, <2>2, <2>3 DEF JoinOK, ClientEnded, PendingEmpty, Count
<1> QED
  BY <1>1, <1>2, <1>3, <1>4, <1>5 DEF Next, Returned

(* The counts and the final frontier always reconcile: execute finds every   *)
(* report sampled, and the last one sampled from what the observer returns.  *)
LEMMA ReconcileStep ==
  ASSUME TypeOK, FirstObservationMatched, HistoryInv, ClientInv, PhaseInv, Reconciles
  PROVE  CountsReconcile /\ FrontierCovers
<1>1. ASSUME NEW c \in Clients PROVE Count(c) = writes[c] /\ lastWrite[c] <= observed
  <2>1. shardState[c] = "ok" /\ inputClosed[c] /\ PendingEmpty(c)
    BY DEF PhaseInv, Reconciles
  <2>2. ReportsOK(c) /\ Count(c) = Len(reported[c])
    BY <2>1 DEF ClientInv, PhaseInv, PendingEmpty
  <2>3. CASE reported[c] = <<>>
    BY <2>2, <2>3, HistoryNumbers DEF ReportsOK
  <2>4. CASE reported[c] # <<>>
    <3>1. Len(reported[c]) \in 1 .. Count(c)
      BY <2>2, <2>4 DEF TypeOK, VariablesTyped
    <3>2. /\ samples[c][Count(c)] \in 1 .. Len(history)
          /\ history[samples[c][Count(c)]].sequence >= reported[c][Count(c)].sequence
      <4>1. Count(c) \in 1 .. Count(c)
        BY <2>2, <3>1
      <4>2. DOMAIN history = 1 .. Len(history)
        BY DEF TypeOK, VariablesTyped
      <4> QED
        BY <4>1, <4>2 DEF FirstObservationMatched
    <3>3. /\ history[samples[c][Count(c)]].sequence <= observed
          /\ history[samples[c][Count(c)]].sequence \in Nat
      BY <3>2, HistoryNumbers DEF HistoryInv
    <3>4. reported[c][Count(c)].sequence = lastWrite[c] /\ lastWrite[c] \in Nat
      BY <2>2, <2>4 DEF ReportsOK, TypeOK, VariablesTyped
    <3> QED
      BY <2>2, <3>2, <3>3, <3>4, HistoryNumbers DEF ReportsOK
  <2> QED
    BY <2>3, <2>4
<1>2. [c \in Clients |-> Count(c)] = writes
  BY <1>1 DEF TypeOK, VariablesTyped
<1> QED
  BY <1>1, <1>2 DEF CountsReconcile, FrontierCovers

LEMMA PhaseStep ==
  ASSUME TypeOK, FirstObservationMatched, HistoryInv, ClientInv, PhaseInv, NeverMismatches,
         [Next]_vars
  PROVE  PhaseInv' /\ NeverMismatches'
<1>1. \A c \in Clients : JoinOK(c)'
  BY JoinStep
<1>2. phase' # "mismatch" /\ (phase' = "done" => FrontierCovers' /\ NoErrors')
  <2>1. CASE Reconciles
    BY <2>1, ReconcileStep DEF Reconciles, FrontierCovers, NoErrors, clientVars, observerVars
  <2>2. CASE Returned \/ UNCHANGED vars
    BY <2>2 DEF Returned, vars, clientVars, observerVars, mainVars, PhaseInv, NeverMismatches,
         FrontierCovers, NoErrors
  <2>3. CASE Next /\ ~Reconciles /\ ~Returned
    <3>1. \/ UNCHANGED phase /\ phase \notin Outcomes
          \/ phase' \notin {"done", "mismatch"}
      BY <2>3 DEF Next, Running, Database, DurableAdvances, DatabaseGone, Client, BeginWrite,
           RecordWrite, WriteFails, ClientStops, ClientFails, Shard, ShardStarts, ShardReceives, ShardInputCloses,
           ShardSeesFrontier, ShardReloads, DrainMatches, DrainEnds, ShardReturns, ShardFails,
           Observer, ObserverStarts, ObserverWakes, ObserverReads, ObserverPushes,
           ObserverBumps, ObserverStops, ObserverFails, Execute, ClientsJoined, ClientsFail, FlushSucceeds,
           FlushFails, Abort, ShardsJoined, JoinFails, ObserverJoinFails, mainVars
    <3> QED
      BY <3>1 DEF Outcomes
  <2> QED
    BY <2>1, <2>2, <2>3
<1> QED
  BY <1>1, <1>2 DEF PhaseInv, JoinOK, NeverMismatches

-----------------------------------------------------------------------------
LEMMA InitInv == Init => Inv
<1> SUFFICES ASSUME Init PROVE Inv
  OBVIOUS
<1>1. TypeOK
  BY InitTypeOK
<1>2. LatestObservation.sequence = 0 /\ Len(history) = 1 /\ history[1].sequence = 0
  BY DEF Init, LatestObservation
<1>3. HistoryInv
  BY <1>2 DEF Init, HistoryInv
<1>4. ClientInv
  BY DEF Init, ClientInv, ReportsOK, HandedOut
<1>5. SearchInv /\ FirstObservationMatched
  BY DEF Init, SearchInv, SearchOK, FirstObservationMatched, Count
<1>6. WakeupInv
  BY <1>2 DEF Init, WakeupInv, WakeOK, PendingEmpty, Count
<1>7. PhaseInv /\ NeverMismatches
  BY DEF Init, PhaseInv, NeverMismatches
<1> QED
  BY <1>1, <1>3, <1>4, <1>5, <1>6, <1>7 DEF Inv

LEMMA NextInv == Inv /\ [Next]_vars => Inv'
<1> SUFFICES ASSUME Inv, [Next]_vars PROVE Inv'
  OBVIOUS
<1> QED
  BY NextTypeOK, HistoryStep, ClientStep, SearchStep, FirstObservationStep, WakeupStep,
     PhaseStep DEF Inv

THEOREM Invariance == Spec => []Inv
BY InitInv, NextInv, PTL DEF Spec

(* Every durable latency is measured to the first observation that covers   *)
(* its write, for any number of clients and writes in any interleaving.     *)
THEOREM FirstObservation == Spec => []FirstObservationMatched
<1>1. Inv => FirstObservationMatched
  BY DEF Inv
<1> QED
  BY <1>1, Invariance, PTL

(* A waiting shard has left no covered write behind.                        *)
THEOREM WakeupsKept == Spec => []NoLostWakeup
<1>1. Inv => NoLostWakeup
  BY DEF Inv, WakeupInv, WakeOK, NoLostWakeup
<1> QED
  BY <1>1, Invariance, PTL

(* The two checks execute makes on the tracker's result never fail.         *)
THEOREM Reconciliation == Spec => []NeverMismatches
<1>1. Inv => NeverMismatches
  BY DEF Inv
<1> QED
  BY <1>1, Invariance, PTL

(* A successful run has sampled every sequence number it was handed, and    *)
(* all of them are durable.                                                 *)
THEOREM Coverage == Spec => []SuccessMeansCovered
<1>1. ASSUME Inv, phase = "done" PROVE
        /\ durable = assigned
        /\ \A s \in 1 .. assigned :
             \E c \in Clients : \E i \in 1 .. Count(c) : reported[c][i].sequence = s
  <2>1. ASSUME NEW s \in 1 .. assigned
        PROVE  \E c \in Clients : \E i \in 1 .. Count(c) : reported[c][i].sequence = s
    <3>0. ~Lost
      BY <1>1 DEF Inv, PhaseInv, NoErrors, Lost
    <3>1. PICK c \in Clients : \/ sequence[c] = s
                              \/ \E i \in 1 .. Len(reported[c]) : reported[c][i].sequence = s
      BY <1>1, <3>0 DEF Inv, ClientInv, HandedOut
    <3>2. clientState[c] = "stopped" /\ Count(c) = Len(reported[c])
      BY <1>1 DEF Inv, PhaseInv, PendingEmpty
    <3>3. sequence[c] = 0
      BY <1>1, <3>2 DEF Inv, ClientInv, ReportsOK
    <3> QED
      BY <1>1, <3>1, <3>2, <3>3, HistoryNumbers DEF Inv
  <2>2. assigned # 0 => assigned <= observed
    <3>1. SUFFICES ASSUME assigned # 0 PROVE assigned <= observed
      OBVIOUS
    <3>2. assigned \in 1 .. assigned
      BY <1>1, <3>1, HistoryNumbers DEF Inv
    <3>3. PICK c \in Clients : \E i \in 1 .. Count(c) : reported[c][i].sequence = assigned
      BY <2>1, <3>2
    <3>4. Count(c) = Len(reported[c])
      BY <1>1 DEF Inv, PhaseInv, PendingEmpty
    <3>5. assigned <= lastWrite[c]
      BY <1>1, <3>3, <3>4 DEF Inv, ClientInv, ReportsOK
    <3>6. lastWrite[c] <= observed /\ lastWrite[c] \in Nat
      BY <1>1 DEF Inv, PhaseInv, FrontierCovers, TypeOK, VariablesTyped
    <3> QED
      BY <1>1, <3>5, <3>6, HistoryNumbers DEF Inv
  <2>3. observed <= durable /\ durable <= assigned
    BY <1>1, HistoryNumbers DEF Inv, HistoryInv
  <2> QED
    BY <1>1, <2>1, <2>2, <2>3, HistoryNumbers DEF Inv
<1>2. Inv => SuccessMeansCovered
  BY <1>1 DEF SuccessMeansCovered
<1> QED
  BY <1>2, Invariance, PTL

-----------------------------------------------------------------------------
(* The refinement.  A sequence number belongs to one client, and to one of  *)
(* its writes: what a shard samples is a write no shard has sampled.        *)

Own(c, s) ==
  \/ sequence[c] = s
  \/ \E i \in 1 .. Len(reported[c]) : reported[c][i].sequence = s

NumbersInv ==
  /\ assigned <= MaxSequence
  /\ \A s \in Nat \ {0} : \A c, d \in Clients : Own(c, s) /\ Own(d, s) => c = d

LEMMA OwnAssigned ==
  ASSUME TypeOK, ClientInv, NEW c \in Clients, NEW s \in Nat \ {0}, Own(c, s)
  PROVE  s <= assigned
<1>1. ReportsOK(c) /\ assigned \in Nat
  BY HistoryNumbers DEF ClientInv
<1>2. CASE sequence[c] = s
  BY <1>1, <1>2 DEF ReportsOK
<1>3. CASE \E i \in 1 .. Len(reported[c]) : reported[c][i].sequence = s
  BY <1>1, <1>3 DEF ReportsOK
<1> QED
  BY <1>2, <1>3 DEF Own

LEMMA NumbersStep ==
  ASSUME TypeOK, ClientInv, NumbersInv, [Next]_vars
  PROVE  NumbersInv'
<1>0. assigned \in Nat /\ \A c \in Clients : Len(reported[c]) \in Nat
  BY HistoryNumbers, ShardNumbers
<1>1. ASSUME NEW c \in Clients, BeginWrite(c) PROVE NumbersInv'
  <2>1. /\ assigned < MaxSequence /\ assigned' = assigned + 1
        /\ reported' = reported /\ sequence'[c] = assigned + 1
        /\ \A d \in Clients : d # c => sequence'[d] = sequence[d]
    BY <1>1 DEF BeginWrite, TypeOK, VariablesTyped
  <2>2. assigned' <= MaxSequence
    BY <1>0, <2>1
  <2>3. ASSUME NEW s \in Nat \ {0}, NEW d \in Clients, Own(d, s)'
        PROVE  Own(d, s) \/ (d = c /\ s = assigned + 1)
    BY <2>1, <2>3 DEF Own
  <2>4. ASSUME NEW s \in Nat \ {0}, NEW d \in Clients, Own(d, s)
        PROVE  s # assigned + 1
    BY <1>0, <2>4, OwnAssigned
  <2>5. ASSUME NEW s \in Nat \ {0}, NEW d \in Clients, NEW e \in Clients,
               Own(d, s)', Own(e, s)'
        PROVE  d = e
    <3>1. \/ Own(d, s) /\ Own(e, s)
          \/ d = c /\ e = c
      BY <2>3, <2>4, <2>5, Zenon
    <3> QED
      BY <3>1, Zenon DEF NumbersInv
  <2> QED
    BY <2>2, <2>5, Zenon DEF NumbersInv
<1>2. ASSUME NEW c \in Clients, RecordWrite(c) PROVE NumbersInv'
  <2>1. /\ assigned' = assigned /\ sequence'[c] = 0
        /\ \A d \in Clients : d # c => sequence'[d] = sequence[d]
    BY <1>2 DEF RecordWrite, TypeOK, VariablesTyped, dbVars
  <2>2. ASSUME NEW s \in Nat \ {0}, NEW d \in Clients, Own(d, s)' PROVE Own(d, s)
    <3>1. CASE d # c
      <4>1. reported'[d] = reported[d] /\ sequence'[d] = sequence[d]
        BY <1>2, <2>1, <3>1, RecordFacts
      <4> QED
        BY <2>2, <4>1, Zenon DEF Own
    <3>2. CASE d = c
      <4>1. PICK i \in 1 .. Len(reported'[c]) : reported'[c][i].sequence = s
        BY <2>1, <2>2, <3>2 DEF Own
      <4>2. CASE i \in 1 .. Len(reported[c])
        BY <1>2, <3>2, <4>1, <4>2, RecordFacts, Zenon DEF Own
      <4>3. CASE i = Len(reported[c]) + 1
        BY <1>2, <3>2, <4>1, <4>3, RecordFacts, Zenon DEF Own
      <4>4. Len(reported'[c]) = Len(reported[c]) + 1
        BY <1>2, RecordFacts
      <4> QED
        BY <1>0, <4>1, <4>2, <4>3, <4>4
    <3> QED
      BY <3>1, <3>2
  <2> QED
    BY <2>1, <2>2, Zenon DEF NumbersInv
<1>3. CASE UNCHANGED <<assigned, sequence, reported>>
  BY <1>3 DEF NumbersInv, Own
<1>4. ASSUME NEW c \in Clients, ClientStops(c)
      PROVE  UNCHANGED <<assigned, sequence, reported>>
  BY <1>4 DEF ClientStops, dbVars
<1>5. ASSUME NEW c \in Clients, WriteFails(c) \/ ClientFails(c) PROVE NumbersInv'
  <2>1. /\ UNCHANGED <<assigned, reported>> /\ sequence'[c] = 0
        /\ \A d \in Clients : d # c => sequence'[d] = sequence[d]
    BY <1>5 DEF WriteFails, ClientFails, TypeOK, VariablesTyped, dbVars
  <2>2. ASSUME NEW s \in Nat \ {0}, NEW d \in Clients, Own(d, s)' PROVE Own(d, s)
    BY <2>1, <2>2 DEF Own
  <2> QED
    BY <2>1, <2>2, Zenon DEF NumbersInv
<1> QED
  BY <1>1, <1>2, <1>3, <1>4, <1>5, ClientFrame DEF Client, clientVars

ContractInv == Inv /\ NumbersInv

LEMMA NumbersInvariance == Spec => []ContractInv
<1>1. Init => ContractInv
  <2>1. Init => NumbersInv
    BY DEF Init, NumbersInv, Own
  <2> QED
    BY <2>1, InitInv DEF ContractInv
<1>2. ContractInv /\ [Next]_vars => ContractInv'
  BY NextInv, NumbersStep DEF ContractInv, Inv
<1> QED
  BY <1>1, <1>2, PTL DEF Spec

(* The mapping, with names of its own. *)
Accepted == UNION {Sequences(c, Len(reported[c])) : c \in Clients}
Sampled == UNION {Sequences(c, Count(c)) : c \in Clients}
Outcome == CASE phase = "done" -> "covered"
             [] phase \in {"mismatch", "failed"} -> "failed"
             [] phase = "clients" -> "measuring"
             [] OTHER -> "draining"

LEMMA AcceptedFacts == \A s : s \in Accepted <=>
  \E c \in Clients : \E i \in 1 .. Len(reported[c]) : reported[c][i].sequence = s
BY DEF Accepted, Sequences

LEMMA SampledFacts == \A s : s \in Sampled <=>
  \E c \in Clients : \E i \in 1 .. Count(c) : reported[c][i].sequence = s
BY DEF Sampled, Sequences

LEMMA OutcomeFacts ==
  /\ phase = "done" => Outcome = "covered"
  /\ phase \in {"mismatch", "failed"} => Outcome = "failed"
  /\ phase = "clients" => Outcome = "measuring"
  /\ phase \in {"flush", "joining", "stopping"} => Outcome = "draining"
BY DEF Outcome

(* A client's write returns: the contract accepts it. *)
LEMMA AcceptStep ==
  ASSUME ContractInv, NEW c \in Clients, RecordWrite(c)
  PROVE  Contract!Next
<1>1. TypeOK /\ ReportsOK(c)
  BY DEF ContractInv, Inv, ClientInv
<1>2. PICK s : s = sequence[c]
  OBVIOUS
<1>3. phase = "clients" /\ clientState[c] = "writing"
      /\ UNCHANGED <<durable, phase, samples>>
  BY DEF RecordWrite, dbVars, shardVars, mainVars
<1>4. s \in 1 .. MaxSequence /\ s \in Nat \ {0}
  <2>1. s \in 1 .. assigned
    BY <1>1, <1>2, <1>3 DEF ReportsOK
  <2>2. assigned \in Nat /\ assigned <= MaxSequence
    BY <1>1, HistoryNumbers DEF ContractInv, NumbersInv
  <2> QED
    BY <2>1, <2>2
<1>5. ASSUME s \in Accepted PROVE FALSE
  <2>1. PICK d \in Clients, i \in Nat :
          i \in 1 .. Len(reported[d]) /\ reported[d][i].sequence = s
    BY <1>5, AcceptedFacts
  <2>2. Own(c, s) /\ Own(d, s)
    BY <1>2, <2>1 DEF Own
  <2>3. d = c
    BY <1>4, <2>2, Zenon DEF ContractInv, NumbersInv
  <2>4. reported[c][i].sequence < sequence[c] /\ sequence[c] \in Nat
    BY <1>1, <1>3, <2>1, <2>3, ShardNumbers DEF ReportsOK
  <2> QED
    BY <1>2, <2>1, <2>3, <2>4
<1>6. /\ Len(reported[c]) \in Nat /\ Len(reported'[c]) = Len(reported[c]) + 1
      /\ \A i \in 1 .. Len(reported[c]) : reported'[c][i] = reported[c][i]
      /\ reported'[c][Len(reported[c]) + 1].sequence = s
      /\ \A d \in Clients : d # c => reported'[d] = reported[d]
  BY <1>1, <1>2, RecordFacts, ShardNumbers
<1>7. Accepted' = Accepted \union {s}
  <2>1. ASSUME NEW e, e \in Accepted PROVE e \in Accepted'
    <3>1. PICK d \in Clients, i \in Nat :
            i \in 1 .. Len(reported[d]) /\ reported[d][i].sequence = e
      BY <2>1, AcceptedFacts
    <3>2. CASE d # c
      BY <1>6, <3>1, <3>2 DEF Accepted, Sequences
    <3>3. CASE d = c
      <4>1. i \in 1 .. Len(reported'[c]) /\ reported'[c][i].sequence = e
        BY <1>6, <3>1, <3>3
      <4> QED
        BY <4>1 DEF Accepted, Sequences
    <3> QED
      BY <3>2, <3>3
  <2>2. s \in Accepted'
    <3>1. Len(reported[c]) + 1 \in 1 .. Len(reported'[c])
      BY <1>6
    <3> QED
      BY <1>6, <3>1 DEF Accepted, Sequences
  <2>3. ASSUME NEW e, e \in Accepted' PROVE e \in Accepted \/ e = s
    <3>1. PICK d \in Clients, i \in Nat :
            i \in 1 .. Len(reported'[d]) /\ reported'[d][i].sequence = e
      BY <2>3 DEF Accepted, Sequences
    <3>2. CASE d # c
      BY <1>6, <3>1, <3>2, AcceptedFacts
    <3>3. CASE d = c /\ i \in 1 .. Len(reported[c])
      BY <1>6, <3>1, <3>3, AcceptedFacts
    <3>4. CASE d = c /\ i = Len(reported[c]) + 1
      BY <1>6, <3>1, <3>4
    <3> QED
      BY <1>6, <3>1, <3>2, <3>3, <3>4
  <2> QED
    BY <2>1, <2>2, <2>3
<1>8. Sampled' = Sampled
  <2>1. ASSUME NEW d \in Clients, NEW i \in 1 .. Count(d)
        PROVE  reported'[d][i] = reported[d][i]
    <3>1. /\ Count(d) \in Nat /\ received[d] \in Nat /\ Len(reported[d]) \in Nat
          /\ Count(d) <= received[d] /\ received[d] <= Len(reported[d])
      BY <1>1, ShardNumbers
    <3>2. i \in 1 .. Len(reported[d])
      BY <3>1
    <3> QED
      BY <1>6, <3>2
  <2>2. \A d \in Clients : Count(d)' = Count(d)
    BY <1>3 DEF Count
  <2>3. ASSUME NEW d \in Clients PROVE Sequences(d, Count(d))' = Sequences(d, Count(d))
    BY <2>1, <2>2 DEF Sequences
  <2> QED
    BY <2>3 DEF Sampled
<1>9. Outcome = "measuring" /\ Outcome' = Outcome
  BY <1>3, OutcomeFacts DEF Outcome
<1> QED
  BY <1>3, <1>4, <1>5, <1>7, <1>8, <1>9
     DEF Contract!Next, Contract!Accept, Accepted, Sampled, Outcome

(* A shard's match: the contract samples a write that is durable and that   *)
(* no shard has sampled.                                                    *)
LEMMA SampleStep ==
  ASSUME ContractInv, NEW c \in Clients, DrainMatches(c), Running
  PROVE  Contract!Next
<1>1. /\ TypeOK /\ ReportsOK(c) /\ SearchOK(c) /\ HistoryInv
      /\ Count(c) < received[c]
  BY MatchFacts DEF ContractInv, Inv, ClientInv, SearchInv
<1>2. PICK s : s = Front(c).sequence
  OBVIOUS
<1>3. /\ Count(c) \in Nat /\ Count(c) + 1 \in 1 .. Len(reported[c]) /\ s \in Nat
      /\ reported[c][Count(c) + 1].sequence = s
  BY <1>1, <1>2, FrontFacts, ShardNumbers DEF Front
<1>4. s \in Accepted /\ s \in Nat \ {0}
  <2>1. s \in 1 .. assigned
    BY <1>1, <1>3 DEF ReportsOK
  <2> QED
    BY <1>3, <2>1, AcceptedFacts
<1>5. PICK j \in historyIndex[c] .. Len(history) :
        history[j].sequence >= s /\ samples'[c] = Append(samples[c], j)
  BY <1>1, <1>2, MatchFacts
<1>6. s <= durable
  <2>1. j \in 1 .. Len(history)
    <3>1. /\ historyIndex[c] \in Nat /\ historyIndex[c] >= 1
          /\ Len(history) \in Nat
      BY <1>1, ShardNumbers, HistoryNumbers
    <3> QED
      BY <1>5, <3>1
  <2>2. /\ history[j].sequence \in Nat /\ history[j].sequence <= observed
        /\ observed \in Nat /\ observed <= durable /\ durable \in Nat
    BY <1>1, <2>1, HistoryNumbers DEF HistoryInv
  <2> QED
    <3>1. PICK h \in Nat : h = history[j].sequence
      BY <2>2
    <3>2. s <= h
      BY <1>3, <1>5, <3>1
    <3>3. PICK o \in Nat, f \in Nat : o = observed /\ f = durable
      BY <2>2, Zenon
    <3>4. h <= o /\ o <= f
      BY <2>2, <3>1, <3>3, Zenon
    <3>5. s <= f
      BY <1>3, <3>2, <3>4
    <3> QED
      BY <3>3, <3>5, Zenon
<1>7. ASSUME s \in Sampled PROVE FALSE
  <2>1. PICK d \in Clients, i \in Nat :
          i \in 1 .. Count(d) /\ reported[d][i].sequence = s
    BY <1>7, SampledFacts
  <2>2. i \in 1 .. Len(reported[d])
    <3>1. /\ Count(d) \in Nat /\ received[d] \in Nat /\ Len(reported[d]) \in Nat
          /\ Count(d) <= received[d] /\ received[d] <= Len(reported[d])
      BY <1>1, ShardNumbers
    <3>2. Count(d) <= Len(reported[d])
      BY <3>1
    <3> QED
      BY <2>1, <3>1, <3>2
  <2>3. Own(c, s) /\ Own(d, s)
    BY <1>3, <2>1, <2>2 DEF Own
  <2>4. d = c
    BY <1>4, <2>3, Zenon DEF ContractInv, NumbersInv
  <2>5. i \in 1 .. ((Count(c) + 1) - 1)
    BY <1>3, <2>1, <2>4
  <2>6. reported[c][i].sequence < reported[c][Count(c) + 1].sequence
    BY <1>1, <1>3, <2>5 DEF ReportsOK
  <2> QED
    <3>1. s < s
      BY <1>3, <2>1, <2>4, <2>6, Zenon
    <3> QED
      BY <1>3, <3>1
<1>8. /\ UNCHANGED <<reported, durable, phase>>
      /\ \A d \in Clients : d # c => samples'[d] = samples[d]
      /\ Len(samples'[c]) = Count(c) + 1
  <2>1. UNCHANGED <<reported, durable, phase>>
    BY DEF DrainMatches, clientVars, dbVars, mainVars
  <2>2. samples[c] \in Seq(Nat)
    BY <1>1 DEF TypeOK, VariablesTyped
  <2>3. j \in Nat
    BY <1>1, ShardNumbers, HistoryNumbers
  <2> QED
    BY <1>1, <1>5, <2>1, <2>2, <2>3, MatchFacts, AppendFacts DEF Count
<1>9. Sampled' = Sampled \union {s}
  <2>1. /\ Count(c)' = Count(c) + 1
        /\ \A d \in Clients : d # c => Count(d)' = Count(d)
    BY <1>8 DEF Count
  <2>2. ASSUME NEW d \in Clients, d # c
        PROVE  Sequences(d, Count(d))' = Sequences(d, Count(d))
    BY <1>8, <2>1, <2>2 DEF Sequences
  <2>3. Sequences(c, Count(c))' = Sequences(c, Count(c)) \union {s}
    <3>1. \A i : i \in 1 .. (Count(c) + 1) <=> i \in 1 .. Count(c) \/ i = Count(c) + 1
      <4>1. PICK n \in Nat : n = Count(c)
        BY <1>3, Zenon
      <4>2. \A i : i \in 1 .. (n + 1) <=> i \in 1 .. n \/ i = n + 1
        OBVIOUS
      <4> QED
        BY <4>1, <4>2, Zenon
    <3> QED
      BY <1>3, <1>8, <2>1, <3>1 DEF Sequences
  <2> QED
    BY <2>2, <2>3 DEF Sampled
<1>10. Accepted' = Accepted /\ Outcome' = Outcome
  BY <1>8 DEF Accepted, Sequences, Outcome
<1>11. Outcome \in {"measuring", "draining"}
  BY <1>1, OutcomeFacts DEF TypeOK, VariablesTyped, Running, Outcomes
<1> QED
  BY <1>4, <1>6, <1>7, <1>8, <1>9, <1>10, <1>11
     DEF Contract!Next, Contract!Sample, Accepted, Sampled, Outcome

(* Success: every shard has sampled all that its client reported. *)
LEMMA CoverStep ==
  ASSUME ContractInv, Reconciles
  PROVE  Contract!Next
<1>1. /\ phase = "stopping" /\ phase' \in {"done", "mismatch", "failed"}
      /\ UNCHANGED <<durable, reported, samples>>
  BY DEF Reconciles, dbVars, clientVars, shardVars
<1>2. Accepted' = Accepted /\ Sampled' = Sampled
  BY <1>1 DEF Accepted, Sampled, Sequences, Count
<1>3. Sampled = Accepted
  <2>1. ASSUME NEW c \in Clients PROVE Count(c) = Len(reported[c])
    BY <1>1 DEF ContractInv, Inv, PhaseInv, PendingEmpty
  <2> QED
    BY <2>1 DEF Sampled, Accepted
<1>4. Outcome = "draining"
  BY <1>1, OutcomeFacts
<1>5. CASE phase' = "done"
  <2>1. Outcome' = "covered"
    BY <1>5 DEF Outcome
  <2> QED
    BY <1>1, <1>2, <1>3, <1>4, <2>1
       DEF Contract!Next, Contract!Cover, Accepted, Sampled, Outcome
<1>6. CASE phase' \in {"mismatch", "failed"}
  <2>1. Outcome' = "failed"
    BY <1>6 DEF Outcome
  <2> QED
    BY <1>1, <1>2, <1>4, <2>1
       DEF Contract!Next, Contract!Fail, Accepted, Sampled, Outcome
<1> QED
  BY <1>1, <1>5, <1>6

(* What the contract does not see. *)
LEMMA HiddenStep ==
  ASSUME UNCHANGED <<durable, reported, samples>>, Outcome' = Outcome
  PROVE  UNCHANGED Contract!vars
BY DEF Contract!vars, Accepted, Sampled, Sequences, Count, Outcome

(* The phases of execute that the contract sees. *)
LEMMA PhaseStepImplements ==
  ASSUME ContractInv, Execute
  PROVE  [Contract!Next]_(Contract!vars)
<1>1. CASE Reconciles
  BY <1>1, CoverStep
<1>2. CASE FlushSucceeds \/ ShardsJoined
  <2>1. UNCHANGED <<durable, reported, samples>> /\ Outcome' = Outcome
    BY <1>2 DEF FlushSucceeds, ShardsJoined, dbVars, clientVars, shardVars, Outcome
  <2> QED
    BY <2>1, HiddenStep
<1>3. CASE ClientsJoined
  <2>1. /\ UNCHANGED <<durable, reported, samples>>
        /\ Outcome = "measuring" /\ Outcome' = "draining"
    BY <1>3 DEF ClientsJoined, dbVars, clientVars, shardVars, Outcome
  <2>2. Accepted' = Accepted /\ Sampled' = Sampled
    BY <2>1 DEF Accepted, Sampled, Sequences, Count
  <2> QED
    BY <2>1, <2>2 DEF Contract!Next, Contract!Drain, Accepted, Sampled, Outcome
<1>4. CASE ClientsFail \/ FlushFails \/ JoinFails \/ ObserverJoinFails
  <2>1. /\ UNCHANGED <<durable, reported, samples>>
        /\ Outcome \in {"measuring", "draining"} /\ Outcome' = "failed"
    BY <1>4 DEF ClientsFail, FlushFails, Abort, JoinFails, ObserverJoinFails, dbVars, clientVars,
                shardVars, Outcome
  <2>2. Accepted' = Accepted /\ Sampled' = Sampled
    BY <2>1 DEF Accepted, Sampled, Sequences, Count
  <2> QED
    BY <2>1, <2>2 DEF Contract!Next, Contract!Fail, Accepted, Sampled, Outcome
<1> QED
  BY <1>1, <1>2, <1>3, <1>4 DEF Execute

LEMMA ContractStep ==
  ASSUME ContractInv, [Next]_vars
  PROVE  [Contract!Next]_(Contract!vars)
<1>1. CASE DurableAdvances
  <2>1. /\ UNCHANGED <<reported, samples, phase>>
        /\ durable' \in 1 .. MaxSequence /\ durable' > durable
    <3>1. /\ durable' \in (durable + 1) .. assigned
          /\ UNCHANGED <<reported, samples, phase>>
      BY <1>1 DEF DurableAdvances, clientVars, shardVars, mainVars
    <3>2. /\ durable \in Nat /\ assigned \in Nat /\ assigned <= MaxSequence
      BY HistoryNumbers DEF ContractInv, Inv, NumbersInv
    <3> QED
      BY <3>1, <3>2
  <2>2. Accepted' = Accepted /\ Sampled' = Sampled /\ Outcome' = Outcome
    BY <2>1 DEF Accepted, Sampled, Sequences, Count, Outcome
  <2> QED
    BY <2>1, <2>2 DEF Contract!Next, Contract!Advance, Accepted, Sampled, Outcome
<1>2. CASE DatabaseGone \/ Observer \/ UNCHANGED vars
  <2>1. UNCHANGED <<durable, reported, samples, phase>>
    BY <1>2 DEF DatabaseGone, Observer, ObserverStarts, ObserverWakes, ObserverReads,
         ObserverPushes, ObserverBumps, ObserverStops, ObserverFails, vars, dbVars,
         clientVars, shardVars, mainVars
  <2> QED
    BY <2>1, HiddenStep DEF Outcome
<1>3. ASSUME NEW c \in Clients, Client(c) PROVE [Contract!Next]_(Contract!vars)
  <2>1. CASE RecordWrite(c)
    BY <2>1, AcceptStep
  <2>2. CASE BeginWrite(c) \/ WriteFails(c) \/ ClientStops(c) \/ ClientFails(c)
    <3>1. UNCHANGED <<durable, reported, samples, phase>>
      BY <2>2 DEF BeginWrite, WriteFails, ClientStops, ClientFails, dbVars, shardVars, mainVars
    <3> QED
      BY <3>1, HiddenStep DEF Outcome
  <2> QED
    BY <1>3, <2>1, <2>2 DEF Client
<1>4. ASSUME NEW c \in Clients, Running, Shard(c)
      PROVE  [Contract!Next]_(Contract!vars)
  <2>1. CASE DrainMatches(c)
    BY <1>4, <2>1, SampleStep
  <2>2. CASE ~DrainMatches(c)
    <3>1. UNCHANGED <<durable, reported, samples, phase>>
      BY <1>4, <2>2 DEF Shard, ShardStarts, ShardReceives, ShardInputCloses,
           ShardSeesFrontier, ShardReloads, DrainEnds, ShardReturns, ShardFails,
           dbVars, clientVars, mainVars
    <3> QED
      BY <3>1, HiddenStep DEF Outcome
  <2> QED
    BY <2>1, <2>2
<1>5. CASE Execute
  BY <1>5, PhaseStepImplements
<1> QED
  BY <1>1, <1>2, <1>3, <1>4, <1>5 DEF Next, Database, Returned

(* The tracker keeps its contract, whatever the tasks' interleaving: one    *)
(* sample for each accepted write, taken once the write is durable, and     *)
(* success only when every accepted write has its sample (durability.rs).   *)
THEOREM ContractImplemented == Spec => ImplementsContract
<1>1. Init => Contract!Init
  BY DEF Init, Contract!Init, Sequences, Count
<1>2. ContractInv /\ [Next]_vars => [Contract!Next]_(Contract!vars)
  BY ContractStep
<1> QED
  BY <1>1, <1>2, NumbersInvariance, PTL DEF Spec, ImplementsContract, Contract!Spec
=============================================================================
