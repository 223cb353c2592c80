---------------------------- MODULE CompactorWait ----------------------------
(***************************************************************************)
(* The wait of the compaction phase for a quiet compactor:                 *)
(* `wait_for_compactor_quiet` (src/runner.rs), beside the compactor that   *)
(* the open database runs.                                                 *)
(*                                                                         *)
(* The compactor is SlateDB's, known from how the code reads it: a         *)
(* manifest and a list of compactions in the store, each with an id that   *)
(* every write advances.  A unit of time is the sleep between two polls.   *)
(* A read returns the manifest and the compactions as of two instants; it  *)
(* may take any time.  The clocks stop at Quiet, the largest interval that *)
(* anything compares them with.                                            *)
(***************************************************************************)
EXTENDS Naturals, Sequences

CONSTANTS Quiet,        \* compaction_quiet
          MaxManifests, \* bound: manifests written
          MaxWrites     \* bound: writes of the compactions that begin work

ASSUME WaitAssumption ==
  Quiet \in Nat \ {0} /\ MaxManifests \in Nat /\ MaxWrites \in Nat

VARIABLES
  manifestId,    \* state.manifest().id()
  compactionsId, \* state.compactions().id(), 0 while there is no such file
  compactions,   \* recent_compactions(): the status of each
  compactorRuns, \* the database is open, with a compactor
  wait,          \* off, reading, judging, sleeping, quiet, failed
  view,          \* what the read in progress has returned
  lastState,     \* last_state
  stableFor,     \* stable_since.elapsed()
  idleFor,       \* history: time since the manifest or the compactions changed
  idleAtRead,    \* history: the same, when the last read began
  readFor        \* history: time since the last read began

storeVars == <<manifestId, compactionsId, compactions>>
pollVars == <<wait, view, lastState, stableFor>>
clockVars == <<idleFor, idleAtRead, readFor>>
waitVars == <<storeVars, compactorRuns, pollVars, clockVars>>

(* Submitted, Scheduled, Running and Compacted are all active. *)
Statuses == {"active", "Completed", "Failed"}

Unread == [manifest |-> 0, compactions |-> 0, statuses |-> {}, parts |-> {}]
NoState == <<0, 0>>

WaitInit ==
  /\ manifestId = 1 /\ compactionsId = 0 /\ compactions = <<>>
  /\ wait = "off" /\ view = Unread /\ lastState = NoState
  /\ stableFor = 0 /\ idleFor = 0 /\ idleAtRead = 0 /\ readFor = 0

-----------------------------------------------------------------------------
(* The compactor *)

WritesCompactions(cs) ==
  /\ compactorRuns
  /\ compactions' = cs /\ compactionsId' = compactionsId + 1
  /\ idleFor' = 0
  /\ UNCHANGED <<manifestId, compactorRuns, pollVars, idleAtRead, readFor>>

Submits == compactionsId < MaxWrites /\ WritesCompactions(Append(compactions, "active"))

(* An active compaction takes a step of its own, such as starting to run. *)
Progresses(i) ==
  compactionsId < MaxWrites /\ compactions[i] = "active" /\ WritesCompactions(compactions)

Finishes(i, status) ==
  compactions[i] = "active" /\ WritesCompactions([compactions EXCEPT ![i] = status])

(* The result of a compaction, or something else, is put into a manifest. *)
WritesManifest ==
  /\ compactorRuns /\ manifestId <= MaxManifests
  /\ manifestId' = manifestId + 1
  /\ idleFor' = 0
  /\ UNCHANGED <<compactionsId, compactions, compactorRuns, pollVars, idleAtRead, readFor>>

-----------------------------------------------------------------------------
(* Time *)

UpToQuiet(n) == IF n < Quiet THEN n + 1 ELSE Quiet

(* A sleep lasts a unit of time. *)
TimePasses ==
  /\ wait # "off"
  /\ stableFor' = UpToQuiet(stableFor)
  /\ idleFor' = UpToQuiet(idleFor)
  /\ readFor' = UpToQuiet(readFor)
  /\ wait' = IF wait = "sleeping" THEN "reading" ELSE wait
  /\ UNCHANGED <<storeVars, compactorRuns, view, lastState, idleAtRead>>

-----------------------------------------------------------------------------
(* wait_for_compactor_quiet *)

(* read_compactor_state_view: two objects, in an order that is SlateDB's. *)
ReadsPart(part) ==
  /\ wait = "reading" /\ part \notin view.parts
  /\ view' = [manifest |-> IF part = "manifest" THEN manifestId ELSE view.manifest,
              compactions |-> IF part = "compactions" THEN compactionsId ELSE view.compactions,
              statuses |-> IF part = "compactions"
                           THEN {compactions[i] : i \in DOMAIN compactions} ELSE view.statuses,
              parts |-> view.parts \union {part}]
  /\ IF view.parts = {}
     THEN idleAtRead' = idleFor /\ readFor' = 0 /\ UNCHANGED wait
     ELSE wait' = "judging" /\ UNCHANGED <<idleAtRead, readFor>>
  /\ UNCHANGED <<storeVars, compactorRuns, lastState, stableFor, idleFor>>

ReadFails ==
  /\ wait = "reading" /\ wait' = "failed" /\ view' = Unread
  /\ UNCHANGED <<storeVars, compactorRuns, lastState, stableFor, clockVars>>

(* Mutant: only the manifest is compared. *)
ManifestOnly == <<view.manifest, 0>>
StateVersion == <<view.manifest, view.compactions>>

(* A new state starts the period over; a failed compaction ends the wait, any *)
(* active one prolongs it.                                                   *)
Judges ==
  LET changed == StateVersion # lastState
      elapsed == IF changed THEN 0 ELSE stableFor
  IN  /\ wait = "judging"
      /\ lastState' = StateVersion /\ stableFor' = elapsed
      /\ wait' = IF "Failed" \in view.statuses THEN "failed"
                 ELSE IF "active" \notin view.statuses /\ elapsed >= Quiet THEN "quiet"
                 ELSE "sleeping"
      /\ view' = Unread
      /\ UNCHANGED <<storeVars, compactorRuns, clockVars>>

Polls == ReadsPart("manifest") \/ ReadsPart("compactions") \/ ReadFails \/ Judges

-----------------------------------------------------------------------------
WaitTypeOK ==
  /\ manifestId \in 1 .. (1 + MaxManifests)
  /\ compactions \in Seq(Statuses) /\ Len(compactions) <= compactionsId
  /\ compactionsId \in Nat
  /\ compactorRuns \in BOOLEAN
  /\ wait \in {"off", "reading", "judging", "sleeping", "quiet", "failed"}
  /\ view \in [manifest : Nat, compactions : Nat, statuses : SUBSET Statuses,
               parts : SUBSET {"manifest", "compactions"}]
  /\ lastState \in Nat \X Nat
  /\ {stableFor, idleFor, idleAtRead, readFor} \subseteq 0 .. Quiet
=============================================================================
