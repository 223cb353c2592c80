------------------------------ MODULE MCRunner ------------------------------
(***************************************************************************)
(* Runner on a small instance: a workload on golden data and one on an     *)
(* empty database, two machines, and builds of two SlateDB commits.  A     *)
(* behaviour explores one of two scenarios: attempts of one build on both  *)
(* machines at once, or attempts that differ in their build and dataset,   *)
(* one at a time.                                                          *)
(***************************************************************************)
EXTENDS Runner, TLC

CONSTANTS reads, ingest, r1, r2

VARIABLE scenario

BothRunners == {r1, r2}
BothWorkloads == {reads, ingest}
OnEmpty == {ingest}

Base == [runner |-> 1, slate |-> 1, data |-> 1, lsm |-> "own"]
FourConfigs == {Base, [Base EXCEPT !.slate = 2], [Base EXCEPT !.data = 2],
                [Base EXCEPT !.runner = 2, !.lsm = "other"]}

Interchangeable == Permutations(Runners)

(* The attempts a scenario is about. *)
Explored ==
  LET used == {r \in Runners : run[r] # Idle}
  IN CASE scenario = "machines" ->
            \A r \in used : run[r].config = Base /\ run[r].task # ingest
       [] scenario = "configurations" ->
            dispatched < MaxAttempts /\ \A q, r \in used : q = r

MCInit == Init /\ scenario \in {"machines", "configurations"}
MCNext == Next /\ UNCHANGED scenario /\ Explored'
MCSpec == MCInit /\ [][MCNext]_<<vars, scenario>>
=============================================================================
