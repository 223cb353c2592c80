------------------------------ MODULE Archive ------------------------------
(***************************************************************************)
(* What results/ on the branch main promises to the website                *)
(* (docs/DESIGN.md, Results and validation): a run is absent or a complete *)
(* bundle, and a change replaces one run and preserves every other.        *)
(***************************************************************************)
CONSTANT Runs
VARIABLE archive   \* per run, the files of its directory

(* A bundle: its manifest lists exactly the files beside it, and the workloads *)
(* are of this run, on one golden data set, of one source.                     *)
Complete(r, dir) ==
  LET files == DOMAIN dir \ {"run.json"}
      tasks == files \ {"golden.json"}
  IN  /\ {"run.json", "golden.json"} \subseteq DOMAIN dir /\ tasks # {}
      /\ dir["run.json"].results = [f \in files |-> dir[f]]
      /\ \A t \in tasks :
           /\ dir[t].session = r /\ dir[t].golden = dir["golden.json"]
           /\ dir[t].digestMatches
           /\ \A u \in tasks : dir[u].source = dir[t].source

Init == \A r \in Runs : DOMAIN archive[r] = {}

Next ==
  \E r \in Runs :
    /\ Complete(r, archive'[r])
    /\ \A other \in Runs \ {r} : archive'[other] = archive[other]

Spec == Init /\ [][Next]_archive
=============================================================================
