------------------------- MODULE Publication_proofs -------------------------
(***************************************************************************)
(* Publication, proved for any jobs, runs, tasks and outputs, and any      *)
(* number of attempts.                                                     *)
(*                                                                         *)
(* A bundle is whole (Whole) if its manifest lists what is beside it, so   *)
(* two whole bundles of a run with one manifest are equal.  Since git      *)
(* merges files, a rebase that meets no conflict in the manifest either    *)
(* keeps the commit's bundle or, if the commit changes nothing any more,   *)
(* leaves what is on main (MergeIsWhole): it never mixes two bundles.      *)
(***************************************************************************)
EXTENDS Publication, TLAPS

(* What a manifest lists: the workloads of one bundle and their golden data. *)
Listed(r, files) ==
  \E golden \in Goldens : \E workloads \in Inputs :
    /\ Accepted(golden, workloads) /\ Session(workloads) = r
    /\ files = Written(golden, workloads)

Directory(dir) == DOMAIN dir \subseteq Files /\ dir = [f \in DOMAIN dir |-> dir[f]]

Manifest(r, dir) ==
  Directory(dir) /\ "run.json" \in DOMAIN dir /\ Listed(r, dir["run.json"].results)

Whole(r, dir) == Manifest(r, dir) /\ Verified(dir)

States == {"idle", "committed", "rebased", "published", "failed"}

Typed ==
  /\ pc \in [Jobs -> States]
  /\ DOMAIN out = Jobs /\ \A j \in Jobs : DOMAIN out[j] = Runs
  /\ DOMAIN bundle = Jobs
  /\ \A j \in Jobs : bundle[j] = [run |-> bundle[j].run, files |-> bundle[j].files]
  /\ DOMAIN checkout = Jobs
  /\ \A j \in Jobs : checkout[j] = [before |-> checkout[j].before, after |-> checkout[j].after,
                                    at |-> checkout[j].at, landed |-> checkout[j].landed,
                                    tries |-> checkout[j].tries]
  /\ DOMAIN archive = Runs

OutInv == \A j \in Jobs, r \in Runs : "run.json" \in DOMAIN out[j][r] => Manifest(r, out[j][r])

OnMain(r, dir) == Whole(r, dir) /\ [run |-> r, files |-> dir] \in archived

ArchiveInv == \A r \in Runs : archive[r] = Nothing \/ OnMain(r, archive[r])

Working(j) == pc[j] \in {"committed", "rebased"}

(* A commit under way, of a job's bundle or of what has become of it. *)
CommitOK(j) ==
  /\ Run(j) \in Runs /\ Whole(Run(j), bundle[j].files) /\ Whole(Run(j), checkout[j].after)
  /\ \/ checkout[j].before = Nothing
     \/ OnMain(Run(j), checkout[j].before) /\ archive[Run(j)] # Nothing
  /\ checkout[j].landed => bundle[j] \in archived /\ archive[Run(j)] # Nothing
  /\ checkout[j].after = bundle[j].files \/ bundle[j] \in archived

JobOK(j) ==
  (Working(j) => CommitOK(j)) /\ (pc[j] = "published" => bundle[j] \in archived)

PubInv == Typed /\ OutInv /\ ArchiveInv /\ \A j \in Jobs : JobOK(j)
-----------------------------------------------------------------------------
(* Directories and bundles *)
USE PublicationAssumption

LEMMA NothingFacts == DOMAIN Nothing = {} /\ Directory(Nothing)
BY DEF Nothing, Directory

LEMMA SameManifest ==
  ASSUME NEW r, NEW x, NEW y, Whole(r, x), Whole(r, y), x["run.json"] = y["run.json"]
  PROVE  x = y
<1>1. /\ "run.json" \in DOMAIN x /\ "run.json" \in DOMAIN y
      /\ x = [f \in DOMAIN x |-> x[f]] /\ y = [f \in DOMAIN y |-> y[f]]
  BY DEF Whole, Manifest, Directory
<1> DEFINE xs == [f \in DOMAIN x \ {"run.json"} |-> x[f]]
           ys == [f \in DOMAIN y \ {"run.json"} |-> y[f]]
<1>2. xs = ys
  BY DEF Whole, Verified, Restrict
<1>3. DOMAIN x = DOMAIN y
  <2>1. DOMAIN xs = DOMAIN x \ {"run.json"} /\ DOMAIN ys = DOMAIN y \ {"run.json"}
    OBVIOUS
  <2> HIDE DEF xs, ys
  <2> QED
    BY <1>1, <1>2, <2>1
<1>4. ASSUME NEW f \in DOMAIN x PROVE x[f] = y[f]
  <2>1. CASE f = "run.json"
    BY <2>1
  <2>2. CASE f # "run.json"
    <3>1. xs[f] = x[f] /\ ys[f] = y[f]
      BY <1>3, <2>2
    <3> QED
      BY <1>2, <3>1
  <2> QED
    BY <2>1, <2>2
<1> QED
  BY <1>1, <1>3, <1>4

LEMMA MergeIsWhole ==
  ASSUME NEW r, NEW before, NEW ours, NEW theirs, Whole(r, ours),
         before = Nothing \/ Whole(r, before), theirs = Nothing \/ Whole(r, theirs),
         \A f \in Files : ~Conflict(Content(before, f), Content(ours, f), Content(theirs, f))
  PROVE  \/ \A f \in Files : Merge(Content(before, f), Content(ours, f), Content(theirs, f))
                               = Content(ours, f)
         \/ /\ ours = before
            /\ \A f \in Files : Merge(Content(before, f), Content(ours, f), Content(theirs, f))
                                  = Content(theirs, f)
<1>1. ASSUME NEW x, NEW y, x = Nothing \/ Whole(r, x), y = Nothing \/ Whole(r, y),
             Content(x, "run.json") = Content(y, "run.json")
      PROVE  x = y
  <2>1. \A d : Whole(r, d) => Content(d, "run.json") = {d["run.json"]}
    BY DEF Whole, Manifest, Content
  <2>2. Content(Nothing, "run.json") = {}
    BY NothingFacts DEF Content
  <2>3. CASE Whole(r, x) /\ Whole(r, y)
    <3>1. x["run.json"] = y["run.json"]
      BY <1>1, <2>1, <2>3
    <3> QED
      BY <2>3, <3>1, SameManifest
  <2>4. CASE ~(Whole(r, x) /\ Whole(r, y))
    BY <1>1, <2>1, <2>2, <2>4
  <2> QED
    BY <2>3, <2>4
<1>2. CASE ours = before
  BY <1>2 DEF Merge
<1>3. CASE theirs = before \/ theirs = ours
  BY <1>3 DEF Merge
<1>4. CASE ours # before /\ theirs # before /\ theirs # ours
  <2>1. /\ Content(ours, "run.json") # Content(before, "run.json")
        /\ Content(theirs, "run.json") # Content(before, "run.json")
        /\ Content(theirs, "run.json") # Content(ours, "run.json")
    BY <1>1, <1>4
  <2>2. "run.json" \in Files
    BY DEF Files
  <2> QED
    BY <2>1, <2>2 DEF Conflict
<1> QED
  BY <1>2, <1>3, <1>4

(* A directory is what its files contain. *)
LEMMA RebasedIs ==
  ASSUME NEW c, NEW theirs, NEW dir, Directory(dir), ~c.landed,
         \A f \in Files : Merge(Content(c.before, f), Content(c.after, f), Content(theirs, f))
                            = Content(dir, f)
  PROVE  Rebased(c, theirs) = dir
<1> DEFINE Merged(f) == Merge(Content(c.before, f), Content(c.after, f), Content(theirs, f))
           kept == {f \in Files : Merged(f) # {}}
<1>1. Rebased(c, theirs) = [f \in kept |-> CHOOSE x \in Merged(f) : TRUE]
  BY DEF Rebased
<1>2. kept = DOMAIN dir
  BY DEF Directory, Content
<1>3. ASSUME NEW f \in DOMAIN dir PROVE (CHOOSE x \in Merged(f) : TRUE) = dir[f]
  <2>1. Merged(f) = {dir[f]}
    BY <1>3 DEF Directory, Content
  <2> HIDE DEF Merged
  <2> QED
    BY <2>1
<1> HIDE DEF Merged, kept
<1> QED
  BY <1>1, <1>2, <1>3 DEF Directory

(* A rebase yields a whole bundle: the commit's, or what is on main. *)
LEMMA RebaseIsWhole ==
  ASSUME NEW r, NEW c, NEW theirs, ~c.landed, Whole(r, c.after),
         c.before = Nothing \/ Whole(r, c.before), theirs = Nothing \/ Whole(r, theirs),
         ~Conflicts(c, theirs)
  PROVE  \/ Rebased(c, theirs) = c.after
         \/ c.after = c.before /\ Rebased(c, theirs) = theirs
<1> DEFINE b == c.before
           o == c.after
<1>1. \A f \in Files : ~Conflict(Content(b, f), Content(o, f), Content(theirs, f))
  BY DEF Conflicts
<1>2. Directory(o) /\ Directory(theirs)
  BY NothingFacts DEF Whole, Manifest
<1>3. Whole(r, o) /\ (b = Nothing \/ Whole(r, b)) /\ (theirs = Nothing \/ Whole(r, theirs))
  OBVIOUS
<1>4. ASSUME NEW dir, Directory(dir),
             \A f \in Files : Merge(Content(b, f), Content(o, f), Content(theirs, f)) = Content(dir, f)
      PROVE  Rebased(c, theirs) = dir
  BY <1>4, RebasedIs
<1> HIDE DEF b, o
<1>5. \/ \A f \in Files : Merge(Content(b, f), Content(o, f), Content(theirs, f)) = Content(o, f)
      \/ /\ o = b
         /\ \A f \in Files : Merge(Content(b, f), Content(o, f), Content(theirs, f))
                               = Content(theirs, f)
  BY <1>1, <1>3, MergeIsWhole
<1>6. Rebased(c, theirs) = o \/ (o = b /\ Rebased(c, theirs) = theirs)
  BY <1>2, <1>4, <1>5
<1> QED
  BY <1>6 DEF b, o

(* A whole bundle is what the website is promised. *)
LEMMA WholeIsComplete ==
  ASSUME NEW r, NEW dir, Whole(r, dir)
  PROVE  Main!Complete(r, dir)
<1> DEFINE files == DOMAIN dir \ {"run.json"}
           tasks == files \ {"golden.json"}
           beside == [f \in files |-> dir[f]]
<1>1. dir["run.json"].results = beside /\ "run.json" \in DOMAIN dir
  BY DEF Whole, Manifest, Verified, Restrict
<1>2. PICK golden \in Goldens, workloads \in Inputs :
        /\ Accepted(golden, workloads) /\ Session(workloads) = r
        /\ dir["run.json"].results = Written(golden, workloads)
  BY DEF Whole, Manifest, Listed
<1>3. PICK some \in (SUBSET Tasks) \ {{}} : workloads \in [some -> Outputs]
  BY DEF Inputs
<1>4. DOMAIN workloads = some /\ "golden.json" \notin some /\ "run.json" \notin some
  BY <1>3
<1>5. beside = [g \in some \union {"golden.json"} |-> IF g = "golden.json" THEN golden ELSE workloads[g]]
  BY <1>1, <1>2, <1>4 DEF Written, With
<1>6. files = some \union {"golden.json"} /\ tasks = some
  <2>1. DOMAIN beside = files
    OBVIOUS
  <2> HIDE DEF files, beside
  <2>2. files = some \union {"golden.json"}
    BY <1>5, <2>1
  <2> QED
    BY <1>4, <2>2
<1>7. \A t \in some : dir[t] = workloads[t]
  <2>1. \A t \in some : beside[t] = dir[t] /\ t # "golden.json"
    BY <1>4, <1>6
  <2> HIDE DEF beside
  <2> QED
    BY <1>5, <2>1
<1>8. dir["golden.json"] = golden
  <2>1. beside["golden.json"] = dir["golden.json"]
    BY <1>6
  <2> HIDE DEF beside
  <2> QED
    BY <1>5, <2>1
<1>9. ASSUME NEW t \in tasks
      PROVE  /\ dir[t].session = r /\ dir[t].golden = dir["golden.json"]
             /\ dir[t].digestMatches
             /\ \A u \in tasks : dir[u].source = dir[t].source
  <2>1. t \in some /\ dir[t] = workloads[t]
    BY <1>6, <1>7
  <2>2. /\ workloads[t].golden = golden /\ workloads[t].digestMatches
        /\ \A u \in some : workloads[t].session = workloads[u].session
        /\ \A u \in some : workloads[u].source = workloads[t].source
    BY <1>2, <1>4, <2>1 DEF Accepted, SameSource
  <2>3. workloads[t].session = r
    <3>1. (CHOOSE u \in DOMAIN workloads : TRUE) \in some
      BY <1>4, <2>1
    <3> QED
      BY <1>2, <2>2, <3>1 DEF Session
  <2> QED
    BY <1>6, <1>7, <1>8, <2>1, <2>2, <2>3
<1>10. {"run.json", "golden.json"} \subseteq DOMAIN dir /\ tasks # {}
  <2>1. some # {}
    BY <1>3
  <2>2. "golden.json" \in DOMAIN dir
    BY <1>6
  <2> HIDE DEF files
  <2> QED
    BY <1>1, <1>6, <2>1, <2>2
<1> QED
  BY <1>1, <1>9, <1>10 DEF Main!Complete

-----------------------------------------------------------------------------
LEMMA PubInitInv == Init => PubInv
<1> SUFFICES ASSUME Init PROVE PubInv
  OBVIOUS
<1>1. Typed
  BY DEF Init, Typed, States, NoCheckout
<1>2. OutInv
  BY NothingFacts DEF Init, OutInv
<1>3. ArchiveInv
  BY DEF Init, ArchiveInv
<1>4. \A j \in Jobs : JobOK(j)
  BY DEF Init, JobOK, Working
<1> QED
  BY <1>1, <1>2, <1>3, <1>4 DEF PubInv

(* A step of one job that leaves main alone. *)
LEMMA JobStep ==
  ASSUME PubInv, NEW j \in Jobs, Typed', OutInv', UNCHANGED <<archive, archived>>,
         \A k \in Jobs \ {j} : /\ pc'[k] = pc[k] /\ bundle'[k] = bundle[k]
                              /\ checkout'[k] = checkout[k],
         JobOK(j)'
  PROVE  PubInv'
<1>1. ASSUME NEW k \in Jobs PROVE JobOK(k)'
  <2>1. CASE k = j
    BY <2>1
  <2>2. CASE k # j
    <3>1. UNCHANGED <<pc[k], bundle[k], checkout[k], archive, archived>> /\ JobOK(k)
      BY <2>2 DEF PubInv
    <3> QED
      BY <3>1 DEF JobOK, Working, CommitOK, Run, OnMain
  <2> QED
    BY <2>1, <2>2
<1>2. ArchiveInv'
  BY DEF PubInv, ArchiveInv, OnMain
<1> QED
  BY <1>1, <1>2 DEF PubInv

LEMMA EndsTyped ==
  ASSUME Typed, NEW j \in Jobs, NEW outcome \in States, Ends(j, outcome)
  PROVE  /\ pc' \in [Jobs -> States] /\ pc'[j] = outcome
         /\ DOMAIN checkout' = Jobs
         /\ \A k \in Jobs : checkout'[k]
              = [before |-> checkout'[k].before, after |-> checkout'[k].after,
                 at |-> checkout'[k].at, landed |-> checkout'[k].landed,
                 tries |-> checkout'[k].tries]
         /\ \A k \in Jobs \ {j} : pc'[k] = pc[k] /\ checkout'[k] = checkout[k]
<1>1. pc' = [pc EXCEPT ![j] = outcome] /\ checkout' = [checkout EXCEPT ![j] = NoCheckout]
  BY DEF Ends, Goto
<1>2. NoCheckout = [before |-> NoCheckout.before, after |-> NoCheckout.after,
                    at |-> NoCheckout.at, landed |-> NoCheckout.landed,
                    tries |-> NoCheckout.tries]
  BY DEF NoCheckout
<1>3. /\ pc \in [Jobs -> States] /\ DOMAIN checkout = Jobs
  BY DEF Typed
<1>4. /\ pc' \in [Jobs -> States] /\ pc'[j] = outcome /\ DOMAIN checkout' = Jobs
      /\ checkout'[j] = NoCheckout
      /\ \A k \in Jobs \ {j} : pc'[k] = pc[k] /\ checkout'[k] = checkout[k]
  BY <1>1, <1>3
<1>5. ASSUME NEW k \in Jobs
      PROVE  checkout'[k] = [before |-> checkout'[k].before, after |-> checkout'[k].after,
                             at |-> checkout'[k].at, landed |-> checkout'[k].landed,
                             tries |-> checkout'[k].tries]
  <2>1. CASE k = j
    BY <1>2, <1>4, <2>1, Zenon
  <2>2. CASE k # j
    <3>1. checkout'[k] = checkout[k]
      BY <1>4, <2>2
    <3> QED
      BY <3>1, Zenon DEF Typed
  <2> QED
    BY <2>1, <2>2
<1> QED
  BY <1>4, <1>5

(* The steps that leave the job without a commit. *)
LEMMA JobEnds ==
  ASSUME PubInv, NEW j \in Jobs, NEW outcome \in {"idle", "published", "failed"},
         Ends(j, outcome), OutInv', DOMAIN out' = Jobs, \A k \in Jobs : DOMAIN out'[k] = Runs,
         UNCHANGED <<archive, archived>>,
         \/ UNCHANGED bundle /\ outcome # "published"
         \/ \E r \in Runs : /\ bundle' = [bundle EXCEPT ![j] = [run |-> r, files |-> archive[r]]]
                             /\ [run |-> r, files |-> archive[r]] \in archived
  PROVE  PubInv'
<1>1. outcome \in States /\ Typed
  BY DEF States, PubInv
<1>2. /\ pc' \in [Jobs -> States] /\ pc'[j] = outcome
      /\ DOMAIN checkout' = Jobs
      /\ \A k \in Jobs : checkout'[k]
           = [before |-> checkout'[k].before, after |-> checkout'[k].after,
              at |-> checkout'[k].at, landed |-> checkout'[k].landed,
              tries |-> checkout'[k].tries]
      /\ \A k \in Jobs \ {j} : pc'[k] = pc[k] /\ checkout'[k] = checkout[k]
  BY <1>1, EndsTyped
<1>3. /\ DOMAIN bundle' = Jobs
      /\ \A k \in Jobs : bundle'[k] = [run |-> bundle'[k].run, files |-> bundle'[k].files]
      /\ \A k \in Jobs \ {j} : bundle'[k] = bundle[k]
      /\ outcome = "published" => bundle'[j] \in archived
  <2>1. CASE UNCHANGED bundle /\ outcome # "published"
    BY <1>1, <2>1 DEF Typed
  <2>2. ASSUME NEW r \in Runs, [run |-> r, files |-> archive[r]] \in archived,
               bundle' = [bundle EXCEPT ![j] = [run |-> r, files |-> archive[r]]]
        PROVE  /\ DOMAIN bundle' = Jobs
               /\ \A k \in Jobs : bundle'[k] = [run |-> bundle'[k].run, files |-> bundle'[k].files]
               /\ \A k \in Jobs \ {j} : bundle'[k] = bundle[k]
               /\ bundle'[j] \in archived
    <3>1. DOMAIN bundle' = Jobs /\ bundle'[j] = [run |-> r, files |-> archive[r]]
          /\ \A k \in Jobs \ {j} : bundle'[k] = bundle[k]
      BY <1>1, <2>2 DEF Typed
    <3> QED
      BY <1>1, <2>2, <3>1 DEF Typed
  <2> QED
    BY <2>1, <2>2
<1>4. Typed'
  BY <1>1, <1>2, <1>3 DEF Typed
<1>5. JobOK(j)'
  BY <1>2, <1>3 DEF JobOK, Working
<1> QED
  BY <1>2, <1>3, <1>4, <1>5, JobStep

(* What bundle writes is a whole bundle, and what is left of a directory *)
(* that has lost files still has its manifest, or is not looked at.      *)

LEMMA BundledIs ==
  ASSUME NEW golden \in Goldens, NEW workloads \in Inputs, Accepted(golden, workloads),
         NEW stamp
  PROVE  /\ Session(workloads) \in Runs
         /\ Manifest(Session(workloads),
                     With(Written(golden, workloads), "run.json",
                          [finished |-> stamp, results |-> Written(golden, workloads)]))
<1> DEFINE files == Written(golden, workloads)
           manifest == [finished |-> stamp, results |-> files]
           dir == With(files, "run.json", manifest)
<1>1. PICK some \in (SUBSET Tasks) \ {{}} : workloads \in [some -> Outputs]
  BY DEF Inputs
<1>2. DOMAIN workloads = some /\ some \subseteq Tasks
  BY <1>1
<1>3. Session(workloads) \in Runs
  <2>1. some # {}
    BY <1>1
  <2>2. (CHOOSE t \in DOMAIN workloads : TRUE) \in some
    BY <1>2, <2>1
  <2> QED
    BY <1>1, <2>2 DEF Session
<1>4. DOMAIN files = some \union {"golden.json"}
  BY <1>2 DEF Written, With
<1> HIDE DEF files
<1>5. DOMAIN dir = some \union {"golden.json", "run.json"} /\ dir = [f \in DOMAIN dir |-> dir[f]]
      /\ dir["run.json"] = manifest
  BY <1>4 DEF With
<1>6. dir["run.json"].results = Written(golden, workloads)
  BY <1>5 DEF files
<1>7. Listed(Session(workloads), dir["run.json"].results)
  BY <1>6 DEF Listed
<1> HIDE DEF dir, manifest
<1>8. Manifest(Session(workloads), dir)
  BY <1>2, <1>5, <1>7 DEF Manifest, Directory, Files
<1> QED
  BY <1>3, <1>8 DEF dir, manifest, files

LEMMA LostIs ==
  ASSUME NEW r, NEW dir, NEW f, "run.json" \in DOMAIN dir => Manifest(r, dir),
         "run.json" \in DOMAIN Seen(Restrict(dir, DOMAIN dir \ {f}))
  PROVE  Manifest(r, Seen(Restrict(dir, DOMAIN dir \ {f})))
<1> DEFINE rest == Restrict(dir, DOMAIN dir \ {f})
<1>1. rest = [g \in DOMAIN dir \ {f} |-> dir[g]]
  BY DEF Restrict
<1>2. "run.json" \in DOMAIN rest /\ Seen(rest) = rest
  BY NothingFacts DEF Seen
<1>3. DOMAIN rest = DOMAIN dir \ {f} /\ rest["run.json"] = dir["run.json"]
  BY <1>1, <1>2
<1>4. Manifest(r, dir)
  BY <1>2, <1>3
<1>5. rest = [g \in DOMAIN rest |-> rest[g]]
  BY <1>1
<1> HIDE DEF rest
<1>6. Manifest(r, rest)
  BY <1>2, <1>3, <1>4, <1>5 DEF Manifest, Directory
<1> QED
  BY <1>2, <1>6 DEF rest

(* A new directory for a run of a job, with its manifest or without one. *)
LEMMA OutStep ==
  ASSUME PubInv, NEW j \in Jobs, NEW r \in Runs, NEW dir,
         out' = [out EXCEPT ![j][r] = dir], "run.json" \in DOMAIN dir => Manifest(r, dir)
  PROVE  OutInv' /\ DOMAIN out' = Jobs /\ \A k \in Jobs : DOMAIN out'[k] = Runs
<1>1. DOMAIN out = Jobs /\ \A k \in Jobs : DOMAIN out[k] = Runs
  BY DEF PubInv, Typed
<1>2. out' = [out EXCEPT ![j] = [out[j] EXCEPT ![r] = dir]]
  BY <1>1
<1>3. /\ DOMAIN out' = Jobs /\ \A k \in Jobs : DOMAIN out'[k] = Runs
      /\ \A k \in Jobs, q \in Runs : out'[k][q] = IF k = j /\ q = r THEN dir ELSE out[k][q]
  BY <1>1, <1>2
<1>4. OutInv'
  <2> SUFFICES ASSUME NEW k \in Jobs, NEW q \in Runs, "run.json" \in DOMAIN out'[k][q]
               PROVE  Manifest(q, out'[k][q])
    BY DEF OutInv, Manifest, Listed, Directory
  <2>1. CASE k = j /\ q = r
    BY <1>3, <2>1
  <2>2. CASE ~(k = j /\ q = r)
    BY <1>3, <2>2 DEF PubInv, OutInv
  <2> QED
    BY <2>1, <2>2
<1> QED
  BY <1>3, <1>4

LEMMA BundlesInv ==
  ASSUME PubInv, NEW j \in Jobs, NEW golden \in Goldens, NEW workloads \in Inputs,
         Bundles(j, golden, workloads)
  PROVE  PubInv'
<1> DEFINE files == Written(golden, workloads)
           dir == With(files, "run.json", [finished |-> clock', results |-> files])
<1>1. /\ Accepted(golden, workloads) /\ Ends(j, "idle") /\ UNCHANGED <<bundle, archive, archived>>
      /\ out' = [out EXCEPT ![j][Session(workloads)] = dir]
  BY DEF Bundles, mainVars
<1>2. PICK stamp : stamp = clock'
  OBVIOUS
<1>3. Session(workloads) \in Runs
      /\ Manifest(Session(workloads), With(files, "run.json", [finished |-> stamp, results |-> files]))
  BY <1>1, BundledIs
<1>4. out' = [out EXCEPT ![j][Session(workloads)]
                = With(files, "run.json", [finished |-> stamp, results |-> files])]
  BY <1>1, <1>2
<1> HIDE DEF files, dir
<1>5. OutInv' /\ DOMAIN out' = Jobs /\ \A k \in Jobs : DOMAIN out'[k] = Runs
  BY <1>3, <1>4, OutStep
<1> QED
  BY <1>1, <1>5, JobEnds

LEMMA LosesFileInv ==
  ASSUME PubInv, NEW j \in Jobs, LosesFile(j)
  PROVE  PubInv'
<1>1. PICK r \in Runs : \E f \in DOMAIN out[j][r] :
        out' = [out EXCEPT ![j][r] = Seen(Restrict(out[j][r], DOMAIN out[j][r] \ {f}))]
  BY DEF LosesFile
<1>2. PICK f : out' = [out EXCEPT ![j][r] = Seen(Restrict(out[j][r], DOMAIN out[j][r] \ {f}))]
  BY <1>1
<1>3. PICK dir : dir = Seen(Restrict(out[j][r], DOMAIN out[j][r] \ {f}))
  OBVIOUS
<1>4. "run.json" \in DOMAIN dir => Manifest(r, dir)
  BY <1>3, LostIs DEF PubInv, OutInv
<1>5. OutInv' /\ DOMAIN out' = Jobs /\ \A k \in Jobs : DOMAIN out'[k] = Runs
  BY <1>2, <1>3, <1>4, OutStep
<1> QED
  BY <1>5, JobEnds DEF LosesFile, mainVars

LEMMA GivesUp ==
  ASSUME PubInv, NEW j \in Jobs, Ends(j, "failed"), UNCHANGED <<out, bundle, archive, archived>>
  PROVE  PubInv'
<1>1. OutInv' /\ DOMAIN out' = Jobs /\ \A k \in Jobs : DOMAIN out'[k] = Runs
  BY DEF PubInv, Typed, OutInv, Manifest, Directory, Listed
<1> QED
  BY <1>1, JobEnds

(* A job's new commit, at the time it is made or later. *)
LEMMA CommitStep ==
  ASSUME PubInv, NEW j \in Jobs, UNCHANGED <<out, archive, archived>>,
         NEW state \in {"committed", "rebased"}, Goto(j, state),
         UNCHANGED bundle \/ \E b : bundle' = [bundle EXCEPT ![j] = [run |-> b.run, files |-> b.files]],
         \E c : checkout' = [checkout EXCEPT ![j] =
                  [before |-> c.before, after |-> c.after, at |-> c.at, landed |-> c.landed,
                   tries |-> c.tries]],
         CommitOK(j)'
  PROVE  PubInv'
<1>1. Typed /\ state \in States /\ pc' = [pc EXCEPT ![j] = state]
  BY DEF PubInv, States, Goto
<1>2. pc' \in [Jobs -> States] /\ pc'[j] = state /\ \A k \in Jobs \ {j} : pc'[k] = pc[k]
  BY <1>1 DEF Typed
<1>3. /\ DOMAIN bundle' = Jobs
      /\ \A k \in Jobs : bundle'[k] = [run |-> bundle'[k].run, files |-> bundle'[k].files]
      /\ \A k \in Jobs \ {j} : bundle'[k] = bundle[k]
  <2>1. CASE UNCHANGED bundle
    BY <1>1, <2>1 DEF Typed
  <2>2. ASSUME NEW b, bundle' = [bundle EXCEPT ![j] = [run |-> b.run, files |-> b.files]]
        PROVE  /\ DOMAIN bundle' = Jobs
               /\ \A k \in Jobs : bundle'[k] = [run |-> bundle'[k].run, files |-> bundle'[k].files]
               /\ \A k \in Jobs \ {j} : bundle'[k] = bundle[k]
    <3>1. DOMAIN bundle' = Jobs /\ bundle'[j] = [run |-> b.run, files |-> b.files]
          /\ \A k \in Jobs \ {j} : bundle'[k] = bundle[k]
      BY <1>1, <2>2 DEF Typed
    <3> QED
      BY <1>1, <3>1 DEF Typed
  <2> QED
    BY <2>1, <2>2
<1>4. PICK c : checkout' = [checkout EXCEPT ![j] =
                  [before |-> c.before, after |-> c.after, at |-> c.at, landed |-> c.landed,
                   tries |-> c.tries]]
  OBVIOUS
<1>5. /\ DOMAIN checkout' = Jobs
      /\ checkout'[j] = [before |-> c.before, after |-> c.after, at |-> c.at,
                         landed |-> c.landed, tries |-> c.tries]
      /\ \A k \in Jobs \ {j} : checkout'[k] = checkout[k]
  BY <1>1, <1>4 DEF Typed
<1>6. \A k \in Jobs : checkout'[k]
         = [before |-> checkout'[k].before, after |-> checkout'[k].after, at |-> checkout'[k].at,
            landed |-> checkout'[k].landed, tries |-> checkout'[k].tries]
  BY <1>1, <1>5 DEF Typed
<1>7. Typed'
  BY <1>1, <1>2, <1>3, <1>5, <1>6 DEF Typed
<1>8. OutInv'
  BY DEF PubInv, OutInv, Manifest, Directory, Listed
<1>9. JobOK(j)'
  BY <1>2 DEF JobOK
<1> QED
  BY <1>2, <1>3, <1>5, <1>7, <1>8, <1>9, JobStep

LEMMA PublishBeginsInv ==
  ASSUME PubInv, NEW j \in Jobs, PublishBegins(j)
  PROVE  PubInv'
<1>1. PICK r \in Manifests(j) :
        /\ bundle' = [bundle EXCEPT ![j] = [run |-> r, files |-> out[j][r]]]
        /\ IF out[j][r] = archive[r]
           THEN Ends(j, "published")
           ELSE /\ Goto(j, "committed")
                /\ checkout' = [checkout EXCEPT ![j] =
                     [NoCheckout EXCEPT !.before = archive[r], !.after = out[j][r], !.at = version]]
  BY DEF PublishBegins, Copied
<1>2. UNCHANGED <<out, archive, archived>>
  BY DEF PublishBegins, mainVars
<1>3. /\ r \in Runs /\ Whole(r, out[j][r])
      /\ "run.json" \in DOMAIN out[j][r]
  BY <1>1 DEF PublishBegins, Publishable, Manifests, PubInv, OutInv, Whole
<1>4. out[j][r] # Nothing
  BY <1>3, NothingFacts
<1>5. archive[r] = Nothing \/ OnMain(r, archive[r])
  BY <1>3 DEF PubInv, ArchiveInv
<1>6. CASE out[j][r] = archive[r]
  <2>1. [run |-> r, files |-> archive[r]] \in archived
    BY <1>4, <1>5, <1>6 DEF OnMain
  <2>2. OutInv' /\ DOMAIN out' = Jobs /\ \A k \in Jobs : DOMAIN out'[k] = Runs
    BY <1>2 DEF PubInv, Typed, OutInv, Manifest, Directory, Listed
  <2>3. bundle' = [bundle EXCEPT ![j] = [run |-> r, files |-> archive[r]]]
    BY <1>1, <1>6
  <2> QED
    BY <1>1, <1>2, <1>3, <1>6, <2>1, <2>2, <2>3, JobEnds
<1>7. CASE out[j][r] # archive[r]
  <2>1. PICK c : c = [before |-> archive[r], after |-> out[j][r], at |-> version, landed |-> FALSE,
                      tries |-> 0]
    OBVIOUS
  <2>2. /\ c.before = archive[r] /\ c.after = out[j][r] /\ c.landed = FALSE
        /\ c = [before |-> c.before, after |-> c.after, at |-> c.at, landed |-> c.landed,
                tries |-> c.tries]
    BY <2>1
  <2>3. checkout' = [checkout EXCEPT ![j] =
                  [before |-> c.before, after |-> c.after, at |-> c.at, landed |-> c.landed,
                   tries |-> c.tries]]
    <3>1. [NoCheckout EXCEPT !.before = archive[r], !.after = out[j][r], !.at = version] = c
      <4>1. PICK theirs, ours, v, no, zero, false :
              /\ theirs = archive[r] /\ ours = out[j][r] /\ v = version
              /\ no = Nothing /\ zero = 0 /\ false = FALSE
        OBVIOUS
      <4>2. PICK x : x = NoCheckout
        OBVIOUS
      <4>3. x = [before |-> no, after |-> no, at |-> zero, landed |-> false, tries |-> zero]
        BY <4>1, <4>2, Zenon DEF NoCheckout
      <4>4. PICK x1 : x1 = [before |-> theirs, after |-> no, at |-> zero, landed |-> false,
                            tries |-> zero]
        OBVIOUS
      <4>5. [x EXCEPT !.before = theirs] = x1
        BY <4>3, <4>4
      <4>6. PICK x2 : x2 = [before |-> theirs, after |-> ours, at |-> zero, landed |-> false,
                            tries |-> zero]
        OBVIOUS
      <4>7. [x1 EXCEPT !.after = ours] = x2
        BY <4>4, <4>6
      <4>8. c = [before |-> theirs, after |-> ours, at |-> v, landed |-> false, tries |-> zero]
        BY <2>1, <4>1, Zenon
      <4>9. [x2 EXCEPT !.at = v] = c
        BY <4>6, <4>8
      <4>10. [x EXCEPT !.before = theirs, !.after = ours, !.at = v] = c
        BY <4>5, <4>7, <4>9, Zenon
      <4> QED
        BY <4>1, <4>2, <4>10, Zenon
    <3>2. checkout' = [checkout EXCEPT ![j] = c]
      BY <1>1, <1>7, <3>1
    <3> QED
      BY <2>2, <3>2, Zenon
  <2>4. PICK b : b = [run |-> r, files |-> out[j][r]]
    OBVIOUS
  <2>5. b.run = r /\ b.files = out[j][r]
        /\ bundle' = [bundle EXCEPT ![j] = [run |-> b.run, files |-> b.files]]
    BY <1>1, <2>4
  <2>6. bundle'[j] = [run |-> b.run, files |-> b.files] /\ checkout'[j] = c
    <3>1. j \in DOMAIN bundle /\ j \in DOMAIN checkout
      BY DEF PubInv, Typed
    <3>2. bundle'[j] = [run |-> b.run, files |-> b.files]
      BY <2>5, <3>1
    <3>3. checkout'[j] = [before |-> c.before, after |-> c.after, at |-> c.at, landed |-> c.landed,
                          tries |-> c.tries]
      BY <2>3, <3>1
    <3> QED
      BY <2>2, <3>2, <3>3, Zenon
  <2>7. bundle'[j].run = r /\ bundle'[j].files = out[j][r]
    BY <2>5, <2>6
  <2>8. CommitOK(j)'
    <3>1. /\ checkout'[j].before = archive[r] /\ checkout'[j].after = out[j][r]
          /\ checkout'[j].landed = FALSE
      BY <2>2, <2>6
    <3>2. Run(j)' = r
      BY <2>7 DEF Run
    <3> QED
      BY <1>2, <1>3, <1>5, <2>7, <3>1, <3>2 DEF CommitOK, OnMain
  <2> HIDE <2>1, <2>4
  <2> QED
    BY <1>1, <1>2, <1>7, <2>3, <2>5, <2>8, CommitStep
<1> QED
  BY <1>6, <1>7

LEMMA RebasesInv ==
  ASSUME PubInv, NEW j \in Jobs, Rebases(j)
  PROVE  PubInv'
<1>1. /\ pc[j] = "committed" /\ UNCHANGED <<out, bundle, archive, archived>>
      /\ IF Conflicts(checkout[j], archive[Run(j)])
         THEN Ends(j, "failed")
         ELSE /\ checkout' = [checkout EXCEPT ![j].before = archive[Run(j)], ![j].at = version,
                                              ![j].after = Rebased(checkout[j], archive[Run(j)])]
              /\ Goto(j, "rebased")
  BY DEF Rebases, mainVars
<1>2. CASE Conflicts(checkout[j], archive[Run(j)])
  BY <1>1, <1>2, GivesUp
<1>3. CASE ~Conflicts(checkout[j], archive[Run(j)])
  <2>1. PICK old, r, theirs : old = checkout[j] /\ r = Run(j) /\ theirs = archive[Run(j)]
    OBVIOUS
  <2>2. PICK merged : merged = Rebased(old, theirs)
    OBVIOUS
  <2>3. /\ r \in Runs /\ Whole(r, bundle[j].files) /\ Whole(r, old.after)
        /\ old.before = Nothing \/ (OnMain(r, old.before) /\ theirs # Nothing)
        /\ old.landed => bundle[j] \in archived /\ theirs # Nothing
        /\ old.after = bundle[j].files \/ bundle[j] \in archived
        /\ theirs = Nothing \/ OnMain(r, theirs)
        /\ bundle[j] = [run |-> r, files |-> bundle[j].files]
    <3>1. CommitOK(j) /\ bundle[j] = [run |-> bundle[j].run, files |-> bundle[j].files]
      BY <1>1 DEF PubInv, JobOK, Working, Typed
    <3> QED
      BY <2>1, <3>1 DEF CommitOK, PubInv, ArchiveInv, Run
  <2>4. old.landed => merged = theirs
    BY <2>2 DEF Rebased
  <2>5. ~old.landed => merged = old.after \/ (old.after = old.before /\ merged = theirs)
    <3>1. /\ old.before = Nothing \/ Whole(r, old.before)
          /\ theirs = Nothing \/ Whole(r, theirs)
          /\ ~Conflicts(old, theirs)
      BY <1>3, <2>1, <2>3 DEF OnMain
    <3> QED
      BY <2>2, <2>3, <3>1, RebaseIsWhole
  <2>6. Whole(r, merged) /\ (merged = bundle[j].files \/ bundle[j] \in archived)
    <3>1. old.after # Nothing
      BY <2>3, NothingFacts DEF Whole, Manifest
    <3>2. CASE old.landed
      BY <2>3, <2>4, <3>2 DEF OnMain
    <3>3. CASE merged = old.after
      BY <2>3, <3>3
    <3>4. CASE old.after = old.before /\ merged = theirs
      BY <2>3, <3>1, <3>4 DEF OnMain
    <3> QED
      BY <2>5, <3>2, <3>3, <3>4
  <2>7. PICK c : c = [before |-> theirs, after |-> merged, at |-> version, landed |-> old.landed,
                      tries |-> old.tries]
    OBVIOUS
  <2>8. /\ c.before = theirs /\ c.after = merged /\ c.landed = old.landed
        /\ c = [before |-> c.before, after |-> c.after, at |-> c.at, landed |-> c.landed,
                tries |-> c.tries]
    BY <2>7
  <2>9. j \in DOMAIN checkout
        /\ old = [before |-> old.before, after |-> old.after, at |-> old.at,
                  landed |-> old.landed, tries |-> old.tries]
    BY <2>1 DEF PubInv, Typed
  <2>10. checkout' = [checkout EXCEPT ![j] = c]
    <3>1. PICK v : v = version
      OBVIOUS
    <3>2. checkout' = [checkout EXCEPT ![j] =
                         [old EXCEPT !.before = theirs, !.at = v, !.after = merged]]
      BY <1>1, <1>3, <2>1, <2>2, <2>9, <3>1
    <3>3. [old EXCEPT !.before = theirs, !.at = v, !.after = merged] = c
      <4>1. c = [before |-> theirs, after |-> merged, at |-> v, landed |-> old.landed,
                 tries |-> old.tries]
        BY <2>7, <3>1
      <4>2. PICK x1 : x1 = [before |-> theirs, after |-> old.after, at |-> old.at,
                            landed |-> old.landed, tries |-> old.tries]
        OBVIOUS
      <4>3. [old EXCEPT !.before = theirs] = x1
        BY <2>9, <4>2
      <4>4. PICK x2 : x2 = [before |-> theirs, after |-> old.after, at |-> v,
                            landed |-> old.landed, tries |-> old.tries]
        OBVIOUS
      <4>5. [x1 EXCEPT !.at = v] = x2
        BY <4>2, <4>4
      <4>6. [x2 EXCEPT !.after = merged] = c
        BY <4>1, <4>4
      <4> QED
        BY <4>3, <4>5, <4>6, Zenon
    <3> QED
      BY <3>2, <3>3, Zenon
  <2>11. checkout'[j] = c
    BY <2>9, <2>10
  <2>12. checkout' = [checkout EXCEPT ![j] =
                  [before |-> c.before, after |-> c.after, at |-> c.at, landed |-> c.landed,
                   tries |-> c.tries]]
    BY <2>8, <2>10, Zenon
  <2>13. CommitOK(j)'
    <3>1. Run(j)' = r /\ archive'[r] = theirs
      BY <1>1, <2>1 DEF Run
    <3> QED
      BY <1>1, <2>3, <2>6, <2>8, <2>11, <3>1 DEF CommitOK, OnMain
  <2> HIDE <2>1, <2>2, <2>7
  <2> QED
    BY <1>1, <1>3, <2>12, <2>13, CommitStep
<1> QED
  BY <1>2, <1>3

(* A push that is tried again leaves the commit where it is. *)
Kept(j, landed) ==
  \E c : /\ c.before = checkout[j].before /\ c.after = checkout[j].after
         /\ c.landed = landed
         /\ checkout' = [checkout EXCEPT ![j] =
              [before |-> c.before, after |-> c.after, at |-> c.at, landed |-> c.landed,
               tries |-> c.tries]]

LEMMA TriedAgain ==
  ASSUME PubInv, NEW j \in Jobs, NEW landed, Retries(j, landed), ~Ends(j, "failed")
  PROVE  /\ Goto(j, "committed")
         /\ Kept(j, landed)
<1>0. /\ Goto(j, "committed")
      /\ checkout' = [checkout EXCEPT ![j].tries = @ + 1, ![j].landed = landed]
  BY DEF Retries
<1>1. PICK old, more : old = checkout[j] /\ more = checkout[j].tries + 1
  OBVIOUS
<1>2. j \in DOMAIN checkout
      /\ old = [before |-> old.before, after |-> old.after, at |-> old.at,
                landed |-> old.landed, tries |-> old.tries]
  BY <1>1 DEF PubInv, Typed
<1>3. checkout' = [checkout EXCEPT ![j] = [old EXCEPT !.tries = more, !.landed = landed]]
  BY <1>0, <1>1, <1>2
<1>4. PICK x : x = [before |-> old.before, after |-> old.after, at |-> old.at,
                    landed |-> old.landed, tries |-> more]
  OBVIOUS
<1>5. [old EXCEPT !.tries = more] = x
  BY <1>2, <1>4
<1>6. PICK c : c = [before |-> old.before, after |-> old.after, at |-> old.at,
                    landed |-> landed, tries |-> more]
  OBVIOUS
<1>7. [x EXCEPT !.landed = landed] = c
  BY <1>4, <1>6
<1>8. [old EXCEPT !.tries = more, !.landed = landed] = c
  BY <1>5, <1>7, Zenon
<1>9. /\ c.before = old.before /\ c.after = old.after /\ c.landed = landed
      /\ c = [before |-> c.before, after |-> c.after, at |-> c.at, landed |-> c.landed,
              tries |-> c.tries]
  BY <1>6
<1>10. checkout' = [checkout EXCEPT ![j] =
                     [before |-> c.before, after |-> c.after, at |-> c.at, landed |-> c.landed,
                      tries |-> c.tries]]
  BY <1>3, <1>8, <1>9, Zenon
<1> QED
  BY <1>0, <1>1, <1>9, <1>10, Zenon DEF Kept

LEMMA PushFailsInv ==
  ASSUME PubInv, NEW j \in Jobs, PushFails(j)
  PROVE  PubInv'
<1>1. /\ pc[j] = "rebased" /\ UNCHANGED <<out, bundle, archive, archived>>
      /\ Retries(j, checkout[j].landed)
  BY DEF PushFails, mainVars
<1>2. CASE Ends(j, "failed")
  BY <1>1, <1>2, GivesUp
<1>3. CASE ~Ends(j, "failed")
  <2>1. PICK landed : landed = checkout[j].landed
    OBVIOUS
  <2>2. Retries(j, landed)
    BY <1>1, <2>1, Zenon
  <2>3. Goto(j, "committed") /\ Kept(j, landed)
    BY <1>3, <2>2, TriedAgain
  <2>4. PICK c : /\ c.before = checkout[j].before /\ c.after = checkout[j].after
                 /\ c.landed = landed
                 /\ checkout' = [checkout EXCEPT ![j] =
                      [before |-> c.before, after |-> c.after, at |-> c.at,
                       landed |-> c.landed, tries |-> c.tries]]
    BY <2>3 DEF Kept
  <2>5. /\ checkout'[j].before = checkout[j].before /\ checkout'[j].after = checkout[j].after
        /\ checkout'[j].landed = checkout[j].landed
    <3>1. j \in DOMAIN checkout
      BY DEF PubInv, Typed
    <3>2. checkout'[j] = [before |-> c.before, after |-> c.after, at |-> c.at,
                          landed |-> c.landed, tries |-> c.tries]
      BY <2>4, <3>1
    <3> QED
      BY <2>1, <2>4, <3>2
  <2>6. CommitOK(j)
    BY <1>1 DEF PubInv, JobOK, Working
  <2>7. CommitOK(j)'
    BY <1>1, <2>5, <2>6 DEF CommitOK, Run, OnMain
  <2> QED
    BY <1>1, <2>3, <2>4, <2>7, CommitStep
<1> QED
  BY <1>1, <1>2, <1>3

-----------------------------------------------------------------------------
(* A bundle arrives on main: nothing that was there is forgotten. *)
LEMMA Arrives ==
  ASSUME PubInv, NEW r \in Runs, NEW dir, Whole(r, dir),
         archive' = [archive EXCEPT ![r] = dir],
         archived' = archived \union {[run |-> r, files |-> dir]}
  PROVE  /\ ArchiveInv' /\ DOMAIN archive' = Runs /\ archive'[r] = dir /\ dir # Nothing
         /\ [run |-> r, files |-> dir] \in archived' /\ archived \subseteq archived'
         /\ \A q \in Runs : archive[q] # Nothing => archive'[q] # Nothing
         /\ \A q, d : OnMain(q, d) => OnMain(q, d)'
<1>1. DOMAIN archive = Runs /\ ArchiveInv
  BY DEF PubInv, Typed
<1>2. /\ DOMAIN archive' = Runs /\ archive'[r] = dir
      /\ \A q \in Runs : archive'[q] = IF q = r THEN dir ELSE archive[q]
  BY <1>1
<1>3. dir # Nothing
  BY NothingFacts DEF Whole, Manifest
<1>4. [run |-> r, files |-> dir] \in archived' /\ archived \subseteq archived'
  OBVIOUS
<1>5. \A q, d : OnMain(q, d) => OnMain(q, d)'
  BY <1>4 DEF OnMain, Whole, Manifest, Listed, Directory
<1>7. ASSUME NEW q \in Runs
      PROVE  \/ archive'[q] = Nothing
             \/ Whole(q, archive'[q]) /\ [run |-> q, files |-> archive'[q]] \in archived'
  <2>1. CASE q = r
    BY <1>2, <1>4, <2>1
  <2>2. CASE q # r
    <3>1. archive'[q] = archive[q] /\ (archive[q] = Nothing \/ OnMain(q, archive[q]))
      BY <1>1, <1>2, <2>2 DEF ArchiveInv
    <3> QED
      BY <1>4, <3>1 DEF OnMain
  <2> QED
    BY <2>1, <2>2
<1>8. ArchiveInv'
  BY <1>7 DEF ArchiveInv, OnMain
<1> QED
  BY <1>2, <1>3, <1>4, <1>5, <1>8

LEMMA PushesInv ==
  ASSUME PubInv, NEW j \in Jobs, NEW answered \in BOOLEAN, Pushes(j, answered)
  PROVE  PubInv'
<1>1. PICK r, dir : r = Run(j) /\ dir = checkout[j].after
  OBVIOUS
<1>2. /\ pc[j] = "rebased" /\ UNCHANGED <<out, bundle>>
      /\ archive' = [archive EXCEPT ![r] = dir]
      /\ archived' = archived \union {[run |-> r, files |-> dir]}
      /\ Ends(j, "published") \/ Retries(j, TRUE)
  BY <1>1 DEF Pushes
<1>3. CommitOK(j) /\ r \in Runs /\ Whole(r, dir)
      /\ bundle[j] = [run |-> r, files |-> bundle[j].files]
  BY <1>1, <1>2 DEF PubInv, JobOK, Working, CommitOK, Typed, Run
<1>4. /\ ArchiveInv' /\ DOMAIN archive' = Runs /\ archive'[r] = dir /\ dir # Nothing
      /\ [run |-> r, files |-> dir] \in archived' /\ archived \subseteq archived'
      /\ \A q \in Runs : archive[q] # Nothing => archive'[q] # Nothing
      /\ \A q, d : OnMain(q, d) => OnMain(q, d)'
  BY <1>2, <1>3, Arrives
<1>5. bundle[j] \in archived'
  BY <1>1, <1>3, <1>4 DEF CommitOK
<1>6. OutInv'
  BY <1>2 DEF PubInv, OutInv, Manifest, Directory, Listed
<1>7. ASSUME NEW k \in Jobs, pc'[k] = pc[k], checkout'[k] = checkout[k]
      PROVE  JobOK(k)'
  <2>1. JobOK(k) /\ bundle'[k] = bundle[k]
    BY <1>2 DEF PubInv
  <2>2. CommitOK(k) => CommitOK(k)'
    BY <1>4, <1>7, <2>1 DEF CommitOK, OnMain, Run
  <2> QED
    BY <1>4, <1>7, <2>1, <2>2 DEF JobOK, Working
<1>8. ASSUME NEW outcome \in {"published", "failed"}, Ends(j, outcome)
      PROVE  PubInv'
  <2>1. outcome \in States /\ Typed
    BY DEF States, PubInv
  <2>2. /\ pc' \in [Jobs -> States] /\ pc'[j] = outcome
        /\ DOMAIN checkout' = Jobs
        /\ \A k \in Jobs : checkout'[k]
             = [before |-> checkout'[k].before, after |-> checkout'[k].after,
                at |-> checkout'[k].at, landed |-> checkout'[k].landed,
                tries |-> checkout'[k].tries]
        /\ \A k \in Jobs \ {j} : pc'[k] = pc[k] /\ checkout'[k] = checkout[k]
    BY <1>8, <2>1, EndsTyped
  <2>3. Typed'
    BY <1>2, <1>4, <2>1, <2>2 DEF Typed
  <2>4. JobOK(j)'
    BY <1>2, <1>5, <2>2 DEF JobOK, Working
  <2>5. \A k \in Jobs : JobOK(k)'
    BY <1>7, <2>2, <2>4
  <2> QED
    BY <1>4, <1>6, <2>3, <2>5 DEF PubInv
<1>9. ASSUME Retries(j, TRUE), ~Ends(j, "failed") PROVE PubInv'
  <2>0. Goto(j, "committed") /\ Kept(j, TRUE)
    BY <1>9, TriedAgain
  <2>1. PICK c : /\ c.before = checkout[j].before /\ c.after = checkout[j].after
                 /\ c.landed = TRUE
                 /\ checkout' = [checkout EXCEPT ![j] =
                      [before |-> c.before, after |-> c.after, at |-> c.at,
                       landed |-> c.landed, tries |-> c.tries]]
    BY <2>0 DEF Kept
  <2>2. Typed
    BY DEF PubInv
  <2>3. /\ DOMAIN checkout' = Jobs
        /\ checkout'[j] = [before |-> c.before, after |-> c.after, at |-> c.at,
                           landed |-> c.landed, tries |-> c.tries]
        /\ \A k \in Jobs \ {j} : checkout'[k] = checkout[k]
    BY <2>1, <2>2 DEF Typed
  <2>4. \A k \in Jobs : checkout'[k]
           = [before |-> checkout'[k].before, after |-> checkout'[k].after,
              at |-> checkout'[k].at, landed |-> checkout'[k].landed,
              tries |-> checkout'[k].tries]
    BY <2>2, <2>3 DEF Typed
  <2>5. /\ pc' \in [Jobs -> States] /\ pc'[j] = "committed"
        /\ \A k \in Jobs \ {j} : pc'[k] = pc[k]
    BY <2>0, <2>2 DEF Goto, Typed, States
  <2>6. Typed'
    BY <1>2, <1>4, <2>2, <2>3, <2>4, <2>5 DEF Typed
  <2>7. CommitOK(j)'
    <3>1. /\ checkout'[j].before = checkout[j].before /\ checkout'[j].after = dir
          /\ Run(j)' = r /\ bundle'[j] = bundle[j]
      BY <1>1, <1>2, <2>1, <2>3 DEF Run
    <3> QED
      BY <1>1, <1>3, <1>4, <1>5, <3>1 DEF CommitOK
  <2>8. JobOK(j)'
    BY <2>5, <2>7 DEF JobOK
  <2>9. \A k \in Jobs : JobOK(k)'
    BY <1>7, <2>3, <2>5, <2>8
  <2> QED
    BY <1>4, <1>6, <2>6, <2>9 DEF PubInv
<1> QED
  BY <1>2, <1>8, <1>9

LEMMA PubNextInv == PubInv /\ [Next]_vars => PubInv'
<1> SUFFICES ASSUME PubInv, [Next]_vars PROVE PubInv'
  OBVIOUS
<1>1. CASE OthersPush
  <2>1. UNCHANGED <<pc, out, bundle, checkout, archive, archived>>
    BY <1>1 DEF OthersPush
  <2> QED
    BY <2>1 DEF PubInv, Typed, OutInv, ArchiveInv, JobOK, Working, CommitOK, Run, OnMain
<1>2. ASSUME NEW j \in Jobs, Step(j) PROVE PubInv'
  <2>1. ASSUME NEW g \in Goldens, NEW w \in Inputs, Bundles(j, g, w) PROVE PubInv'
    BY <2>1, BundlesInv
  <2>2. CASE LosesFile(j)
    BY <2>2, LosesFileInv
  <2>3. CASE PublishBegins(j)
    BY <2>3, PublishBeginsInv
  <2>4. CASE PublishRejects(j)
    BY <2>4, GivesUp DEF PublishRejects, mainVars
  <2>5. CASE PublishStops(j)
    BY <2>5, GivesUp DEF PublishStops, mainVars
  <2>6. CASE Rebases(j)
    BY <2>6, RebasesInv
  <2>7. CASE PushFails(j)
    BY <2>7, PushFailsInv
  <2>8. ASSUME NEW answered \in BOOLEAN, Pushes(j, answered) PROVE PubInv'
    BY <2>8, PushesInv
  <2> QED
    BY <1>2, <2>1, <2>2, <2>3, <2>4, <2>5, <2>6, <2>7, <2>8 DEF Step
<1>3. CASE UNCHANGED vars
  <2>1. UNCHANGED <<pc, out, bundle, checkout, archive, archived>>
    BY <1>3 DEF vars, mainVars
  <2> QED
    BY <2>1 DEF PubInv, Typed, OutInv, ArchiveInv, JobOK, Working, CommitOK, Run, OnMain
<1> QED
  BY <1>1, <1>2, <1>3 DEF Next

(* In every reachable state, each directory on main and each commit under  *)
(* way is a whole bundle of one run (bundle.rs:202, publish.rs:49).        *)
THEOREM PubInvariance == Spec => []PubInv
<1>1. Init => PubInv
  BY PubInitInv
<1>2. PubInv /\ [Next]_vars => PubInv'
  BY PubNextInv
<1> QED
  BY <1>1, <1>2, PTL DEF Spec

(* A publication that reports success has put its bundle on main, however  *)
(* often it was pushed and whatever main received meanwhile                *)
(* (publish.rs:76 and 106).                                                *)
THEOREM Published == Spec => []SuccessPublished
<1>1. PubInv => SuccessPublished
  BY DEF PubInv, JobOK, SuccessPublished
<1> QED
  BY <1>1, PubInvariance, PTL

-----------------------------------------------------------------------------
(* The types of a job's variables. *)
CheckoutOK(c, v) ==
  /\ DOMAIN c.before \subseteq Files /\ DOMAIN c.after \subseteq Files
  /\ c.at \in 0 .. v /\ c.landed \in BOOLEAN
  /\ c.tries \in 0 .. Attempts - 1

JobTyped(j) ==
  /\ Run(j) \in Runs /\ DOMAIN bundle[j].files \subseteq Files
  /\ CheckoutOK(checkout[j], version)
  /\ \A r \in Runs : DOMAIN out[j][r] \subseteq Files

MainTyped == version \in 0 .. MaxVersion /\ clock \in 0 .. MaxBundles

LEMMA TypeOKIs ==
  ASSUME Typed, MainTyped, \A j \in Jobs : JobTyped(j)
  PROVE  TypeOK
BY DEF Typed, States, MainTyped, JobTyped, CheckoutOK, TypeOK

LEMMA TypeOKParts == TypeOK => MainTyped /\ \A j \in Jobs : JobTyped(j)
BY DEF MainTyped, JobTyped, CheckoutOK, TypeOK

LEMMA NoCheckoutOK ==
  ASSUME NEW v \in Nat
  PROVE  CheckoutOK(NoCheckout, v)
BY NothingFacts DEF CheckoutOK, NoCheckout

LEMMA WithinFiles ==
  ASSUME PubInv, NEW r \in Runs
  PROVE  DOMAIN archive[r] \subseteq Files
BY NothingFacts DEF PubInv, ArchiveInv, OnMain, Whole, Manifest, Directory

(* The step of a job keeps the types of the others: main only grows. *)
LEMMA OthersTyped ==
  ASSUME TypeOK, version' \in Nat, version <= version',
         NEW k \in Jobs,
         UNCHANGED <<bundle[k], checkout[k], out[k]>>
  PROVE  JobTyped(k)'
BY TypeOKParts DEF JobTyped, CheckoutOK, Run, TypeOK

(* A job that ends has no checkout. *)
LEMMA EndsCheckout ==
  ASSUME PubInv, NEW j \in Jobs, NEW outcome, Ends(j, outcome)
  PROVE  /\ checkout'[j] = NoCheckout
         /\ \A k \in Jobs \ {j} : checkout'[k] = checkout[k]
BY DEF Ends, PubInv, Typed

LEMMA RetriesCheckout ==
  ASSUME PubInv, TypeOK, NEW j \in Jobs, NEW landed \in BOOLEAN, Retries(j, landed),
         NEW v \in Nat, version <= v
  PROVE  /\ CheckoutOK(checkout'[j], v)
         /\ \A k \in Jobs \ {j} : checkout'[k] = checkout[k]
<1>1. CASE Ends(j, "failed")
  BY <1>1, EndsCheckout, NoCheckoutOK
<1>2. CASE ~Ends(j, "failed")
  <2>1. /\ checkout[j].tries + 1 < Attempts
        /\ checkout' = [checkout EXCEPT ![j].tries = @ + 1, ![j].landed = landed]
    BY <1>2 DEF Retries, TypeOK
  <2>2. DOMAIN checkout = Jobs /\ version \in Nat /\ CheckoutOK(checkout[j], version)
    BY TypeOKParts DEF PubInv, Typed, TypeOK, JobTyped
  <2>3. PICK old : old = checkout[j]
    OBVIOUS
  <2>4. old = [before |-> old.before, after |-> old.after, at |-> old.at,
               landed |-> old.landed, tries |-> old.tries]
    BY <2>3 DEF PubInv, Typed
  <2>5. /\ checkout'[j] = [[old EXCEPT !.tries = @ + 1] EXCEPT !.landed = landed]
        /\ \A k \in Jobs \ {j} : checkout'[k] = checkout[k]
    BY <2>1, <2>2, <2>3
  <2>6. PICK c : c = checkout'[j]
    OBVIOUS
  <2>7. /\ c.before = old.before /\ c.after = old.after /\ c.at = old.at
        /\ c.landed = landed /\ c.tries = old.tries + 1
    BY <2>4, <2>5, <2>6
  <2>8. CheckoutOK(c, v)
    BY <2>1, <2>2, <2>3, <2>7 DEF CheckoutOK
  <2> QED
    BY <2>5, <2>6, <2>8
<1> QED
  BY <1>1, <1>2

LEMMA JobTypes ==
  ASSUME PubInv, PubInv', TypeOK, NEW j \in Jobs, Step(j)
  PROVE  /\ JobTyped(j)' /\ MainTyped' /\ version <= version'
         /\ \A k \in Jobs \ {j} : UNCHANGED <<bundle[k], checkout[k], out[k]>>
<1> USE DEF MainTyped
<1>1. /\ Typed /\ Typed' /\ JobTyped(j) /\ version \in Nat /\ version \in 0 .. MaxVersion
      /\ clock \in 0 .. MaxBundles
  BY TypeOKParts DEF PubInv, TypeOK
<1>2. ASSUME NEW outcome, Ends(j, outcome)
      PROVE  /\ CheckoutOK(checkout'[j], version)
             /\ \A k \in Jobs \ {j} : checkout'[k] = checkout[k]
  BY <1>1, <1>2, EndsCheckout, NoCheckoutOK
<1>3. ASSUME NEW golden \in Goldens, NEW workloads \in Inputs, Bundles(j, golden, workloads)
      PROVE  /\ JobTyped(j)' /\ MainTyped' /\ version <= version'
             /\ \A k \in Jobs \ {j} : UNCHANGED <<bundle[k], checkout[k], out[k]>>
  <2>1. /\ Accepted(golden, workloads) /\ Ends(j, "idle") /\ UNCHANGED <<bundle, version>>
        /\ clock < MaxBundles /\ clock' = clock + 1
    BY <1>3 DEF Bundles, mainVars
  <2>2. PICK r, dir : /\ r = Session(workloads)
                      /\ dir = With(Written(golden, workloads), "run.json",
                                    [finished |-> clock', results |-> Written(golden, workloads)])
    OBVIOUS
  <2>3. out' = [out EXCEPT ![j][r] = dir]
    BY <1>3, <2>2 DEF Bundles
  <2>4. r \in Runs /\ DOMAIN dir \subseteq Files
    BY <2>1, <2>2, BundledIs DEF Manifest, Directory
  <2>5. /\ \A k \in Jobs \ {j} : out'[k] = out[k]
        /\ \A q \in Runs : out'[j][q] = IF q = r THEN dir ELSE out[j][q]
    BY <1>1, <2>3, <2>4 DEF Typed
  <2> HIDE <2>2
  <2>6. JobTyped(j)'
    BY <1>1, <1>2, <2>1, <2>4, <2>5 DEF JobTyped, Run
  <2> QED
    BY <1>1, <1>2, <2>1, <2>5, <2>6
<1>4. CASE LosesFile(j)
  <2>1. Ends(j, "idle") /\ UNCHANGED <<bundle, version, clock>>
    BY <1>4 DEF LosesFile, mainVars
  <2>2. PICK r \in Runs :
          \E f : out' = [out EXCEPT ![j][r] = Seen(Restrict(out[j][r], DOMAIN out[j][r] \ {f}))]
    BY <1>4 DEF LosesFile
  <2>3. PICK f : out' = [out EXCEPT ![j][r] = Seen(Restrict(out[j][r], DOMAIN out[j][r] \ {f}))]
    BY <2>2
  <2>4. PICK dir : dir = Seen(Restrict(out[j][r], DOMAIN out[j][r] \ {f}))
    OBVIOUS
  <2>5. DOMAIN dir \subseteq Files
    BY <1>1, <2>4, NothingFacts DEF JobTyped, Seen, Restrict
  <2>6. /\ \A k \in Jobs \ {j} : out'[k] = out[k]
        /\ \A q \in Runs : out'[j][q] = IF q = r THEN dir ELSE out[j][q]
    BY <1>1, <2>3, <2>4 DEF Typed
  <2>7. JobTyped(j)'
    BY <1>1, <1>2, <2>1, <2>5, <2>6 DEF JobTyped, Run
  <2> QED
    BY <1>1, <1>2, <2>1, <2>6, <2>7
<1>5. CASE PublishBegins(j)
  <2>1. PICK r \in Runs :
          /\ bundle' = [bundle EXCEPT ![j] = [run |-> r, files |-> out[j][r]]]
          /\ \/ Ends(j, "published")
             \/ checkout' = [checkout EXCEPT ![j] =
                  [NoCheckout EXCEPT !.before = archive[r], !.after = out[j][r], !.at = version]]
    BY <1>5 DEF PublishBegins, Copied, Manifests
  <2>2. UNCHANGED <<out, version, clock>>
    BY <1>5 DEF PublishBegins, mainVars
  <2>3. /\ \A k \in Jobs \ {j} : bundle'[k] = bundle[k]
        /\ Run(j)' = r /\ bundle'[j].files = out[j][r]
    BY <1>1, <2>1 DEF Typed, Run
  <2>4. DOMAIN archive[r] \subseteq Files /\ DOMAIN out[j][r] \subseteq Files
    BY <1>1, WithinFiles DEF JobTyped
  <2>5. /\ CheckoutOK(checkout'[j], version)
        /\ \A k \in Jobs \ {j} : checkout'[k] = checkout[k]
    <3>1. CASE Ends(j, "published")
      BY <1>2, <3>1
    <3>2. ASSUME checkout' = [checkout EXCEPT ![j] =
                    [NoCheckout EXCEPT !.before = archive[r], !.after = out[j][r], !.at = version]]
          PROVE  /\ CheckoutOK(checkout'[j], version)
                 /\ \A k \in Jobs \ {j} : checkout'[k] = checkout[k]
      <4>1. /\ checkout'[j] = [NoCheckout EXCEPT !.before = archive[r], !.after = out[j][r],
                                                 !.at = version]
            /\ \A k \in Jobs \ {j} : checkout'[k] = checkout[k]
        BY <1>1, <3>2 DEF Typed
      <4>2. PICK c : c = checkout'[j]
        OBVIOUS
      <4>3. /\ c.before = archive[r] /\ c.after = out[j][r] /\ c.at = version
            /\ c.landed = FALSE /\ c.tries = 0
        BY <4>1, <4>2 DEF NoCheckout
      <4>4. CheckoutOK(c, version)
        <5>1. c.landed \in BOOLEAN
          BY <4>3, Zenon
        <5>2. c.at \in 0 .. version /\ c.tries \in 0 .. Attempts - 1
          BY <1>1, <4>3, PublicationAssumption
        <5> QED
          BY <2>4, <4>3, <5>1, <5>2, Zenon DEF CheckoutOK
      <4> QED
        BY <4>1, <4>2, <4>4
    <3> QED
      BY <2>1, <3>1, <3>2
  <2>6. JobTyped(j)'
    BY <1>1, <2>2, <2>3, <2>4, <2>5 DEF JobTyped
  <2> QED
    BY <1>1, <2>2, <2>3, <2>5, <2>6
<1>6. CASE PublishRejects(j) \/ PublishStops(j)
  <2>1. Ends(j, "failed") /\ UNCHANGED <<out, bundle, version, clock>>
    BY <1>6 DEF PublishRejects, PublishStops, mainVars
  <2>2. JobTyped(j)'
    BY <1>1, <1>2, <2>1 DEF JobTyped, Run
  <2> QED
    BY <1>1, <1>2, <2>1, <2>2
<1>7. CASE Rebases(j)
  <2>1. PICK theirs, old : theirs = archive[Run(j)] /\ old = checkout[j]
    OBVIOUS
  <2>2. /\ UNCHANGED <<out, bundle, version, clock>>
        /\ \/ Ends(j, "failed")
           \/ checkout' = [checkout EXCEPT ![j].before = theirs, ![j].at = version,
                                           ![j].after = Rebased(old, theirs)]
    BY <1>7, <2>1 DEF Rebases, mainVars
  <2>3. DOMAIN theirs \subseteq Files /\ DOMAIN Rebased(old, theirs) \subseteq Files
    BY <1>1, <2>1, WithinFiles DEF JobTyped, Rebased
  <2>4. /\ CheckoutOK(checkout'[j], version)
        /\ \A k \in Jobs \ {j} : checkout'[k] = checkout[k]
    <3>1. CASE Ends(j, "failed")
      BY <1>2, <3>1
    <3>2. ASSUME checkout' = [checkout EXCEPT ![j].before = theirs, ![j].at = version,
                                             ![j].after = Rebased(old, theirs)]
          PROVE  /\ CheckoutOK(checkout'[j], version)
                 /\ \A k \in Jobs \ {j} : checkout'[k] = checkout[k]
      <4>1. PICK merged, c : merged = Rebased(old, theirs) /\ c = checkout'[j]
        OBVIOUS
      <4>2. old = [before |-> old.before, after |-> old.after, at |-> old.at,
                   landed |-> old.landed, tries |-> old.tries]
        BY <1>1, <2>1 DEF Typed
      <4>3. /\ c = [[[old EXCEPT !.before = theirs] EXCEPT !.at = version]
                           EXCEPT !.after = merged]
            /\ \A k \in Jobs \ {j} : checkout'[k] = checkout[k]
        BY <1>1, <2>1, <3>2, <4>1 DEF Typed
      <4>4. /\ c.before = theirs /\ c.after = merged /\ c.at = version
            /\ c.landed = old.landed /\ c.tries = old.tries
        BY <4>2, <4>3
      <4>5. CheckoutOK(c, version)
        BY <1>1, <2>1, <2>3, <4>1, <4>4 DEF CheckoutOK, JobTyped
      <4> QED
        BY <4>1, <4>3, <4>5
    <3> QED
      BY <2>2, <3>1, <3>2
  <2>5. JobTyped(j)'
    BY <1>1, <2>2, <2>4 DEF JobTyped, Run
  <2> QED
    BY <1>1, <2>2, <2>4, <2>5
<1>8. CASE PushFails(j)
  <2>1. Retries(j, checkout[j].landed) /\ UNCHANGED <<out, bundle, version, clock>>
    BY <1>8 DEF PushFails, mainVars
  <2>2. checkout[j].landed \in BOOLEAN
    BY <1>1 DEF JobTyped, CheckoutOK
  <2>3. /\ CheckoutOK(checkout'[j], version)
        /\ \A k \in Jobs \ {j} : checkout'[k] = checkout[k]
    BY <1>1, <2>1, <2>2, RetriesCheckout
  <2>4. JobTyped(j)'
    BY <1>1, <2>1, <2>3 DEF JobTyped, Run
  <2> QED
    BY <1>1, <2>1, <2>3, <2>4
<1>9. ASSUME NEW answered \in BOOLEAN, Pushes(j, answered)
      PROVE  /\ JobTyped(j)' /\ MainTyped' /\ version <= version'
             /\ \A k \in Jobs \ {j} : UNCHANGED <<bundle[k], checkout[k], out[k]>>
  <2>1. /\ UNCHANGED <<out, bundle, clock>>
        /\ Ends(j, "published") \/ Retries(j, TRUE)
        /\ version' = version \/ (version < MaxVersion /\ version' = version + 1)
    BY <1>9 DEF Pushes
  <2>2. version' \in 0 .. MaxVersion /\ version <= version' /\ version' \in Nat
    BY <1>1, <2>1, PublicationAssumption
  <2>3. /\ CheckoutOK(checkout'[j], version')
        /\ \A k \in Jobs \ {j} : checkout'[k] = checkout[k]
    <3>1. CASE Ends(j, "published")
      BY <2>2, <3>1, EndsCheckout, NoCheckoutOK
    <3>2. CASE Retries(j, TRUE)
      BY <2>2, <3>2, RetriesCheckout
    <3> QED
      BY <2>1, <3>1, <3>2
  <2>4. JobTyped(j)'
    BY <1>1, <2>1, <2>3 DEF JobTyped, Run
  <2> QED
    BY <1>1, <2>1, <2>2, <2>3, <2>4
<1> QED
  BY <1>3, <1>4, <1>5, <1>6, <1>7, <1>8, <1>9 DEF Step

(* The types, with what the bundles are: no file is written beside those of *)
(* a bundle, and a push is tried Attempts times at most (publish.rs:106).   *)
THEOREM PublicationTypes == Spec => []TypeOK
<1>1. Init => TypeOK
  <2> SUFFICES ASSUME Init PROVE TypeOK
    OBVIOUS
  <2>1. Typed
    BY PubInitInv DEF PubInv
  <2>2. MainTyped /\ version = 0
    BY DEF Init, MainTyped
  <2>3. (CHOOSE r \in Runs : TRUE) \in Runs
    OBVIOUS
  <2>4. \A j \in Jobs : JobTyped(j)
    BY <2>2, <2>3, NothingFacts, NoCheckoutOK DEF Init, JobTyped, Run
  <2> QED
    BY <2>1, <2>2, <2>4, TypeOKIs
<1>2. PubInv /\ PubInv' /\ TypeOK /\ [Next]_vars => TypeOK'
  <2> SUFFICES ASSUME PubInv, PubInv', TypeOK, [Next]_vars PROVE TypeOK'
    OBVIOUS
  <2>1. ASSUME MainTyped', \A j \in Jobs : JobTyped(j)'
        PROVE  TypeOK'
    <3>1. Typed'
      BY DEF PubInv
    <3> QED
      BY <2>1, <3>1 DEF Typed, States, MainTyped, JobTyped, CheckoutOK, TypeOK, Run
  <2>2. version \in Nat /\ version \in 0 .. MaxVersion /\ clock \in 0 .. MaxBundles
    BY DEF TypeOK
  <2>3. CASE OthersPush
    <3>1. /\ version < MaxVersion /\ version' = version + 1
          /\ UNCHANGED <<out, bundle, checkout, clock>>
      BY <2>3 DEF OthersPush
    <3>2. MainTyped'
      BY <2>2, <3>1, PublicationAssumption DEF MainTyped
    <3>3. \A j \in Jobs : JobTyped(j)'
      BY <2>2, <3>1, OthersTyped
    <3> QED
      BY <2>1, <3>2, <3>3
  <2>4. ASSUME NEW j \in Jobs, Step(j) PROVE TypeOK'
    <3>1. /\ JobTyped(j)' /\ MainTyped' /\ version <= version'
          /\ \A k \in Jobs \ {j} : UNCHANGED <<bundle[k], checkout[k], out[k]>>
      BY <2>4, JobTypes
    <3>2. version' \in Nat
      BY <3>1 DEF MainTyped
    <3>3. \A k \in Jobs : JobTyped(k)'
      BY <3>1, <3>2, OthersTyped
    <3> QED
      BY <2>1, <3>1, <3>3
  <2>5. CASE UNCHANGED vars
    BY <2>5 DEF vars, mainVars, TypeOK, Run
  <2> QED
    BY <2>3, <2>4, <2>5 DEF Next
<1> QED
  BY <1>1, <1>2, PubInvariance, PTL DEF Spec

-----------------------------------------------------------------------------
(* A step puts a whole bundle of one run on main, or leaves main alone. *)
LEMMA StepImplements ==
  ASSUME PubInv, [Next]_vars
  PROVE  [Main!Next]_archive
<1>1. ASSUME NEW j \in Jobs, NEW answered \in BOOLEAN, Pushes(j, answered)
      PROVE  Main!Next
  <2>1. PICK r, dir : r = Run(j) /\ dir = checkout[j].after
    OBVIOUS
  <2>2. pc[j] = "rebased" /\ archive' = [archive EXCEPT ![r] = dir]
    BY <1>1, <2>1 DEF Pushes
  <2>3. r \in Runs /\ Whole(r, dir) /\ DOMAIN archive = Runs
    BY <2>1, <2>2 DEF PubInv, JobOK, Working, CommitOK, Typed
  <2>4. archive'[r] = dir /\ \A other \in Runs \ {r} : archive'[other] = archive[other]
    BY <2>2, <2>3
  <2>5. Main!Complete(r, archive'[r])
    BY <2>3, <2>4, WholeIsComplete
  <2> QED
    BY <2>3, <2>4, <2>5 DEF Main!Next
<1>2. ASSUME NEW j \in Jobs, Step(j), UNCHANGED archive \/ \E a \in BOOLEAN : Pushes(j, a)
      PROVE  [Main!Next]_archive
  BY <1>1, <1>2
<1>3. ASSUME NEW j \in Jobs, Step(j)
      PROVE  UNCHANGED archive \/ \E a \in BOOLEAN : Pushes(j, a)
  BY <1>3 DEF Step, Bundles, LosesFile, PublishBegins, PublishRejects, PublishStops, Rebases,
              PushFails, mainVars
<1>4. CASE OthersPush \/ UNCHANGED vars
  BY <1>4 DEF OthersPush, vars, mainVars
<1> QED
  BY <1>2, <1>3, <1>4 DEF Next

(* Whatever the jobs bundle, crash, merge and push, main holds complete    *)
(* bundles, and a push replaces the directory of one run only              *)
(* (docs/DESIGN.md, Results and validation).                               *)
THEOREM ArchiveImplemented == Spec => ImplementsArchive
<1>1. Init => Main!Init
  BY NothingFacts DEF Init, Main!Init
<1>2. PubInv /\ [Next]_vars => [Main!Next]_archive
  BY StepImplements
<1> QED
  BY <1>1, <1>2, PubInvariance, PTL DEF Spec, ImplementsArchive, Main!Spec
=============================================================================
