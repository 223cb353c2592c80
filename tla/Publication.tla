---------------------------- MODULE Publication ----------------------------
(***************************************************************************)
(* `bundle` (src/bundle.rs) and `publish` (src/publish.rs): workload       *)
(* outputs become a directory with a manifest, and the directory a commit  *)
(* that is rebased and pushed to main while main advances.  A job is one   *)
(* pipeline that bundles and publishes, again after a failure if need be;  *)
(* it publishes from a fresh checkout (.github/workflows/benchmark.yml).   *)
(*                                                                         *)
(* Abstractions.  A run's directory maps files to contents; a digest is    *)
(* the content.  A workload's result and series are one file.  A task's    *)
(* scale and checkpoint belong to its golden data set, both commits and    *)
(* the version to its source.  git merges whole files: run.json carries    *)
(* the time of its bundle, so two bundles of a run always differ in it.    *)
(***************************************************************************)
EXTENDS Naturals, FiniteSets, Functions

CONSTANTS Jobs, Runs, Tasks, Goldens,
          Outputs,     \* workload outputs: [session, golden, source, digestMatches]
          Attempts,    \* pushes that publish tries: 5
          MaxBundles,  \* bound: bundles completed
          MaxVersion   \* bound: commits on main

ASSUME PublicationAssumption ==
  /\ Attempts \in Nat \ {0} /\ MaxBundles \in Nat /\ MaxVersion \in Nat
  /\ \A o \in Outputs : o.session \in Runs /\ o.golden \in Goldens
  /\ Runs # {} /\ "golden.json" \notin Tasks /\ "run.json" \notin Tasks

VARIABLES
  pc,        \* idle, committed, rebased, published, failed
  out,       \* per job, the bundle output: per run, its directory
  bundle,    \* the bundle that a job publishes: [run, files]
  checkout,  \* its commit: the run's directory before and after, the version of main
             \* it is on, whether a push of it took effect, and the failed tries
  version,   \* main: how many commits it has
  archive,   \* main: per run, its directory under results/
  archived,  \* every bundle that has been on main
  clock      \* bundles completed

mainVars == <<version, archive, archived>>
vars == <<pc, out, bundle, checkout, mainVars, clock>>

Nothing == [f \in {} |-> f]
With(dir, f, content) == [g \in DOMAIN dir \union {f} |-> IF g = f THEN content ELSE dir[g]]
Files == Tasks \union {"golden.json", "run.json"}
Content(dir, f) == IF f \in DOMAIN dir THEN {dir[f]} ELSE {}
NoCheckout == [before |-> Nothing, after |-> Nothing, at |-> 0, landed |-> FALSE, tries |-> 0]

Init ==
  /\ pc = [j \in Jobs |-> "idle"]
  /\ out = [j \in Jobs |-> [r \in Runs |-> Nothing]]
  /\ bundle = [j \in Jobs |-> [run |-> CHOOSE r \in Runs : TRUE, files |-> Nothing]]
  /\ checkout = [j \in Jobs |-> NoCheckout]
  /\ version = 0 /\ archive = [r \in Runs |-> Nothing] /\ archived = {}
  /\ clock = 0

Ready(j) == pc[j] \in {"idle", "published", "failed"}
Run(j) == bundle[j].run
Goto(j, state) == pc' = [pc EXCEPT ![j] = state]

(* A publication that is over leaves its checkout behind. *)
Ends(j, outcome) == Goto(j, outcome) /\ checkout' = [checkout EXCEPT ![j] = NoCheckout]

-----------------------------------------------------------------------------
(* bundle *)

Inputs == UNION {[tasks -> Outputs] : tasks \in (SUBSET Tasks) \ {{}}}

(* validate_source_identities *)
SameSource(workloads) == \A t, u \in DOMAIN workloads : workloads[t].source = workloads[u].source

(* The checks that precede the first change; an input that fails one changes nothing. *)
Accepted(golden, workloads) ==
  /\ SameSource(workloads)
  /\ \A t, u \in DOMAIN workloads :
       /\ workloads[t].golden = golden /\ workloads[t].digestMatches
       /\ workloads[t].session = workloads[u].session

Session(workloads) == workloads[CHOOSE t \in DOMAIN workloads : TRUE].session
Written(golden, workloads) == With(workloads, "golden.json", golden)

(* The destination is removed, the files are written, then run.json with their digests. *)
Bundles(j, golden, workloads) ==
  LET files == Written(golden, workloads)
  IN  /\ Ready(j) /\ clock < MaxBundles
      /\ Accepted(golden, workloads)
      /\ clock' = clock + 1
      /\ out' = [out EXCEPT ![j][Session(workloads)] =
                    With(files, "run.json", [finished |-> clock', results |-> files])]
      /\ Ends(j, "idle")
      /\ UNCHANGED <<bundle, mainVars>>

(* A directory without its manifest is not looked into: it stands as an empty one. *)
Seen(dir) == IF "run.json" \in DOMAIN dir THEN dir ELSE Nothing

(* bundle stops while it removes a directory or writes it anew; or, external, *)
(* a file is lost between the job that bundles and the job that publishes.    *)
LosesFile(j) ==
  /\ Ready(j)
  /\ \E r \in Runs : \E f \in DOMAIN out[j][r] :
       out' = [out EXCEPT ![j][r] = Seen(Restrict(out[j][r], DOMAIN out[j][r] \ {f}))]
  /\ Ends(j, "idle")
  /\ UNCHANGED <<bundle, mainVars, clock>>

-----------------------------------------------------------------------------
(* publish *)

Manifests(j) == {r \in Runs : "run.json" \in DOMAIN out[j][r]}

(* validate_bundle_files *)
Verified(dir) ==
  dir["run.json"].results = Restrict(dir, DOMAIN dir \ {"run.json"})

Publishable(j) == Cardinality(Manifests(j)) = 1 /\ \A r \in Manifests(j) : Verified(out[j][r])

(* Mutant: the destination is not removed before the copy. *)
CopiedOver(source, destination) ==
  [f \in DOMAIN source \union DOMAIN destination |->
     IF f \in DOMAIN source THEN source[f] ELSE destination[f]]

(* The destination is removed, then the bundle copied. *)
Copied(source, destination) == source

(* The bundle is verified and copied into a checkout of main; git add and commit. *)
PublishBegins(j) ==
  /\ Ready(j) /\ Publishable(j)
  /\ \E r \in Manifests(j) :
       LET copy == Copied(out[j][r], archive[r])
       IN  /\ bundle' = [bundle EXCEPT ![j] = [run |-> r, files |-> out[j][r]]]
           /\ IF copy = archive[r]
              THEN Ends(j, "published")
              ELSE /\ Goto(j, "committed")
                   /\ checkout' = [checkout EXCEPT ![j] =
                        [NoCheckout EXCEPT !.before = archive[r], !.after = copy, !.at = version]]
  /\ UNCHANGED <<out, mainVars, clock>>

PublishRejects(j) ==
  /\ Ready(j) /\ ~Publishable(j)
  /\ Ends(j, "failed")
  /\ UNCHANGED <<out, bundle, mainVars, clock>>

(* The process is killed, or git fails otherwise. *)
PublishStops(j) ==
  /\ ~Ready(j)
  /\ Ends(j, "failed")
  /\ UNCHANGED <<out, bundle, mainVars, clock>>

(* git's merge of a file: the side that changed it wins; {} is an absent file. *)
Merge(before, ours, theirs) == IF ours = before THEN theirs ELSE ours
Conflict(before, ours, theirs) == ours # before /\ theirs # before /\ ours # theirs

(* The commit's directory, rebased on theirs.  A commit that has landed is below main's head. *)
Rebased(c, theirs) ==
  LET Merged(f) == Merge(Content(c.before, f), Content(c.after, f), Content(theirs, f))
      kept == {f \in Files : Merged(f) # {}}
  IN  IF c.landed THEN theirs ELSE [f \in kept |-> CHOOSE x \in Merged(f) : TRUE]

Conflicts(c, theirs) ==
  /\ ~c.landed
  /\ \E f \in Files : Conflict(Content(c.before, f), Content(c.after, f), Content(theirs, f))

(* git fetch and git rebase *)
Rebases(j) ==
  LET theirs == archive[Run(j)]
  IN  /\ pc[j] = "committed"
      /\ IF Conflicts(checkout[j], theirs)
         THEN Ends(j, "failed")
         ELSE /\ checkout' = [checkout EXCEPT ![j].before = theirs, ![j].at = version,
                                              ![j].after = Rebased(checkout[j], theirs)]
              /\ Goto(j, "rebased")
      /\ UNCHANGED <<out, bundle, mainVars, clock>>

(* Mutant: the loop makes one attempt too many. *)
RetriesOnceMore(j, landed) ==
  IF checkout[j].tries >= Attempts THEN Ends(j, "failed")
  ELSE /\ Goto(j, "committed")
       /\ checkout' = [checkout EXCEPT ![j].tries = @ + 1, ![j].landed = landed]

Retries(j, landed) ==
  IF checkout[j].tries + 1 >= Attempts THEN Ends(j, "failed")
  ELSE /\ Goto(j, "committed")
       /\ checkout' = [checkout EXCEPT ![j].tries = @ + 1, ![j].landed = landed]

(* The push takes effect: it is answered, or its answer is lost. *)
Pushes(j, answered) ==
  LET dir == checkout[j].after
      ahead == dir # archive[Run(j)]
  IN  /\ pc[j] = "rebased" /\ checkout[j].at = version
      /\ ahead => version < MaxVersion
      /\ version' = IF ahead THEN version + 1 ELSE version
      /\ archive' = [archive EXCEPT ![Run(j)] = dir]
      /\ archived' = archived \union {[run |-> Run(j), files |-> dir]}
      /\ IF answered THEN Ends(j, "published") ELSE Retries(j, TRUE)
      /\ UNCHANGED <<out, bundle, clock>>

(* Mutant: the status of the push is ignored. *)
PushIgnored(j) ==
  /\ pc[j] = "rebased"
  /\ Ends(j, "published")
  /\ UNCHANGED <<out, bundle, mainVars, clock>>

(* main has advanced, or the remote cannot be reached. *)
PushFails(j) ==
  /\ pc[j] = "rebased"
  /\ Retries(j, checkout[j].landed)
  /\ UNCHANGED <<out, bundle, mainVars, clock>>

(* External: someone else pushes to another path of main. *)
OthersPush ==
  /\ version < MaxVersion /\ version' = version + 1
  /\ UNCHANGED <<pc, out, bundle, checkout, archive, archived, clock>>

Step(j) ==
  \/ \E g \in Goldens : \E w \in Inputs : Bundles(j, g, w)
  \/ LosesFile(j)
  \/ PublishBegins(j) \/ PublishRejects(j) \/ PublishStops(j)
  \/ Rebases(j) \/ PushFails(j)
  \/ \E answered \in BOOLEAN : Pushes(j, answered)

Next == OthersPush \/ \E j \in Jobs : Step(j)

Spec == Init /\ [][Next]_vars

-----------------------------------------------------------------------------
(* Every variable keeps its type; a job pushes at most Attempts times. *)
TypeOK ==
  /\ pc \in [Jobs -> {"idle", "committed", "rebased", "published", "failed"}]
  /\ \A j \in Jobs :
       /\ Run(j) \in Runs /\ DOMAIN bundle[j].files \subseteq Files
       /\ DOMAIN checkout[j].before \union DOMAIN checkout[j].after \subseteq Files
       /\ checkout[j].at \in 0 .. version /\ checkout[j].landed \in BOOLEAN
       /\ checkout[j].tries \in 0 .. Attempts - 1
       /\ \A r \in Runs : DOMAIN out[j][r] \subseteq Files
  /\ version \in 0 .. MaxVersion /\ clock \in 0 .. MaxBundles
  /\ DOMAIN archive = Runs

(* A publication that reports success has put its bundle on main, also when *)
(* main advanced, when an answer was lost, and when the bundle was there    *)
(* already (publish.rs:76 and 106).                                         *)
SuccessPublished == \A j \in Jobs : pc[j] = "published" => bundle[j] \in archived

(* Whatever the jobs bundle, crash, merge and push, main holds complete *)
(* bundles of one run's results, and each push replaces only one run    *)
(* (docs/DESIGN.md:316).                                                *)
Main == INSTANCE Archive
ImplementsArchive == Main!Spec
=============================================================================
