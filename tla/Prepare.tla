------------------------------- MODULE Prepare -------------------------------
(***************************************************************************)
(* bunexec.Compiler.Prepare: the SvelteKit build, and the installation of  *)
(* the production dependencies into .pokkum/vendor beside it.  The staging *)
(* directory outlives the run, so runs of one project follow each other    *)
(* here, with different manifests, and each may be killed.                 *)
(*                                                                         *)
(* The staged tree is [of |-> manifest, whole |-> BOOLEAN] or NoTree; the  *)
(* stamp beside it names the manifest and lockfile it was installed from.  *)
(***************************************************************************)
EXTENDS Naturals

CONSTANTS Manifests, NoTree, NoStamp, MaxRuns

VARIABLES
  prep,      \* where Prepare is
  project,   \* what Prepare found the project to be, and decided from it
  manifest,  \* package.json and the lockfile, as they are in the project
  key,       \* vendorCacheKey of this run
  vendor,    \* the vendor job: "none", "reuse", "wipe", "install", "stamp", "done", "failed", "stopped"
  staged,    \* .pokkum/vendor/node_modules
  stamp,     \* .pokkum/vendor/.pokkum-vendor.json
  mirror,    \* .pokkum/routes exists
  served,    \* the tree the image will get
  halfWiped, \* history: a run ended while it was clearing the directory
  runs

prepVars == <<prep, project, manifest, key, vendor, staged, stamp, mirror, served, halfWiped, runs>>
stage == <<staged, stamp>>

Facts == [layered: BOOLEAN, adapter: BOOLEAN, noInject: BOOLEAN, plainScript: BOOLEAN,
          viteCall: BOOLEAN, pinned: BOOLEAN, excludes: BOOLEAN, inlineConfig: BOOLEAN]
Projects == [layered: BOOLEAN, plainScript: BOOLEAN, wrapper: BOOLEAN, excludedAtBuild: BOOLEAN]
Unread == [layered |-> FALSE, plainScript |-> FALSE, wrapper |-> FALSE, excludedAtBuild |-> FALSE]

Init ==
  /\ prep = "idle"
  /\ project = Unread
  /\ manifest = (CHOOSE m \in Manifests : TRUE) /\ key = manifest
  /\ vendor = "none" /\ staged = NoTree /\ stamp = NoStamp
  /\ mirror = FALSE /\ served = NoTree /\ halfWiped = FALSE /\ runs = 0

-----------------------------------------------------------------------------
(* How the build is invoked *)

\* stageRoutesMirror: a mirror that leaves out the excluded routes, unless
\* SvelteKit is too old for a configuration passed inline.
stageRoutesMirror(f) == f.excludes /\ f.inlineConfig

\* Pokkum runs vite itself, with a configuration of its own: to inject the
\* adapter, to sort what SvelteKit does not, or to pin the version's name.
Wrapper(f) ==
  \/ ~f.adapter
  \/ ~f.noInject /\ f.viteCall /\ f.plainScript
  \/ ~f.pinned /\ ~f.noInject /\ f.plainScript

\* A project without the adapter is refused unless it may be injected.
Refused(f) == ~f.adapter /\ (f.noInject \/ ~f.plainScript)

\* The configuration may fail to be staged, which without an adapter is fatal;
\* and it may not be able to point kit.files.routes at the mirror.
Configure ==
  /\ prep = "idle"
  /\ \E f \in Facts, written, redirects \in BOOLEAN :
       LET wrapper    == Wrapper(f) /\ written
           redirected == wrapper /\ redirects /\ stageRoutesMirror(f)
           fatal      == Refused(f) \/ (~f.adapter /\ ~written)
       IN /\ prep' = IF fatal THEN "failed" ELSE "building"
          /\ vendor' = IF f.layered /\ ~fatal THEN "reuse" ELSE "none"
          \* a mirror that no configuration points at is removed
          /\ mirror' = IF fatal THEN stageRoutesMirror(f) ELSE redirected
          /\ project' = [layered |-> f.layered, plainScript |-> f.plainScript,
                         wrapper |-> wrapper /\ ~fatal,
                         excludedAtBuild |-> redirected /\ ~fatal]
  /\ key' = manifest
  /\ runs' = runs + 1
  /\ UNCHANGED <<manifest, stage, served, halfWiped>>

-----------------------------------------------------------------------------
(* stageProductionDependencies, on its own goroutine *)

\* The stamp must be of these inputs, and the tree it records still be there.
reuseStagedVendorTree == stamp = key /\ staged # NoTree

Reuse ==
  /\ vendor = "reuse"
  /\ IF reuseStagedVendorTree
     THEN vendor' = "done" /\ served' = staged
     ELSE vendor' = "wipe" /\ UNCHANGED served
  /\ UNCHANGED <<prep, project, manifest, key, stage, mirror, halfWiped, runs>>

\* os.RemoveAll, one entry at a time and in no promised order.
Wipe ==
  /\ vendor = "wipe"
  /\ \/ stamp # NoStamp /\ stamp' = NoStamp /\ UNCHANGED <<vendor, staged>>
     \/ /\ staged # NoTree
        /\ staged' = IF staged.whole THEN [staged EXCEPT !.whole = FALSE] ELSE NoTree
        /\ UNCHANGED <<vendor, stamp>>
     \/ stamp = NoStamp /\ staged = NoTree /\ vendor' = "install" /\ UNCHANGED stage
     \/ vendor' = "failed" /\ UNCHANGED stage
  /\ halfWiped' = (halfWiped \/ vendor' = "failed")
  /\ UNCHANGED <<prep, project, manifest, key, mirror, served, runs>>

\* bun install --production --frozen-lockfile
Install ==
  /\ vendor = "install"
  /\ \/ staged = NoTree /\ staged' = [of |-> key, whole |-> FALSE] /\ UNCHANGED vendor
     \/ staged # NoTree /\ staged' = [of |-> key, whole |-> TRUE] /\ vendor' = "stamp"
     \/ vendor' = "failed" /\ UNCHANGED staged
  /\ UNCHANGED <<prep, project, manifest, key, stamp, mirror, served, halfWiped, runs>>

\* Mutant: the stamp is written beside the install.
writeVendorStamp_early ==
  /\ vendor \in {"install", "stamp"} /\ staged # NoTree
  /\ stamp' = key
  /\ IF vendor = "stamp" THEN vendor' = "done" /\ served' = staged
                         ELSE UNCHANGED <<vendor, served>>
  /\ UNCHANGED <<prep, project, manifest, key, staged, mirror, halfWiped, runs>>

\* Only after an install that succeeded.
writeVendorStamp ==
  /\ vendor = "stamp"
  /\ \/ stamp' = key /\ vendor' = "done" /\ served' = staged
     \/ vendor' = "failed" /\ UNCHANGED <<stamp, served>>
  /\ UNCHANGED <<prep, project, manifest, key, staged, mirror, halfWiped, runs>>

-----------------------------------------------------------------------------
\* cmd.Wait, then vendor.join; then the missing dependencies are looked for.
Built ==
  /\ prep = "building" /\ vendor \in {"none", "done", "failed"}
  /\ prep' \in (IF vendor = "failed" THEN {"failed"} ELSE {"prepared", "failed"})
  /\ UNCHANGED <<project, manifest, key, vendor, stage, mirror, served, halfWiped, runs>>

\* The sandbox cannot be verified, or the build cannot start: the deferred
\* stop cancels the install and waits for it.
stop ==
  /\ prep = "building"
  /\ prep' = "failed" /\ vendor' = "stopped"
  /\ halfWiped' = (halfWiped \/ vendor = "wipe")
  /\ UNCHANGED <<project, manifest, key, stage, mirror, served, runs>>

Killed ==
  /\ prep = "building"
  /\ prep' = "killed" /\ vendor' = "stopped"
  /\ halfWiped' = (halfWiped \/ vendor = "wipe")
  /\ UNCHANGED <<project, manifest, key, stage, mirror, served, runs>>

\* The next run of pokkum build, perhaps after a dependency was changed, or
\* changed back.
Again ==
  /\ prep \in {"prepared", "failed", "killed"} /\ runs < MaxRuns
  /\ prep' = "idle"
  /\ manifest' \in Manifests /\ key' = manifest'
  /\ project' = Unread /\ served' = NoTree /\ vendor' = "none"
  /\ UNCHANGED <<stage, mirror, halfWiped, runs>>

Next == Configure \/ Reuse \/ Wipe \/ Install \/ writeVendorStamp \/ Built \/ stop \/ Killed \/ Again

Spec == Init /\ [][Next]_prepVars

-----------------------------------------------------------------------------
\* Whoever wins, no install goes on after Prepare has returned, and nothing
\* it serves is still being written.
NoInstallOutlivesPrepare ==
  prep \in {"prepared", "failed", "idle"} => vendor \in {"none", "done", "failed", "stopped"}

\* A prepared layered build ships a complete install of its own manifest,
\* whatever earlier runs ended at, except while they cleared the directory:
\* what is left of an old tree may then still carry its stamp.
ShipsItsOwnDependencies ==
  prep = "prepared" /\ project.layered /\ ~halfWiped =>
    served = [of |-> key, whole |-> TRUE]

\* Pokkum takes over the build only where nothing is lost by it, and reports
\* routes as left out of the build only if the build read the mirror.
BuildIsTheProjectsOwn ==
  prep = "prepared" =>
    /\ project.wrapper => project.plainScript
    /\ project.excludedAtBuild => project.wrapper /\ mirror

\* Every variable is of its type.
TypeOK ==
  /\ prep \in {"idle", "building", "prepared", "failed", "killed"}
  /\ project \in Projects
  /\ manifest \in Manifests /\ key \in Manifests
  /\ staged \in [of: Manifests, whole: BOOLEAN] \cup {NoTree}
  /\ stamp \in Manifests \cup {NoStamp}
  /\ vendor \in {"none", "reuse", "wipe", "install", "stamp", "done", "failed", "stopped"}
  /\ mirror \in BOOLEAN /\ halfWiped \in BOOLEAN

-----------------------------------------------------------------------------
(* The inductive invariant behind it *)

\* What the proofs rest on: a stamp is of a manifest, and a tree of one.
Assumed ==
  /\ Manifests # {} /\ NoStamp \notin Manifests
  /\ NoTree \notin [of: Manifests, whole: BOOLEAN]

Whole(m) == [of |-> m, whole |-> TRUE]

\* The vendor job works while Prepare waits for it, and there is one for a layered
\* build.
JobIsOfTheRun ==
  /\ vendor \in {"reuse", "wipe", "install", "stamp"} => prep = "building"
  /\ prep \in {"building", "prepared"} /\ project.layered => vendor # "none"
  /\ prep = "prepared" => vendor \in {"none", "done"}

\* A stamp is beside the whole tree it is of, but where the directory is, or was
\* left, half cleared; and a job that is done has served the one of this run.
StampIsTrue ==
  /\ vendor \in {"install", "stamp"} => stamp = NoStamp
  /\ vendor = "stamp" => staged = Whole(key)
  /\ ~halfWiped /\ vendor # "wipe" /\ stamp # NoStamp => staged = Whole(stamp)
  /\ ~halfWiped /\ vendor = "done" => served = Whole(key)

\* What is decided of the project stands until Prepare returns.
DecisionStands ==
  prep \in {"building", "prepared"} =>
    /\ project.wrapper => project.plainScript
    /\ project.excludedAtBuild => project.wrapper /\ mirror

IInv == JobIsOfTheRun /\ StampIsTrue /\ DecisionStands
=============================================================================
