------------------------------- MODULE Scanner --------------------------------
(***************************************************************************)
(* One vulnerability scan of a project or an image, as `pokkum scan` and    *)
(* the base image gate of a build ask for it (adapters/scanner).  Each      *)
(* lookup in the database may fail; what the embedded advisories say is     *)
(* always known.  The package list of an image is remembered by its digest, *)
(* for the SBOM that is written after the scan.                             *)
(*                                                                         *)
(* An adapter keeps the findings of an image it has scanned, but every      *)
(* command makes an adapter for its one scan: the entry is never read.      *)
(***************************************************************************)
EXTENDS Catalog

CONSTANTS
  Targets,      \* the projects and the images
  Asked,        \* the requests
  Osv,          \* what the database knows: [id, name, version, eco, sev]
  Advisories,   \* the embedded ones: [id, name, sev, ranges]
  Now,          \* the day of the scan
  Nothing       \* no package list

VARIABLES
  target, query,      \* what is scanned, and how
  phase,              \* where the scan is, or its verdict
  found,              \* what it has found: [id, name, version, sev]
  incomplete,         \* the result says that it is not the whole truth
  resolved,           \* the toolchain was looked at
  skipped,            \* the lookups that were not made, or failed
  memo,               \* the remembered package list of the image
  bill                \* the package list the SBOM was written from

vars == <<target, query, phase, found, incomplete, resolved, skipped, memo, bill>>

AnyPackage == "any"
Verdicts == {"passed", "exceeded", "reduced"}
DefaultBun == [core |-> <<1, 3>>, pre |-> 0]

-----------------------------------------------------------------------------
(* Versions *)

\* Segment by segment, a missing one is 0; what cannot be compared is older.
compareNumericCores(v, w) ==
  LET n == IF Len(v) > Len(w) THEN Len(v) ELSE Len(w)
      at(core, i) == IF i <= Len(core) THEN core[i] ELSE 0
      differ == {i \in 1..n : at(v, i) # at(w, i)}
  IN IF differ = {} THEN 0
     ELSE LET i == CHOOSE i \in differ : \A j \in differ : i <= j
          IN IF at(v, i) = -1 \/ at(w, i) = -1 \/ at(v, i) < at(w, i) THEN -1 ELSE 1

\* A pre-release is older than its release; two of them are not told apart,
\* and count as older.
compareVersions(v, w) ==
  LET c == compareNumericCores(v.core, w.core)
  IN IF c # 0 \/ v.pre = w.pre THEN c
     ELSE IF v.pre = 0 THEN 1 ELSE -1

isVersionOlderThan(v, fixed) ==
  v # NoVersion /\ fixed # NoVersion /\ compareVersions(v, fixed) < 0

InRange(v, r) ==
  /\ r.introduced = NoVersion \/ compareVersions(r.introduced, v) <= 0
  /\ \/ r.fixed # NoVersion /\ isVersionOlderThan(v, r.fixed)
     \/ r.fixed = NoVersion /\ r.last # NoVersion /\ compareVersions(v, r.last) <= 0
     \/ r.fixed = NoVersion /\ r.last = NoVersion

affects(advisory, v) == v # NoVersion /\ \E r \in advisory.ranges : InRange(v, r)

-----------------------------------------------------------------------------
(* What is found *)

Finding(a, name, version) == [id |-> a.id, name |-> name, version |-> version, sev |-> a.sev]

\* The runtime an image is built on is looked at only where the build has one.
checkEmbeddedAdvisories(runtime, bun, kit) ==
  LET version(a) == IF a.name = "kit" THEN kit ELSE IF runtime = "node" THEN NoVersion ELSE bun
  IN {Finding(a, a.name, version(a)) : a \in {b \in Advisories : affects(b, version(b))}}

\* What the database answers for a set of packages.
queryOSVBatch(packages) ==
  {Finding(o, o.name, o.version) :
     o \in {k \in Osv : \E p \in packages : p.name = k.name /\ p.version = k.version /\ p.eco = k.eco}}

Versioned(packages) == {p \in packages : p.version # NoVersion}
Kit(version) == {Package("kit", version, Npm, "production")}
requestedBunVersion == IF query.bun = NoVersion THEN DefaultBun ELSE query.bun

Init ==
  /\ target \in Targets /\ query \in Asked
  /\ phase = "start" /\ found = {} /\ incomplete = FALSE /\ resolved = FALSE /\ skipped = {}
  /\ memo = Nothing /\ bill = Nothing

Begin ==
  /\ phase = "start"
  /\ phase' = IF target.kind = "dir" THEN "toolchain" ELSE "image"
  /\ UNCHANGED <<target, query, found, incomplete, resolved, skipped, memo, bill>>

\* A lookup of a set of packages: it answers, or it fails as a whole and the
\* result says that it is reduced.
Lookup(kind, packages, embedded, next) ==
  /\ \/ /\ found' = found \cup embedded \cup queryOSVBatch(packages)
        /\ UNCHANGED <<incomplete, skipped>>
     \/ /\ packages # {}
        /\ found' = found \cup embedded
        /\ incomplete' = TRUE /\ skipped' = skipped \cup {kind}
  /\ phase' = next

Without(kind, embedded, next, said) ==
  /\ found' = found \cup embedded /\ skipped' = skipped \cup {kind}
  /\ incomplete' = (incomplete \/ said) /\ phase' = next

\* The framework and the runtime of a project; without a manifest neither is
\* looked at, which is said when the scan is judged.
scanProjectToolchain ==
  /\ phase = "toolchain"
  /\ LET kit == target.kit
         embedded == checkEmbeddedAdvisories(query.runtime, requestedBunVersion, kit)
     IN IF ~target.manifest
        THEN /\ phase' = "dependencies" /\ skipped' = skipped \cup {"toolchain"}
             /\ UNCHANGED <<found, incomplete, resolved>>
        ELSE /\ resolved' = TRUE
             /\ IF query.offline THEN Without("kit", embedded, "dependencies", FALSE)
                ELSE Lookup("kit", IF kit = NoVersion THEN {} ELSE Kit(kit), embedded, "dependencies")
  /\ UNCHANGED <<target, query, memo, bill>>

scanProjectDependencies ==
  /\ phase = "dependencies"
  /\ CASE query.toolchainOnly -> phase' = "judge" /\ UNCHANGED <<found, incomplete, skipped>>
       [] query.offline /\ ~query.toolchainOnly -> Without("dependencies", {}, "judge", TRUE)
       [] OTHER ->
            Lookup("dependencies", Versioned(ExtractProjectDependencies(target)), {}, "judge")
  /\ UNCHANGED <<target, query, resolved, memo, bill>>

\* The package list is taken from the memo, or read from the layers, which may
\* be cut short; only a whole list is remembered.
Listing == IF memo # Nothing THEN memo ELSE ImagePackages(target.layers)
ExtractImagePackages(packages) ==
  \/ packages = Listing /\ memo' = Listing
  \/ packages = Nothing /\ UNCHANGED memo

\* What is seen in an image counts, whatever was asked for; its version is held
\* against the advisories of the framework and of the runtime alike.
Observed(packages) ==
  UNION {checkEmbeddedAdvisories("bun", p.version, p.version)
           : p \in {q \in packages : q.name \in {"bun", "kit"}}}

\* An image is pulled and read; offline its packages are not looked up, which
\* nothing says.  The version the build asks for is looked at in any case.
scanImageOrTarball ==
  /\ phase = "image"
  /\ LET named == checkEmbeddedAdvisories(query.runtime, query.bun, NoVersion)
         Read(packages) ==
           /\ resolved' = TRUE
           /\ LET embedded == named \cup Observed(packages)
              IN IF query.offline THEN Without("image", embedded, "judge", FALSE)
                 ELSE Lookup("image", Versioned(packages), embedded, "judge")
         Unreadable == Without("image", named, "judge", TRUE) /\ UNCHANGED resolved
     IN \E packages \in {Listing, Nothing} :
          /\ ExtractImagePackages(packages)
          /\ IF packages = Nothing THEN Unreadable ELSE Read(packages)
  /\ UNCHANGED <<target, query, bill>>

-----------------------------------------------------------------------------
(* The verdict *)

Matches(ex, v) == ex.id = v.id /\ ex.name \in {AnyPackage, v.name}
Expired(ex) == ex.expires <= Now

activeVEXExemption(v, exemptions) == \E ex \in exemptions : Matches(ex, v) /\ ~Expired(ex)

Judge ==
  /\ phase = "judge"
  /\ incomplete' = (incomplete \/ ~resolved)
  /\ LET counted == {v \in found : ~activeVEXExemption(v, query.vex)}
     IN phase' = IF \E v \in counted : v.sev >= query.failOn THEN "exceeded"
                 ELSE IF incomplete' /\ ~query.offline /\ ~query.allow THEN "reduced" ELSE "passed"
  /\ UNCHANGED <<target, query, found, resolved, skipped, memo, bill>>

\* The SBOM of the image that was scanned lists its packages.
WriteBill ==
  /\ phase \in Verdicts /\ target.kind = "image" /\ bill = Nothing
  /\ \E packages \in {Listing, Nothing} :
       /\ ExtractImagePackages(packages)
       /\ bill' = IF packages = Nothing THEN {} ELSE packages
  /\ UNCHANGED <<target, query, phase, found, incomplete, resolved, skipped>>

Next ==
  \/ Begin
  \/ scanProjectToolchain
  \/ scanProjectDependencies
  \/ scanImageOrTarball
  \/ Judge
  \/ WriteBill

Spec == Init /\ [][Next]_vars

-----------------------------------------------------------------------------
(* Properties *)

\* In a lockfile one copy of a package at most is hoisted; what the database and
\* the advisories say is of whole versions.
Release == [core : Seq(Nat), pre : Nat]
Assumed ==
  /\ Now \in Nat
  /\ \A q \in Asked :
       /\ q.failOn \in Nat /\ {q.offline, q.allow, q.toolchainOnly} \subseteq BOOLEAN
       /\ \A ex \in q.vex : ex.expires \in Nat
  /\ \A o \in Osv : o.version # NoVersion /\ o.sev \in Nat
  /\ \A a \in Advisories :
       a.sev \in Nat /\ \A r \in a.ranges : {r.introduced, r.fixed, r.last} \subseteq Release
  /\ \A t \in Targets :
       \/ t.kind = "image" /\ t.layers \in Seq(ToSet(t.layers))
       \/ /\ t.kind = "dir" /\ t.manifest \in BOOLEAN
          /\ t.kit \in [core : Seq(Nat \cup {-1}), pre : Nat]
          /\ \A l \in t.locks : l.entries \in Seq(ToSet(l.entries)) /\
               \A i, j \in DOMAIN l.entries :
                 (l.entries[i].hoisted /\ l.entries[j].hoisted /\ l.entries[i].name = l.entries[j].name)
                   => i = j

TypeOK ==
  /\ target \in Targets /\ query \in Asked
  /\ phase \in {"start", "toolchain", "dependencies", "image", "judge"} \cup Verdicts
  /\ incomplete \in BOOLEAN /\ resolved \in BOOLEAN
  /\ skipped \subseteq {"toolchain", "kit", "dependencies", "image"}

\* The order of versions as it is meant, among those that are all numbers.
Newer(v, w) ==
  LET at(core, i) == IF i <= Len(core) THEN core[i] ELSE 0
      n == Len(v.core) + Len(w.core)
  IN \/ \E i \in 1..n : /\ at(v.core, i) > at(w.core, i)
                        /\ \A j \in 1..i - 1 : at(v.core, j) = at(w.core, j)
     \/ /\ \A i \in 1..n : at(v.core, i) = at(w.core, i)
        /\ v.pre # w.pre /\ (v.pre = 0 \/ (w.pre # 0 /\ v.pre > w.pre))

\* v is in a range that an advisory gives.
Vulnerable(a, v) ==
  \E r \in a.ranges :
    /\ r.introduced # NoVersion => ~Newer(r.introduced, v)
    /\ r.fixed # NoVersion => Newer(r.fixed, v)
    /\ r.last # NoVersion => ~Newer(v, r.last)

\* The copies of packages a project's own imports resolve to, a lockfile of bun
\* before one of npm; or those the image holds that no later layer replaces.
Ships ==
  LET Copy(p, eco) == [name |-> p.name, version |-> p.version, eco |-> eco]
      Hoisted(format) == UNION {{Copy(e, Npm) : e \in {x \in ToSet(l.entries) : x.hoisted}}
                                  : l \in Lock(target, {format})}
      Named == UNION {Names(l.entries) : l \in Lock(target, {"bun"})}
      Of(type) == MapDistroEcosystem(Distro(target.layers), type)
      Layer(i) ==
        {Copy(p, Of("deb")) : p \in {q \in target.layers[i].deb : q.state = "installed"}}
        \cup {Copy(p, Of("apk")) : p \in target.layers[i].apk}
        \cup {Copy(p, Npm) : p \in {q \in target.layers[i].vendor :
                 \A j \in i + 1..Len(target.layers) : q.name \notin NamesOf(target.layers[j].vendor)}}
  IN IF target.kind = "image" THEN UNION {Layer(i) : i \in DOMAIN target.layers}
     ELSE Hoisted("bun") \cup {c \in Hoisted("npm") : c.name \notin Named}

Known ==
  {Finding(o, o.name, o.version) :
     o \in {k \in Osv : \E p \in Ships : p.name = k.name /\ p.version = k.version /\ p.eco = k.eco}}

\* What the scan let pass over is nothing it could have known: a scan that
\* passes, online and without leave to be incomplete, has left no package
\* unasked about, and nothing at or above the threshold but for exemptions
\* that are still good (adapter.go, 201-250).
PassIsEarned ==
  (phase = "passed" /\ ~query.offline /\ ~query.allow /\ ~query.toolchainOnly) =>
    \A v \in Known :
      v.sev < query.failOn
      \/ \E ex \in query.vex : ex.id = v.id /\ ex.name \in {AnyPackage, v.name} /\ ex.expires > Now

\* No network is needed to find a framework with an advisory: it does not pass,
\* whatever else is asked.
OwnAdvisoriesCount ==
  (phase = "passed" /\ target.kind = "dir" /\ target.manifest /\ -1 \notin ToSet(target.kit.core)
   /\ target.kit # NoVersion) =>
    \A a \in Advisories :
      (a.name = "kit" /\ Vulnerable(a, target.kit) /\ a.sev >= query.failOn) =>
        \E ex \in query.vex : ex.id = a.id /\ ex.expires > Now

\* A result that does not say it is reduced is the whole truth; but for the
\* offline scan of an image, and offline the framework of a project that is
\* all that was asked about, which the embedded advisories answer for.
GapsAreSaid ==
  (phase \in Verdicts /\ ~incomplete) =>
    skipped = {} \/ (query.offline /\ (target.kind = "image" \/ query.toolchainOnly))

\* What production needs is in its bill of materials; where a package has
\* copies with other dependencies only those of the hoisted one are followed.
ProductionIsListed ==
  (phase = "start" /\ target.kind = "dir") =>
    \A l \in Lock(target, {"bun"}) :
      LET entries == {e \in ToSet(l.entries) : e.version # NoVersion}
          Needs(names) == names \cup UNION {e.deps : e \in {x \in entries : x.name \in names}}
          alike == \A e, f \in entries : e.name = f.name => e.deps = f.deps
      IN alike => \A n \in Needs(Needs(Needs(l.roots))) \cap {e.name : e \in entries} :
                    \E p \in ParseBunLock(l) : p.name = n /\ p.scope = "production"

\* The bill of an image is of the image that was scanned.
BillIsOfTheImage == bill \in {Nothing, {}} \/ bill = ImagePackages(target.layers)

\* What a scan has found by the time it is judged, and what it says it has not.
Whole == IF target.kind = "dir" THEN ExtractProjectDependencies(target) ELSE ImagePackages(target.layers)
ByPhase ==
  /\ phase \in {"toolchain", "dependencies"} => target.kind = "dir"
  /\ phase = "image" => target.kind = "image"
  /\ phase \in {"start", "toolchain", "image"} => skipped = {} /\ ~resolved
Remembered ==
  IF memo = Nothing THEN TRUE ELSE target.kind = "image" /\ memo = ImagePackages(target.layers)
OwnFound ==
  (target.kind = "dir" /\ target.manifest /\ phase \notin {"start", "toolchain"}) =>
    checkEmbeddedAdvisories(query.runtime, requestedBunVersion, target.kit) \subseteq found
AllAsked ==
  (/\ phase \in {"judge"} \cup Verdicts /\ ~incomplete /\ ~query.offline
   /\ target.kind = "dir" => ~query.toolchainOnly)
    => queryOSVBatch(Versioned(Whole)) \subseteq found
GapsAreKnown ==
  /\ \/ skipped = {} \/ incomplete \/ ~resolved
     \/ query.offline /\ (target.kind = "image" \/ query.toolchainOnly \/ phase = "dependencies")
  /\ phase \in Verdicts => resolved \/ incomplete
Judged ==
  phase = "passed" =>
    /\ \A v \in found : v.sev >= query.failOn => activeVEXExemption(v, query.vex)
    /\ query.offline \/ query.allow \/ ~incomplete

IInv == ByPhase /\ Remembered /\ OwnFound /\ AllAsked /\ GapsAreKnown /\ Judged /\ BillIsOfTheImage
=============================================================================
