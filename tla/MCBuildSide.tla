----------------------------- MODULE MCBuildSide -----------------------------
(***************************************************************************)
(* The components one build is made of, below the pipeline, explored one   *)
(* at a time: part says which.  They share no state, only the order the    *)
(* pipeline calls them in, and each is left free to start in any situation *)
(* that order allows, so there is nothing to gain from exploring their     *)
(* product.                                                                *)
(***************************************************************************)
EXTENDS BuildGates, Integers, FiniteSets, Sequences, TLC

CONSTANTS p1, p2, u1, u2, c1, c2, j1, j2, j3, w1, w2, w3, b1, b2, b3, b4

VARIABLE part

buildVars == <<req, stage, task, cause, cancelled, dirs, scanned, shipped, attached, readBack,
               outcome>>
packVars == <<packing, place, doing, dirLock, stripOnce, sidecar, smaller, bytes, memo, layer,
              temp, ioFailed>>
cacheVars == <<blob, meta, user, seen, handed, read>>
prepVars == <<prep, project, manifest, key, vendor, staged, stamp, routesMirror, served, halfWiped,
              runs>>
baseVars == <<tag, mirror, lock, at, want, lf, locked, pulled, mirrorRef, result, starts,
              relocked>>
regVars == <<api, manifests, named, attTags, referrers, refTag, job, nth, copy, reported, pointed>>
outVars == <<dest, archive, staging, backup, writer, had, host, loaded, loading>>
reqVars == <<said, file, asked, inFile, request, step, generated>>
scanVars == <<target, query, phase, found, incomplete, resolved, skipped, packages, bill>>
secretVars == <<tree, ask, next, matches, passedBy, held, verdict>>
overlayVars == <<images, live, current, where, cursor, chain, replaced, merged, left, looked,
                 succeeded>>
routesVars == <<site, patterns, turn, mirrored, routes, category, output, bundle, report>>
pruneVars == <<walk, opts, visited, below, layered, pruned>>
vars == <<part, buildVars, packVars, cacheVars, prepVars, baseVars, regVars, outVars, reqVars,
          scanVars, secretVars, overlayVars, routesVars,
          pruneVars>>

-----------------------------------------------------------------------------
(* core.Build, stages 5 to 10: two platforms and one slot *)

Plain == [strategy |-> "layered", overlay |-> FALSE, telemetry |-> FALSE,
          ownWorkDir |-> FALSE, sbom |-> FALSE, sign |-> FALSE, print |-> FALSE]

OneOfEach == {Plain, [Plain EXCEPT !.sign = TRUE, !.ownWorkDir = TRUE],
              [Plain EXCEPT !.overlay = TRUE, !.sbom = TRUE],
              [Plain EXCEPT !.strategy = "static", !.print = TRUE],
              [Plain EXCEPT !.strategy = "exe", !.telemetry = TRUE],
              [Plain EXCEPT !.strategy = "exe", !.sbom = TRUE, !.sign = TRUE]}

-----------------------------------------------------------------------------
(* Packager.Build: a layer under the client tree that holds one of its     *)
(* paths, precompressed trees beside one another, a stripped tree          *)

FourLayers == <<"overlay", "client", "prerendered", "native">>
TheirFiles == [t \in {"overlay", "client", "prerendered", "native"} |->
              CASE t = "overlay"     -> {"favicon", "font"}
                [] t = "client"      -> {"favicon", "app"}
                [] t = "prerendered" -> {"index"}
                [] t = "native"      -> {"addon"}]
AllFiles == UNION {TheirFiles[t] : t \in DOMAIN TheirFiles}

-----------------------------------------------------------------------------
(* The base images of a project: a preset and a base of its own, of which  *)
(* only the first digest is signed                                         *)

Ask(base, update, escrowed, offline, verify) ==
  [base |-> base, update |-> update, mirror |-> escrowed, offline |-> offline, verify |-> verify]

Resolves ==
  {Ask("cc", FALSE, FALSE, FALSE, TRUE), Ask("cc", TRUE, TRUE, FALSE, TRUE),
   Ask("mine", FALSE, TRUE, FALSE, TRUE), Ask("mine", FALSE, FALSE, TRUE, TRUE),
   Ask("mine", TRUE, FALSE, FALSE, FALSE)}

-----------------------------------------------------------------------------
(* Three jobs that push to one repository: two of them the same build, one   *)
(* that uses the same tag for another                                        *)

Pushing(d, tags, mode, signs) == [digest |-> d, tags |-> tags, mode |-> mode, signs |-> signs]

ThreePushes ==
  j1 :> Pushing("d1", <<"latest", "v1">>, "auto", TRUE)
  @@ j2 :> Pushing("d1", <<"latest">>, "referrer", TRUE)
  @@ j3 :> Pushing("d2", <<"latest">>, "tag", FALSE)

(* Two layouts and a tarball, and a load of one of two platforms             *)

Child(p, d) == [platform |-> p, digest |-> d]

AllButTheLast == [w \in {w1, w2, w3} |-> w # w3]
TwoChildren ==
  <<Child("unknown", "attestation"), Child("linux/amd64", "a"), Child("linux/arm64", "b")>>
LatestAndV1 == <<"latest", "v1">>

-----------------------------------------------------------------------------
(* What a user says: up to three of the settings that must agree with one  *)
(* another, or two of all                                                   *)

Says(from, s, values) == {<<from, s, v>> : v \in values}
On(flags) == {<<"flag", f, "on">> : f \in flags}
Repo == <<"env", "repo", "r">>

Composed ==
  Says("flag", "base", {"distroless", "distroless-node"}) \cup Says("flag", "runtime", {"bun", "node"})
  \cup Says("flag", "strategy", {"layered", "exe"}) \cup On({"static", "hardened", "telemetry"})
  \cup Says("config", "base", {"distroless", "ref"}) \cup Says("config", "runtime", {"node"})
  \cup Says("config", "strategy", {"static", "exe"}) \cup Says("config", "stub", {"on"})
  \cup Says("profile", "base", {"chainguard"}) \cup Says("profile", "runtime", {"node"})
  \cup Says("profile", "strategy", {"static"}) \cup Says("profile", "stub", {"off"})
  \cup Says("env", "stub", {"on"})

Others ==
  On({"local", "tarball", "oci-layout", "require-signed", "no-sign", "signing-key", "no-cache-verify",
      "no-telemetry"})
  \cup Says("flag", "base", {"custom", "ref", "bad"}) \cup Says("flag", "stub", {"on", "off"})
  \cup Says("flag", "tags", {"v1"}) \cup Says("flag", "platforms", {"local"})
  \cup Says("flag", "cve", {"high"}) \cup Says("flag", "verify", {"keyless"})
  \cup Says("flag", "ready", {"off"}) \cup Says("flag", "sourcemap", {"off"})
  \cup Says("env", "cve", {"true"}) \cup Says("env", "verify", {"keyless", "bad"})
  \cup Says("env", "sourcemap", {"on"}) \cup Says("env", "tags", {"v1"})
  \cup Says("profile", "output", {"local", "tarball"}) \cup Says("profile", "sourcemap", {"on"})
  \cup Says("profile", "sbom", {"none"}) \cup Says("config", "base", {"custom"})
  \cup Says("config", "runtime", {"bad"}) \cup Says("config", "cve", {"high", "true"})
  \cup Says("config", "verify", {"none"}) \cup Says("config", "tracing", {"on"})
  \cup Says("config", "ready", {"/ready"}) \cup Says("config", "platforms", {"all"})

SaidTogether ==
  {{}} \cup {{Repo, x, y, z} : x \in Composed, y \in Composed, z \in Composed}
  \cup {{Repo, x, y} : x \in Composed \cup Others, y \in Others}
InitAnswers ==
  [strategy : {"layered", "static"}, runtime : {Unset, "bun", "node"},
   base : {"distroless", "chainguard", "distroless-node"}, cve : {Unset, "high", "none"},
   local : BOOLEAN]

-----------------------------------------------------------------------------
(* What is scanned: a project whose lockfiles hold copies of a package, with *)
(* a framework of every age, and images of two distributions                 *)

V(major) == [core |-> <<major>>, pre |-> 0]
Minor(major) == [core |-> <<major, 1>>, pre |-> 0]
Candidate(major) == [core |-> <<major>>, pre |-> 1]
Unversioned == [core |-> <<>>, pre |-> 0]
Nightly == [core |-> <<2, -1>>, pre |-> 0]

Copy(name, major, hoisted, deps) ==
  [name |-> name, version |-> V(major), hoisted |-> hoisted, dev |-> FALSE, deps |-> deps]
Lockfile(format, entries) ==
  [format |-> format, entries |-> entries, roots |-> {"a"}, devRoots |-> {"b", "d"}]

Linked == [Copy("e", 1, TRUE, {}) EXCEPT !.version = Unversioned]
InBunOrder ==
  <<Copy("a", 2, TRUE, {"b"}), Copy("b", 2, FALSE, {"c"}), Copy("b", 1, TRUE, {"c"}),
    Copy("c", 1, TRUE, {}), Copy("d", 1, TRUE, {}), Linked>>
InPathOrder ==
  <<Copy("b", 1, TRUE, {"c"}), Copy("b", 2, FALSE, {"c"}), Copy("c", 1, TRUE, {}),
    Copy("a", 2, TRUE, {"b"})>>
BunLock == Lockfile("bun", InBunOrder)
NpmLock == Lockfile("npm", InPathOrder)
Older == Lockfile("npm1", InPathOrder)
Pnpm == Lockfile("pnpm", InPathOrder)

Project(man, kit, locks, declared) ==
  [kind |-> "dir", manifest |-> man, kit |-> kit, locks |-> locks, declared |-> declared]
Declared == {[name |-> "c", version |-> V(1), dev |-> TRUE],
             [name |-> "a", version |-> V(1), dev |-> FALSE]}
Projects ==
  {Project(man, kit, {BunLock}, {}) :
     man \in BOOLEAN, kit \in {Unversioned, V(1), Candidate(2), V(2), Minor(2), V(3), Nightly}}
  \cup {Project(TRUE, V(2), locks, {}) :
          locks \in {{NpmLock}, {Older}, {BunLock, NpmLock}, {Pnpm}}}
  \cup {Project(TRUE, V(2), {}, d) : d \in {{}} \cup {{x} : x \in Declared}}

Holds(name, major) == [name |-> name, version |-> V(major)]
InState(name, major, state) == [name |-> name, version |-> V(major), state |-> state]
EmptyLayer == [os |-> <<>>, deb |-> {}, apk |-> {}, vendor |-> {}, declared |-> {}]
Debian ==
  <<[EmptyLayer EXCEPT !.os = <<"debian", "12">>, !.deb = {InState("ssl", 1, "installed"), InState("b", 1, "removed")}],
    [EmptyLayer EXCEPT !.declared = {Holds("a", 9)}],
    [EmptyLayer EXCEPT !.vendor = {Holds("a", 1), Holds("kit", 1)}]>>
Wolfi == <<[EmptyLayer EXCEPT !.os = <<"wolfi", "0">>, !.apk = {Holds("ssl", 1), Holds("bun", 1)}]>>

Exempt(id, day) == [id |-> id, name |-> "any", expires |-> day]
Cve(id, name, eco, severity) ==
  [id |-> id, name |-> name, version |-> V(1), eco |-> eco, sev |-> severity]
Before(major) == [introduced |-> Unversioned, fixed |-> V(major), last |-> Unversioned]
Back == [introduced |-> Minor(2), fixed |-> Unversioned, last |-> V(3)]

ProjectsAndImages == Projects \cup {[kind |-> "image", layers |-> l] : l \in {Debian, Wolfi}}
ScanRequests ==
  {[failOn |-> f, offline |-> o, allow |-> al, toolchainOnly |-> t, runtime |-> r[1], bun |-> r[2],
    vex |-> vex] :
     f \in {2, 4}, o \in BOOLEAN, al \in BOOLEAN, t \in BOOLEAN,
     r \in {<<"bun", Unversioned>>, <<"bun", V(1)>>, <<"node", V(1)>>},
     vex \in {{}, {Exempt("C1", 3)}, {Exempt("C1", 2), Exempt("K1", 3)}}}

KnownOnes ==
  {Cve("C1", "b", <<"npm">>, 3), Cve("C2", "a", <<"npm">>, 4),
   Cve("C3", "ssl", <<"Debian", "12">>, 2), Cve("C4", "ssl", <<"wolfi">>, 2)}
Embedded ==
  {[id |-> "K1", name |-> "kit", sev |-> 4, ranges |-> {Before(2), Back}],
   [id |-> "B1", name |-> "bun", sev |-> 2, ranges |-> {Before(2)}]}

-----------------------------------------------------------------------------
(* A tree of a few files, with a piece of text at every place a window of   *)
(* eight letters can cut, and the patterns of a project's own               *)

Text(word, upper, start) == [word |-> word, upper |-> upper, start |-> start]
Line(pieces) == [pieces |-> pieces, header |-> FALSE, assigned |-> TRUE, allowed |-> FALSE]
AwsKey == Text("AKIA", FALSE, 3)
Harmless == <<Line({})>>
Harmful == <<Line({AwsKey})>>
Holding(path, lines) ==
  [path |-> path, kind |-> "text", large |-> FALSE, letters |-> 20, lines |-> lines, later |-> {}]

Contents ==
  {<<Line({Text("token", u, k)})>> : u \in BOOLEAN, k \in 0..15}
  \cup {<<Line({Text("api_key", TRUE, k)})>> : k \in 0..13}
  \cup {<<Line({Text("kelvin", FALSE, 2)})>>, Harmful, <<Line({Text("eyJ", FALSE, 3)})>>,
        <<[Line({Text("eyJ", FALSE, 3)}) EXCEPT !.header = TRUE]>>,
        <<[Line({AwsKey}) EXCEPT !.allowed = TRUE]>>,
        <<Line({Text("marker", FALSE, 0)}), Line({AwsKey}), Line({Text("secret", FALSE, 9)})>>,
        <<Line({}), Line({AwsKey}), Line({Text("marker", FALSE, 7)})>>}

App == <<"src", "/", "app", ".js">>
Paths ==
  {App, <<"app", ".js", ".map">>, <<"a", "/", "b", ".map">>, <<".env", ".local">>, <<".env", "/", "z">>,
   <<"storybook-static", "/", "x", ".map">>, <<"x", "/", "node_modules", "/", "y", ".js">>,
   <<"node_modules", "/", ".cache", "/", "y">>, <<"app", ".js", ".gz">>, <<"keep", "/", "app", ".js">>}

Patterns ==
  {<<>>, << <<"!", "*", ".map">>, <<"/", "src", "/">> >>,
   << <<"**", "/", "a", "/", "*", ".map">>, <<"#", "x">>, <<"*", "pp", "*">>, <<"*", "app", "*">>,
      <<"keep", "/", "*">>, <<"\\", "!", "z">>, <<"src">> >>,
   << <<"*", ".js">>, <<"!", "/", "src", "/", "app", ".js">>, <<"!", ".env", "*">> >>}

Searched ==
  {<<Holding(App, c)>> : c \in Contents}
  \cup {<<Holding(p, Harmful), Holding(<<"z", ".js">>, Harmless)>> : p \in Paths}
  \cup {<<[Holding(App, Harmless) EXCEPT !.large = b, !.later = {Holding(<<>>, Harmful)}, !.kind = k],
          Holding(<<"z", ".js">>, Harmful)>> : b \in BOOLEAN, k \in {"text", "binary"}}

SearchRequests == [maps : BOOLEAN, allow : BOOLEAN, own : Patterns]

-----------------------------------------------------------------------------
(* Four builds of one application: the last starts from two registries'      *)
(* images, and shares a name with another that holds the same, or not        *)

Deploys(own, depth, from) == [own |-> own, depth |-> depth, from |-> from, squashed |-> FALSE]

FourBuilds ==
  b1 :> Deploys({<<"a", 1>>, <<"x", 1>>}, 2, <<>>)
  @@ b2 :> Deploys({<<"b", 1>>, <<"x", 2>>}, 2, <<>>)
  @@ b3 :> Deploys({<<"c", 1>>}, 2, <<>>)
  @@ b4 :> Deploys({<<"x", 2>>, <<"d", 1>>}, 1, <<b1, b2>>)

-----------------------------------------------------------------------------
(* routefilterutils: a server with groups and a linked directory, a static    *)
(* site, and one whose routes are called as the staging directories are       *)

Dir(x) == [name |-> x, group |-> FALSE]
Of(x, y) == <<Dir(x), Dir(y)>>
InGroup(x) == <<[name |-> "g", group |-> TRUE], Dir(x)>>
At(path) == [path |-> path, html |-> FALSE, enc |-> FALSE, link |-> FALSE]
Levels(ds) == UNION {{SubSeq(d, 1, i) : i \in 0..Len(d)} : d \in ds}

Layered ==
  [dirs |-> Levels({<<Dir("a"), Dir("b"), Dir("c")>>, InGroup("c"), Of("l", "a")}),
   linked |-> {<<Dir("l")>>}, static |-> FALSE, slash |-> FALSE,
   pages |-> <<>> :> "static" @@ <<Dir("a")>> :> "server" @@ Of("a", "b") :> "static"
             @@ <<Dir("a"), Dir("b"), Dir("c")>> :> "server" @@ InGroup("c") :> "static"
             @@ Of("l", "a") :> "server",
   staged |-> {At(<<"a", "feed.json">>), [At(<<"a", "b">>) EXCEPT !.html = TRUE, !.enc = TRUE],
               [At(<<"a", "l">>) EXCEPT !.html = TRUE, !.link = TRUE]},
   links |-> <<>> :> {<<"a", "b">>, <<"c">>} @@ <<"a", "b">> :> {<<"a">>}]

Static(top) ==
  [dirs |-> Levels({Of(top, "b"), InGroup("c")}), linked |-> {}, static |-> TRUE,
   slash |-> top = "a",
   pages |-> <<>> :> "static" @@ <<Dir(top)>> :> "static" @@ Of(top, "b") :> "static"
             @@ InGroup("c") :> "static",
   staged |-> {At(<<"dependencies", top, "feed.json">>), At(<<"data", top, "remote">>)},
   links |-> <<>> :> {<<top>>, <<"c">>}]

FourSites == {Layered, Static("a"), Static("pages"), Static("data")}
Excludable ==
  {<<>>, <<<<"a">>>>, <<<<"a", "b">>, <<"a">>>>, <<<<"a">>, <<"a", "b">>>>,
   <<<<"*", "b">>>>, <<<<"a", "**">>>>, <<<<"**">>>>, <<<<>>>>, <<<<"c">>, <<"l">>>>,
   <<<<"a", "**", "c">>, <<"q">>>>, <<<<"*">>>>, <<<<"**", "feed.json">>, <<"l", "*">>>>,
   <<<<"*", "**">>, <<"**", "**", "c">>, <<"a", "*", "c">>>>}

-----------------------------------------------------------------------------
(* pruneutils: a tree of dependencies, under every kind of pattern            *)

F(path) == [path |-> path, kind |-> "file"]
D(path) == [path |-> path, kind |-> "dir"]
L(path) == [path |-> path, kind |-> "link"]

Vendored ==
  <<F(<<"Dockerfile", ".dev">>), D(<<"bin">>), F(<<"bin", "/", "a", ".log">>), D(<<"client">>),
    F(<<"client", "/", "app", ".js">>), D(<<"client", "2">>), F(<<"client", "2", "/", "x">>),
    F(<<"license", ".md">>), F(<<"license", ".js">>), L(<<"run">>), L(<<"run", ".log">>), F(<<"test">>), F(<<"tsconfig", ".json">>)>>
KeepAll == [noPrune |-> TRUE, keepSourcemap |-> FALSE, excludeDirs |-> {}, keeps |-> {}]

Disposable ==
  {<<"**", "/", "*", ".map">>, <<"**", "/", "*", ".d.ts">>, <<"**", "/", "yarn.lock">>,
   <<"**", "/", "tsconfig", "*", ".json">>, <<"**", "/", "Dockerfile", "*">>,
   <<"**", "/", "test", "/", "**">>, <<"**", "/", ".yarn", "/", "cache", "/", "**">>,
   <<"**", "/", "*", ".test", "*">>, <<"bin", "/", "*", ".log">>}
TwoTrees ==
  {Vendored,
   <<D(<<".yarn">>), D(<<".yarn", "/", "a">>), F(<<".yarn", "/", "a", "/", "cache">>),
     D(<<".yarn", "/", "cache">>), F(<<".yarn", "/", "cache", "/", "zip">>),
     D(<<"a">>), F(<<"a", "/", "app", ".d.ts", ".map">>), F(<<"a", "/", "app", ".js", ".map">>),
     F(<<"a", "/", "app", ".test", ".js">>), D(<<"a", "/", "test">>), F(<<"a", "/", "test", "/", "app", ".js">>),
     F(<<"a", "/", "tests", ".js">>)>>}
PruneChoices ==
  [noPrune : BOOLEAN, keepSourcemap : BOOLEAN, excludeDirs : {{}, {<<"client">>}},
   keeps : {{}, {<<"test">>}, {<<"a", "/", "**">>}, {<<"app", "*">>}, {<<"app", ".js">>}, {<<"**", "/", "test", "/", "*">>}}]

-----------------------------------------------------------------------------
Init ==
  /\ part \in {"stages", "packaging", "cache", "prepare", "base", "registry", "outputs", "request",
              "scan", "secrets", "overlay", "routes", "prune"}
  /\ Stages!Init /\ Pack!Init /\ Cache!Init /\ Bundle!Init /\ Base!Init
  /\ Images!Init /\ Outputs!Init
  /\ part # "base"     => lock = Base!EmptyLock
  /\ part # "registry" => api /\ manifests = {}
  /\ part # "outputs"  => dest = Nothing /\ archive = Nothing /\ host = "linux/amd64"
  /\ IF part = "request" THEN Wanted!Init ELSE Wanted!Idle
  /\ IF part = "scan" THEN TRUE
     ELSE target = Project(TRUE, V(2), {}, {}) /\ query = CHOOSE q \in Scans : q.vex = {}
  /\ IF part = "secrets" THEN TRUE
     ELSE tree = <<Holding(App, Harmful)>> /\ ask = CHOOSE q \in Searches : q.own = <<>>
  /\ IF part = "routes" THEN TRUE ELSE site = Layered /\ patterns = <<>>
  /\ IF part = "prune" THEN TRUE ELSE opts = KeepAll /\ walk = Vendored
  /\ Scan!Init /\ Guard!Init /\ Pages!Init /\ Filter!Init /\ Disposal!Init

\* Only the variables of one part change.
Only(p) ==
  /\ part = p /\ UNCHANGED part
  /\ IF p = "stages" THEN TRUE ELSE UNCHANGED buildVars
  /\ IF p = "packaging" THEN TRUE ELSE UNCHANGED packVars
  /\ IF p = "cache" THEN TRUE ELSE UNCHANGED cacheVars
  /\ IF p = "prepare" THEN TRUE ELSE UNCHANGED prepVars
  /\ IF p = "base" THEN TRUE ELSE UNCHANGED baseVars
  /\ IF p = "registry" THEN TRUE ELSE UNCHANGED regVars
  /\ IF p = "outputs" THEN TRUE ELSE UNCHANGED outVars
  /\ IF p = "request" THEN TRUE ELSE UNCHANGED reqVars
  /\ IF p = "scan" THEN TRUE ELSE UNCHANGED scanVars
  /\ IF p = "secrets" THEN TRUE ELSE UNCHANGED secretVars
  /\ IF p = "overlay" THEN TRUE ELSE UNCHANGED overlayVars
  /\ IF p = "routes" THEN TRUE ELSE UNCHANGED routesVars
  /\ IF p = "prune" THEN TRUE ELSE UNCHANGED pruneVars

Next ==
  \/ Only("request") /\ Wanted!Next
  \/ Only("registry") /\ Images!Next
  \/ Only("outputs") /\ Outputs!Next
  \/ Only("stages") /\ Stages!Next
  \/ Only("packaging") /\ Pack!Next
  \/ Only("cache") /\ Cache!Next
  \/ Only("prepare") /\ Bundle!Next
  \/ Only("base") /\ Base!Next
  \/ Only("scan") /\ Scan!Next
  \/ Only("secrets") /\ Guard!Next
  \/ Only("overlay") /\ Pages!Next
  \/ Only("routes") /\ Filter!Next
  \/ Only("prune") /\ Disposal!Next

Spec == Init /\ [][Next]_vars

\* Commands and users of the cache are alike.
Symmetry == Permutations({c1, c2}) \cup Permutations({u1, u2}) \cup Permutations({w1, w2})

-----------------------------------------------------------------------------
\* What is restated says what it restates, and what cannot be proved of it: a
\* pattern that was compiled to a comparison (matcher.go, 292, and pruneutils.go,
\* 217), what a route pattern covers (routefilter.go, 110), and that Build and its
\* tasks can go on where GroupsAreWaitedFor says that they may.
RestatementsAgree ==
  /\ part = "stages"  => Stages!OpenIsEnabled
  /\ part = "secrets" => Guard!ShortcutsAgree
  /\ part = "routes"  => Filter!PatternsCover
  /\ part = "prune"   => Disposal!CompiledIsExact
=============================================================================
