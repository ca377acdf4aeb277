------------------------------- MODULE Requests -------------------------------
(***************************************************************************)
(* From what a user says to what is built: flags, environment, the project *)
(* file with its profiles, or the file `pokkum init` has just written, are *)
(* resolved into one request, given its defaults and validated             *)
(* (cmd/pokkum/build.go, adapters/config, core/model.go).                   *)
(*                                                                         *)
(* What a user says is a set of triples <<layer, setting, value>>; a flag  *)
(* without a value is on.  Values are the classes the code tells apart.    *)
(***************************************************************************)
EXTENDS Naturals, Sequences, FiniteSets

CONSTANTS
  Said,         \* the sets of triples explored
  Answers,      \* the answers to the questions of `pokkum init`
  Unset         \* the value of a setting nobody sets

VARIABLES
  said,         \* the triples said: layers "flag", "env", "profile", "config"
  file,         \* the project file: "none", "ok", "typo", and the name of its profile
  asked,        \* the profile asked for: "", "local", "prod"
  read,         \* the triples of the project file once it is read
  request,      \* setting -> value
  step,         \* where the command is, or how it ended
  generated     \* whether the file is the one init wrote

vars == <<said, file, asked, read, request, step, generated>>

-----------------------------------------------------------------------------
(* The settings, and where each may come from, the first place first *)

Chain ==
  [repo      |-> <<"env", "config">>,            tags     |-> <<"flag", "env", "config">>,
   platforms |-> <<"flag", "config">>,           base     |-> <<"flag", "config">>,
   strategy  |-> <<"flag", "config">>,           runtime  |-> <<"flag", "config">>,
   sbom      |-> <<"flag", "config">>,           output   |-> <<"flag", "profile">>,
   sourcemap |-> <<"flag", "env", "profile">>,   stub     |-> <<"flag", "env", "profile", "config">>,
   cve       |-> <<"flag", "env", "config">>,    verify   |-> <<"flag", "env", "config">>,
   ready     |-> <<"flag", "config">>,           tracing  |-> <<"config">>]

Settings == DOMAIN Chain
Layers == <<"flag", "env", "profile", "config">>

\* What a setting may be; the rest is refused when the request is built.
Legal ==
  [repo |-> {"r"}, tags |-> {"v1"}, platforms |-> {"all", "local"}, ready |-> {"off", "/ready"},
   base |-> {"distroless", "chainguard", "distroless-node", "custom", "ref"},
   strategy |-> {"layered", "static", "exe"}, runtime |-> {"bun", "node"},
   sbom |-> {"spdx", "none"}, output |-> {"push", "local", "tarball", "oci-layout"},
   sourcemap |-> {"on", "off"}, stub |-> {"on", "off"}, cve |-> {"high", "true"},
   verify |-> {"none", "keyless"}, tracing |-> {"on", "off"}]

\* What `pokkum config validate` takes: it parses a severity as such.
FileLegal == [Legal EXCEPT !.cve = {"high"}]

\* The flags' own defaults.
FlagDefault ==
  [s \in Settings |->
    CASE s = "strategy" -> "layered" [] s = "runtime" -> "bun" [] s = "sbom" -> "spdx"
      [] s = "output" -> "push" [] s \in {"sourcemap", "stub"} -> "off" [] OTHER -> Unset]

From(set, layer, s) == {t \in set : t[1] = layer /\ t[2] = s}
On(flag) == <<"flag", flag, "on">> \in said

\* The value of s, from the first place that gives one; with the flags that
\* name an output, the static one and the hardened one, which are settings too.
Heard == {t \in said : t[1] \in {"flag", "env"}} \cup read
First(indices) == CHOOSE i \in indices : \A j \in indices : i <= j
Resolved(s) ==
  LET places == {i \in DOMAIN Chain[s] : From(Heard, Chain[s][i], s) # {}}
  IN IF places = {} THEN FlagDefault[s]
     ELSE (CHOOSE t \in From(Heard, Chain[s][First(places)], s) : TRUE)[3]

Base == IF On("hardened") THEN "chainguard" ELSE Resolved("base")
Strategy == IF On("static") THEN "static" ELSE Resolved("strategy")
Output ==
  IF On("local") THEN "local" ELSE IF On("tarball") THEN "tarball"
  ELSE IF On("oci-layout") THEN "oci-layout" ELSE Resolved("output")

-----------------------------------------------------------------------------
(* The project file *)

\* Mutant: the file's own values are kept under a profile.
ApplyProfile_fileWins(base, profile) ==
  base \cup {<<"config", t[2], t[3]>> : t \in {u \in profile : From(base, "config", u[2]) = {}}}

\* A profile's settings over the file's own; its output and source maps have no
\* counterpart there and are kept as the profile's.
ApplyProfile(base, profile) ==
  LET own == {"output", "sourcemap"}
      over == {<<"config", t[2], t[3]>> : t \in {u \in profile : u[2] \notin own}}
  IN {t \in base : From(over, "config", t[2]) = {}} \cup over
       \cup {t \in profile : t[2] \in own \cup {"stub"}}

ActiveProfile ==
  IF asked # "" THEN asked
  ELSE IF On("local") /\ file = <<"ok", "local">> THEN "local" ELSE ""

\* A file that does not parse is warned about and taken for absent; a profile
\* that is asked for must be in it.
Loaded ==
  LET own == {t \in said : t[1] = "config"}
  IN IF file[1] # "ok" THEN {}
     ELSE IF ActiveProfile = "" THEN own ELSE ApplyProfile(own, {t \in said : t[1] = "profile"})
ProfileKnown == ActiveProfile # "" => file[1] = "ok" /\ file[2] = ActiveProfile

Load ==
  /\ step = "load"
  /\ \/ ~ProfileKnown /\ step' = "refused" /\ UNCHANGED read
     \/ ProfileKnown /\ read' = Loaded /\ step' = "build"
  /\ UNCHANGED <<said, file, asked, request, generated>>

\* `pokkum init` on a project without a file: what it writes for the answers.
GenerateDefault(a) ==
  LET node == a.runtime = "node" /\ a.strategy = "layered"
      base == IF node /\ a.base \notin {"distroless-node", "custom"} THEN "distroless-node" ELSE a.base
  IN {<<"config", "strategy", a.strategy>>, <<"config", "base", base>>,
      <<"config", "platforms", "all">>, <<"config", "sbom", "spdx">>}
     \cup (IF a.runtime = Unset \/ (a.runtime = "node" /\ ~node) THEN {}
           ELSE {<<"config", "runtime", a.runtime>>})
     \cup (IF a.cve = Unset THEN {} ELSE {<<"config", "cve", a.cve>>})
     \cup (IF ~a.local THEN {}
           ELSE {<<"profile", "output", "local">>, <<"profile", "platforms", "local">>,
                 <<"profile", "sourcemap", "on">>, <<"profile", "sbom", "none">>})

\* Every setting of the file on its own: nothing is said about how they agree.
ConfigValid(set) ==
  \A t \in set : t[1] \in {"config", "profile"} => t[3] \in FileLegal[t[2]]

WriteDefault ==
  /\ step = "load" /\ file = <<"none", "">> /\ asked = "" /\ \A t \in said : t[1] = "env"
  /\ \E a \in Answers :
       LET written == GenerateDefault(a)
       IN IF ConfigValid(written)
          THEN /\ said' = {t \in said : t[1] # "config" /\ t[1] # "profile"} \cup written
               /\ file' = <<"ok", IF a.local THEN "local" ELSE "">>
               /\ step' = "written" /\ generated' = TRUE
          ELSE step' = "refused" /\ UNCHANGED <<said, file, generated>>
  /\ UNCHANGED <<asked, read, request>>

\* The user runs the command that init suggested.
Suggested ==
  /\ step = "written"
  /\ said' = said \cup (IF \E t \in said : t[2] = "repo" THEN {} ELSE {<<"flag", "local", "on">>})
  /\ step' = "load"
  /\ UNCHANGED <<file, asked, read, request, generated>>

-----------------------------------------------------------------------------
(* The request *)

Refused ==
  \/ \E s \in Settings \ {"stub", "sourcemap"} : Resolved(s) \notin Legal[s] \cup {Unset}
  \/ Cardinality({o \in {"local", "tarball", "oci-layout"} : On(o)}) > 1
  \/ On("static") /\ \E t \in From(said, "flag", "strategy") : t[3] # "static"
  \/ Resolved("runtime") = "node" /\ From(said, "flag", "stub") # {}

\* An explicit path, unless it is turned off or there is no application to
\* ask; otherwise the route the project has, if it has one.
resolveReadyPath(route) ==
  IF Strategy = "static" \/ Resolved("ready") = "off" THEN "none"
  ELSE IF Resolved("ready") # Unset THEN Resolved("ready") ELSE route

\* A threshold may be turned on without a level.
failOnCVE == IF Resolved("cve") = "true" THEN "critical" ELSE Resolved("cve")

telemetryEnabled == ~On("no-telemetry") /\ (On("telemetry") \/ Resolved("tracing") = "on")

\* How a hit in the remote cache is verified, unless it is not.
cacheVerify == IF On("no-cache-verify") THEN "none" ELSE Resolved("verify")

\* A static image without a base of its own has one without libc or a runtime.
BaseImage ==
  CASE Base = "ref" -> [base |-> "custom", ref |-> "ref"]
    [] Base = Unset /\ Strategy = "static" -> [base |-> "chainguard", ref |-> "StaticBaseRef"]
    [] OTHER -> [base |-> Base, ref |-> Unset]

\* The route the project answers probes on, if it has one.
ReadyRoutes == {"none", "/route"}

\* What the settings ask for; signing is on by default, with a key if there is
\* one.
Wish(route) ==
  [base |-> BaseImage.base, ref |-> BaseImage.ref, strategy |-> Strategy, output |-> Output,
   path |-> On(Output), ready |-> resolveReadyPath(route), cve |-> failOnCVE, verify |-> cacheVerify,
   verifySignature |-> ~On("no-cache-verify"), telemetry |-> telemetryEnabled,
   sign |-> ~On("no-sign"), require |-> On("require-signed"), key |-> On("signing-key"),
   repo |-> Resolved("repo"), tags |-> Resolved("tags"), platforms |-> Resolved("platforms"),
   runtime |-> Resolved("runtime"), sbom |-> Resolved("sbom"), stub |-> Resolved("stub"),
   sourcemap |-> Resolved("sourcemap"), tracing |-> Resolved("tracing")]

Build ==
  /\ step = "build"
  /\ \/ Refused /\ step' = "refused" /\ UNCHANGED request
     \/ /\ ~Refused
        /\ \E route \in ReadyRoutes : request' = Wish(route)
        /\ step' = "normalize"
  /\ UNCHANGED <<said, file, asked, read, generated>>

DefaultRef(preset) == IF preset = "custom" THEN Unset ELSE preset

Normal(r) ==
  LET base == IF r.base # Unset THEN r.base
              ELSE IF r.ref # Unset THEN "custom"
              ELSE IF r.runtime = "node" THEN "distroless-node" ELSE "distroless"
      mode == IF r.verify = Unset THEN "auto" ELSE r.verify
  IN [r EXCEPT !.base = base,
               !.ref = IF @ # Unset THEN @ ELSE DefaultRef(base),
               !.tags = IF @ = Unset THEN "latest" ELSE @,
               !.platforms = IF @ = Unset THEN "all" ELSE @,
               !.verify = mode,
               !.verifySignature = @ \/ mode # "none",
               !.repo = IF @ = Unset /\ r.output # "push" THEN "pokkum.local" ELSE @]

Normalize ==
  /\ step = "normalize"
  /\ request' = Normal(request) /\ step' = "validate"
  /\ UNCHANGED <<said, file, asked, read, generated>>

validateRuntime(r) ==
  r.runtime = "node" => /\ r.strategy = "layered" /\ r.stub # "on" /\ ~r.telemetry
                        /\ r.base \in {"distroless-node", "custom"}

Valid(r) ==
  /\ r.output \in {"tarball", "oci-layout"} => r.path
  /\ r.repo # Unset
  /\ r.ref # Unset
  /\ r.stub = "on" => r.strategy = "layered"
  /\ validateRuntime(r)
  /\ r.require => r.sign /\ r.output = "push" /\ r.key

Validate ==
  /\ step = "validate"
  /\ step' = IF Valid(request) THEN "accepted" ELSE "refused"
  /\ UNCHANGED <<said, file, asked, read, request, generated>>
-----------------------------------------------------------------------------
OneEach(set) == \A t, u \in set : t[1] = u[1] /\ t[2] = u[2] => t = u

Idle == said = {} /\ file = <<"none", "">> /\ asked = "" /\ read = {} /\ request = <<>>
        /\ step = "load" /\ generated = FALSE

Init ==
  /\ said \in {set \in Said : OneEach(set)}
  /\ file \in {<<"none", "">>} \cup {"ok", "typo"} \X {"", "local", "prod"}
  /\ (file[1] = "none") <=> (\A t \in said : t[1] \notin {"config", "profile"})
  /\ (file[2] = "") <=> (\A t \in said : t[1] # "profile")
  /\ asked \in {"", "prod"}
  /\ read = {} /\ request = <<>> /\ step = "load" /\ generated = FALSE

Next == WriteDefault \/ Suggested \/ Load \/ Build \/ Normalize \/ Validate

Spec == Init /\ [][Next]_vars

-----------------------------------------------------------------------------
(* Properties *)

\* A switch is on or not said.  A setting comes from where it can be set; a
\* profile sets what the file can, and what only a profile does.
Switches ==
  {"local", "tarball", "oci-layout", "static", "hardened", "telemetry", "no-telemetry",
   "no-cache-verify", "no-sign", "require-signed", "signing-key"}
Sayable(t) ==
  \/ t \in {<<"flag", flag, "on">> : flag \in Switches}
  \/ /\ t = <<t[1], t[2], t[3]>> /\ t[2] \in Settings /\ t[3] # Unset
     /\ \E i \in DOMAIN Chain[t[2]] :
          t[1] = Chain[t[2]][i] \/ (t[1] = "profile" /\ Chain[t[2]][i] = "config")
     /\ t[2] \in {"stub", "sourcemap"} => t[3] \in {"on", "off"}

\* Unset is no value of a setting; init offers two strategies and three bases.
Defaults == {"critical", "latest", "auto", "pokkum.local", "none", "/route"}
Assumed ==
  /\ \A set \in Said : \A t \in set : Sayable(t)
  /\ Unset \notin Defaults \cup {"StaticBaseRef"} \cup UNION {Legal[s] : s \in Settings}
  /\ \A a \in Answers :
       /\ a.strategy \in {"layered", "static"} /\ a.runtime \in {Unset, "bun", "node"}
       /\ a.base \in {"distroless", "chainguard", "distroless-node"} /\ a.local \in BOOLEAN

Steps == {"load", "written", "build", "normalize", "validate", "accepted", "refused"}
TypeOK ==
  /\ step \in Steps
  /\ read \subseteq {<<t[1], t[2], t[3]>> : t \in said} \cup {<<"config", t[2], t[3]>> : t \in said}
  /\ step \in {"validate", "accepted"} =>
       \A s \in Settings : request[s] \in Legal[s] \cup Defaults \cup {Unset}

\* What is said counts in one order for every setting: the command line over
\* the environment, that over the profile in force, that over the file; and a
\* flag that is short for a setting counts as one.
Shorthand(flag) ==
  CASE flag = "hardened" -> {<<"flag", "base", "chainguard">>}
    [] flag = "static" -> {<<"flag", "strategy", "static">>}
    [] flag = "no-cache-verify" -> {<<"flag", "verify", "none">>}
    [] flag \in {"local", "tarball", "oci-layout"} -> {<<"flag", "output", flag>>}
    [] OTHER -> {}

Rank(layer) == CHOOSE i \in 1..4 : Layers[i] = layer
Shorthands == UNION {Shorthand(t[2]) : t \in {u \in said : u[1] = "flag"}}
Counted ==
  LET long == {t \in said : t[2] \in Settings /\ From(Shorthands, t[1], t[2]) = {}}
      valid == IF file[1] # "ok" THEN {"flag", "env"}
               ELSE IF ActiveProfile = "" THEN {"flag", "env", "config"}
               ELSE {"flag", "env", "profile", "config"}
  IN {t \in Shorthands \cup long : t[1] \in valid}
InForce == {t \in Counted : \A u \in Counted : u[2] = t[2] => Rank(t[1]) <= Rank(u[1])}

Honours(t) ==
  CASE t[3] = "ref"                   -> request.base = "custom" /\ request.ref = "ref"
    [] t[2] = "cve" /\ t[3] = "true"  -> request.cve = "critical"
    [] t[2] = "ready"                 -> request.ready = IF t[3] = "off" \/ request.strategy = "static"
                                                         THEN "none" ELSE t[3]
    [] t[2] = "tracing"               -> t[3] = "on" /\ ~On("no-telemetry") => request.telemetry
    [] OTHER                          -> request[t[2]] = t[3]

\* A request that is accepted is the one that was asked for: nothing in force
\* is lost or changed on the way, by a profile, a default or a shorthand.  A
\* file that does not parse is not in force: its gates are lost with a warning.
AsksAreHonoured == step = "accepted" => \A t \in InForce : Honours(t)

\* An accepted request makes an image that starts: the base has the runtime the
\* strategy counts on, and it is the preset's own, whose signer will be asked.
AcceptedImagesStart ==
  step = "accepted" =>
    /\ request.strategy = "layered" /\ request.runtime = "node" =>
         request.ref \in {"distroless-node", "ref"}
    /\ request.strategy # "static" => request.ref # "StaticBaseRef"
    /\ request.ref \in {request.base, "ref", "StaticBaseRef"}
    /\ request.ref = "ref" => request.base = "custom"
    /\ request.ref = "StaticBaseRef" => request.base = "chainguard"
    /\ Normal(request) = request

\* The file init writes is one the command it suggests can build; and a file
\* with one valid setting is, except for the three values nothing can be built
\* from: a custom base that is not named, an archive that has no path.
FileSettings == {t \in said : t[1] \in {"config", "profile"}}

ValidFilesBuild ==
  step = "refused" =>
    /\ ~(generated /\ said \ FileSettings \subseteq {<<"env", "repo", "r">>, <<"flag", "local", "on">>})
    /\ ~(/\ ~generated /\ file[1] = "ok" /\ said \ FileSettings = {<<"env", "repo", "r">>}
         /\ (\E t \in said : FileSettings = {t}) /\ ConfigValid(FileSettings)
         /\ asked \in {"", file[2]}
         /\ \A t \in FileSettings : t[3] \notin {"custom", "tarball", "oci-layout"})

\* What is said can be, what is read of the file is what is said there, the
\* request is what the settings ask for, and a refusal has its reason.
Spoken == OneEach(said) /\ \A t \in said : Sayable(t)
FileIs ==
  /\ file \in {<<"none", "">>} \cup {"ok", "typo"} \X {"", "local", "prod"}
  /\ (file[1] = "none") <=> (\A t \in said : t[1] \notin {"config", "profile"})
  /\ (file[2] = "") <=> (\A t \in said : t[1] # "profile")
  /\ asked \in {"", "prod"}
ReadIs ==
  /\ step \in Steps /\ read \in {{}, Loaded}
  /\ step \in {"load", "written"} => read = {}
  /\ step \in {"build", "normalize", "validate", "accepted"} => ProfileKnown /\ read = Loaded
RequestIs ==
  /\ step = "normalize" => ~Refused /\ \E route \in ReadyRoutes : request = Wish(route)
  /\ step \in {"validate", "accepted"} =>
       ~Refused /\ \E route \in ReadyRoutes : request = Normal(Wish(route))
  /\ step = "accepted" => Valid(request)
FromInit ==
  /\ asked = ""
  /\ \E a \in Answers :
       /\ ConfigValid(GenerateDefault(a)) /\ FileSettings = GenerateDefault(a)
       /\ file = <<"ok", IF a.local THEN "local" ELSE "">>
WrittenIs ==
  generated => FromInit /\ (step = "written" \/ On("local") \/ \E t \in said : t[2] = "repo")
RefusedFor ==
  step = "refused" =>
    \/ ~generated /\ file[1] = "none"
    \/ ~ProfileKnown
    \/ /\ ProfileKnown /\ read = Loaded
       /\ Refused \/ \E route \in ReadyRoutes : ~Valid(Normal(Wish(route)))
IInv == Spoken /\ FileIs /\ ReadIs /\ RequestIs /\ WrittenIs /\ RefusedFor
=============================================================================
