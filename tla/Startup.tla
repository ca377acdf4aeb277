------------------------------- MODULE Startup --------------------------------
(***************************************************************************)
(* How the two programs that run as PID 1 of an image settle their          *)
(* configuration (config.go of pokkum-init and of pokkum-static): defaults, *)
(* over them the environment, whose mistakes are not to stop a container,   *)
(* over it the flags, whose mistakes are.                                   *)
(*                                                                         *)
(* A raw value is [form, val]: "good", "junk" (does not parse), "out" (is   *)
(* out of range; for roots, is relative), "blank" (white space, separators) *)
(* or "empty".  An empty environment variable is none.                      *)
(***************************************************************************)
EXTENDS Naturals

CONSTANTS
  Environments,  \* what may be set: functions from settings to raw values
  Flags,         \* what may be typed: the same, and "version"
  Commands       \* what follows the flags: "given", "none" or "stray"

VARIABLES
  program, given, flags, command,
  turn,          \* "environment", "flags", "validate", "runs", "refused", "version"
  chosen,        \* the configuration
  warned         \* the settings an accepted configuration is logged with

startupVars == <<program, given, flags, command, turn, chosen, warned>>

Default == [level |-> "info", port |-> 3000, probe |-> 8081, timeout |-> 30, require |-> {},
            dev |-> FALSE, digest |-> "", ready |-> "", roots |-> "app", fallback |-> ""]

FromEnvironment(p) ==
  IF p = "pokkum-init" THEN {"level", "port", "probe", "timeout", "require", "dev", "digest", "ready"}
  ELSE {"level", "port", "probe", "roots", "fallback"}
\* What hands out power is not for a flag.
FromFlags(p) == (FromEnvironment(p) \ {"dev", "digest", "ready"}) \cup {"version"}

Ports == {3000, 8081, 9000}

\* What a raw value is of each form, in the environment and in the flags;
\* MCOperatorSide checks it with TypeOK.  Any text is a list, or a fallback.
Assumed ==
  \A e \in Environments \cup Flags : \A s \in DOMAIN e :
    /\ e[s].form \in {"good", "junk", "out", "blank", "empty"}
    /\ s \in {"port", "probe"} => (e[s].form = "good" <=> e[s].val \in Ports)
    /\ s = "timeout" => e[s].val \in Nat /\ (e[s].form = "good" => e[s].val > 0)
                        /\ (e[s].form = "out" => e[s].val = 0)
    /\ s = "roots" => /\ e[s].form # "junk" /\ (e[s].form = "good" => e[s].val \notin {"relative", "none"})
                      /\ (e[s].form = "out" => e[s].val = "relative")
    /\ s \in {"require", "fallback"} => e[s].form \in {"good", "blank", "empty"}
    /\ s \in {"dev", "version"} => e[s].val \in BOOLEAN /\ (s = "version" => e[s].form = "good")

Init ==
  /\ program \in {"pokkum-init", "pokkum-static"} /\ command \in Commands
  /\ given \in {e \in Environments : DOMAIN e \subseteq FromEnvironment(program)}
  /\ flags \in {f \in Flags : DOMAIN f \subseteq FromFlags(program)}
  /\ turn = "environment" /\ chosen = Default /\ warned = {}

-----------------------------------------------------------------------------
Read == DOMAIN given

\* A root is not looked at before everything is validated; what is required and
\* the fallback are any text.
Usable(s, raw) ==
  \/ raw.form = "good" \/ s \in {"fallback", "require"}
  \/ s = "roots" /\ raw.form = "out"
envValue(s) == IF Usable(s, given[s]) THEN given[s].val ELSE Default[s]
\* What is told of an unusable value: not of a switch that is no boolean.
Told(s, raw) == ~Usable(s, raw) /\ s # "dev" /\ ~(raw.form = "blank" /\ s \in {"digest", "ready"})

ReadEnvironment ==
  /\ turn = "environment" /\ turn' = "flags"
  /\ chosen' = [s \in DOMAIN Default |-> IF s \in Read THEN envValue(s) ELSE Default[s]]
  /\ warned' = {s \in Read : Told(s, given[s])} \cup (IF chosen'.dev THEN {"dev"} ELSE {})
  /\ UNCHANGED <<program, given, flags, command>>

-----------------------------------------------------------------------------
\* A list that is empty, or for the roots blank, changes nothing.
Typed == {s \in DOMAIN flags : s \in {"require", "roots"} => flags[s].form # "empty"}
Overriding == {s \in Typed : s = "roots" => flags[s].form # "blank"}

ParseFlags ==
  /\ turn = "flags"
  /\ LET untyped == {s \in DOMAIN flags \cap {"port", "probe", "timeout"} : flags[s].form \notin {"good", "out"}}
         noLevel == "level" \in DOMAIN flags /\ flags["level"].form # "good"
     IN turn' = CASE untyped # {} -> "refused"
                  [] untyped = {} /\ "version" \in DOMAIN flags -> "version"
                  [] untyped = {} /\ "version" \notin DOMAIN flags /\ noLevel -> "refused"
                  [] OTHER -> "validate"
  /\ IF turn' = "validate"
     THEN /\ chosen' = [s \in DOMAIN chosen |-> IF s \in Overriding THEN flags[s].val ELSE chosen[s]]
          /\ warned' = warned \cup (Typed \ Overriding)
     ELSE UNCHANGED <<chosen, warned>>
  /\ UNCHANGED <<program, given, flags, command>>

-----------------------------------------------------------------------------
Unmet == {k \in chosen.require : k \notin DOMAIN given}

validate ==
  /\ {chosen.port, chosen.probe} \subseteq Ports
  /\ program = "pokkum-init" => command = "given" /\ chosen.timeout > 0 /\ Unmet = {}
  /\ program = "pokkum-static" => chosen.port # chosen.probe /\ chosen.roots \notin {"relative", "none"}

\* One port for both is refused by the static server, and told of by the
\* supervisor.
Validate ==
  /\ turn = "validate"
  /\ turn' = IF validate THEN "runs" ELSE "refused"
  /\ warned' = IF validate /\ chosen.port = chosen.probe THEN warned \cup {"probe"} ELSE warned
  /\ UNCHANGED <<program, given, flags, command, chosen>>

Next == ReadEnvironment \/ ParseFlags \/ Validate

Spec == Init /\ [][Next]_startupVars

-----------------------------------------------------------------------------
(* Properties *)

TypeOK ==
  /\ turn \in {"environment", "flags", "validate", "runs", "refused", "version"}
  /\ DOMAIN chosen = DOMAIN Default /\ warned \subseteq FromEnvironment(program)
  /\ program \in {"pokkum-init", "pokkum-static"} /\ command \in Commands
  /\ given \in Environments /\ DOMAIN given \subseteq FromEnvironment(program)
  /\ flags \in Flags /\ DOMAIN flags \subseteq FromFlags(program)

\* "A bad env value in a production container must not prevent [it] from
\* starting" (pokkum-static/config.go, 138): with no flag and a command it is
\* stopped by the variables that are required of it alone; a static server also
\* by one port for both, or by a relative root, which are no longer taken for
\* bad values of the environment.
EnvironmentNeverStops ==
  (turn = "refused" /\ flags = <<>> /\ command = "given") =>
    IF program = "pokkum-init" THEN Unmet # {}
    ELSE \/ chosen.port = chosen.probe
         \/ "roots" \in Read /\ given["roots"].form = "out"

\* What runs does so with what was asked for last, or is told otherwise: only
\* of a switch that is no boolean, and of a blank, nothing is said.
Asked(s) == IF s \in Typed THEN flags[s] ELSE given[s]
IgnoredIsTold ==
  turn = "runs" =>
    \A s \in Read \cup Typed :
      chosen[s] = Asked(s).val \/ s \in warned \/ s = "dev" \/ Asked(s).form = "blank"

\* A mistake in a flag never runs, and one in the environment never reaches what
\* runs; a probe that cannot be bound is told of.
RunsSound ==
  turn = "runs" =>
    /\ \A s \in DOMAIN flags : flags[s].form \in {"good", "blank", "empty"}
    /\ chosen.timeout > 0 /\ {chosen.port, chosen.probe} \subseteq Ports /\ chosen.roots \notin {"relative", "none"}
    /\ chosen.dev => "dev" \in DOMAIN given /\ given["dev"].form = "good" /\ "dev" \in warned
    /\ chosen.port = chosen.probe => program = "pokkum-init" /\ "probe" \in warned
    /\ program = "pokkum-init" => chosen.require \subseteq DOMAIN given

-----------------------------------------------------------------------------
(* The invariants that the three follow from                                 *)

\* What no flag has overridden is what the environment says or the default,
\* and what was told of the environment is not forgotten.
EnvironmentIsIn ==
  turn # "environment" =>
    /\ \A s \in DOMAIN Default :
         turn \in {"flags", "version"} \/ s \notin Overriding
           => chosen[s] = IF s \in Read THEN envValue(s) ELSE Default[s]
    /\ {s \in Read : Told(s, given[s])} \subseteq warned
    /\ chosen.dev => "dev" \in warned

\* Flags get as far as the validation only if they can be read.
FlagsAreIn ==
  turn \in {"validate", "runs"} =>
    /\ \A s \in Overriding : chosen[s] = flags[s].val
    /\ Typed \ Overriding \subseteq warned
    /\ "version" \notin DOMAIN flags
    /\ \A s \in DOMAIN flags \cap {"port", "probe", "timeout"} : flags[s].form \in {"good", "out"}
    /\ "level" \in DOMAIN flags => flags["level"].form = "good"

\* What runs has been validated, and what is refused had a flag or was not valid.
Validated ==
  /\ turn = "runs" => validate /\ (chosen.port = chosen.probe => "probe" \in warned)
  /\ turn = "refused" => DOMAIN flags # {} \/ ~validate

IInv == EnvironmentIsIn /\ FlagsAreIn /\ Validated
=============================================================================
