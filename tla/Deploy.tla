-------------------------------- MODULE Deploy --------------------------------
(***************************************************************************)
(* pokkum deploy, and the deploy at the end of a build: commands that      *)
(* resolve a configuration, repoint one application of a control plane at  *)
(* an image, ask for a rollout and find out whether there is one.  The     *)
(* commands run side by side and one after the other; a reply may be lost, *)
(* or be no reply that the adapter knows.                                  *)
(***************************************************************************)
EXTENDS Naturals, FiniteSets

CONSTANTS
  Commands,    \* invocations, each of which runs once
  Refs,
  Configs,     \* the deploy blocks of the commands: see Config
  Environments,\* what is set of the variables they name: a set of sets
  MaxRows,
  NoRef

Blank == ""

\* A deploy block: Blank where a field is not set.
Config == [target: {Blank, "dokploy", "swiftwave", "bad"}, method: {Blank, "api", "webhook", "bad"},
           endpoint: {Blank, "url", "bad"}, endpointEnv: BOOLEAN, application: BOOLEAN,
           updateImage: {Blank, "on", "off"}, userEnv: BOOLEAN, passwordEnv: BOOLEAN,
           timeout: {Blank, "positive", "bad"}]

\* What the commands are given; MCOperatorSide checks it with TypeOK.
Assumed == Configs \subseteq Config /\ Configs # {} /\ NoRef \notin Refs /\ MaxRows \in Nat

VARIABLES
  image,     \* the reference the application is configured with
  secrets,   \* whether the application has credentials for its registry
  rows,      \* the deployments the platform lists
  at,        \* [command -> where it is]
  cfg, env, ref,  \* [command -> its configuration, what is set, the image it was given]
  told       \* history: a command was told to repoint it and given no credentials

platformVars == <<image, secrets, rows>>
Row == [by: Commands, of: Refs \cup {NoRef}, image: Refs \cup {NoRef},
        status: {"idle", "running", "done", "error"}, created: 1 .. MaxRows]

Init ==
  /\ image = NoRef /\ secrets = TRUE /\ rows = {}
  /\ at = [c \in Commands |-> "off"]
  /\ cfg = [c \in Commands |-> CHOOSE x \in Configs : TRUE]
  /\ env = [c \in Commands |-> {}] /\ ref = [c \in Commands |-> NoRef]
  /\ told = FALSE

Goto(c, where) == at' = [at EXCEPT ![c] = where]

-----------------------------------------------------------------------------
(* What is asked for: core/deploy.go *)

DefaultDeployMethod(target) == IF target = "swiftwave" THEN "webhook" ELSE "api"
methodOf(k) == IF k.method = Blank THEN DefaultDeployMethod(k.target) ELSE k.method
ParseDeployTarget(k) == k.target \in {"dokploy", "swiftwave"}
ParseDeployMethod(k) == methodOf(k) \in {"api", "webhook"}
ValidateDeployMethod(k) == ~(k.target = "dokploy" /\ methodOf(k) = "webhook")
SupportsImageUpdate(k) == k.target = "dokploy" /\ methodOf(k) = "api"

\* What the validation of a configuration accepts, with nothing looked up.
ValidateDeployConfig(k) ==
  /\ ParseDeployTarget(k) /\ ParseDeployMethod(k) /\ ValidateDeployMethod(k)
  /\ k.endpoint # Blank \/ k.endpointEnv
  /\ k.endpoint # "bad"
  /\ methodOf(k) = "api" => k.application
  /\ k.updateImage = "on" => SupportsImageUpdate(k)
  /\ k.userEnv = k.passwordEnv
  /\ k.timeout # "bad"

\* An image is repointed only where it was asked for: it costs the application
\* its credentials.
UpdateImage(k) == k.updateImage = "on"

\* The variables that must be set.
Needed(k) ==
  (IF methodOf(k) = "api" THEN {"token"} ELSE {})
    \cup (IF k.endpointEnv /\ k.endpoint = Blank THEN {"endpoint"} ELSE {})
    \cup (IF UpdateImage(k) /\ k.userEnv THEN {"user"} ELSE {})
    \cup (IF UpdateImage(k) /\ k.passwordEnv THEN {"password"} ELSE {})

\* The endpoint of the environment goes before the one that is written down.
Endpoint(k, set) == IF k.endpointEnv /\ "endpoint" \in set THEN "url" ELSE k.endpoint

ResolveDeployRequest(k, set, r) ==
  /\ ParseDeployTarget(k) /\ ParseDeployMethod(k) /\ ValidateDeployMethod(k)
  /\ Endpoint(k, set) = "url"
  /\ Needed(k) \subseteq set
  /\ methodOf(k) = "api" => k.application
  /\ UpdateImage(k) => SupportsImageUpdate(k) /\ r # NoRef /\ k.userEnv = k.passwordEnv
  /\ k.timeout # "bad"

\* A build deploys what it pushed, if its configuration says so.
ShouldAutoDeploy(k, build) ==
  /\ build = "pushed" /\ k.target # Blank

-----------------------------------------------------------------------------
(* The command *)

\* An operator who asks for this has the application's credentials cleared.
Destructive(k) == k.updateImage = "on" /\ ~k.userEnv

\* pokkum deploy, of an image or of none.
Start(c) ==
  /\ at[c] = "off"
  /\ \E k \in Configs, set \in Environments, r \in Refs \cup {NoRef} :
       /\ cfg' = [cfg EXCEPT ![c] = k] /\ env' = [env EXCEPT ![c] = set]
       /\ ref' = [ref EXCEPT ![c] = r]
       /\ Goto(c, IF k.target = Blank THEN "failed" ELSE "resolve")
       /\ told' = (told \/ Destructive(k))
  /\ UNCHANGED platformVars

\* The end of a build: of the image it pushed.
AutoDeploy(c) ==
  /\ at[c] = "off"
  /\ \E k \in Configs, set \in Environments, r \in Refs, build \in {"pushed", "local"} :
       /\ ShouldAutoDeploy(k, build)
       /\ cfg' = [cfg EXCEPT ![c] = k] /\ env' = [env EXCEPT ![c] = set]
       /\ ref' = [ref EXCEPT ![c] = r] /\ told' = (told \/ Destructive(k))
  /\ Goto(c, "resolve") /\ UNCHANGED platformVars

Resolve(c) ==
  /\ at[c] = "resolve"
  /\ Goto(c, IF ~ResolveDeployRequest(cfg[c], env[c], ref[c]) THEN "failed"
             ELSE IF cfg[c].target = "swiftwave" THEN "rebuild"
             ELSE IF UpdateImage(cfg[c]) THEN "save" ELSE "trigger")
  /\ UNCHANGED <<platformVars, cfg, env, ref, told>>

\* pokkum deploy --check stops where the request is resolved: nothing it could
\* ask the platform would not deploy.
Check(c) ==
  /\ at[c] \in {"save", "trigger", "rebuild"} /\ Goto(c, "failed")
  /\ UNCHANGED <<platformVars, cfg, env, ref, told>>

-----------------------------------------------------------------------------
(* Dokploy *)

\* The request overwrites the credentials with those it has, or with none.  A
\* reply that is lost or not understood is a failure, whatever it did.
saveDockerProvider(c) ==
  /\ at[c] = "save"
  /\ \/ /\ image' = ref[c] /\ secrets' = cfg[c].userEnv
        /\ (Goto(c, "trigger") \/ Goto(c, "failed"))
     \/ Goto(c, "failed") /\ UNCHANGED <<image, secrets>>
  /\ UNCHANGED <<rows, cfg, env, ref, told>>

\* The rollout is of what the application is configured with by then.
Queue(c) ==
  /\ Cardinality(rows) < MaxRows
  /\ rows' = rows \cup {[by |-> c, of |-> ref[c], image |-> image, status |-> "idle",
                         created |-> Cardinality(rows) + 1]}

\* A rollout that is queued may be answered by a body that says nothing, and so
\* may one that is not, by something between.
triggerDeploy(c) ==
  /\ at[c] = "trigger"
  /\ \/ Queue(c) /\ (Goto(c, "done") \/ Goto(c, "confirm") \/ Goto(c, "failed"))
     \/ UNCHANGED rows /\ (Goto(c, "confirm") \/ Goto(c, "failed"))
  /\ UNCHANGED <<image, secrets, cfg, env, ref, told>>

\* The deployments that may be this one: those that name the image, in no
\* order, or the newest where no image was named.
deploymentFor(c) ==
  IF ref[c] # NoRef THEN {r \in rows : r.of = ref[c]}
  ELSE {r \in rows : \A s \in rows : s.created <= r.created}

\* One look at the application.  Looks go on until there is an answer, or the
\* command is told to stop.
confirmRollout(c) ==
  /\ at[c] = "confirm"
  /\ \/ \E r \in deploymentFor(c) :
          \/ r.status \in {"done", "running"} /\ Goto(c, "done")
          \/ r.status = "error" /\ Goto(c, "failed")
     \/ Goto(c, "failed")
  /\ UNCHANGED <<platformVars, cfg, env, ref, told>>

-----------------------------------------------------------------------------
(* SwiftWave: a rebuild of what it is configured with, by webhook or by API *)

swiftwaveWebhookBody(c) == {ref[c]} \ {NoRef}

Rebuild(c) ==
  /\ at[c] = "rebuild"
  /\ \/ /\ methodOf(cfg[c]) = "webhook" => swiftwaveWebhookBody(c) # {}
        /\ Queue(c) /\ (Goto(c, "done") \/ Goto(c, "failed"))
     \/ UNCHANGED rows /\ Goto(c, "failed")
  /\ UNCHANGED <<image, secrets, cfg, env, ref, told>>

-----------------------------------------------------------------------------
\* The platform works on what is queued.
Progress(r) ==
  /\ r \in rows
  /\ \E s \in CASE r.status = "idle" -> {"running"} [] r.status = "running" -> {"done", "error"}
                [] OTHER -> {} :
       rows' = (rows \ {r}) \cup {[r EXCEPT !.status = s]}
  /\ UNCHANGED <<image, secrets, at, cfg, env, ref, told>>

Next ==
  \/ \E c \in Commands :
       \/ Start(c) \/ AutoDeploy(c) \/ Resolve(c) \/ Check(c)
       \/ saveDockerProvider(c) \/ triggerDeploy(c) \/ confirmRollout(c) \/ Rebuild(c)
  \/ \E r \in rows : Progress(r)

Spec == Init /\ [][Next]_<<platformVars, at, cfg, env, ref, told>>

-----------------------------------------------------------------------------
\* The type of the state.
TypeOK ==
  /\ image \in Refs \cup {NoRef} /\ secrets \in BOOLEAN /\ rows \subseteq Row
  /\ at \in [Commands -> {"off", "resolve", "save", "trigger", "confirm", "rebuild",
                          "done", "failed"}]
  /\ cfg \in [Commands -> Config] /\ ref \in [Commands -> Refs \cup {NoRef}]
  /\ IsFiniteSet(rows) /\ told \in BOOLEAN

\* A rollout that is reported is one of the platform's: of this command, or at
\* least of the image it names, never another's that happened to be going on.
\* A command that named none can tell no more than that pokkum asked for one.
ReportedIsRollingOut ==
  \A c \in Commands : at[c] = "done" =>
    \E r \in rows : r.by = c \/ r.of = ref[c] \/ ref[c] = NoRef

\* The application keeps its credentials until a command is told to repoint it
\* and is given none.
CredentialsAreKept == ~secrets => told

\* A command whose configuration the validation accepts is refused only for a
\* variable that is not set or an image that is not named.
Variables == {"token", "endpoint", "user", "password"}
ValidIsDeployable ==
  \A c \in Commands :
    at[c] = "resolve" /\ ValidateDeployConfig(cfg[c]) /\ ~ResolveDeployRequest(cfg[c], env[c], ref[c])
      => env[c] # Variables \/ (UpdateImage(cfg[c]) /\ ref[c] = NoRef)

-----------------------------------------------------------------------------
(* The invariant that CredentialsAreKept follows from                        *)

\* An image is saved for who asked for it, and who asked without credentials
\* was told.
SavesAreAskedFor ==
  \A c \in Commands :
    /\ at[c] = "save" => UpdateImage(cfg[c])
    /\ at[c] # "off" /\ Destructive(cfg[c]) => told

IInv == SavesAreAskedFor /\ ReportedIsRollingOut /\ CredentialsAreKept
=============================================================================
