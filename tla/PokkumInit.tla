----------------------------- MODULE PokkumInit -----------------------------
(***************************************************************************)
(* The whole of pokkum-init: main.go attests the /app tree and only then   *)
(* runs the supervisor, while the probe server of probe.go answers the     *)
(* kubelet from the supervisor's published snapshot and from a cached      *)
(* readiness that a loop of its own keeps current.                         *)
(*                                                                         *)
(* The supervisor's steps are those of Supervisor, unchanged; what is      *)
(* added is the goroutine of the probe server, the readiness loop, and     *)
(* which process of the container accepts connections on the app port.     *)
(***************************************************************************)
EXTENDS Supervisor

CONSTANT ReadyPath  \* POKKUM_READY_PATH is set: the application is asked too

ASSUME ReadyPathAssumption == ReadyPath \in BOOLEAN

VARIABLES
  main,               \* where main is: "attest", "run", or "refused" (exit 125)
  verdict,            \* history: what verifyAttestation found
  attestationPending,
  probe,              \* the probe port: "unbound", "serving", "failed"
  ready,              \* the cached outcome of the last readiness check
  check,              \* the check in flight: "idle", or its outcome before the store
  listener            \* the process that accepts on the app port, or NoPid

mainVars  == <<main, verdict, attestationPending>>
probeVars == <<probe, ready, check>>

containerVars == <<vars, mainVars, probeVars, listener>>

-----------------------------------------------------------------------------
(* What the kubelet is told *)

Serving == probe = "serving" /\ main # "refused" /\ pc # "done"

\* Mutant: the liveness of an ordinary supervisor.
Healthz_strict == Serving /\ published.started /\ published.running

Healthz ==
  /\ Serving
  /\ published.started
  /\ published.running \/ published.restarting

\* Mutant: readiness from the cache alone.
Readyz_cached == Serving /\ ~attestationPending /\ published.running /\ ready

Readyz ==
  /\ Serving
  /\ ~attestationPending
  /\ published.running /\ ~published.shuttingDown
  /\ ready

-----------------------------------------------------------------------------
(* main *)

\* Mutant: a mismatch is reported and the start goes on.
VerifyAttestation_warns ==
  /\ main = "attest"
  /\ verdict' \in {"match", "mismatch"}
  /\ main' = "run"
  /\ attestationPending' = FALSE
  /\ UNCHANGED <<vars, probeVars, listener>>

\* verifyAttestation: a mismatch exits with 125 before Run is entered.
VerifyAttestation ==
  /\ main = "attest"
  /\ \/ /\ verdict' = "match"
        /\ main' = "run"
        /\ attestationPending' = FALSE
     \/ /\ verdict' = "mismatch"
        /\ main' = "refused"
        /\ UNCHANGED attestationPending
  /\ UNCHANGED <<vars, probeVars, listener>>

\* A step of the supervisor or of the kernel.  A listener that dies closes.
Run ==
  /\ main = "run"
  /\ Next
  /\ listener' = IF listener # NoPid /\ pstate'[listener] = "live"
                 THEN listener ELSE NoPid
  /\ UNCHANGED <<mainVars, probeVars>>

-----------------------------------------------------------------------------
(* The probe server *)

Alive == main # "refused" /\ pc # "done"

\* Serve: a port that cannot be bound is logged and never fatal.
Serve ==
  /\ Alive /\ probe = "unbound"
  /\ probe' \in {"serving", "failed"}
  /\ UNCHANGED <<vars, mainVars, ready, check, listener>>

Answers == listener # NoPid

\* checkReady: the connect, and with a ready path the application's answer ...
Check ==
  /\ Serving /\ check = "idle"
  /\ check' \in IF Answers THEN IF ReadyPath THEN {"up", "down"} ELSE {"up"}
                ELSE {"down"}
  /\ UNCHANGED <<vars, mainVars, probe, ready, listener>>

\* Mutant: only a change for the worse is stored.
RecordReady_onlyDown ==
  /\ Serving /\ check # "idle"
  /\ ready' = (ready /\ check = "up")
  /\ check' = "idle"
  /\ UNCHANGED <<vars, mainVars, probe, listener>>

\* ... and the store, some time after the answer.
RecordReady ==
  /\ Serving /\ check # "idle"
  /\ ready' = (check = "up")
  /\ check' = "idle"
  /\ UNCHANGED <<vars, mainVars, probe, listener>>

-----------------------------------------------------------------------------
(* The application *)

Listen(p) ==
  /\ main = "run" /\ pc # "done"
  /\ pstate[p] = "live" /\ listener = NoPid
  /\ listener' = p
  /\ UNCHANGED <<vars, mainVars, probeVars>>

StopListening ==
  /\ pc # "done" /\ listener # NoPid
  /\ listener' = NoPid
  /\ UNCHANGED <<vars, mainVars, probeVars>>

-----------------------------------------------------------------------------
ContainerInit ==
  /\ Init
  /\ main = "attest" /\ verdict = "none" /\ attestationPending = TRUE
  /\ probe = "unbound" /\ ready = FALSE /\ check = "idle"
  /\ listener = NoPid

ContainerNext ==
  \/ VerifyAttestation \/ Run
  \/ Serve \/ Check \/ RecordReady
  \/ \E p \in Pids : Listen(p)
  \/ StopListening

ContainerSpec == ContainerInit /\ [][ContainerNext]_containerVars

\* The readiness loop has a ticker, and a dial that times out.
ProbeFairness == WF_containerVars(Check) /\ WF_containerVars(RecordReady)

FairContainerSpec == ContainerSpec /\ ProbeFairness

-----------------------------------------------------------------------------
(* What the container guarantees *)

ContainerTypes ==
  /\ main \in {"attest", "run", "refused"}
  /\ verdict \in {"none", "match", "mismatch"}
  /\ attestationPending \in BOOLEAN
  /\ probe \in {"unbound", "serving", "failed"}
  /\ ready \in BOOLEAN /\ check \in {"idle", "up", "down"}
  /\ listener \in Pids \cup {NoPid}

\* Every variable has its type, and only a live process listens.
ContainerTypeOK ==
  /\ TypeOK /\ ContainerTypes
  /\ listener # NoPid => pstate[listener] = "live"

\* No process of the application exists before the tree was found to match, and
\* none is ever called ready: the attestation fails closed.
FailsClosed == pid # NoPid \/ Readyz => verdict = "match"

\* The kubelet never sees a liveness failure because of a dev restart: from the
\* SIGHUP to the new child, /healthz answers 200 in every state.
AliveThroughRestart ==
  probe = "serving" /\ restarting /\ pc # "done" => Healthz

\* From the moment a termination signal is taken the container is out of the
\* load balancer for good, whatever the cached readiness says.
DrainIsPermanent == [][shuttingDown => ~Readyz /\ ~Readyz']_containerVars

Settled == Serving /\ main = "run" /\ published.running /\ ~published.shuttingDown

\* An application that keeps accepting connections ends up reported ready ...
ReadyInTheEnd ==
  ~ReadyPath /\ <>[](Settled /\ Answers) => <>[]Readyz

\* ... and one that stopped accepting them ends up reported not ready: the
\* readiness is verified again and again, not proved once.
UnreadyInTheEnd == <>[](Serving /\ ~Answers) => <>[](~Readyz)

\* Readiness does not latch, in either direction.
ReadinessConverges == ReadyInTheEnd /\ UnreadyInTheEnd
=============================================================================
