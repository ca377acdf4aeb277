------------------------------- MODULE DevLoop -------------------------------
(***************************************************************************)
(* pokkum dev with --watch: a container is run, the sources are watched,   *)
(* and every change stops the container, rebuilds the image and runs the   *)
(* next one.  Each run of a container is a generation: a goroutine of its  *)
(* own, which puts its result into a channel of its own.                   *)
(*                                                                         *)
(* Time is counted in edits: the sources are as of the edit of that        *)
(* number, and so are the modification times.                              *)
(***************************************************************************)
EXTENDS Naturals, FiniteSets

CONSTANTS
  MaxGenerations, \* bound on the containers run
  MaxEdits        \* bound on the edits

VARIABLES
  loop,       \* where watchAndRunDevContainer is
  ctxDone,    \* the command's context is cancelled
  generation, \* [number -> "none", "runs", "reported", "read"]
  told,       \* the generations whose own context the loop cancelled
  channel,    \* the generation whose channel the loop listens to
  srcTime,    \* the latest modification time below src/
  topTime,    \* the modification time of src/ itself
  lastMod,
  reading,    \* the sources the build in progress has read
  image,      \* the sources the loaded image is built from
  buildFailed,\* the last build failed
  ended,      \* how the loop returned
  late,       \* history: a stop timed out and no later generation was run
  unseen      \* history: src/ itself was edited between the first build and the first look

devVars == <<loop, ctxDone, generation, told, channel, srcTime, topTime, lastMod,
              reading, image, buildFailed, ended, late, unseen>>
sources == <<srcTime, topTime>>
containers == <<generation, told, channel>>

Generations == 1..MaxGenerations

Init ==
  /\ loop = "idle" /\ ctxDone = FALSE
  /\ generation = [g \in Generations |-> "none"]
  /\ told = {} /\ channel = 1
  /\ srcTime = 1 /\ topTime = 0 /\ lastMod = 0
  /\ reading = 0 /\ image = 0 /\ buildFailed = FALSE
  /\ ended = "no" /\ late = FALSE /\ unseen = FALSE

Returns(how) == loop' = "returned" /\ ended' = how

-----------------------------------------------------------------------------
(* runDevWithDeps, buildAndLoadDevContainer *)

StartDev ==
  /\ loop = "idle"
  /\ loop' = "first" /\ reading' = srcTime
  /\ UNCHANGED <<ctxDone, containers, sources, lastMod, image, buildFailed, ended, late, unseen>>

\* The first build is fatal when it fails; so is one that was cancelled.
FirstBuild ==
  /\ loop = "first"
  /\ \/ /\ ~ctxDone
        /\ loop' = "launch" /\ image' = reading
        /\ UNCHANGED ended
     \/ Returns("buildFailed") /\ UNCHANGED image
  /\ UNCHANGED <<ctxDone, containers, sources, lastMod, reading, buildFailed, late, unseen>>

\* The first generation is launched and the time of src/ itself noted.
Launch ==
  /\ loop = "launch"
  /\ generation' = [generation EXCEPT ![1] = "runs"]
  /\ channel' = 1
  /\ lastMod' = topTime
  /\ loop' = "select"
  /\ UNCHANGED <<ctxDone, told, sources, reading, image, buildFailed, ended, late, unseen>>

-----------------------------------------------------------------------------
(* The loop *)

\* ctx.Done(): stop the generation, wait for it or for five seconds.
Interrupted ==
  /\ loop = "select" /\ ctxDone
  /\ told' = told \cup {channel}
  /\ loop' = "shutdown"
  /\ UNCHANGED <<ctxDone, generation, channel, sources, lastMod, reading, image, buildFailed,
                 ended, late, unseen>>

\* Mutant: all generations share one channel.
Exited_shared ==
  /\ loop = "select"
  /\ \E g \in Generations :
       /\ generation[g] = "reported"
       /\ generation' = [generation EXCEPT ![g] = "read"]
       /\ Returns(IF ctxDone THEN "interrupted" ELSE IF g \in told THEN "told" ELSE "exited")
  /\ told' = told \cup {channel}
  /\ UNCHANGED <<ctxDone, channel, sources, lastMod, reading, image, buildFailed, late, unseen>>

\* A result in the channel the loop listens to ends the session.
Exited ==
  /\ loop = "select" /\ generation[channel] = "reported"
  /\ generation' = [generation EXCEPT ![channel] = "read"]
  /\ Returns(IF ctxDone THEN "interrupted" ELSE IF channel \in told THEN "told" ELSE "exited")
  /\ told' = told \cup {channel}
  /\ UNCHANGED <<ctxDone, channel, sources, lastMod, reading, image, buildFailed, late, unseen>>

\* The ticker: getLatestModTime is after lastMod.
Modified ==
  /\ loop = "select" /\ srcTime > lastMod
  /\ Cardinality({g \in Generations : generation[g] # "none"}) < MaxGenerations
  /\ lastMod' = srcTime
  /\ told' = told \cup {channel}
  /\ unseen' = FALSE
  /\ loop' = "stop"
  /\ UNCHANGED <<ctxDone, generation, channel, sources, reading, image, buildFailed, ended, late>>

\* The generation told to stop reports, or the wait for it times out.
Stopped ==
  /\ loop \in {"stop", "shutdown"}
  /\ \/ /\ generation[channel] = "reported"
        /\ generation' = [generation EXCEPT ![channel] = "read"]
        /\ UNCHANGED late
     \/ late' = (generation[channel] # "read") /\ UNCHANGED generation
  /\ IF loop = "stop" THEN loop' = "rebuild" /\ reading' = srcTime /\ UNCHANGED ended
                      ELSE Returns("interrupted") /\ UNCHANGED reading
  /\ UNCHANGED <<ctxDone, told, channel, sources, lastMod, image, buildFailed, unseen>>

\* A rebuild that fails leaves the loop listening to the channel it had.
Rebuilt ==
  /\ loop = "rebuild"
  /\ loop' = "select"
  /\ \/ /\ ~ctxDone
        /\ image' = reading /\ buildFailed' = FALSE
        /\ channel' = 1 + Cardinality({g \in Generations : generation[g] # "none"})
        /\ generation' = [generation EXCEPT ![channel'] = "runs"]
        /\ late' = FALSE
     \/ /\ buildFailed' = TRUE
        /\ UNCHANGED <<image, channel, generation, late>>
  /\ UNCHANGED <<ctxDone, told, sources, lastMod, reading, ended, unseen>>

-----------------------------------------------------------------------------
(* The containers, the developer *)

\* runDevContainer: docker run ends, by itself or because its context did.
Reports(g) ==
  /\ generation[g] = "runs"
  /\ generation' = [generation EXCEPT ![g] = "reported"]
  /\ UNCHANGED <<loop, ctxDone, told, channel, sources, lastMod, reading, image, buildFailed,
                 ended, late, unseen>>

\* A file is saved; or an entry of src/ itself appears, moves or goes.
Edit(top) ==
  /\ loop \notin {"idle", "returned"} /\ srcTime < MaxEdits
  /\ srcTime' = srcTime + 1
  /\ topTime' = IF top THEN srcTime' ELSE topTime
  /\ unseen' = (unseen \/ (top /\ loop \in {"first", "launch"}))
  /\ UNCHANGED <<loop, ctxDone, containers, lastMod, reading, image, buildFailed, ended, late>>

CtrlC ==
  /\ loop \notin {"idle", "returned"} /\ ~ctxDone
  /\ ctxDone' = TRUE
  /\ UNCHANGED <<loop, containers, sources, lastMod, reading, image, buildFailed, ended,
                 late, unseen>>

Next ==
  \/ StartDev \/ FirstBuild \/ Launch
  \/ Interrupted \/ Exited \/ Modified \/ Stopped \/ Rebuilt
  \/ \E g \in Generations : Reports(g)
  \/ \E top \in BOOLEAN : Edit(top)
  \/ CtrlC

Spec == Init /\ [][Next]_devVars

-----------------------------------------------------------------------------
\* Every variable is of its type.
TypeOK ==
  /\ {ctxDone, buildFailed, late, unseen} \subseteq BOOLEAN
  /\ loop \in {"idle", "first", "launch", "select", "stop", "rebuild", "shutdown", "returned"}
  /\ generation \in [Generations -> {"none", "runs", "reported", "read"}]
  /\ told \subseteq Generations /\ channel \in Generations
  /\ {srcTime, topTime, lastMod, reading, image} \subseteq 0..MaxEdits
  /\ ended \in {"no", "interrupted", "exited", "told", "buildFailed"}

\* The session ends for Ctrl-C, for a first build that fails, or because a
\* container exited that nobody told to stop -- never because a superseded
\* one reported late, unless its stop had timed out and the rebuild failed.
EndsForCause == ended = "told" => late

\* Once the loop is back at its select and sees nothing new, the image is of
\* the latest sources or their build failed: no edit falls between noting the
\* time and reading the files.  One does, if it changes the entries of src/
\* itself during the first build.
NoEditIsMissed ==
  loop = "select" /\ srcTime <= lastMod => image = srcTime \/ buildFailed \/ unseen

\* A session ends for a cause and misses no edit.
DevLoopIsHonest == EndsForCause /\ NoEditIsMissed

-----------------------------------------------------------------------------
(* The inductive invariant behind it *)

\* What the proofs rest on.
Assumed == MaxGenerations \in Nat \ {0} /\ MaxEdits \in Nat \ {0}

Watching == loop \in {"select", "stop", "rebuild", "shutdown"}

\* The generations are numbered as they are run; the loop has told no other, and
\* listens to one of them.
GenerationsInOrder ==
  \E k \in 0 .. MaxGenerations :
    /\ {g \in Generations : generation[g] # "none"} = 1 .. k
    /\ told \subseteq 1 .. k
    /\ loop \in {"idle", "first", "launch"} => k = 0
    /\ loop \in {"stop", "rebuild"} => k < MaxGenerations
    /\ Watching => channel \in 1 .. k

\* A generation that was told to stop and has not been waited for to the end is
\* one whose stop timed out.
ToldIsLate ==
  loop \in {"rebuild", "select"} /\ channel \in told /\ generation[channel] # "read"
    => late

\* What is built is no older than the time that is noted.
NotedIsRead ==
  /\ lastMod <= srcTime /\ topTime <= srcTime /\ reading <= srcTime /\ image <= srcTime
  /\ loop = "idle" => srcTime = 1 /\ topTime = 0
  /\ loop = "first" => topTime <= reading \/ unseen
  /\ loop = "launch" => topTime <= image \/ unseen
  /\ loop = "rebuild" => lastMod <= reading
  /\ loop = "select" => lastMod <= image \/ buildFailed \/ unseen

IInv ==
  /\ GenerationsInOrder /\ ToldIsLate /\ NotedIsRead /\ EndsForCause
  /\ loop # "returned" => ended = "no"
=============================================================================
