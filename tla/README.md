# A verification project for Pokkum

Pokkum turns a SvelteKit project into a signed OCI image, pushes it, and rolls
it out; every image it builds runs under its own PID 1, `pokkum-init`, or, if the
site is static, `pokkum-static`. This directory holds TLA+ models of it, TLC
configurations that check them on small instances, and proofs, checked by TLAPS,
of what matters most for every value of the constants. Paths below are relative
to `src/` of the repository.

`tlc -config X.cfg MC<Module>` runs a configuration and `tlapm <Module>Proofs.tla`
checks a proof. `PROJECT.json` holds the same inventory for tools: which lines of
the source each definition stands for, which run checks which property, and for
every property a plausible bug ("mutant") that TLC finds with it.

## 1. Inventory

How the parts meet: the CLI settles a request (`Requests`) and calls
`core.Build`; `Build` resolves the base (`BaseLock`), lets the scanner and the
secret guard look (`Scanner`, `SecretGuard`), asks the remote cache (`Pipeline`),
and otherwise prepares (`Prepare`, `Routes`), compiles with the embedded Bun
(`BunRuntime`), packages (`BuildStages`, `Packaging`, `Prune`, `LayerCache`),
carries older assets over (`Overlay`), pushes, attaches and signs (`Registry`), or
writes locally (`LocalOutputs`). What was published is verified (`Trust`) and
rolled out (`Manifests`, `Deploy`). The image starts `pokkum-init`, which settles
its configuration (`Startup`), attests (`Attestation`), serves probes
(`PokkumInit`) and supervises (`Supervisor`); or `pokkum-static`
(`StaticServer`). The dev loops restart what runs (`DevLoop`, `ClusterDev`).

| Component | State and operations | What is hard | Correct when |
| --- | --- | --- | --- |
| Supervisor (`supervisor/cmd/pokkum-init/supervisor.go`) | pid, exit, the shutdown, restart and kill flags, one deadline, the snapshot; the kernel's tables and channels. Start, forward, shut down, restart, escalate, reap, sweep, respawn, finish | four event sources ready at once, SIGCHLD that is not queued, recycled pids, a child that ignores signals | no lost wakeup, signals reach the child's group only, a shutdown is final and ends, the exit code is the child's |
| Startup and probes (`main.go`, `probe.go`) | where `main` is, the cached readiness, the probe port. Attest, run, serve, check, record | the port is bound before the verdict; the cache is stale by a tick | nothing runs unattested, a restart is no death, a drain is permanent, readiness converges |
| Attestation (`attest.go`, `attestutils`) | a shared counter, an abort flag, one slot a file | workers in any order, slots left empty by an abort, files that change meanwhile | a tree that passes was the one that was built |
| Configuration of both PID 1 programs (`config.go`) | defaults, environment, flags | an operator's mistake must not stop a container, nor change it silently | what runs is what was asked for last, or the log says otherwise |
| Pipeline (`core/pipeline.go`, `remotecacheutils`, `registry/push.go`) | per build the scans, the stage, the candidate, the tags left; tags and signatures of the registry | any call fails, also after it took effect; the cache tag is public before the signature | no refused build succeeds, success means every tag moved, what is promoted is vouched for |
| Build stages 5 to 10 (`core/pipeline.go`) | four errgroups, slots, work directories, attached and read-back subjects | siblings that cancel each other, directories removed under a running task | the cause is reported, nothing outlives its files, what ships is scanned |
| Bun runtime (`bunruntime/resolver.go`) | binary, sidecar, pin store, memo | stats before and after a hash, torn files, processes killed | only verified bytes are served, trust is earned |
| Bun compiler adapter (`bunexec/`) | manifest, staged tree, stamp, mirror | the staging directory outlives runs that were killed | a build ships its own dependencies |
| Route exclusion (`routefilterutils`, `routefilter`, `prerendered_flatten.go`) | mirror, prerendered output, report | two mechanisms, run at different stages, that must agree | an excluded route is in neither, another is lost by neither |
| Packager, layers, precompression, pruning (`packager`, `precompressutils`, `pruneutils`, `striputils`) | trees, sidecars, walk memo, temporary files, records | platforms rewrite and read the same trees | no write under a walk; the records are of what is mounted; nothing is dropped unaccounted |
| Layer cache (`layercacheutils`) | blob and metadata, renamed one after the other | two writers, a reader in between, leftovers of other releases | a layer gives the bytes its digest names |
| Asset overlay (`assetoverlay`) | images, their predecessor annotation, layers | builds of one tag side by side, collected images | an old page finds its assets |
| Base images and lockfile (`baseimage`, `lockfileutils`, `cmd/pokkum/base.go`) | lock, mirror, tag | several commands read, change, rewrite | a locked base is used; a scan is of its digest |
| Registry (`registry/`) | tags, manifests, attachments, referrers | registries with and without an API, lost answers, two pushers | what is reported as pushed or attached is there |
| Local outputs (`ocilayout.go`, `tarball.go`, `daemon.go`) | the layout or archive at a path, backups | crashes and writers between two renames | the output is whole, what is loaded runs here |
| Requests (`cmd/pokkum/build.go`, `config`, `core/model.go`) | flags, environment, profile, file, defaults | four layers and shorthands | what was asked for is what is built |
| Scanner and catalogue (`scanner`, `scannerutils`) | lockfiles, package databases, lookups that fail | partial failures that look like "nothing found" | a scan that passes has asked about what ships |
| Ignore patterns and secret guard (`ignoreutils`, `secretguard`) | patterns, files read in windows | shortcuts for the patterns and for the rules | a tree called clean holds nothing a rule knows |
| Trust (`sigstore`, `cosign`, `cmd/pokkum/verify.go`) | signatures, attestations, aging roots, a memo | evidence of another image, another policy, another time | what is accepted was signed for this image and request |
| Dev loop (`cmd/pokkum/dev.go`) | generations and their channels, times | late exits, failed rebuilds | it ends for a cause and misses no edit |
| In-pod sync (`devsync.go`, `clusterdev`, `dev_cluster.go`) | an archive, a pipe, files of the pod, SIGHUP | a stream cut half-way | a sync that is reported is whole |
| Static server (`cmd/pokkum-static`) | requests, a bounded cache of handles, drain | check before the open, count after the store | bounds hold, a resumed download is of one representation |
| Self-upgrade (`cmd/pokkum/upgrade.go`) | binary, backup, temporary file | crashes between renames | a working, signed binary is always there |
| Kubernetes (`k8s.go`, `apply.go`, `rollback.go`) | annotations of the workload, saved manifests | sequences of applies and rollbacks by two people | every image that ran can be rolled back to |
| Deploy adapters (`core/deploy.go`, `adapters/deploy`) | the platform's application and deployments | lost answers, other people's deployments | a rollout that is reported is there |
| SBOM, provenance, comparison (`sbom`, `provenance`, `comparator`) | none: documents computed from an image | | not modelled |

What is hard to test, with its line and the properties that cover it, is the
`hazards` list of `PROJECT.json`: 40 entries, each with a property some run checks.

## 2. The models

| Module | What it is |
| --- | --- |
| `Lifecycle` | abstract: what the snapshot and the result of `Run` promise their readers |
| `Supervisor` | the event loop and the kernel under it; implements `Lifecycle` |
| `PokkumInit` | extends `Supervisor` with `main`, the probe server and the application's listener |
| `Attestation`, `Startup` | the two inputs of `PokkumInit`: the verdict and the configuration |
| `Release` | abstract: what builds promise about tags and signatures |
| `Pipeline` | `core.Build` by several builders against one registry; implements `Release` |
| `BuildStages` | what `Pipeline` takes as the single step `Build` and its signing |
| `BunRuntime` | the Bun cache shared by calls and processes |
| `Prepare`, `Routes`, `Packaging`, `Prune`, `LayerCache`, `Overlay`, `BaseLock`, `Registry`, `LocalOutputs` | what a build is made of |
| `Requests`, `Catalog`, `Scanner`, `Ignore`, `SecretGuard` | what decides whether and how it is made; `Scanner` extends `Catalog`, `SecretGuard` and `Prune` extend `Ignore` |
| `Trust`, `Deploy`, `Manifests`, `Upgrade`, `DevLoop`, `ClusterDev`, `StaticServer` | the commands around a build, and the static image's server |
| `BuildSide`, `BuildGates`, `OperatorSide` | the constants and the state of the components that are explored and proved about side by side, and what they promise together |
| `MC*` | instances for TLC: model values, symmetry, constants that are functions; `init_all` needs none and runs `PokkumInit` itself |
| `PokkumInitProofs` | theorems about `Supervisor` and `PokkumInit` |
| `PipelineProofs`, `BunRuntimeProofs`, `AttestationProofs`, `RequestsProofs` | theorems about one module and their proofs |
| `BuildSideProofs`, `BuildGatesProofs`, `OperatorSideProofs` | the same for the components of those modules, section by section |

`BuildSide`, `BuildGates`, which extends it with what decides whether and how a build
is made, and `OperatorSide` instantiate the components and state their properties,
conjunctions of the components' own. `MCBuildSide` extends `BuildGates` and
`MCOperatorSide` extends `OperatorSide`, and they explore one component at a time
(`part`): the others keep their initial state. The components share no state but what
each models on its own side, so their product would show no behaviour that one of
them does not. The proofs extend the same modules, so what is proved is what the runs
check.

Definitions named `X_something` and introduced by "Mutant" are not part of a
specification: each is `X` with a plausible bug, and exists to show that a
property would notice.

Some variables are not the code's. Most remember what a property needs to know
(`had`, `was`, `looked`, `pointed`, `generated`, `succeeded`); some count what the
environment has done so that a guard of the environment can stop it (`changes`,
`starts`, `runs`, `writes`); and a few mark that one of the situations listed under
"Where the code and its own words differ" has come about (`overlapped`, `relocked`,
`halfWiped`, `excused`, `late`, `unseen`, `reset`, `moved`), so that a property can say what holds in
all others. None of them decides what the program does.

### Supervisor

The loop is one goroutine that takes one event at a time, so a handler is one
action: `SelectCtx`, `SelectSignal`, `SelectChld`, `SelectDeadline` are the cases
of the `select` in `supervise`, and call `forward`, `beginShutdown`,
`beginRestart` and `escalate` as the code does. The SIGCHLD handler makes several
system calls and is split at each, because the kernel moves between them:
`ReapOne`/`ReapDone` are the `wait4` loop, `Sweep` the SIGKILL of the old group,
`DrainForRestart`/`Respawn` the rest of `restartChild`, `Finish` that of
`finish`. `Publish` writes the snapshot where the code calls `publish`.

The kernel is modelled from what the code relies on: a pid is not handed out
while it names a process or a group, a reaped pid is free at once, SIGCHLD
coalesces, the channel holds one token and a full one drops, `wait4(-1)` returns
any zombie. Children may fork, leave their group, and die at any time.
Simplifications: SIGINT, the other relayed signals and the numeric exit codes are
reduced to classes; a deadline may win over a child that is already dead, since
`select` does not prefer. One consequence that shows in the model and in the code
alike: a SIGTERM after a dev restart was escalated replaces the hard window by a
new graceful one.

### PokkumInit

Adds `VerifyAttestation` (with any verdict), `Serve`, and the readiness loop
split into the answer (`Check`) and the store (`RecordReady`). `Healthz` and
`Readyz` are the two handlers' conditions. A handler reads the snapshot and two
atomics one after the other; the model takes that as one instant. `/readyz` does
not look at `Restarting`, as in the code. `main` ends in `os.Exit`, so its
deferred `probeSrv.Shutdown` never runs: the port just goes away.

### Pipeline

`stage` is the place of `Build`'s own goroutine; `secret` and `cve` are the scans
beside it. `Lookup`, `verifyCandidate`, `Promote`, `Hit` are `RemoteCache.Check`:
the GET, the signature, `reconcileTags` one PUT at a time, the confirmed hit.
`Push` moves one tag per step. Every registry call may succeed, fail, or fail
having been carried out. Stages 5 to 8 are the single step `Build`; `BuildStages`
has their inside.
Simplifications: a HEAD that finds the tag in place already is a PUT that changes
nothing; the release tags move in any order, the cache tag last; the dry run is
left out. `source` stands for what
the input hash covers and `bun` for an input it does not.

### BunRuntime

`pc` names the system call a `Resolve` is about to make. A cache hit is two stats
(`StatBinary`, `StatSidecar`), the memo, a read of the sidecar, the hash of the
binary, and two stats again. A miss is the download, the manifest, the pin store
(read under `r.mu`; truncated and written under `r.mu`, separately), the checksum
and the rename; or the compilation of a stub, renamed, or copied in place when
the temporary directory is on another file system. Then the path is hashed and
the sidecar written. A file carries the write that last changed it, which is what
inode, size and mtime tell apart: two writes never look alike. `Kill` ends a
process anywhere. Simplifications: hashing is an instant; `CustomBinaryPath` and
the chmod are left out; signature checking is what a signed manifest may list; a
pin store that is missing or does not parse is `Bad`; a copy is a truncation
followed by the write of the rest.

### What a build is made of

- `BuildStages`: a parallel section is an errgroup: `Go` a task, wait for a slot,
  `Return`, and the section is over when every task has. The first failure is the
  group's error and cancels the rest, which then fail with the cancellation. Six
  kinds of request take the different ways through the stages and their early
  returns.
- `Packaging`: the platforms of a build walk and rewrite the same host trees. A
  tree stands for what is in it, its sidecar for what precompression left beside
  it, with the case that a write that failed left a torn one newer than its file.
- `Prune`, `Ignore`: patterns are compiled to comparisons, and a negation or a
  directory changes what they mean. `MatchGlobs` and `Doublestar` are what the glob
  library answers for a pattern (external); the comparisons the code compiles it
  to, and the walk with its shortcuts, are checked against them.
- `Routes`: the mirror made before the build, the removal of prerendered files
  after it, and the merge of a static site's staging directories between them are
  functions of the site; the report is compared with what they did.
- `Prepare`: runs of one project that follow one another, each on what the last
  one left when it returned or was killed.
- `LayerCache`: `Found` is any pair of blob and sidecar a disk may hold; the
  processes then do one system call at a time.
- `Overlay`: a build resolves its predecessor when it starts and is named by the
  tag when it ends, so builds side by side disagree about who follows whom.
- `BaseLock`: a command reads the lock once and rewrites it from that copy.
- `Registry`: the payload, its tags and its attachments, one call at a time, on
  registries with and without the Referrers API; two jobs push one digest.
- `LocalOutputs`: two renames replace a layout, one replaces a tarball.
- `Requests`: `Said` is a set of <<layer, setting, value>>; resolution, defaults and
  validation are the operators that turn it into one request or an error.
- `Catalog`, `Scanner`: a lookup per ecosystem, each of which may fail; versions
  compare as in the code, pre-releases and segments that are no numbers included.
- `SecretGuard`: windows of `Window` letters slide over a line, and the pieces of
  text are put at every offset a window can cut.

### What is done with an image

- `Attestation`: `collectAttestTasks` lists one root per step, a worker takes a
  number from the counter, looks at the abort flag, hashes, stores. The tree may
  change between any two steps. A hash is what it is of.
- `Startup`: the defaults, then the environment, then the flags, value by value;
  two programs with the same shape and different strictness.
- `Trust`: three kinds of inquiry (base, cache, `verify`) pull the tag, the
  signatures and the attestations one after the other while others write them.
- `Deploy`: a command repoints, asks for a rollout and looks for it; each reply
  may be lost after it took effect. `Manifests`: resolve, apply and rollback by two
  operators with their own saved copies of a manifest.
- `Upgrade`: one file operation per step, killed anywhere. `DevLoop`,
  `ClusterDev`: time is counted in edits. The archive of `ClusterDev` is a queue of
  files that may be cut anywhere. `StaticServer`: a request is split where the
  handler calls the file system, because clients share the handles.

## 3. What the runs check

| Run | Properties | Instance |
| --- | --- | --- |
| `sup_dev` | `NoLostWakeup`, `ForwardsToOwnGroup`, `OldGroupDoomed`, `ExitCodeIsTheChilds`, `ShutdownIsFinal`, `WindowIsNotReopened`, `ImplementsLifecycle` | 3 pids, SIGTERM and SIGHUP, 2 queued signals, dev mode |
| `sup_live` | `TerminationHonoured`, `RestartEnds` | 2 pids, 1 queued signal, fairness |
| `sup_sweep` | violated: `SweepsOwnGroup` | 2 pids, SIGTERM |
| `init_all` | `FailsClosed`, `AliveThroughRestart`, `DrainIsPermanent`, `ReadinessConverges` | 2 pids, SIGHUP and cancellation, no ready path, fairness of the readiness loop |
| `pipe_gates` | `SuccessPassedTheGates`, `ScanIsJoined`, `CacheTagsTellTheTruth`, `PromotesOnlyVouched`, `SuccessMovedEveryTag`, `SigningIsHonest` | 3 builders of one source, two with the key, 2 release tags |
| `pipe_ends` | `KeepsContract`, `EveryBuildReturns` | a signing builder and one that neither signs nor verifies, different Bun versions |
| `pipe_secret` | violated: `RefusedBuildMovesNoTag` | 2 builders |
| `pipe_bun` | violated: `HitsAreInterchangeable` | 2 builders, different Bun versions |
| `bun_cache` | `ServedIsVerified`, `TrustIsEarned`, `MemoIsAWrapper` | 3 calls in 2 processes; an unpinned release, a compiled-in one, a stub; copies across file systems |
| `bun_pins` | violated: `PinsAreKept` | 2 calls of one process, two platforms |
| `build_side` | `TypeOK`, `GroupsAreWaitedFor`, `GatesHold`, `LayersAreWhatRuns`, `ShipsItsOwnDependencies`, `LockIsHonest`, `ReportedIsThere`, `RequestIsAsAsked`, `RestatementsAgree` | `MCBuildSide`, 13 parts |
| `operator_side` | `TypeOK`, `DevLoopIsHonest`, `ReportedSyncIsWhole`, `ServerIsHonest`, `AlwaysAWorkingBinary`, `RolloutsAreHonest`, `EvidenceIsGenuine` | `MCOperatorSide`, 9 parts |

`TypeOK` and `IInv` of the modules with proofs are not run: they are proved.

What they show:

- The supervisor never sleeps over a dead child, never forwards to a recycled
  pid, returns the status of its child and of nothing else, and never turns a
  shutdown back into a restart. After a SIGTERM it exits even if the child
  ignores SIGTERM and cannot be killed.
- Nothing is started or called ready before the tree is attested; a dev restart
  is never a liveness failure; a draining container never becomes ready again;
  readiness converges to what the application does.
- No build succeeds past a gate that refused it, and none leaves a scan running.
  Publishing the cache tag before the signature lets no unsigned image be
  promoted by a builder that verifies. A success has moved every tag, also after
  half a promotion; what is called signed is.
- Whatever processes do to the Bun cache and wherever they die, what is resolved
  is what a trusted source vouched for, and the memo answers only what the full
  check would.
- `GroupsAreWaitedFor`: no task works in a directory that is being removed, the
  error of a build is the failure and never the cancellation it caused, and
  nobody waits for a slot for ever. `GatesHold`: what is packaged went through the
  post-build scan; nothing is read back before everything is attached; a
  vulnerability scan that passes has asked about what ships; a tree the guard
  calls clean holds nothing its rules know, whatever shortcut it took.
- `LayersAreWhatRuns`: no platform writes under another's walk, a layer can be
  read until it is pushed, the attestation records are of the files a container
  sees, and a cached layer gives the bytes of its digest or fails.
- `ShipsItsOwnDependencies`: a build ships the dependencies of its own manifest
  whatever the run before it left, is built as the project builds it, and serves
  the assets of the images it replaces unmixed. `LockIsHonest`: a locked base is
  the one used, and a recorded scan is of the digest beside it unless a new digest
  was locked between the resolving of one and the recording of its scan.
  `ReportedIsThere`: tags that were reported pushed were moved, attachments are
  found, a local output is whole. `RequestIsAsAsked`: an explicit flag is
  honoured or refused, an accepted request makes an image that starts, a file
  that validates builds; an excluded route is nowhere and no other is lost;
  what is left out of a layer is counted. `RestatementsAgree`: the comparisons that
  patterns are compiled to, for secrets and for pruning, say what the glob library
  says of the patterns; a route pattern covers what is said of it; and Build is
  never stuck in the terms of its actions.
- `DevLoopIsHonest`: a session ends for a cause and an edit is in the image in the
  end. `ReportedSyncIsWhole`: a sync that is reported left one whole build.
  `ServerIsHonest`: cached handles stay within their bound plus one for each other
  request in flight and none is lost, a resumed download is of one
  representation, the listener closes after readiness; no environment stops a container or changes
  it without a warning. `AlwaysAWorkingBinary`: at every step of an upgrade a
  working, signed binary is at the path or beside it, with two upgrades at once excepted. `RolloutsAreHonest`: a
  rollout that is reported is there, and every image that ran is in the history,
  with the exceptions that `excused` names.
  `EvidenceIsGenuine`: what is accepted was signed for this image and request,
  and a tree that passes its attestation was the one that was built.

### Where the code and its own words differ

Four of them are runs of their own (`findings` of `PROJECT.json`):

- `sup_sweep`: `finish` and `restartChild` send SIGKILL to the group of a leader
  that has been reaped, whose number may have been handed out again;
  `forward`'s comment calls that "the one way this program could hurt an
  unrelated process".
- `pipe_secret`: `RemoteCache.Check` moves the release tags before the secret
  gate is joined when no scan result was recorded; the comment at
  `pipeline.go:1085` gives exactly that as the reason why the order matters.
- `pipe_bun`: the input hash carries the host's Bun version and not that of the
  embedded runtime; `ports/cache.go:12` promises interchangeable builds.
- `bun_pins`: two platforms of one build rewrite the pin store from copies read
  before the other's write, and one pin is lost; the comment at
  `resolver.go:641` says the first verification persists it.

The others were met while modelling. The models contain the behaviour, and the
properties say what holds beside it:

- Build: the staged `node_modules` ships unscanned, against `pipeline.go` near 1318
  and 2781 (`ShippedIsScanned` excepts it). A sidecar can be stale or torn and
  newer than its file, against `precompressutils.go:314`. Symbolic links of a
  packaged tree are left out of the layer without a word, and a directory pattern
  of pruning such as `test/` drops runtime files below it too.
- Overlay: the predecessor annotation is documented for every image
  (`ports/packager.go:297`) and resolved only with `--asset-overlay`; builds side by
  side lose a generation of the chain.
- Routes: the pattern `/` drops whole route groups in the mirror; the mirror
  drops what is below a directory that `*` matches, though `*` is documented as one
  segment (`routefilter.go:110`); `/*/x/**` matches nothing and `/**` also `/`; a
  pattern whose routes an earlier one removed is reported as unmatched; linked
  directories are carried whole; a static site's routes below `/pages` or `/data`
  are moved or deleted by the merge.
- Base images: the lock and the mirror are written before verification;
  concurrent writers of the lock lose updates, and a torn lock is silently made
  anew. Registry: the `.sig` tag is overwritten by another key's signature. Local
  outputs: a layout whose rename fails leaves its backup behind.
- Requests: unknown keys only warn (`build.go:829`) where `config.go:80` says they
  fail; `config validate` accepts compositions, and `base: custom` and file outputs
  of a profile, that cannot be built, and refuses values of `fail_on_cve` that the
  build accepts; `pokkum init` offers "none" and then refuses it;
  `--hardened` overrides an explicit `--base`.
- Scanner: an offline scan of an image is not marked incomplete; the adapter's
  cache is never read; packages of lower layers that were upgraded, and
  half-removed ones, still count; only one copy per name is asked about and
  listed; a production dependency reached only through a nested copy can be
  dropped as a development one.
- Trust: `verify --against` pulls the tag again, so that VERIFIED may be about
  another image; a fetch that fails is taken for an absence.
- Deploy: `confirmRollout` is bounded by the caller's context, and `pokkum deploy`
  passes one without a deadline; `deploymentFor` can match an older row. Manifests:
  a rollback leaves the current-image annotation behind; two projects of one
  workload share it. Upgrade: two at once can leave no whole binary at the path or beside it,
  against `upgrade.go` near 520 (`AlwaysAWorkingBinary` excepts `overlapped`).
- Dev: a late exit of an older container can end the session, and an edit during
  the first build can be missed, against `dev.go:640`. A sync that is cut restarts
  the application on a half-written tree, while the loop says the pod is still
  serving the previous build (`dev_cluster.go:175`).
- Static server: a satisfiable range that ends past the file is refused with 416,
  against `server.go:1007`; relative roots, or a port that is the probe port, stop
  it, against `pokkum-static/config.go:137`. `pokkum-init`: a malformed digest turns
  the attestation off, as documented, and an unparsable dev mode is off silently.

### Bounds, and why they are enough

- `Pids`: a child, its replacement and an orphan are the most that a handler
  tells apart; three pids give all of them at once and make reuse unavoidable.
  Liveness and the container use two, enough for an orphan and for reuse across a
  restart, and keep the state graph small.
- `SigCap` is 64 in the code; one or two make a full channel and a queue of two
  different signals reachable. Signals sent are TERM and HUP: INT is in the same
  class as TERM, the relayed ones are covered by the proofs.
- `init_all` sends SIGHUP and lets the context be cancelled, which enters
  shutdown by the same function as SIGTERM. `DevMode = FALSE`, `ReadyPath =
  TRUE` and more signals are covered by the theorems for every constant.
- Three builders are one that publishes, one that reuses, and one without the
  key that disturbs both; two release tags make a half-done promotion; one source
  is enough because sources share no state but a tag named after each (`Sources`
  has a second one for the mutant that mislabels).
- Three calls in two processes: two share a memo and a lock, one is outside;
  each call resolves any of the keys, so that all may meet on one.
- `build_side`: two platforms and one slot make one wait for the other; two users
  of a cached layer, two commands on a lock and three runs of `Prepare` (`MaxRuns`)
  are a writer, another writer and a reader of what they left; three registry jobs
  are two of one digest and one of another; four builds are a chain of three and
  one that starts from two images; three layouts and archives are two writers of
  one path and one beside. `Requests` are up to three of the settings that have
  to agree with one another, and any two of all. The trees, sites, patterns and
  lockfiles are each made for a branch of the code: a copy nested and hoisted, a
  word at every place a window can cut, a link, a group, a directory named as a
  staging directory.
- `operator_side`: `MaxGenerations` 3 and `MaxEdits` 4 let a generation overlap two
  others with edits before, during and after a rebuild; `MaxBuilds` 2 and
  `MaxRestarts` 1 are a sync after a sync, around a restart by the kubelet;
  `MaxRelease` 3 and `MaxStarts` 2 are an upgrade over another with the release
  changing under both; `MaxVersion`, `MaxHistory`, `MaxApplies` 3 fill the history
  and push its oldest entry out; `MaxWrites`, `MaxJobs` 2 let the registry change
  between and within two inquiries that share a memo; one handle (`maxHandles`)
  and two directories make the bound bite; `MaxChanges` 1 changes the tree under
  the workers once, at any moment.
- Symmetry is used for commands, users, writers, operators and workers, which no
  definition tells apart, in the two runs without liveness properties that have
  them. No counter is unbounded. `CHECK_DEADLOCK` is off because every one of these
  systems ends: a supervisor exits, builds and commands return. `NeverStuck` of
  `BuildStages` says where a build may stop, and `OpenIsEnabled` that it says so in
  the terms of its actions.

### Fairness

`Supervisor!Fairness`: system calls return; the runtime delivers SIGCHLD and
timers fire (weak); Go's `select` picks uniformly among ready cases, so a case
ready again and again is taken (strong). Nothing is assumed of the child. Other
processes stop appearing some day: `reap` loops while `wait4` finds something, so
orphans that die faster than they are reaped would hold it for ever.
`PokkumInit!ProbeFairness`: the readiness loop has a ticker and its dial a
timeout. `Pipeline!Fairness`: scans end and every call returns; the code bounds
both by contexts. `BunRuntime` and the
components of the two `MC*Side` modules state no liveness: what they wait for is a
network or a user, and the code bounds it by contexts the models let expire at any
step.

## 4. What is proved

The theorems hold for every value of the constants: any number of pids, builders,
platforms, processes, tags, files and options. What they assume of the constants
is written down with each module: named ASSUMEs where the module is extended by a
run, and for the components explored side by side the definition `Assumed`, which
`BuildAssumption` and `OperatorAssumption` assume of each of them and TLC evaluates
for the instances it explores. The assumptions say that sentinels differ from data
(`Absent \notin Blobs`), that bounds are naturals, and that what is finite is; of the
inputs they say what the programs that make them guarantee: what is said names a
setting, once in a layer that can set it; a tree is walked directory by directory;
a directory of routes is among the routes with those above it; at most one copy of
a package is hoisted; an advisory's bounds are releases. A theorem about several
components, such as `GatesAlwaysHold`, conjoins their specifications: they share no
state.

**`PokkumInitProofs`**, first of the supervisor. `TypeCorrect` comes first. `IInv` (`Invariance`) is why the safety
properties hold: none of them is inductive by itself. `ForwardsToOwnGroup`, for
one, needs `ChildInTable` (an unreaped child keeps its number and group), which
needs `Phases` (where the loop can be with an unreaped child) and `BeforeStart`;
`OldGroupDoomed` needs `Generations` (what is alive of an earlier group is
doomed, or in the current group and not yet swept); `ExitCodeIsTheChilds` needs
`DeathKnown`. From them: `ModesAreExclusive`, `WakeupsAreNotLost`,
`ForwardingIsSafe`, `OldGroupIsDoomed`, `KillComesAfterAsking`,
`ExitCodePropagates`; the action properties `ShutdownsAreFinal` and
`WindowsStayShut`; and `Implements`: the snapshot and the result of `Run`
implement `Lifecycle`, step by step, with `ViewFollows` as the coupling.

Then of the container: `Supervised`: a behaviour of it is one of
`Supervisor`, so all of the above holds inside it. On top of it
`AttestationFailsClosed`, `RestartsStayAlive`, `DrainsArePermanent`.

**`PipelineProofs`.** `Invariance` proves types and `IInv`: truthful cache tags, and
for each builder what its stage knows of the scans (`GatesJoined`), of the
candidate (`Candidate`), of the tags (`Progress`) and of the signature
(`Signatures`). A step of one builder disturbs another's part only through the
registry, where signatures only grow (`OthersPart`) and a tag is only written by a
builder for its own hash (`CacheTagsStep`). From it `TypeCorrect`, `GatesHold`,
`ScanIsAlwaysJoined`, `CacheIsTruthful`, `HitsAreVouched`, `SuccessIsWhole`,
`SigningIsTrue`; and `Implements`: `Pipeline` implements `Release`. Under the
mapping a builder's preparation is a stutter, each tag it moves is one move of the
contract and its return settles it (`Points`, `Finishes`); that a settled result is
one the contract allows is `SuccessIsWhole` and `SigningIsTrue` at the step before.

**`BunRuntimeProofs`.** `Invariance` proves types and `IInv`. `MemoIsAWrapper` is not
inductive: an entry filled from a file that changed while it was hashed would
break it, and why that cannot happen takes `StatsArePast` (no stat anybody holds
shows a write still to come, so a new write never looks like an old one) and
`ReadsMatchStats` (what a call has read is what the files with its stats hold).
`TrustIsEarned` needs both ends of a write: a torn stub belongs to a copier that
has not finished (`BinIsGenuine`), a digest to a call that has succeeded
(`SideIsEarned`), and no call is both. From it `TypeCorrect`,
`OnlyVerifiedIsServed`, `TrustIsAlwaysEarned`, `TheMemoIsAWrapper`.

**`AttestationProofs`.** For any number of files and workers and any changes. `IInv`
is what a verdict rests on: `Remembered` (the history `was` holds what is there),
`Listed` (a path of a listed root is a task or was no file), `Recorded` (a slot
that is filled holds what its file held) and `Compared`. It gives
`VerdictIsEarnedAlways` and `MatchesAreKeptAlways`; `TypeCorrect` is the type of its
state. That no slot is empty when the
pool ends well needs `SInv`: `Slots`, that every number below the counter is either
filled, or in a worker's hands, or was given up with an error, and `Resting`, that
a worker that is done has left nothing. It gives `SlotsAreFilledAlways`.

**`BuildSideProofs`.** The components of one build. Of each, in the order of the module:

- `LayerCache` (`CacheServesWhatItNames`). Writers of one key produce the same
  bytes, so a torn pair can only be one of this time and one of an earlier:
  `EarlierIsKept` and `CurrentStays` say which halves may lie side by side, `Progress`
  what each process knows of them between its system calls.
- `BaseLock` (`BaseIsLocked`). What a command knows is split at its write
  (`Resolving`, `Recording`). Lost updates are harmless because an entry is
  written whole; a scan is written into a copy read earlier, and stays true to its
  digest until one is locked in between, which is what `relocked` remembers.
- `BuildStages` (`GroupsAreOrdered`, `StagesHoldTheirGates`). `TasksAreOfTheirStage`: a group is
  empty or over outside its stage, so whoever removes a directory has waited.
  `CauseIsKnown`: a task that ended badly left a cause, and one that was merely
  cancelled did not replace it. That Build is never stuck needs that only platforms
  wait for slots: if none holds one, one is free. `NeverStuck` is stated by the
  guards, as ENABLED is beyond the prover; `OpenIsEnabled`, which TLC checks, says
  the two agree.
- `Prepare` (`PreparedIsItsOwn`). `StampIsTrue`: the stamp is removed before the tree
  it vouches for is touched and written after it is whole, so a stamp that is there
  is of a whole tree, over any sequence of kills and changed manifests.
- `Packaging` (`LayersAreAlwaysWhatRuns`). A tree is `Settled` when its rewriting is
  over: no platform gets to walk it before, and nothing unsettles it, so no writer
  can find work under a walk; a sidecar whose writing failed is the one exception.
  `LocksAreHeld` and `OneAtATime` are the two mutual exclusions; `PassedIsBuilt` says
  that what every platform has passed is still on disk.
- `Registry` (`PushesAreAsReported`). `TagsInOrder`: the tags a job has moved are a
  prefix of its list; `TagsAreOfTheirKind`: an attachment tag names an attachment of
  its subject and kind whoever wrote it last.
- `LocalOutputs` (`OutputsAreAsReported`): `StagedIsWhole`, `AsideIsKept`. That the
  index of a set of platforms has a first and a last match is `LeastOf` and
  `GreatestOf`, from well-founded induction on the naturals.
- `Overlay` (`OldPagesAreServed`). The chain of a build is its lineage, image by
  image (`ChainIsLineage`), and what it has merged covers the chain up to the cursor
  (`MergedIsChain`). `Generations` are the images a path of predecessors leads to;
  that each of them is in the chain is shown by the least step of the path that
  would leave it.

**`RequestsProofs`.** `RequestsAreHonoured`: the request is what was asked for, makes an
image that starts, and is what a valid file gives, whatever is said and in however
many layers. `IInv` says where a request is on its way: what is said can be said
(`Spoken`), what is read of the file is the file under its profile (`ReadIs`), the
request is `Wish`, then `Normal(Wish)` (`RequestIs`), what init wrote is an answer's
(`WrittenIs`), and a refusal has its reason (`RefusedFor`). The work is in the
functions between: that `ApplyProfile` lets exactly what counts pass, that the first
place of each `Chain` is the layer of the lowest `Rank`, that `Normal` is idempotent
and overrides nothing, and that a file of init or of one setting is never refused.

**`BuildGatesProofs`.** What decides whether and how a build is made:

- `Scanner`, `Catalog` (`ScansHold`). Each conjunct of `IInv` is what is known in a
  phase: `AllAsked`, that what ships has been asked about unless the scan is marked
  incomplete; `GapsAreKnown`, that a lookup left out is remembered through every
  branch; `OwnFound`, `Remembered`, `Judged`. That what ships is in the list of what
  is asked about is a property of the catalogue: what is reachable from the roots is
  stated as what every closed set holds, so nothing is computed by recursion.
- `SecretGuard`, `Ignore` (`SecretsAreFound`). `MatchedRuleIsActive`: a window that
  slides by less than the longest word misses no word, for every size of window. What
  the default patterns are compiled to (`CompiledPath`, `CompiledPrefix`,
  `CompiledSuffix`) says what the walk passes over when source maps are asked for.
- `Routes` (`ExclusionsAreKept`). A directory is in the mirror, or left out, or below
  one that is linked whole (by the first directory above it that is not made anew),
  and a linked one holds no excluded route unless by a link. `Merging` follows every
  staged file through the three merges of a static site; `Seen` and `Built` tie what
  was built to what was seen.
- `Prune` (`NoFileIsDropped`). `SkippedWhole`: the entries below an excluded directory
  follow it without a gap, so that forgetting it at the next directory loses none.

`GatesAlwaysHold`, `RequestIsAlwaysAsAsked` and `BuildTypesAreKept` put the components of
a build together.

**`OperatorSideProofs`.** What is done with an image:

- `Upgrade` (`AWorkingBinaryIsThere`): `BackupUntilReplaced`, that the backup is whole
  from before the target is touched until the new one is.
- `DevLoop` (`SessionsAreHonest`): generations in order (`GenerationsInOrder`), of
  which the loop hears one; `NotedIsRead`, that a time noted is of sources read.
- `ClusterDev` (`SyncsAreWhole`): `EntriesAreSent`, `WrittenIsThere`: a sync that
  ends well has read the end the sender wrote, and not the end of a cut link.
- `StaticServer`, `Startup` (`ServersAreHonest`). The bound on handles is not
  inductive: `PassedTheBound` counts the requests between the check and the count.
- `Deploy`, `Manifests` (`RolloutsAreAlwaysHonest`). `ManifestsRemember` carries the
  history from the cluster through what an operator has read, rewritten and saved:
  a rewrite that is not excused has seen the image that runs, which it displaces
  into the history; a rollback exchanges one remembered image for another.
- `Trust` with `AttestationProofs` (`EvidenceIsAlwaysGenuine`): `JobIsAsked`,
  `MemoIsEarned`, `FindingsAreEarned`: a finding is what was found for this job's
  question, and a memo answers only the question it was filled with.

`TypesAreKept` puts the types of all of them together.

Only model-checked:

- every liveness property (`TerminationHonoured`, `RestartEnds`, `EveryBuildReturns`,
  `ReadinessConverges`) and ENABLED (`OpenIsEnabled`), which TLAPS cannot do;
- the rest of `RestatementsAgree`: `ShortcutsAgree` and `CompiledIsExact` compare the
  comparisons of the code with `MatchGlobs`, a recursive function over a pattern and
  a path, and `PatternsCover` the ways a route pattern is compared with one way to
  lay it over the segments; the provers cannot do the induction either takes. The
  theorems take `MatchGlobs` and what a route pattern matches as given.

## 5. Not modelled

- SBOM, provenance, comparison and explanation: documents computed from an image;
  no state survives a call, and what they are computed from is `Catalog`.
- Of components that are modelled in part: the bytes of tar headers, image
  configurations and labels; which files compress; preflight, `Compile` and the
  hermetic sandbox around external tools; the security, resource and probe
  defaults written into manifests; the parsing of single values beyond what it
  refuses; cryptography, certificates and log entries. They are functions of their
  input, tested byte for byte, and no step of another actor falls between.
- The registry library's blobs, mounts and credentials, the kernel, kubectl, Bun
  and the platforms' APIs are external: modelled from how the code uses them.

## 6. Where this stands

Done: the abstract specifications `Lifecycle` and `Release`, the modules of
section 2, the runs of section 3 and the proofs of section 4: every invariant and
every action property that a passing run checks is a theorem, but for `RestatementsAgree`. What is
left is what the list of section 4 says is only model-checked.
