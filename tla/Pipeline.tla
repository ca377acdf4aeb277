------------------------------ MODULE Pipeline ------------------------------
(***************************************************************************)
(* core.Build, run by several builders against one registry: the gates and *)
(* the goroutines they run on, the remote input cache, and the order in    *)
(* which an image is published, tagged and signed.                         *)
(*                                                                         *)
(* A build runs on one goroutine, whose place is stage:                    *)
(*   "gates"    both scans dispatched, waiting for the CVE gate            *)
(*   "joining"  a scan result is to be recorded: the secret gate first     *)
(*   "record"   rewriting pokkum.lock                                      *)
(*   "lookup"   asking the registry for the cache tag of the input hash    *)
(*   "verify"   fetching the candidate's signature                         *)
(*   "promote"  pointing the release tags at the candidate                 *)
(*   "join"     waiting for the secret gate                                *)
(*   "build"    stages 5 to 8, which touch no registry                     *)
(*   "push"     pointing the tags at the image                             *)
(*   "sbom", "sign", "readback"  what is attached after the push           *)
(*   "leaving"  returning an error; the deferred join                      *)
(*   "ok", "failed"  returned                                              *)
(* The two scans run beside it until they are joined.                      *)
(***************************************************************************)
EXTENDS FiniteSets

CONSTANTS
  Builders,      \* the builds, each of one project
  ReleaseTags,   \* req.Tags, the same for every builder
  Sources,       \* what the input hash tells apart
  Buns,          \* an input it does not: req.BunRuntime.Version
  None,
  source, bun,   \* the inputs of each builder
  Signing,       \* req.Sign
  Keyed,         \* len(req.Signing.KeyPEM) > 0
  Verifying,     \* req.CacheVerify asks for a signature
  Caching        \* RemoteCache is wired, the output is a push, and not NoCache

ASSUME NoneAssumption == None \notin Sources \X Buns
ASSUME InputAssumption == source \in [Builders -> Sources] /\ bun \in [Builders -> Buns]
ASSUME TagAssumption == ReleaseTags \cap Sources = {}
ASSUME OptionAssumption ==
  /\ Signing \subseteq Builders /\ Keyed \subseteq Builders
  /\ Verifying \subseteq Builders /\ Caching \subseteq Builders

\* Builds are reproducible: the digest is a function of the inputs.
Digests == Sources \X Buns
DigestOf(b) == <<source[b], bun[b]>>

\* ComputeInputHash, and the tag "cache-"+hash: a tag named by the hash.
InputHash(b) == source[b]
HashOf(d) == d[1]

allowCache(b) == b \in Caching /\ (b \in Signing => b \in Verifying)

VARIABLES
  stage,
  secret,    \* the secret scan: "running", "clean", "dirty"
  cve,       \* the CVE scan: "running", "passed", "failed"
  recorded,  \* recordedScan # nil
  hashed,    \* compositeInputHash # ""
  cand,      \* the digest the build is about to release
  left,      \* the tags still to be pointed at it
  hit,       \* a confirmed cache hit
  signed,    \* what BuildResult.Signing will say
  tag,       \* registry: where the release and cache tags point
  sigs,      \* registry: the digests with a signature
  moved      \* history: the release tags pointed at cand so far

goroutines == <<secret, cve, recorded>>
registry   == <<tag, sigs>>

vars == <<stage, goroutines, hashed, cand, left, hit, signed, registry, moved>>

Returned == {"ok", "failed"}

At(b, s) == stage[b] = s
Goto(b, s) == stage' = [stage EXCEPT ![b] = s]

-----------------------------------------------------------------------------
(* The gates *)

\* runSecretScan on the source tree, on its own goroutine.
ScanSecrets(b) ==
  /\ secret[b] = "running"
  /\ \E r \in {"clean", "dirty"} : secret' = [secret EXCEPT ![b] = r]
  /\ UNCHANGED <<stage, cve, recorded, hashed, cand, left, hit, signed, registry, moved>>

\* scanBaseImage: only an online scan leaves a result to be recorded.
ScanBase(b) ==
  /\ cve[b] = "running"
  /\ \E r \in {"passed", "failed"} : cve' = [cve EXCEPT ![b] = r]
  /\ \E r \in BOOLEAN : recorded' = [recorded EXCEPT ![b] = r]
  /\ UNCHANGED <<stage, secret, hashed, cand, left, hit, signed, registry, moved>>

\* Mutant: the scan result is recorded while the secret scan reads the tree.
JoinCVE_recordsAtOnce(b) ==
  /\ At(b, "gates") /\ cve[b] # "running"
  /\ Goto(b, IF cve[b] = "failed" THEN "leaving"
             ELSE IF recorded[b] THEN "record" ELSE "lookup")
  /\ UNCHANGED <<goroutines, hashed, cand, left, hit, signed, registry, moved>>

\* cveGroup.Wait()
JoinCVE(b) ==
  /\ At(b, "gates") /\ cve[b] # "running"
  /\ Goto(b, IF cve[b] = "failed" THEN "leaving"
             ELSE IF recorded[b] THEN "joining" ELSE "lookup")
  /\ UNCHANGED <<goroutines, hashed, cand, left, hit, signed, registry, moved>>

\* joinSecretScan, before the scan result is written into the scanned tree.
JoinToRecord(b) ==
  /\ At(b, "joining") /\ secret[b] # "running"
  /\ Goto(b, IF secret[b] = "dirty" THEN "leaving" ELSE "record")
  /\ UNCHANGED <<goroutines, hashed, cand, left, hit, signed, registry, moved>>

\* RecordScanResult returns; its error is ignored.
RecordScan(b) ==
  /\ At(b, "record")
  /\ Goto(b, "lookup")
  /\ UNCHANGED <<goroutines, hashed, cand, left, hit, signed, registry, moved>>

-----------------------------------------------------------------------------
(* The remote input cache: RemoteCache.Check *)

\* A cache that may not be used, or inputs that cannot be hashed.
SkipCache(b) ==
  /\ At(b, "lookup")
  /\ Goto(b, "join")
  /\ UNCHANGED <<goroutines, hashed, cand, left, hit, signed, registry, moved>>

\* GET of the cache tag: a candidate, or a 404 or an error, both misses.
Lookup(b) ==
  /\ At(b, "lookup") /\ allowCache(b)
  /\ hashed' = [hashed EXCEPT ![b] = TRUE]
  /\ \/ /\ tag[InputHash(b)] # None
        /\ cand' = [cand EXCEPT ![b] = tag[InputHash(b)]]
        /\ Goto(b, "verify")
     \/ /\ Goto(b, "join") /\ UNCHANGED cand
  /\ UNCHANGED <<goroutines, left, hit, signed, registry, moved>>

Miss(b) ==
  /\ Goto(b, "join")
  /\ cand' = [cand EXCEPT ![b] = None]
  /\ left' = [left EXCEPT ![b] = {}]
  /\ moved' = [moved EXCEPT ![b] = {}]

\* Mutant: a candidate without a signature is let through.
verifyCandidate_lenient(b) ==
  /\ At(b, "verify")
  /\ \/ /\ Goto(b, "promote")
        /\ left' = [left EXCEPT ![b] = ReleaseTags]
        /\ signed' = [signed EXCEPT ![b] = b \in Verifying]
        /\ UNCHANGED <<cand, moved>>
     \/ /\ b \in Verifying
        /\ Miss(b) /\ UNCHANGED signed
  /\ UNCHANGED <<goroutines, hashed, hit, registry>>

\* Mutant: a candidate without a signature is asked for again.
verifyCandidate_retries(b) ==
  /\ At(b, "verify")
  /\ \/ /\ b \in Verifying => cand[b] \in sigs
        /\ Goto(b, "promote")
        /\ left' = [left EXCEPT ![b] = ReleaseTags]
        /\ signed' = [signed EXCEPT ![b] = b \in Verifying]
        /\ UNCHANGED cand
     \/ /\ b \in Verifying
        /\ Goto(b, "lookup")
        /\ cand' = [cand EXCEPT ![b] = None]
        /\ UNCHANGED <<left, signed>>
  /\ UNCHANGED <<goroutines, hashed, hit, registry, moved>>

\* A builder that verifies takes a signed candidate, or none if the signature
\* is absent or cannot be fetched; one that does not takes any.
verifyCandidate(b) ==
  /\ At(b, "verify")
  /\ \/ /\ b \in Verifying => cand[b] \in sigs
        /\ Goto(b, "promote")
        /\ left' = [left EXCEPT ![b] = ReleaseTags]
        /\ signed' = [signed EXCEPT ![b] = b \in Verifying]
        /\ UNCHANGED <<cand, moved>>
     \/ /\ b \in Verifying
        /\ Miss(b) /\ UNCHANGED signed
  /\ UNCHANGED <<goroutines, hashed, hit, registry>>

\* One PUT of a tag that succeeds ...
Put(b, t) ==
  /\ tag' = [tag EXCEPT ![t] = cand[b]]
  /\ left' = [left EXCEPT ![b] = @ \ {t}]
  /\ moved' = [moved EXCEPT ![b] = @ \cup ({t} \cap ReleaseTags)]

\* ... and one that fails, which the registry may have carried out.
PutFails(b, t) == tag' \in {tag, [tag EXCEPT ![t] = cand[b]]}

\* Mutant: a tag that could not be moved is skipped.
Promote_skips(b) ==
  /\ At(b, "promote")
  /\ \E t \in left[b] :
       \/ /\ Put(b, t) /\ UNCHANGED <<stage, cand, signed>>
       \/ /\ left' = [left EXCEPT ![b] = @ \ {t}]
          /\ UNCHANGED <<stage, cand, signed, tag, moved>>
  /\ UNCHANGED <<goroutines, hashed, hit, sigs>>

\* reconcileTags: a tag that cannot be moved turns the hit into a miss.
Promote(b) ==
  /\ At(b, "promote")
  /\ \E t \in left[b] :
       \/ /\ Put(b, t) /\ UNCHANGED <<stage, cand, signed>>
       \/ /\ PutFails(b, t) /\ Miss(b)
          /\ signed' = [signed EXCEPT ![b] = FALSE]
  /\ UNCHANGED <<goroutines, hashed, hit, sigs>>

\* Every tag points at the candidate: Check returns a confirmed hit.
Hit(b) ==
  /\ At(b, "promote") /\ left[b] = {}
  /\ hit' = [hit EXCEPT ![b] = TRUE]
  /\ Goto(b, "join")
  /\ UNCHANGED <<goroutines, hashed, cand, left, signed, registry, moved>>

-----------------------------------------------------------------------------
(* The join, and the build *)

\* Mutant: a hit is honoured without waiting for the secret gate.
JoinSecretScan_afterHit(b) ==
  /\ At(b, "join") /\ (hit[b] \/ secret[b] # "running")
  /\ Goto(b, IF hit[b] THEN "ok" ELSE IF secret[b] = "dirty" THEN "leaving" ELSE "build")
  /\ UNCHANGED <<goroutines, hashed, cand, left, hit, signed, registry, moved>>

\* The unconditional join: a hit is returned, or the build goes on.
JoinSecretScan(b) ==
  /\ At(b, "join") /\ secret[b] # "running"
  /\ Goto(b, IF secret[b] = "dirty" THEN "leaving"
             ELSE IF hit[b] THEN "ok" ELSE "build")
  /\ UNCHANGED <<goroutines, hashed, cand, left, hit, signed, registry, moved>>

Fail(b) ==
  /\ Goto(b, "leaving")
  /\ UNCHANGED <<goroutines, hashed, cand, left, hit, signed, registry, moved>>

\* Mutant: the cache tag is appended whatever it was computed from.
Build_mislabels(b) ==
  /\ At(b, "build")
  /\ \/ /\ Goto(b, "push")
        /\ cand' = [cand EXCEPT ![b] = DigestOf(b)]
        /\ \E h \in Sources :
             left' = [left EXCEPT ![b] = ReleaseTags \cup (IF hashed[b] THEN {h} ELSE {})]
        /\ UNCHANGED <<goroutines, hashed, hit, signed, registry, moved>>
     \/ Fail(b)

\* Stages 5 to 8 and the tag "cache-"+hash appended to req.Tags.
Build(b) ==
  /\ At(b, "build")
  /\ \/ /\ Goto(b, "push")
        /\ cand' = [cand EXCEPT ![b] = DigestOf(b)]
        /\ left' = [left EXCEPT ![b] =
                      ReleaseTags \cup (IF hashed[b] THEN {InputHash(b)} ELSE {})]
        /\ UNCHANGED <<goroutines, hashed, hit, signed, registry, moved>>
     \/ Fail(b)

\* Registry.Push: the tags in their order, the cache tag last.  The HEADs that
\* spare a PUT of what is already there change no tag.
Push(b) ==
  /\ At(b, "push")
  /\ \E t \in left[b] :
       /\ t \in Sources => left[b] = {t}
       /\ \/ /\ Put(b, t) /\ UNCHANGED stage
          \/ /\ PutFails(b, t) /\ Goto(b, "leaving")
             /\ UNCHANGED <<left, moved>>
  /\ UNCHANGED <<goroutines, hashed, cand, hit, signed, sigs>>

Pushed(b) ==
  /\ At(b, "push") /\ left[b] = {}
  /\ Goto(b, "sbom")
  /\ UNCHANGED <<goroutines, hashed, cand, left, hit, signed, registry, moved>>

\* AttachSBOM: a failure fails the build, though the image was pushed.
AttachSBOM(b) ==
  /\ At(b, "sbom")
  /\ \/ /\ Goto(b, "sign")
        /\ UNCHANGED <<goroutines, hashed, cand, left, hit, signed, registry, moved>>
     \/ Fail(b)

\* Signing switched off, or no key: the build succeeds unsigned.
LeaveUnsigned(b) ==
  /\ At(b, "sign") /\ b \notin Signing \cap Keyed
  /\ Goto(b, "ok")
  /\ UNCHANGED <<goroutines, hashed, cand, left, hit, signed, registry, moved>>

\* Mutant: a signature that could not be attached is logged.
Sign_logs(b) ==
  /\ At(b, "sign") /\ b \in Signing \cap Keyed
  /\ \/ sigs' = sigs \cup {cand[b]}
     \/ UNCHANGED sigs
  /\ Goto(b, "ok")
  /\ signed' = [signed EXCEPT ![b] = TRUE]
  /\ UNCHANGED <<goroutines, hashed, cand, left, hit, tag, moved>>

\* The attach of signAndSelfVerify, which may fail having been carried out ...
Sign(b) ==
  /\ At(b, "sign") /\ b \in Signing \cap Keyed
  /\ \/ sigs' = sigs \cup {cand[b]} /\ stage' \in {[stage EXCEPT ![b] = "readback"],
                                                   [stage EXCEPT ![b] = "leaving"]}
     \/ UNCHANGED sigs /\ Goto(b, "leaving")
  /\ UNCHANGED <<goroutines, hashed, cand, left, hit, signed, tag, moved>>

\* ... and its second phase: what the registry serves back must verify.
SelfVerify(b) ==
  /\ At(b, "readback")
  /\ \/ /\ cand[b] \in sigs
        /\ Goto(b, "ok")
        /\ signed' = [signed EXCEPT ![b] = TRUE]
        /\ UNCHANGED <<goroutines, hashed, cand, left, hit, registry, moved>>
     \/ Fail(b)

\* The deferred joinSecretScan drains the goroutine on every error return.
Leave(b) ==
  /\ At(b, "leaving") /\ secret[b] # "running"
  /\ Goto(b, "failed")
  /\ UNCHANGED <<goroutines, hashed, cand, left, hit, signed, registry, moved>>

-----------------------------------------------------------------------------
Init ==
  /\ stage = [b \in Builders |-> "gates"]
  /\ secret = [b \in Builders |-> "running"] /\ cve = [b \in Builders |-> "running"]
  /\ recorded = [b \in Builders |-> FALSE] /\ hashed = [b \in Builders |-> FALSE]
  /\ cand = [b \in Builders |-> None] /\ left = [b \in Builders |-> {}]
  /\ hit = [b \in Builders |-> FALSE] /\ signed = [b \in Builders |-> FALSE]
  /\ tag = [t \in ReleaseTags \cup Sources |-> None]
  /\ sigs = {}
  /\ moved = [b \in Builders |-> {}]

Scan(b) == ScanSecrets(b) \/ ScanBase(b)

Gates(b) == JoinCVE(b) \/ JoinToRecord(b) \/ RecordScan(b)

Cache(b) == SkipCache(b) \/ Lookup(b) \/ verifyCandidate(b) \/ Promote(b) \/ Hit(b)

Publish(b) ==
  \/ JoinSecretScan(b) \/ Build(b) \/ Push(b) \/ Pushed(b) \/ AttachSBOM(b)
  \/ LeaveUnsigned(b) \/ Sign(b) \/ SelfVerify(b) \/ Leave(b)

Next == \E b \in Builders : Scan(b) \/ Gates(b) \/ Cache(b) \/ Publish(b)

Spec == Init /\ [][Next]_vars

\* The scans end and every call returns.
Fairness ==
  \A b \in Builders :
    /\ WF_vars(ScanSecrets(b)) /\ WF_vars(ScanBase(b))
    /\ WF_vars(Gates(b) \/ Cache(b) \/ Publish(b))

FairSpec == Spec /\ Fairness

-----------------------------------------------------------------------------
(* What the builds guarantee *)

Stages ==
  {"gates", "joining", "record", "lookup", "verify", "promote", "join", "build",
   "push", "sbom", "sign", "readback", "leaving"} \cup Returned

Types ==
  /\ stage \in [Builders -> Stages]
  /\ secret \in [Builders -> {"running", "clean", "dirty"}]
  /\ cve \in [Builders -> {"running", "passed", "failed"}]
  /\ recorded \in [Builders -> BOOLEAN] /\ hashed \in [Builders -> BOOLEAN]
  /\ hit \in [Builders -> BOOLEAN] /\ signed \in [Builders -> BOOLEAN]
  /\ cand \in [Builders -> Digests \cup {None}]
  /\ left \in [Builders -> SUBSET (ReleaseTags \cup Sources)]
  /\ tag \in [ReleaseTags \cup Sources -> Digests \cup {None}]
  /\ sigs \in SUBSET Digests
  /\ moved \in [Builders -> SUBSET ReleaseTags]

Releasing(b) ==
  stage[b] \in {"verify", "promote", "push", "sbom", "sign", "readback", "ok"}

\* Every variable has its type, and what is being released is a digest.
TypeOK == Types /\ \A b \in Builders : Releasing(b) => cand[b] \in Digests

\* No build is successful that a gate refused, on a hit as on a miss: both
\* scans were joined, and passed.
SuccessPassedTheGates ==
  \A b \in Builders : At(b, "ok") => secret[b] = "clean" /\ cve[b] = "passed"

\* A secret scan never outlives the Build that started it, and pokkum.lock is
\* not rewritten under the scan that reads it.
ScanIsJoined ==
  \A b \in Builders :
    stage[b] \in Returned \/ At(b, "record") => secret[b] # "running"

\* A cache tag only ever points at an image built from the inputs it is named
\* after, whoever pushed it and whatever failed on the way.
CacheTagsTellTheTruth ==
  \A h \in Sources : tag[h] # None => HashOf(tag[h]) = h

\* What a hit promotes was built from this build's hashed inputs and, for a
\* builder that verifies, carries a signature: publishing the cache tag before
\* the signature exposes no unsigned image to promotion.
PromotesOnlyVouched ==
  \A b \in Builders :
    At(b, "promote") => /\ HashOf(cand[b]) = InputHash(b)
                        /\ b \in Verifying => cand[b] \in sigs

\* A successful build has pointed every one of its release tags at the digest
\* it reports, on a hit, on a miss, and on a miss after half a promotion.
SuccessMovedEveryTag ==
  \A b \in Builders : At(b, "ok") => moved[b] = ReleaseTags

\* BuildResult.Signing is honest: what it calls signed is signed, and a build
\* that signs and has the key never succeeds unsigned.
SigningIsHonest ==
  \A b \in Builders :
    At(b, "ok") => /\ signed[b] => cand[b] \in sigs
                   /\ b \in Signing \cap Keyed => signed[b]

\* Every build returns, whatever fails.
EveryBuildReturns == \A b \in Builders : <>(stage[b] \in Returned)

\* The builds keep the contract of Release.
Outcome(b) == IF stage[b] \in Returned THEN stage[b] ELSE "running"
Contract == INSTANCE Release WITH
  Own <- DigestOf,
  Trusting <- Builders \ Verifying,
  released <- [t \in ReleaseTags |-> tag[t]],
  claim <- [b \in Builders |-> IF At(b, "verify") THEN None ELSE cand[b]],
  outcome <- [b \in Builders |-> Outcome(b)]
KeepsContract == Contract!Spec

-----------------------------------------------------------------------------
(* The inductive invariant behind the safety properties *)

Passed == {"joining", "record", "lookup", "verify", "promote", "join", "build",
           "push", "sbom", "sign", "readback", "ok"}
Cleared == {"record", "build", "push", "sbom", "sign", "readback", "ok"}

\* What each stage knows of the two scans.
GatesJoined(b) ==
  /\ stage[b] \in Passed => cve[b] = "passed"
  /\ stage[b] \in Cleared => secret[b] = "clean"
  /\ At(b, "failed") => secret[b] # "running"

\* A build that has settled on the candidate of a cache tag.
Reusing(b) == At(b, "promote") \/ (At(b, "join") /\ hit[b])

\* A build that releases what it built.
OwnRelease(b) == stage[b] \in {"push", "sbom", "sign", "readback"}

Idle(b) ==
  stage[b] \in {"gates", "joining", "record", "lookup", "verify", "build"}
    \/ (At(b, "join") /\ ~hit[b])

Candidate(b) ==
  /\ At(b, "verify") \/ Reusing(b) =>
       allowCache(b) /\ cand[b] \in Digests /\ HashOf(cand[b]) = InputHash(b)
  /\ Reusing(b) /\ b \in Verifying => cand[b] \in sigs
  /\ OwnRelease(b) => cand[b] = DigestOf(b)
  /\ At(b, "ok") => cand[b] \in Digests
  /\ hit[b] => stage[b] \in {"join", "leaving"} \cup Returned

\* The tags still to move are those not moved yet, and the build's cache tag.
Progress(b) ==
  /\ Idle(b) => moved[b] = {}
  /\ At(b, "promote") => left[b] = ReleaseTags \ moved[b]
  /\ At(b, "push") => left[b] \ {InputHash(b)} = ReleaseTags \ moved[b]
  /\ At(b, "join") /\ hit[b] => moved[b] = ReleaseTags
  /\ stage[b] \in {"sbom", "sign", "readback", "ok"} => moved[b] = ReleaseTags

Signatures(b) ==
  /\ Idle(b) \/ OwnRelease(b) => ~signed[b]
  /\ Reusing(b) => signed[b] = (b \in Verifying)
  /\ At(b, "readback") => b \in Signing \cap Keyed
  /\ At(b, "ok") =>
       /\ signed[b] => cand[b] \in sigs
       /\ b \in Signing \cap Keyed => signed[b]

\* The conjunction is inductive, and implies the safety properties above.
IInv ==
  /\ CacheTagsTellTheTruth
  /\ \A b \in Builders : GatesJoined(b) /\ Candidate(b) /\ Progress(b) /\ Signatures(b)

-----------------------------------------------------------------------------
(* What comments say and the code does not do *)

\* pipeline.go calls "a cache hit returned before the secret gate error was
\* joined" unreachable, because success "would promote this build's release
\* tags": Check has promoted them before it returns the hit.
RefusedBuildMovesNoTag ==
  \A b \in Builders : secret[b] = "dirty" => moved[b] = {}

\* ports/cache.go: "two builds with the same hash are guaranteed
\* interchangeable".  The hash leaves out req.BunRuntime.Version.
HitsAreInterchangeable ==
  \A b \in Builders : At(b, "ok") => cand[b] = DigestOf(b)
=============================================================================
