--------------------------- MODULE PipelineProofs ---------------------------
(***************************************************************************)
(* The gates, the cache and the tags of core.Build, for every number of    *)
(* builders, every set of tags and every choice of their options.          *)
(***************************************************************************)
EXTENDS Pipeline, TLAPS

-----------------------------------------------------------------------------
(* Type correctness *)

USE DEF At, Goto, goroutines, registry, Returned

LEMMA DigestTypes ==
  ASSUME NEW b \in Builders
  PROVE  DigestOf(b) \in Digests /\ HashOf(DigestOf(b)) = InputHash(b) /\ InputHash(b) \in Sources
  BY InputAssumption DEF DigestOf, Digests, HashOf, InputHash

LEMMA StepTyped ==
  ASSUME Types, IInv, NEW b \in Builders, Scan(b) \/ Gates(b) \/ Cache(b) \/ Publish(b)
  PROVE  Types'
  <1> USE DigestTypes DEF Types, Stages
  <1>1. CASE Scan(b)
    BY <1>1 DEF Scan, ScanSecrets, ScanBase
  <1>2. CASE Gates(b)
    BY <1>2 DEF Gates, JoinCVE, JoinToRecord, RecordScan
  <1>3. CASE SkipCache(b) \/ Hit(b)
    BY <1>3 DEF SkipCache, Hit
  <1>4. CASE Lookup(b)
    BY <1>4 DEF Lookup
  <1>5. CASE verifyCandidate(b)
    <2>1. [signed EXCEPT ![b] = b \in Verifying] \in [Builders -> BOOLEAN]
      OBVIOUS
    <2>2. ReleaseTags \in SUBSET (ReleaseTags \cup Sources)
      OBVIOUS
    <2>3. UNCHANGED <<goroutines, hashed, hit, registry>>
      BY <1>5 DEF verifyCandidate
    <2>4. stage' \in [Builders -> Stages]
      BY <1>5 DEF verifyCandidate, Miss, Goto
    <2>5. moved' \in [Builders -> SUBSET ReleaseTags]
      <3>1. moved' \in {moved, [moved EXCEPT ![b] = {}]}
        BY <1>5 DEF verifyCandidate, Miss
      <3>2. QED
        BY <3>1
    <2>6. cand' \in [Builders -> Digests \cup {None}]
      <3>1. cand' \in {cand, [cand EXCEPT ![b] = None]}
        BY <1>5 DEF verifyCandidate, Miss
      <3>2. QED
        BY <3>1
    <2>7. left' \in [Builders -> SUBSET (ReleaseTags \cup Sources)]
      <3>1. left' \in {[left EXCEPT ![b] = ReleaseTags], [left EXCEPT ![b] = {}]}
        BY <1>5 DEF verifyCandidate, Miss
      <3>2. QED
        BY <2>2, <3>1
    <2>8. signed' \in [Builders -> BOOLEAN]
      <3>1. signed' \in {signed, [signed EXCEPT ![b] = b \in Verifying]}
        BY <1>5 DEF verifyCandidate
      <3>2. QED
        BY <2>1, <3>1
    <2>9. QED
      BY <2>3, <2>4, <2>5, <2>6, <2>7, <2>8 DEF goroutines, registry
  <1>6. CASE Promote(b)
    <2>1. cand[b] \in Digests
      BY <1>6 DEF Promote, IInv, Candidate, Reusing
    <2>2. PICK t \in left[b] :
            \/ Put(b, t) /\ UNCHANGED <<stage, cand, signed>>
            \/ PutFails(b, t) /\ Miss(b) /\ signed' = [signed EXCEPT ![b] = FALSE]
      BY <1>6 DEF Promote
    <2>3. t \in ReleaseTags \cup Sources
      OBVIOUS
    <2>4. UNCHANGED <<goroutines, hashed, hit, sigs>>
      BY <1>6 DEF Promote
    <2>5. CASE Put(b, t) /\ UNCHANGED <<stage, cand, signed>>
      BY <2>1, <2>3, <2>4, <2>5 DEF Put
    <2>6. CASE PutFails(b, t) /\ Miss(b) /\ signed' = [signed EXCEPT ![b] = FALSE]
      BY <2>1, <2>3, <2>4, <2>6 DEF PutFails, Miss
    <2>7. QED
      BY <2>2, <2>5, <2>6
  <1>7. CASE JoinSecretScan(b)
    BY <1>7 DEF JoinSecretScan
  <1>8. CASE Build(b)
    BY <1>8 DEF Build, Fail
  <1>9. CASE Push(b)
    <2>1. cand[b] \in Digests
      BY <1>9 DEF Push, IInv, Candidate, OwnRelease
    <2>2. PICK t \in left[b] :
            \/ Put(b, t) /\ UNCHANGED stage
            \/ PutFails(b, t) /\ Goto(b, "leaving") /\ UNCHANGED <<left, moved>>
      BY <1>9 DEF Push
    <2>3. t \in ReleaseTags \cup Sources
      OBVIOUS
    <2>4. UNCHANGED <<goroutines, hashed, cand, hit, signed, sigs>>
      BY <1>9 DEF Push
    <2>5. QED
      BY <2>1, <2>2, <2>3, <2>4 DEF Put, PutFails
  <1>10. CASE Sign(b)
    <2>1. cand[b] \in Digests
      BY <1>10 DEF Sign, IInv, Candidate, OwnRelease
    <2>2. QED
      BY <1>10, <2>1 DEF Sign
  <1>11. CASE Pushed(b) \/ AttachSBOM(b) \/ LeaveUnsigned(b) \/ SelfVerify(b) \/ Leave(b)
    BY <1>11 DEF Pushed, AttachSBOM, LeaveUnsigned, SelfVerify, Leave, Fail
  <1>12. QED
    BY <1>1, <1>2, <1>3, <1>4, <1>5, <1>6, <1>7, <1>8, <1>9, <1>10, <1>11 DEF Cache, Publish

LEMMA InitTyped == Init => Types
  BY NoneAssumption DEF Init, Types, Stages

-----------------------------------------------------------------------------
(* The inductive invariant *)

LEMMA InitInvariant == Init => IInv
  BY NoneAssumption, TagAssumption
  DEF Init, IInv, CacheTagsTellTheTruth, GatesJoined, Candidate, Progress, Signatures,
      Idle, Reusing, OwnRelease, Passed, Cleared

USE DEF Idle, Reusing, OwnRelease, Passed, Cleared

\* What one builder does, its own part of the invariant survives ...
LEMMA OwnPart ==
  ASSUME Types, IInv, NEW b \in Builders, Scan(b) \/ Gates(b) \/ Cache(b) \/ Publish(b)
  PROVE  (GatesJoined(b) /\ Candidate(b) /\ Progress(b) /\ Signatures(b))'
  <1> USE DigestTypes DEF Types, IInv, GatesJoined, Candidate, Progress, Signatures
  <1>1. CASE Scan(b)
    BY <1>1 DEF Scan, ScanSecrets, ScanBase
  <1>2. CASE Gates(b)
    BY <1>2 DEF Gates, JoinCVE, JoinToRecord, RecordScan
  <1>3. CASE SkipCache(b) \/ Hit(b)
    <2>1. CASE SkipCache(b)
      BY <2>1 DEF SkipCache
    <2>2. CASE Hit(b)
      <3>1. ReleaseTags \ moved[b] = {} /\ moved[b] \subseteq ReleaseTags
        BY <2>2 DEF Hit
      <3>2. moved[b] = ReleaseTags
        BY <3>1
      <3>3. QED
        BY <2>2, <3>2 DEF Hit
    <2>3. QED
      BY <1>3, <2>1, <2>2
  <1>4. CASE Lookup(b)
    BY <1>4 DEF Lookup, CacheTagsTellTheTruth
  <1>5. CASE verifyCandidate(b)
    BY <1>5 DEF verifyCandidate, Miss
  <1>6. CASE Promote(b)
    BY <1>6, TagAssumption DEF Promote, Miss, Put, PutFails
  <1>7. CASE JoinSecretScan(b)
    BY <1>7 DEF JoinSecretScan, allowCache
  <1>8. CASE Build(b)
    BY <1>8, TagAssumption DEF Build, Fail
  <1>9. CASE Push(b)
    BY <1>9, TagAssumption DEF Push, Put, PutFails
  <1>10. CASE Sign(b)
    BY <1>10 DEF Sign
  <1>11. CASE Pushed(b) \/ AttachSBOM(b) \/ LeaveUnsigned(b) \/ SelfVerify(b) \/ Leave(b)
    <2>1. CASE Pushed(b)
      <3>1. ReleaseTags \ moved[b] = {} /\ moved[b] \subseteq ReleaseTags
        BY <2>1 DEF Pushed
      <3>2. moved[b] = ReleaseTags
        BY <3>1
      <3>3. QED
        BY <2>1, <3>2 DEF Pushed
    <2>2. CASE AttachSBOM(b)
      BY <2>2 DEF AttachSBOM, Fail
    <2>3. CASE LeaveUnsigned(b)
      BY <2>3 DEF LeaveUnsigned
    <2>4. CASE SelfVerify(b)
      BY <2>4 DEF SelfVerify, Fail
    <2>5. CASE Leave(b)
      BY <2>5 DEF Leave
    <2>6. QED
      BY <1>11, <2>1, <2>2, <2>3, <2>4, <2>5
  <1>12. QED
    BY <1>1, <1>2, <1>3, <1>4, <1>5, <1>6, <1>7, <1>8, <1>9, <1>10, <1>11 DEF Cache, Publish

\* ... so does that of every other builder, whose variables it leaves alone:
\* all they share is the registry, and no signature is ever taken back.
LEMMA OthersUntouched ==
  ASSUME Types, NEW b \in Builders, Scan(b) \/ Gates(b) \/ Cache(b) \/ Publish(b),
         NEW x \in Builders, x # b
  PROVE  /\ stage'[x] = stage[x] /\ secret'[x] = secret[x] /\ cve'[x] = cve[x]
         /\ cand'[x] = cand[x] /\ left'[x] = left[x] /\ hit'[x] = hit[x]
         /\ signed'[x] = signed[x] /\ moved'[x] = moved[x]
         /\ sigs \subseteq sigs'
  <1> USE DEF Types
  <1>1. CASE Scan(b)
    BY <1>1 DEF Scan, ScanSecrets, ScanBase
  <1>2. CASE Gates(b)
    BY <1>2 DEF Gates, JoinCVE, JoinToRecord, RecordScan
  <1>3. CASE SkipCache(b) \/ Lookup(b) \/ Hit(b)
    BY <1>3 DEF SkipCache, Lookup, Hit
  <1>4. CASE verifyCandidate(b)
    BY <1>4 DEF verifyCandidate, Miss
  <1>5. CASE Promote(b)
    BY <1>5 DEF Promote, Miss, Put
  <1>6. CASE JoinSecretScan(b) \/ Build(b)
    BY <1>6 DEF JoinSecretScan, Build, Fail
  <1>7. CASE Push(b)
    BY <1>7 DEF Push, Put
  <1>8. CASE Sign(b)
    BY <1>8 DEF Sign
  <1>9. CASE Pushed(b) \/ AttachSBOM(b) \/ LeaveUnsigned(b) \/ SelfVerify(b) \/ Leave(b)
    BY <1>9 DEF Pushed, AttachSBOM, LeaveUnsigned, SelfVerify, Leave, Fail
  <1>10. QED
    BY <1>1, <1>2, <1>3, <1>4, <1>5, <1>6, <1>7, <1>8, <1>9 DEF Cache, Publish

LEMMA OthersPart ==
  ASSUME Types, IInv, NEW b \in Builders, Scan(b) \/ Gates(b) \/ Cache(b) \/ Publish(b),
         NEW x \in Builders, x # b
  PROVE  (GatesJoined(x) /\ Candidate(x) /\ Progress(x) /\ Signatures(x))'
  BY OthersUntouched
  DEF IInv, GatesJoined, Candidate, Progress, Signatures, allowCache, InputHash, DigestOf, HashOf

\* Tags move in two actions: a promotion, which may only reach release tags,
\* and a push, whose cache tag is named after what was built.
LEMMA CacheTagsStep ==
  ASSUME Types, IInv, NEW b \in Builders, Scan(b) \/ Gates(b) \/ Cache(b) \/ Publish(b)
  PROVE  CacheTagsTellTheTruth'
  <1> USE DEF CacheTagsTellTheTruth, Types, HashOf
  <1>1. CASE Promote(b)
    <2>1. left[b] \subseteq ReleaseTags
      BY <1>1 DEF Promote, IInv, Progress
    <2>2. PICK t \in left[b] : tag' \in {tag, [tag EXCEPT ![t] = cand[b]]}
      BY <1>1 DEF Promote, Put, PutFails
    <2>3. t \notin Sources
      BY <2>1, TagAssumption
    <2>4. QED
      BY <2>2, <2>3 DEF IInv
  <1>2. CASE Push(b)
    <2>1. cand[b] = DigestOf(b) /\ left[b] \ {InputHash(b)} \subseteq ReleaseTags
      BY <1>2 DEF Push, IInv, Candidate, Progress
    <2>2. PICK t \in left[b] : tag' \in {tag, [tag EXCEPT ![t] = cand[b]]}
      BY <1>2 DEF Push, Put, PutFails
    <2>3. t \in Sources => t = InputHash(b)
      BY <2>1, TagAssumption
    <2>4. HashOf(cand[b]) = InputHash(b)
      BY <2>1, DigestTypes
    <2>5. QED
      BY <2>2, <2>3, <2>4 DEF IInv
  <1>3. CASE ~Promote(b) /\ ~Push(b)
    <2>1. UNCHANGED tag
      BY <1>3
      DEF Scan, Gates, Cache, Publish, ScanSecrets, ScanBase, JoinCVE, JoinToRecord, RecordScan,
          SkipCache, Lookup, Hit, verifyCandidate, JoinSecretScan, Build, Fail, Pushed, AttachSBOM,
          LeaveUnsigned, Sign, SelfVerify, Leave
    <2>2. QED
      BY <2>1 DEF IInv
  <1>4. QED
    BY <1>1, <1>2, <1>3

LEMMA StepInvariant ==
  ASSUME Types, IInv, [Next]_vars
  PROVE  Types' /\ IInv'
  <1>1. CASE Next
    <2>1. PICK b \in Builders : Scan(b) \/ Gates(b) \/ Cache(b) \/ Publish(b)
      BY <1>1 DEF Next
    <2>2. Types' /\ CacheTagsTellTheTruth'
      BY <2>1, StepTyped, CacheTagsStep
    <2>3. ASSUME NEW x \in Builders
          PROVE  (GatesJoined(x) /\ Candidate(x) /\ Progress(x) /\ Signatures(x))'
      BY <2>1, OwnPart, OthersPart
    <2>4. QED
      BY <2>2, <2>3 DEF IInv
  <1>2. CASE UNCHANGED vars
    BY <1>2
    DEF vars, Types, IInv, CacheTagsTellTheTruth, GatesJoined, Candidate, Progress, Signatures,
        allowCache, InputHash, DigestOf, HashOf
  <1>3. QED
    BY <1>1, <1>2

\* The invariant of core.Build: what each stage knows of the scans, of its
\* candidate, of the tags it has moved and of the signatures.
THEOREM Invariance == Spec => [](Types /\ IInv)
  <1>1. Init => Types /\ IInv
    BY InitTyped, InitInvariant
  <1>2. Types /\ IInv /\ [Next]_vars => (Types /\ IInv)'
    BY StepInvariant
  <1>3. QED
    BY <1>1, <1>2, PTL DEF Spec

-----------------------------------------------------------------------------
(* What follows from it *)

\* Every variable keeps its type, and whatever a build is releasing is an
\* image: no tag of any registry is ever moved to nothing.
THEOREM TypeCorrect == Spec => []TypeOK
  <1>1. Types /\ IInv => TypeOK
    BY DigestTypes DEF TypeOK, Releasing, IInv, Candidate
  <1>2. QED
    BY <1>1, Invariance, PTL

\* No build succeeds that a gate refused, on a hit as on a miss.
THEOREM GatesHold == Spec => []SuccessPassedTheGates
  <1>1. Types /\ IInv => SuccessPassedTheGates
    BY DEF IInv, GatesJoined, SuccessPassedTheGates
  <1>2. QED
    BY <1>1, Invariance, PTL

\* No build returns before its secret scan has ended, and none rewrites
\* pokkum.lock under it.
THEOREM ScanIsAlwaysJoined == Spec => []ScanIsJoined
  <1>1. Types /\ IInv => ScanIsJoined
    BY DEF IInv, GatesJoined, ScanIsJoined
  <1>2. QED
    BY <1>1, Invariance, PTL

\* A cache tag names the inputs of the image it points at, whoever pushed it.
THEOREM CacheIsTruthful == Spec => []CacheTagsTellTheTruth
  <1>1. Types /\ IInv => CacheTagsTellTheTruth
    BY DEF IInv
  <1>2. QED
    BY <1>1, Invariance, PTL

\* What a hit promotes has this build's inputs and, for a build that verifies,
\* a signature.
THEOREM HitsAreVouched == Spec => []PromotesOnlyVouched
  <1>1. Types /\ IInv => PromotesOnlyVouched
    BY DEF IInv, Candidate, PromotesOnlyVouched
  <1>2. QED
    BY <1>1, Invariance, PTL

\* A build that reports success has moved every release tag to its digest.
THEOREM SuccessIsWhole == Spec => []SuccessMovedEveryTag
  <1>1. Types /\ IInv => SuccessMovedEveryTag
    BY DEF IInv, Progress, SuccessMovedEveryTag
  <1>2. QED
    BY <1>1, Invariance, PTL

\* A build says that its image is signed only if it is, and one that signs and
\* has the key never succeeds without.
THEOREM SigningIsTrue == Spec => []SigningIsHonest
  <1>1. Types /\ IInv => SigningIsHonest
    BY DEF IInv, Signatures, SigningIsHonest
  <1>2. QED
    BY <1>1, Invariance, PTL

-----------------------------------------------------------------------------
(* The builds keep the contract of Release *)

\* What Release sees of the builds.
Released == [t \in ReleaseTags |-> tag[t]]
Claimed(b) == IF At(b, "verify") THEN None ELSE cand[b]
Claim == [b \in Builders |-> Claimed(b)]
Outcomes == [b \in Builders |-> Outcome(b)]
seen == <<Released, sigs, Claim, moved, Outcomes>>

USE DEF Outcome, Claimed

LEMMA InitMaps == Init => Contract!Init
  BY TagAssumption DEF Init, Contract!Init

\* A step of one builder changes its own claim and outcome, no other's.
LEMMA OnlyItsOwn ==
  ASSUME Types, NEW b \in Builders, Scan(b) \/ Gates(b) \/ Cache(b) \/ Publish(b)
  PROVE  /\ Claim' = [Claim EXCEPT ![b] = Claimed(b)']
         /\ Outcomes' = [Outcomes EXCEPT ![b] = Outcome(b)']
  <1>1. \A x \in Builders : x # b => stage'[x] = stage[x] /\ cand'[x] = cand[x]
    BY OthersUntouched
  <1>2. QED
    BY <1>1 DEF Claim, Outcomes

LEMMA SameElsewhere ==
  ASSUME NEW S, NEW f, f = [x \in S |-> f[x]], NEW b
  PROVE  [f EXCEPT ![b] = f[b]] = f
  OBVIOUS

\* The steps of the pipeline that are none of the contract: nothing it sees moves.
LEMMA Unseen ==
  ASSUME Types, NEW b \in Builders, Scan(b) \/ Gates(b) \/ Cache(b) \/ Publish(b),
         Released' = Released, sigs' = sigs, moved' = moved,
         Claimed(b)' = Claimed(b), Outcome(b)' = Outcome(b)
  PROVE  UNCHANGED seen
  <1>1. Claim' = [Claim EXCEPT ![b] = Claim[b]] /\ Outcomes' = [Outcomes EXCEPT ![b] = Outcomes[b]]
    BY OnlyItsOwn DEF Claim, Outcomes
  <1>2. Claim' = Claim /\ Outcomes' = Outcomes
    BY <1>1 DEF Claim, Outcomes
  <1>3. QED
    BY <1>2 DEF seen

\* A tag of the cache is not one the contract is about.
LEMMA ReleasedMoves ==
  ASSUME Types, NEW t \in ReleaseTags \cup Sources, NEW d, tag' = [tag EXCEPT ![t] = d]
  PROVE  /\ t \in ReleaseTags => Released' = [Released EXCEPT ![t] = d]
         /\ t \notin ReleaseTags => Released' = Released
  BY DEF Types, Released

\* Settling on a digest, or giving one up.
LEMMA Settles ==
  ASSUME Types, NEW b \in Builders, Cache(b) \/ Publish(b), ~(stage[b] \in Returned),
         Claimed(b)' \in sigs \cup {DigestOf(b), None}
                           \cup (IF b \in Builders \ Verifying THEN Digests ELSE {}),
         moved' = [moved EXCEPT ![b] = {}], tag' = tag, sigs' = sigs, Outcome(b)' = Outcome(b)
  PROVE  Contract!Step(b)
  <1>1. /\ Claim' = [Claim EXCEPT ![b] = Claimed(b)']
        /\ Outcomes' = [Outcomes EXCEPT ![b] = Outcomes[b]]
    BY OnlyItsOwn DEF Outcomes
  <1>2. Outcomes' = Outcomes /\ Released' = Released /\ Outcomes[b] = "running"
    BY <1>1 DEF Outcomes, Released
  <1>3. QED
    BY <1>1, <1>2 DEF Contract!Step, Contract!Settle, Claim, Outcomes, Released

\* Pointing one release tag at what was settled on.
LEMMA Points ==
  ASSUME Types, NEW b \in Builders, Cache(b) \/ Publish(b), ~(stage[b] \in Returned),
         ~At(b, "verify"), cand[b] \in Digests, NEW t \in ReleaseTags,
         tag' = [tag EXCEPT ![t] = cand[b]], sigs' = sigs, Outcome(b)' = Outcome(b),
         \/ /\ moved' \in {[moved EXCEPT ![b] = @ \cup {t}], moved}
            /\ Claimed(b)' = cand[b]
         \/ moved' = [moved EXCEPT ![b] = {}] /\ Claimed(b)' = None
  PROVE  Contract!Step(b)
  <1>1. Claim[b] = cand[b] /\ Claim[b] # None
    BY NoneAssumption DEF Claim, Digests
  <1>2. Claim' = [Claim EXCEPT ![b] = Claimed(b)']
    BY OnlyItsOwn
  <1>3. Claim' \in {Claim, [Claim EXCEPT ![b] = None]}
    BY <1>1, <1>2 DEF Claim
  <1>4. Outcomes' = [Outcomes EXCEPT ![b] = Outcomes[b]]
    BY OnlyItsOwn DEF Outcomes
  <1>5. Outcomes' = Outcomes /\ Outcomes[b] = "running"
    BY <1>4 DEF Outcomes
  <1>6. Released' = [Released EXCEPT ![t] = Claim[b]]
    BY <1>1, ReleasedMoves
  <1>7. moved' \in {[moved EXCEPT ![b] = @ \cup {t}], [moved EXCEPT ![b] = {}], moved}
    OBVIOUS
  <1>8. QED
    BY <1>1, <1>3, <1>5, <1>6, <1>7 DEF Contract!Step, Contract!Point, Claim, Outcomes, Released

\* Returning, with success only once every tag has moved.
LEMMA Finishes ==
  ASSUME Types, NEW b \in Builders, Publish(b), ~(stage[b] \in Returned),
         UNCHANGED <<registry, moved>>, Claimed(b)' = Claimed(b),
         \/ Outcome(b)' = "ok" /\ moved[b] = ReleaseTags
         \/ Outcome(b)' = "failed"
  PROVE  Contract!Step(b)
  <1>1. /\ Claim' = [Claim EXCEPT ![b] = Claim[b]]
        /\ Outcomes' = [Outcomes EXCEPT ![b] = Outcome(b)']
    BY OnlyItsOwn DEF Claim
  <1>2. Claim' = Claim /\ Released' = Released /\ Outcomes[b] = "running"
    BY <1>1 DEF Claim, Outcomes, Released
  <1>3. QED
    BY <1>1, <1>2 DEF Contract!Step, Contract!Finish, Claim, Outcomes, Released

\* Asking the cache: nothing is settled on before its signature was looked at.
LEMMA CacheMaps ==
  ASSUME Types, IInv, NEW b \in Builders, Cache(b)
  PROVE  Contract!Step(b) \/ UNCHANGED seen
  <1> USE DEF Types, Released
  <1>1. CASE SkipCache(b) \/ Hit(b)
    BY <1>1, Unseen DEF SkipCache, Hit
  <1>2. CASE Lookup(b)
    <2>1. CASE Goto(b, "join") /\ UNCHANGED cand
      BY <1>2, <2>1, Unseen DEF Lookup
    <2>2. CASE Goto(b, "verify")
      <3>1. moved[b] = {}
        BY <1>2 DEF Lookup, IInv, Progress
      <3>2. Claimed(b)' = None /\ Outcome(b)' = Outcome(b)
        BY <1>2, <2>2 DEF Lookup
      <3>3. moved' = [moved EXCEPT ![b] = {}] /\ tag' = tag /\ sigs' = sigs
        BY <1>2, <3>1 DEF Lookup
      <3>4. QED
        BY <1>2, <3>2, <3>3, Settles DEF Lookup
    <2>3. QED
      BY <1>2, <2>1, <2>2 DEF Lookup
  <1>3. CASE verifyCandidate(b)
    <2>1. moved[b] = {} /\ cand[b] \in Digests
      BY <1>3 DEF verifyCandidate, IInv, Progress, Candidate
    <2>2. moved' = [moved EXCEPT ![b] = {}] /\ tag' = tag /\ sigs' = sigs
      BY <1>3, <2>1 DEF verifyCandidate, Miss
    <2>3. Outcome(b)' = Outcome(b)
      BY <1>3 DEF verifyCandidate, Miss
    <2>4. \/ Claimed(b)' = None
          \/ Claimed(b)' = cand[b] /\ (b \in Verifying => cand[b] \in sigs)
      BY <1>3 DEF verifyCandidate, Miss
    <2>5. QED
      BY <1>3, <2>1, <2>2, <2>3, <2>4, Settles DEF verifyCandidate
  <1>4. CASE Promote(b)
    <2>1. cand[b] \in Digests /\ left[b] \subseteq ReleaseTags
      BY <1>4 DEF Promote, IInv, Candidate, Progress
    <2>2. PICK t \in left[b] :
            \/ Put(b, t) /\ UNCHANGED <<stage, cand, signed>>
            \/ PutFails(b, t) /\ Miss(b) /\ signed' = [signed EXCEPT ![b] = FALSE]
      BY <1>4 DEF Promote
    <2>3. t \in ReleaseTags
      BY <2>1
    <2>4. At(b, "promote") /\ sigs' = sigs
      BY <1>4 DEF Promote
    <2>5. CASE Put(b, t) /\ UNCHANGED <<stage, cand, signed>>
      <3>1. {t} \cap ReleaseTags = {t}
        BY <2>3
      <3>2. moved' = [moved EXCEPT ![b] = @ \cup {t}]
        BY <2>5, <3>1 DEF Put
      <3>3. Claimed(b)' = cand[b] /\ Outcome(b)' = Outcome(b)
        BY <2>4, <2>5
      <3>4. tag' = [tag EXCEPT ![t] = cand[b]]
        BY <2>5 DEF Put
      <3>5. QED
        BY <1>4, <2>1, <2>3, <2>4, <3>2, <3>3, <3>4, Points
    <2>6. CASE PutFails(b, t) /\ Miss(b)
      <3>1. Claimed(b)' = None /\ Outcome(b)' = Outcome(b)
        BY <2>4, <2>6 DEF Miss
      <3>2. moved' = [moved EXCEPT ![b] = {}]
        BY <2>6 DEF Miss
      <3>3. CASE tag' = tag
        BY <1>4, <2>4, <3>1, <3>2, <3>3, Settles
      <3>4. CASE tag' = [tag EXCEPT ![t] = cand[b]]
        BY <1>4, <2>1, <2>3, <2>4, <3>1, <3>2, <3>4, Points
      <3>5. QED
        BY <2>6, <3>3, <3>4 DEF PutFails
    <2>7. QED
      BY <2>2, <2>5, <2>6
  <1>5. QED
    BY <1>1, <1>2, <1>3, <1>4 DEF Cache

\* Publishing: a build settles on its own image, points its tags at it, signs it
\* and returns.
LEMMA PublishMaps ==
  ASSUME Types, IInv, NEW b \in Builders, Publish(b)
  PROVE  Contract!Step(b) \/ UNCHANGED seen
  <1> USE DEF Types, Released
  <1>1. CASE JoinSecretScan(b)
    <2>1. CASE At(b, "join") /\ Goto(b, "ok")
      <3>1. hit[b] /\ moved[b] = ReleaseTags
        BY <1>1, <2>1 DEF JoinSecretScan, IInv, Progress
      <3>2. Claimed(b)' = Claimed(b) /\ Outcome(b)' = "ok" /\ UNCHANGED <<registry, moved>>
        BY <1>1, <2>1 DEF JoinSecretScan
      <3>3. QED
        BY <2>1, <3>1, <3>2, Finishes
    <2>2. CASE At(b, "join") /\ (Goto(b, "leaving") \/ Goto(b, "build"))
      BY <1>1, <2>2, Unseen DEF JoinSecretScan
    <2>3. QED
      BY <1>1, <2>1, <2>2 DEF JoinSecretScan
  <1>2. CASE At(b, "build") /\ Build(b)
    <2>1. CASE Goto(b, "push") /\ cand' = [cand EXCEPT ![b] = DigestOf(b)] /\ ~Fail(b)
      <3>1. moved[b] = {}
        BY <1>2 DEF IInv, Progress
      <3>2. moved' = [moved EXCEPT ![b] = {}] /\ tag' = tag /\ sigs' = sigs
        BY <1>2, <2>1, <3>1 DEF Build
      <3>3. Claimed(b)' = DigestOf(b) /\ Outcome(b)' = Outcome(b)
        BY <1>2, <2>1
      <3>4. QED
        BY <1>2, <3>2, <3>3, Settles
    <2>2. CASE Fail(b)
      BY <1>2, <2>2, Unseen DEF Fail
    <2>3. QED
      BY <1>2, <2>1, <2>2 DEF Build
  <1>3. CASE Push(b)
    <2>1. cand[b] \in Digests
      BY <1>3, DigestTypes DEF Push, IInv, Candidate
    <2>2. PICK t \in left[b] :
            \/ Put(b, t) /\ UNCHANGED stage
            \/ PutFails(b, t) /\ Goto(b, "leaving") /\ UNCHANGED <<left, moved>>
      BY <1>3 DEF Push
    <2>3. t \in ReleaseTags \cup Sources /\ At(b, "push") /\ UNCHANGED <<cand, sigs>>
      BY <1>3 DEF Push
    <2>4. Claimed(b)' = cand[b] /\ Claimed(b) = cand[b] /\ Outcome(b)' = Outcome(b)
      BY <2>2, <2>3
    <2>5. moved' = moved \/ (t \in ReleaseTags /\ moved' = [moved EXCEPT ![b] = @ \cup {t}])
      <3>1. CASE t \in ReleaseTags
        <4>1. {t} \cap ReleaseTags = {t}
          BY <3>1
        <4>2. QED
          BY <2>2, <3>1, <4>1 DEF Put
      <3>2. CASE t \notin ReleaseTags
        <4>1. moved[b] \cup ({t} \cap ReleaseTags) = moved[b]
          BY <3>2
        <4>2. moved' \in {moved, [moved EXCEPT ![b] = moved[b]]}
          BY <2>2, <4>1 DEF Put
        <4>3. QED
          BY <4>2
      <3>3. QED
        BY <3>1, <3>2
    <2>6. CASE tag' = tag /\ moved' = moved
      BY <1>3, <2>3, <2>4, <2>6, Unseen
    <2>7. CASE t \notin ReleaseTags /\ tag' = [tag EXCEPT ![t] = cand[b]]
      <3>1. Released' = Released
        BY <2>3, <2>7, ReleasedMoves
      <3>2. QED
        BY <1>3, <2>3, <2>4, <2>5, <2>7, <3>1, Unseen
    <2>8. CASE t \in ReleaseTags /\ tag' = [tag EXCEPT ![t] = cand[b]]
      BY <1>3, <2>1, <2>3, <2>4, <2>5, <2>8, Points
    <2>9. QED
      BY <2>2, <2>6, <2>7, <2>8 DEF Put, PutFails
  <1>4. CASE Pushed(b) \/ AttachSBOM(b)
    BY <1>4, Unseen DEF Pushed, AttachSBOM, Fail
  <1>5. CASE LeaveUnsigned(b)
    <2>1. moved[b] = ReleaseTags
      BY <1>5 DEF LeaveUnsigned, IInv, Progress
    <2>2. QED
      BY <1>5, <2>1, Finishes DEF LeaveUnsigned
  <1>6. CASE Sign(b)
    <2>1. cand[b] = DigestOf(b) /\ moved[b] = ReleaseTags /\ At(b, "sign")
      BY <1>6 DEF Sign, IInv, Candidate, Progress
    <2>2. Claimed(b)' = Claimed(b) /\ Claimed(b) = DigestOf(b) /\ Outcome(b)' = Outcome(b)
      BY <1>6, <2>1 DEF Sign
    <2>3. UNCHANGED <<tag, moved>> /\ sigs' \in {sigs, sigs \cup {DigestOf(b)}}
      BY <1>6, <2>1 DEF Sign
    <2>4. CASE sigs' = sigs
      BY <1>6, <2>2, <2>3, <2>4, Unseen
    <2>5. CASE sigs' = sigs \cup {DigestOf(b)}
      <3>1. /\ Claim' = [Claim EXCEPT ![b] = Claim[b]]
            /\ Outcomes' = [Outcomes EXCEPT ![b] = Outcomes[b]]
        BY <1>6, <2>2, OnlyItsOwn DEF Claim, Outcomes
      <3>2. Claim' = Claim /\ Outcomes' = Outcomes
        <4>1. Claim = [x \in Builders |-> Claim[x]] /\ Outcomes = [x \in Builders |-> Outcomes[x]]
          BY DEF Claim, Outcomes
        <4>2. [Claim EXCEPT ![b] = Claim[b]] = Claim
          BY ONLY <4>1, SameElsewhere
        <4>3. [Outcomes EXCEPT ![b] = Outcomes[b]] = Outcomes
          BY ONLY <4>1, SameElsewhere
        <4>4. QED
          BY Zenon, <3>1, <4>2, <4>3
      <3>3. Claim[b] = DigestOf(b) /\ Outcomes[b] = "running" /\ Released' = Released
        BY <2>1, <2>2, <2>3 DEF Claim, Outcomes
      <3>4. QED
        BY <2>1, <2>3, <2>5, <3>2, <3>3 DEF Contract!Step, Contract!Sign, Claim, Outcomes
    <2>6. QED
      BY <2>3, <2>4, <2>5
  <1>7. CASE SelfVerify(b)
    <2>1. moved[b] = ReleaseTags /\ At(b, "readback")
      BY <1>7 DEF SelfVerify, IInv, Progress
    <2>2. CASE Fail(b)
      BY <1>7, <2>1, <2>2, Unseen DEF Fail
    <2>3. CASE Goto(b, "ok") /\ UNCHANGED <<cand, registry, moved>>
      <3>1. Claimed(b)' = Claimed(b) /\ Outcome(b)' = "ok"
        BY <2>1, <2>3
      <3>2. QED
        BY <1>7, <2>1, <2>3, <3>1, Finishes
    <2>4. QED
      BY <1>7, <2>2, <2>3 DEF SelfVerify
  <1>8. CASE Leave(b)
    <2>1. /\ At(b, "leaving") /\ Goto(b, "failed")
          /\ UNCHANGED <<cand, registry, moved>>
      BY <1>8 DEF Leave
    <2>2. Claimed(b)' = Claimed(b) /\ Outcome(b)' = "failed"
      BY <2>1
    <2>3. QED
      BY <1>8, <2>1, <2>2, Finishes
  <1>9. QED
    BY <1>1, <1>2, <1>3, <1>4, <1>5, <1>6, <1>7, <1>8 DEF Publish, Build

\* What the tags and signatures of a repository are seen to do is a behaviour of
\* Release: every tag points where a build had settled, only built images are
\* signed, and success means that every tag was moved.
THEOREM Implements == Spec => KeepsContract
  <1>1. ASSUME Types, IInv, NEW b \in Builders, Scan(b) \/ Gates(b)
        PROVE  UNCHANGED seen
    <2>1. CASE Scan(b)
      BY <1>1, <2>1, Unseen DEF Scan, ScanSecrets, ScanBase, Released
    <2>2. CASE Gates(b)
      BY <1>1, <2>2, Unseen DEF Types, Gates, JoinCVE, JoinToRecord, RecordScan, Released
    <2>3. QED
      BY <1>1, <2>1, <2>2
  <1>2. UNCHANGED vars => UNCHANGED seen
    BY DEF vars, seen, Released, Claim, Outcomes
  <1>3. UNCHANGED seen => UNCHANGED Contract!releaseVars
    BY DEF seen, Released, Claim, Outcomes, Contract!releaseVars
  <1>4. Types /\ IInv /\ [Next]_vars
          => [\E b \in Builders : Contract!Step(b)]_(Contract!releaseVars)
    BY <1>1, <1>2, <1>3, CacheMaps, PublishMaps DEF Next
  <1>5. QED
    BY <1>4, InitMaps, Invariance, PTL DEF Spec, KeepsContract, Contract!Spec
=============================================================================
