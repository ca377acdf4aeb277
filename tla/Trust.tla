--------------------------------- MODULE Trust ---------------------------------
(***************************************************************************)
(* What pokkum takes for evidence that an image is whose it should be: the *)
(* Cosign signatures under an image's .sig tag and the attestations under  *)
(* its .att tag, as the base image resolver, the remote cache and `pokkum  *)
(* verify` read them while others write to the registry; and the trust     *)
(* roots keyless signatures are checked against, which age.                *)
(*                                                                         *)
(* The composition root injects every verifier.  Cryptography is what it   *)
(* promises: a layer names the key that signed it, and a certificate names *)
(* its identity and the log its entry is in.                               *)
(***************************************************************************)
EXTENDS Naturals, Sequences, FiniteSets

CONSTANTS
  Jobs,         \* what may be asked, in the order of one process: see Job
  SigImages,    \* what may be under a .sig tag: sets of layers
  Attestations, \* what may be under an .att tag
  Source,       \* [digest -> the source its annotations claim]
  Anchors,      \* [root -> its certificate authorities and logs]
  Covers,       \* [root -> the logs it has the keys of]
  Preset,       \* [preset -> [mode, id]], its defaults
  Captured,     \* when the embedded root was captured
  MaxAge, Window,
  Times,        \* the moments at which a process may start
  MaxWrites, MaxJobs

Digests == DOMAIN Source
Roots == DOMAIN Covers
NoId == "none"
Modes == {"static-key", "keyless"}

\* What may be asked, and the settings it may name.
CanBeAsked(j) ==
  /\ j.kind \in {"base", "cache", "verify"} /\ j.up \in {"up", "fork"} /\ j.keys \in Seq(STRING)
  /\ j.kind = "base" => j.mode \in Modes \cup {"auto"} /\ Preset[j.preset].mode \in Modes

\* Layers and attestations are told apart by what they hold.  MCOperatorSide
\* checks this with TypeOK.
Assumed ==
  /\ 1 \in Digests /\ Digests \subseteq Nat \ {0} /\ \A j \in Jobs : CanBeAsked(j)
  /\ \A image \in SigImages : \A l \in image : "typed" \in DOMAIN l
  /\ \A a \in Attestations : "typed" \notin DOMAIN a
  /\ \A r \in DOMAIN Anchors : /\ \A c \in Anchors[r].cas : {c.from, c.till, c.certs} \subseteq Nat
                               /\ \A l \in Anchors[r].logs : {l.from, l.till} \subseteq Nat
  /\ "embedded" \in DOMAIN Anchors /\ Times \subseteq Nat /\ {Window, MaxWrites} \subseteq Nat

\* A layer: its payload's type is known, its claims, who signed it ("none" for
\* no signature annotation, "cert" for the key of the certificate), and the
\* certificate with its log entry.
NoCert == [id |-> NoId, log |-> "none"]

VARIABLES
  tag,      \* the digest the image's tag names
  sig,      \* [digest -> the layers under its .sig tag], {} for no such tag
  att,      \* [digest -> the attestations under its .att tag]
  now, writes,
  job,      \* what is being asked, and with it what was found out so far
  step,
  pulls,    \* Resolver.pulls: [upstream -> digest], 0 for none
  memo,     \* Resolver.verifications
  seen,     \* history: [digest -> the layers and attestations fetched for it]
  done,     \* history: the jobs that were accepted
  moved     \* history: the tag moved while a job was running

vars == <<tag, sig, att, now, writes, job, step, pulls, memo, seen, done, moved>>
registryVars == <<tag, sig, att, now, writes>>
resolverVars == <<pulls, memo>>

NoJob == [kind |-> "none"]

Init ==
  /\ tag = 1 /\ sig = [d \in Digests |-> {}] /\ att = [d \in Digests |-> {}]
  /\ now \in Times /\ writes = 0 /\ job = NoJob /\ step = "idle"
  /\ pulls = [u \in {"up", "fork"} |-> 0] /\ memo = {}
  /\ seen = [d \in Digests |-> {}] /\ done = {} /\ moved = FALSE

-----------------------------------------------------------------------------
(* The registry *)

Push(d) ==
  /\ writes < MaxWrites /\ d # tag /\ tag' = d /\ writes' = writes + 1
  /\ moved' = (moved \/ step # "idle")
  /\ UNCHANGED <<sig, att, now, job, step, resolverVars, seen, done>>

\* Whoever can write puts something under a tag, in place of what was there.
WriteSig(d, image) ==
  /\ writes < MaxWrites /\ sig' = [sig EXCEPT ![d] = image] /\ writes' = writes + 1
  /\ UNCHANGED <<tag, att, now, job, step, resolverVars, seen, done, moved>>

WriteAtt(d, a) ==
  /\ writes < MaxWrites /\ att' = [att EXCEPT ![d] = {a}] /\ writes' = writes + 1
  /\ UNCHANGED <<tag, sig, now, job, step, resolverVars, seen, done, moved>>

-----------------------------------------------------------------------------
(* Trust roots *)

activeAt(a, t) == a.from <= t /\ t <= a.till

\* Some active anchor has expired or is about to.
expiryProblem(till) == now + Window >= till

assessLogs(logs) ==
  LET active == {l \in logs : activeAt(l, now)}
  IN active = {} \/ \E l \in active : expiryProblem(l.till)

\* A certificate authority counts while it is active and its certificates hold.
assessAnchors(root) ==
  LET active == {c \in Anchors[root].cas : activeAt(c, now)}
  IN \/ \E c \in active : expiryProblem(c.till) \/ expiryProblem(c.certs)
     \/ \A c \in active : now > c.certs
     \/ assessLogs(Anchors[root].logs)

Stale(root) == now - Captured > MaxAge \/ assessAnchors(root)

\* The root to verify against: the file that was given, else what TUF serves if
\* a refresh was asked for, else the embedded one, with a warning if it is
\* stale.  TUF is not asked by a hermetic build, and fails at will.
FetchTrustedRoot(offline) == IF offline THEN {} ELSE {"tuf"}

ResolveTrustedRoot(file, refresh, offline) ==
  IF file THEN {"file"}
  ELSE {"embedded"} \cup (IF refresh THEN FetchTrustedRoot(offline) ELSE {})

-----------------------------------------------------------------------------
(* Signatures *)

\* cosign.Signer.Verify: the claims first, then the key.
Verify(l, key, repo, d) == l.typed /\ l.repo = repo /\ l.digest = d /\ l.signer = key

\* sigstore.Verifier.Verify: an identity with both halves, material to check,
\* an entry in a log the root covers, and a certificate of that identity.
HasMaterial(l) == l.cert # NoCert
Complete(id) == id \notin {NoId, "partial"}
assembleV01Bundle(l) == l.signer # "none"
LogIsKnown(l, root) == l.cert.log \in Covers[root]

KeylessVerify(l, id, root) ==
  /\ Complete(id) /\ HasMaterial(l) /\ assembleV01Bundle(l)
  /\ LogIsKnown(l, root) /\ l.signer = "cert" /\ l.cert.id = id

checkSimpleSigningClaims(l, repo, d) == l.typed /\ l.repo = repo /\ l.digest = d

\* The first key that is set, and only that one.
ResolveFirst(keys) ==
  LET set == {i \in DOMAIN keys : keys[i] # ""}
  IN IF set = {} THEN "" ELSE keys[CHOOSE i \in set : \A h \in set : i <= h]

\* The layers under a .sig tag, with their annotations.
Fetched(evidence) == seen' = [seen EXCEPT ![job.digest] = @ \cup evidence]

Ended(how) ==
  /\ step' = "idle" /\ job' = NoJob
  /\ done' = IF how = "accepted" THEN done \cup {job} ELSE done

-----------------------------------------------------------------------------
(* Asking *)

\* Job: kind "base", "cache" or "verify"; up the repository claimed; mode,
\* preset, id; keys the settings that may hold a key, the first first; file,
\* refresh, hermetic; expect the source expected, allow whether an unverified
\* one will do, rebuilt the digest compared with, 0 for none.  Only the resolver
\* of base images keeps anything from one job to the next.
Ask(j) ==
  /\ step = "idle" /\ Cardinality(done) < MaxJobs
  /\ \A k \in done : k.kind = "base" /\ j.kind = "base"
  /\ \E root \in ResolveTrustedRoot(j.file, j.refresh, j.hermetic) :
       job' = [kind |-> j.kind, up |-> j.up, mode |-> j.mode, preset |-> j.preset, id |-> j.id,
               keys |-> j.keys, expect |-> j.expect, allow |-> j.allow, rebuilt |-> j.rebuilt,
               root |-> root, warned |-> root = "embedded" /\ Stale(root),
               key |-> ResolveFirst(j.keys), digest |-> 0, at |-> now,
               signed |-> FALSE, attested |-> FALSE, verdict |-> "", moved |-> FALSE,
               source |-> "", verified |-> FALSE]
  /\ step' = j.kind
  /\ UNCHANGED <<registryVars, resolverVars, seen, done>>
  /\ moved' = FALSE

-----------------------------------------------------------------------------
(* The base image resolver *)

\* Resolve and VerifyBaseImage pull through one memo.
Pull ==
  /\ step = "base"
  /\ LET d == IF pulls[job.up] # 0 THEN pulls[job.up] ELSE tag
     IN /\ pulls' = [pulls EXCEPT ![job.up] = d]
        /\ job' = [job EXCEPT !.digest = d] /\ step' = "verifyBase"
  /\ UNCHANGED <<registryVars, memo, seen, done, moved>>

BaseMode == IF job.mode = "auto" THEN Preset[job.preset].mode ELSE job.mode
BaseId == IF job.id = NoId THEN Preset[job.preset].id ELSE job.id

\* Refused before anything is fetched: no key, or a key that the mode ignores,
\* or an identity that anyone satisfies.
BaseRefused ==
  IF BaseMode = "static-key" THEN job.key \in {"", "unusable"}
  ELSE job.key # "" \/ BaseId = NoId

\* Mutant: what was verified once is not verified again, whoever asks.
verifyKey_digestOnly == <<job.up, job.digest>>

verifyKey ==
  <<job.up, job.digest, BaseMode, IF BaseMode = "keyless" THEN BaseId ELSE NoId,
    job.root, IF BaseMode = "keyless" THEN "" ELSE job.key>>

\* One layer that verifies is enough; the claims are those of the upstream
\* repository, wherever the image was pulled from.
BaseVerified(layers) ==
  \E l \in layers :
    IF BaseMode = "static-key"
    THEN l.signer # "none" /\ Verify(l, job.key, job.up, job.digest)
    ELSE HasMaterial(l) /\ KeylessVerify(l, BaseId, job.root)
           /\ checkSimpleSigningClaims(l, job.up, job.digest)

\* Only a success is remembered.
VerifyBase ==
  /\ step = "verifyBase"
  /\ IF BaseRefused THEN Ended("refused") /\ UNCHANGED <<memo, seen>>
     ELSE IF verifyKey \in memo THEN Ended("accepted") /\ UNCHANGED <<memo, seen>>
     ELSE \/ Ended("refused") /\ UNCHANGED <<memo, seen>>     \* the fetch fails
          \/ /\ Fetched(sig[job.digest])
             /\ IF BaseVerified(sig[job.digest])
                THEN Ended("accepted") /\ memo' = memo \cup {verifyKey}
                ELSE Ended("refused") /\ UNCHANGED memo
  /\ UNCHANGED <<registryVars, pulls, moved>>

-----------------------------------------------------------------------------
(* The remote cache *)

\* A mode other than these two accepts nothing.
CacheVerified(layers, mode) ==
  \E l \in layers :
    /\ l.signer # "none" /\ checkSimpleSigningClaims(l, job.up, job.digest)
    /\ \/ /\ mode = "static-key" /\ job.key \notin {"", "unusable"}
          /\ Verify(l, job.key, job.up, job.digest)
       \/ mode = "keyless" /\ KeylessVerify(l, job.id, job.root)

\* A candidate that cannot be verified is passed over, or fails a strict build.
FindCandidate ==
  /\ step = "cache"
  /\ job' = [job EXCEPT !.digest = tag] /\ step' = "verifyCandidate"
  /\ UNCHANGED <<registryVars, resolverVars, seen, done, moved>>

CacheMode ==
  IF job.mode # "auto" THEN job.mode ELSE IF job.id # NoId THEN "keyless" ELSE "static-key"

verifyCandidate ==
  /\ step = "verifyCandidate"
  /\ LET layers == sig[job.digest]
     IN \/ /\ Fetched(layers)
           /\ Ended(IF CacheVerified(layers, CacheMode) THEN "accepted" ELSE "refused")
        \/ Ended("refused") /\ UNCHANGED seen
  /\ UNCHANGED <<registryVars, resolverVars, moved>>

-----------------------------------------------------------------------------
(* pokkum verify *)

Describe ==
  /\ step = "verify"
  /\ IF job.id = "partial" \/ (job.keys[1] = "" /\ job.key = "unusable")
     THEN Ended("refused")
     ELSE /\ job' = [job EXCEPT !.digest = tag, !.source = Source[tag]]
          /\ step' = "signature" /\ UNCHANGED done
  /\ UNCHANGED <<registryVars, resolverVars, seen, moved>>

StaticSigned(l) == job.key # "" /\ l.signer # "none" /\ Verify(l, job.key, job.up, job.digest)

KeylessSigned(l) ==
  /\ job.id # NoId /\ KeylessVerify(l, job.id, job.root)
  /\ checkSimpleSigningClaims(l, job.up, job.digest)

\* A signature that nothing was given to check it with is asked about, not
\* passed over; one that cannot be fetched is taken for none.
verifyCosignSignature ==
  /\ step = "signature"
  /\ LET layers == sig[job.digest]
         valid == \E l \in layers : StaticSigned(l) \/ KeylessSigned(l)
         keyless == \E l \in layers : HasMaterial(l)
         keyNeeded == job.key = "" /\ \E l \in layers : l.signer # "none"
     IN \/ /\ Fetched(layers)
           /\ IF ~valid /\ (IF keyless THEN job.id = NoId ELSE keyNeeded)
              THEN Ended("refused")
              ELSE /\ job' = [job EXCEPT !.signed = valid]
                   /\ step' = "attestation" /\ UNCHANGED done
        \/ /\ job' = job /\ step' = "attestation"
           /\ UNCHANGED <<done, seen>>
  /\ UNCHANGED <<registryVars, resolverVars, moved>>

\* dsse.Signer.Verify: any one signature of an envelope will do.
VerifyEnvelope(a) == job.key \in a.signers

statementMatchesDigest(a) == a.subject = job.digest

\* An attestation counts in an envelope that the key signed, whoever else did,
\* and whose statement is about this digest.
tryParseAndVerifySLSA(a) ==
  a.enveloped /\ job.key # "" /\ VerifyEnvelope(a) /\ statementMatchesDigest(a)

\* The source it names takes the place of what the annotations say.
populateInputsFromSLSA(a) ==
  [job EXCEPT !.attested = TRUE, !.verified = a.source # "",
              !.source = IF a.source = "" THEN @ ELSE a.source]

extractSLSAStatement ==
  /\ step = "attestation"
  /\ \/ /\ Fetched(att[job.digest])
        /\ LET ok == {a \in att[job.digest] : tryParseAndVerifySLSA(a)}
           IN \/ ok = {} /\ job' = job
              \/ \E a \in ok : job' = populateInputsFromSLSA(a)
     \/ job' = job /\ UNCHANGED seen
  /\ step' = "decide"
  /\ UNCHANGED <<registryVars, resolverVars, done, moved>>

validateSourceMatch == job.source = job.expect

SourceRefused ==
  job.expect # "" /\ ((~job.verified /\ ~job.allow) \/ ~validateSourceMatch)

Decide ==
  /\ step = "decide"
  /\ IF SourceRefused \/ (job.rebuilt = 0 /\ ~job.attested /\ ~job.signed)
     THEN Ended("refused")
     ELSE /\ IF job.rebuilt # 0 THEN job' = job /\ step' = "compare"
             ELSE job' = [job EXCEPT !.verdict = IF job.attested THEN "attested" ELSE "signed"]
                    /\ step' = "report"
          /\ UNCHANGED done
  /\ UNCHANGED <<registryVars, resolverVars, seen, moved>>

\* The comparison pulls the image by its tag once more.
CompareImages ==
  /\ step = "compare"
  /\ IF tag = job.rebuilt
     THEN /\ job' = [job EXCEPT !.verdict = "match", !.moved = moved]
          /\ step' = "report" /\ UNCHANGED done
     ELSE Ended("refused")
  /\ UNCHANGED <<registryVars, resolverVars, seen, moved>>

Report ==
  /\ step = "report" /\ Ended("accepted")
  /\ UNCHANGED <<registryVars, resolverVars, seen, moved>>

-----------------------------------------------------------------------------

Registry ==
  \/ \E d \in Digests : Push(d)
  \/ \E d \in Digests, image \in SigImages : WriteSig(d, image)
  \/ \E d \in Digests, a \in Attestations : WriteAtt(d, a)

Reader ==
  \/ \E j \in Jobs : Ask(j)
  \/ Pull \/ VerifyBase
  \/ FindCandidate \/ verifyCandidate
  \/ Describe \/ verifyCosignSignature \/ extractSLSAStatement
  \/ Decide \/ CompareImages \/ Report

Next == Registry \/ Reader

Spec == Init /\ [][Next]_vars

-----------------------------------------------------------------------------
(* Properties *)

TypeOK ==
  /\ tag \in Digests /\ writes \in 0 .. MaxWrites /\ now \in Times
  /\ sig \in [Digests -> SigImages \cup {{}}] /\ att \in [Digests -> SUBSET Attestations]
  /\ step \in {"idle", "base", "verifyBase", "cache", "verifyCandidate", "verify",
               "signature", "attestation", "decide", "compare", "report"}
  /\ (step = "idle") = (job = NoJob)
  /\ pulls \in [{"up", "fork"} -> Digests \cup {0}] /\ moved \in BOOLEAN
  /\ DOMAIN seen = Digests /\ \A j \in done : j.digest \in Digests

\* The first key of those a job may use is this one.
FirstKeyIs(keys, k) == \E i \in DOMAIN keys : keys[i] = k /\ \A h \in 1 .. i - 1 : keys[h] = ""

Claims(l, j) == l.typed /\ l.repo = j.up /\ l.digest = j.digest
Layers(d) == {l \in seen[d] : "typed" \in DOMAIN l}
ByKey(j) == \E l \in Layers(j.digest) : Claims(l, j) /\ FirstKeyIs(j.keys, l.signer)
ByIdentity(j, id) ==
  id # NoId /\ \E l \in Layers(j.digest) : Claims(l, j) /\ l.signer = "cert"
                 /\ l.cert.id = id /\ l.cert.log \in Covers[j.root]

IsSigned(j) ==
  LET mode == IF j.kind = "base" /\ j.mode = "auto" THEN Preset[j.preset].mode ELSE j.mode
      id == IF j.kind = "base" /\ j.id = NoId THEN Preset[j.preset].id ELSE j.id
  IN /\ j.kind \in {"base", "cache"} =>
          \/ mode = "static-key" /\ ByKey(j)
          \/ mode = "keyless" /\ ByIdentity(j, id)
          \/ mode = "auto" /\ IF j.id = NoId THEN ByKey(j) ELSE ByIdentity(j, id)
     /\ j.verdict = "signed" => ByKey(j) \/ ByIdentity(j, id)

\* What the attestations that were fetched say for a job.
About(j) ==
  {a \in seen[j.digest] \ Layers(j.digest) :
     a.enveloped /\ a.subject = j.digest /\ \E k \in a.signers : FirstKeyIs(j.keys, k)}

IsEarned(j) ==
  /\ j.verdict = "attested" => About(j) # {}
  /\ j.verified => \E a \in About(j) : a.source = j.source
  /\ j.expect # "" => j.source = j.expect /\ (j.verified \/ j.allow)
  /\ j.verdict = "match" => (j.digest = j.rebuilt \/ j.moved)

RootHolds(j) ==
  j.root = "embedded" /\ ~j.warned =>
    \A t \in j.at .. j.at + Window :
      /\ \E c \in Anchors[j.root].cas : activeAt(c, t) /\ t <= c.certs
      /\ \E l \in Anchors[j.root].logs : activeAt(l, t)

\* Every image that was accepted had a signature over its own repository and
\* digest, by the key that was named first or by the identity that was asked
\* for, or the preset's, under the root of that very job: what another job of
\* the process verified, or another image's signature put under the tag, lends
\* it nothing, and an identity left open accepts nobody.
AcceptedIsSigned == \A j \in done : IsSigned(j)

\* What `pokkum verify` says of an image: validated only by an attestation about
\* this digest that the key signed, its source verified only as that attestation
\* names it, the source expected is the one found, and a rebuild that matches
\* matches the image reported on, but for a tag that moves while it runs.
VerdictIsEarned == \A j \in done : j.kind = "verify" => IsEarned(j)

\* An embedded root that was used without a warning has, for the whole of the
\* window, an authority to issue a certificate and a log to record it.
UnwarnedRootHolds == \A j \in done : RootHolds(j)

EvidenceIsGenuine == AcceptedIsSigned /\ VerdictIsEarned /\ UnwarnedRootHolds

-----------------------------------------------------------------------------
(* The invariants that EvidenceIsGenuine follows from                        *)

Fields == {"kind", "up", "mode", "preset", "id", "keys", "expect", "allow", "rebuilt", "root",
           "warned", "key", "digest", "at", "signed", "attested", "verdict", "moved", "source",
           "verified"}
StepsOf(kind) ==
  CASE kind = "base"  -> {"base", "verifyBase"}
    [] kind = "cache" -> {"cache", "verifyCandidate"}
    [] OTHER          -> {"verify", "signature", "attestation", "decide", "compare", "report"}

\* A job is what was asked, with the first key that is set and a root that holds
\* or is warned about.
JobIsAsked ==
  step # "idle" =>
    /\ DOMAIN job = Fields /\ job.kind \in {"base", "cache", "verify"} /\ step \in StepsOf(job.kind)
    /\ job.up \in {"up", "fork"}
    /\ job.kind = "base" => job.mode \in Modes \cup {"auto"} /\ Preset[job.preset].mode \in Modes
    /\ job.key # "" => FirstKeyIs(job.keys, job.key)
    /\ step \notin {"base", "cache", "verify"} => job.digest \in Digests
    /\ job.kind # "verify" => job.verdict = "" /\ ~job.signed /\ ~job.attested
    /\ RootHolds(job)

\* An entry of the memo was verified: a signature over this repository and
\* digest, by this key or by this identity under this root, was fetched.
MemoIsEarned ==
  \A m \in memo :
    /\ m[2] \in Digests
    /\ \E l \in Layers(m[2]) :
         /\ l.typed /\ l.repo = m[1] /\ l.digest = m[2]
         /\ IF m[3] = "static-key" THEN l.signer = m[6] /\ m[6] # ""
            ELSE m[4] # NoId /\ l.signer = "cert" /\ l.cert.id = m[4] /\ l.cert.log \in Covers[m[5]]

\* Nothing is found out before there is an image, what was found out since is
\* earned, and a verdict is the last thing to be found.
FindingsAreEarned ==
  /\ step = "verify" => ~job.signed /\ ~job.attested /\ ~job.verified /\ job.verdict = ""
  /\ step \in StepsOf("verify") \ {"verify"} =>
       /\ job.signed => ByKey(job) \/ ByIdentity(job, job.id)
       /\ job.attested => About(job) # {}
       /\ job.verified => \E a \in About(job) : a.source = job.source
       /\ ~moved => job.digest = tag
       /\ job.verdict # "" => step = "report"
       /\ job.verdict = "signed" => job.signed
       /\ job.verdict = "attested" => job.attested
       /\ job.verdict = "match" => (job.digest = job.rebuilt \/ job.moved)
       /\ step \in {"compare", "report"} /\ job.expect # "" =>
            job.source = job.expect /\ (job.verified \/ job.allow)

IInv == JobIsAsked /\ MemoIsEarned /\ FindingsAreEarned /\ EvidenceIsGenuine
=============================================================================
