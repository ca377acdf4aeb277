------------------------------- MODULE Registry -------------------------------
(***************************************************************************)
(* The registry adapter: jobs that push to one repository at the same      *)
(* time, each its image under its tags, and then attach to it an SBOM, an  *)
(* attestation and a signature.  A registry may serve the Referrers API or *)
(* not.  Jobs may push the same digest: builds are reproducible.           *)
(*                                                                         *)
(* An attachment is the kind of document, the digest it is about and the   *)
(* job that made it.  Blobs are left to the library that uploads them.     *)
(***************************************************************************)
EXTENDS Naturals, FiniteSets, Sequences

CONSTANTS
  Jobs, Digests,
  Pushes,       \* [job -> what it pushes: see Push]
  NoDigest

Kinds == {"sbom", "att", "sig"}
Attachment == [kind: Kinds, subject: Digests, job: Jobs]

\* The tags of a push are not empty: tagsOrDefault gives it "latest".
Tags == UNION {{Pushes[j].tags[i] : i \in DOMAIN Pushes[j].tags} : j \in Jobs}
Push == [digest: Digests, tags: Seq(Tags), mode: {"referrer", "tag", "auto"}, signs: BOOLEAN]

\* What the jobs push; MCBuildSide checks it with TypeOK.
Assumed ==
  /\ Pushes \in [Jobs -> Push] /\ NoDigest \notin Digests
  /\ \A j \in Jobs : Pushes[j].tags # <<>>

VARIABLES
  api,        \* whether the registry serves the Referrers API
  manifests,  \* the digests it has
  named,      \* [tag -> the digest it names]
  attTags,    \* [digest -> [kind -> the attachment its tag names, in a set]]
  referrers,  \* the attachments the API lists
  refTag,     \* [digest -> the attachments the fallback tag of the API lists]
  at,         \* [job -> where it is]
  n,          \* [job -> the tag it is at]
  copy,       \* [job -> the fallback tag as it was read]
  reported,   \* [job -> the kinds it reported as attached]
  pointed     \* history: [job -> the tags that named its digest since it began]

registryVars == <<api, manifests, named, attTags, referrers, refTag>>
jobVars == <<at, n, copy, reported>>

Init ==
  /\ api \in BOOLEAN
  /\ manifests \in SUBSET Digests
  /\ named \in [Tags -> manifests \cup {NoDigest}]
  /\ attTags = [d \in Digests |-> [k \in Kinds |-> {}]]
  /\ referrers = {} /\ refTag = [d \in Digests |-> {}]
  /\ at = [j \in Jobs |-> "head"] /\ n = [j \in Jobs |-> 1]
  /\ copy = [j \in Jobs |-> {}] /\ reported = [j \in Jobs |-> {}]
  /\ pointed = [j \in Jobs |-> {}]

digest(j) == Pushes[j].digest
tagsOrDefault(j) == Pushes[j].tags
Goto(j, where) == at' = [at EXCEPT ![j] = where]

-----------------------------------------------------------------------------
(* Adapter.Push *)

\* After tag m: the next one, or the end of the push.
After(j, m, more) ==
  /\ n' = [n EXCEPT ![j] = m + 1]
  /\ Goto(j, IF m < Len(tagsOrDefault(j)) THEN more ELSE "sbom")
  /\ UNCHANGED <<copy, reported>>

\* A registry that has the digest is only asked for its tags.
digestExists(j) ==
  /\ at[j] = "head"
  /\ Goto(j, IF digest(j) \in manifests THEN "check" ELSE "write")
  /\ UNCHANGED <<registryVars, n, copy, reported>>

\* To write a manifest under a tag.
Name(j, t) ==
  /\ manifests' = manifests \cup {digest(j)}
  /\ named' = [named EXCEPT ![t] = digest(j)]
  /\ UNCHANGED <<api, attTags, referrers, refTag>>

\* The whole image goes up under the first tag, the manifest alone under the others.
writePayload(j) ==
  /\ at[j] = "write" /\ Name(j, tagsOrDefault(j)[n[j]]) /\ After(j, n[j], "write")

\* A tag that names the digest is left alone, any other and none is written.
NamesIt(j, t) == named[t] = digest(j)
reconcileTags(j) ==
  /\ at[j] = "check"
  /\ LET t == tagsOrDefault(j)[n[j]] IN
       \/ NamesIt(j, t) /\ After(j, n[j], "check")
       \/ ~NamesIt(j, t) /\ Goto(j, "retag") /\ UNCHANGED <<n, copy, reported>>
  /\ UNCHANGED registryVars

Retag(j) ==
  /\ at[j] = "retag" /\ Name(j, tagsOrDefault(j)[n[j]]) /\ After(j, n[j], "check")

\* A request that fails ends the push, with the tags written so far.
PushFails(j) ==
  /\ at[j] \in {"head", "write", "check", "retag"}
  /\ Goto(j, "failed") /\ UNCHANGED <<registryVars, n, copy, reported>>

-----------------------------------------------------------------------------
(* Attachments *)

Made(j, k) == [kind |-> k, subject |-> digest(j), job |-> j]
Next_kind(k) == CASE k = "sbom" -> "att" [] k = "att" -> "sig" [] k = "sig" -> "done"

\* What is reported, and what comes next: only a build that signs goes on.
Report(j, k) ==
  /\ reported' = [reported EXCEPT ![j] = @ \cup {k}]
  /\ UNCHANGED <<n, copy>>

\* Where a signature or an attestation is made a referrer.
Referring(k) == IF k = "att" THEN "att referrer" ELSE "sig referrer"
GoOn(j, k) == Goto(j, IF k = "sbom" /\ ~Pushes[j].signs THEN "done" ELSE Next_kind(k))

\* The tag of a digest and a kind names one attachment, the last one pushed.
pushTag(j, k) ==
  /\ attTags' = [attTags EXCEPT ![digest(j)][k] = {Made(j, k)}]
  /\ UNCHANGED <<api, manifests, named, referrers, refTag>>

\* Mutant: the attachment is also listed under the fallback tag.
referrersTagFallback_on == TRUE

\* The library lists an attachment with a subject in a tag of its own where the
\* registry has no API for it, by reading the tag and writing it back.  No
\* session asks for that.
referrersTagFallback == FALSE
pushReferrer(j, k) ==
  /\ api /\ referrers' = referrers \cup {Made(j, k)}
  /\ UNCHANGED <<api, manifests, named, attTags, refTag>>

ReadRefTag(j, k) ==
  /\ ~api /\ referrersTagFallback
  /\ copy' = [copy EXCEPT ![j] = refTag[digest(j)]]
  /\ Goto(j, "index") /\ UNCHANGED <<registryVars, n, reported>>

WriteRefTag(j) ==
  /\ at[j] = "index"
  /\ refTag' = [refTag EXCEPT ![digest(j)] = copy[j] \cup {Made(j, "sbom")}]
  /\ Report(j, "sbom") /\ GoOn(j, "sbom")
  /\ UNCHANGED <<api, manifests, named, attTags, referrers>>

\* An SBOM is a referrer, or has a tag, or has a tag only if the registry says
\* that it knows no referrers.  Another error of the registry ends it.
AttachSBOM(j) ==
  LET mode == Pushes[j].mode IN
  /\ at[j] = "sbom"
  /\ \/ mode = "tag" /\ pushTag(j, "sbom") /\ Report(j, "sbom") /\ GoOn(j, "sbom")
     \/ mode # "tag" /\ pushReferrer(j, "sbom") /\ Report(j, "sbom") /\ GoOn(j, "sbom")
     \/ mode # "tag" /\ ReadRefTag(j, "sbom")
     \/ /\ mode = "auto" /\ ~api /\ ~referrersTagFallback
        /\ pushTag(j, "sbom") /\ Report(j, "sbom") /\ GoOn(j, "sbom")
     \/ Goto(j, "failed") /\ UNCHANGED <<registryVars, n, copy, reported>>

\* A signature and an attestation have a tag.  They are made referrers as well:
\* a failure of that is a warning.
attachSupplyChainImage(j, k) ==
  /\ at[j] = k
  /\ \/ pushTag(j, k) /\ Report(j, k) /\ Goto(j, Referring(k))
     \/ Goto(j, "failed") /\ UNCHANGED <<registryVars, n, copy, reported>>

Refer(j, k) ==
  /\ at[j] = Referring(k) /\ GoOn(j, k)
  /\ (pushReferrer(j, k) \/ UNCHANGED registryVars)
  /\ UNCHANGED <<n, copy, reported>>

\* FetchSignature and FetchAttestation read the tag alone.
fetchAttachmentImage(d, k) == attTags[d][k]

-----------------------------------------------------------------------------
JobStep(j) ==
  \/ digestExists(j) \/ writePayload(j) \/ reconcileTags(j) \/ Retag(j) \/ PushFails(j)
  \/ AttachSBOM(j) \/ WriteRefTag(j)
  \/ \E k \in {"att", "sig"} : attachSupplyChainImage(j, k) \/ Refer(j, k)

Next ==
  /\ \E j \in Jobs : JobStep(j)
  /\ pointed' = [j \in Jobs |-> pointed[j] \cup
       {t \in Tags : named'[t] = digest(j) /\ at'[j] # "head"}]

Spec == Init /\ [][Next]_<<registryVars, jobVars, pointed>>

-----------------------------------------------------------------------------
Stages == {"head", "write", "check", "retag", "sbom", "index", "att", "att referrer", "sig",
           "sig referrer", "done", "failed"}

\* The type of the state.
TypeOK ==
  /\ manifests \subseteq Digests /\ named \in [Tags -> manifests \cup {NoDigest}]
  /\ attTags \in [Digests -> [Kinds -> SUBSET Attachment]]
  /\ \A d \in Digests, k \in Kinds : Cardinality(attTags[d][k]) <= 1
  /\ referrers \subseteq Attachment /\ refTag \in [Digests -> SUBSET Attachment]
  /\ at \in [Jobs -> Stages] /\ copy \in [Jobs -> SUBSET Attachment]
  /\ reported \in [Jobs -> SUBSET Kinds]
  /\ api \in BOOLEAN /\ n \in [Jobs -> Nat \ {0}] /\ pointed \in [Jobs -> SUBSET Tags]

Published(j) == at[j] \in Stages \ {"head", "write", "check", "retag", "failed"}

\* A push that succeeded has had every one of its tags name its digest while it
\* ran, whatever the registry held before and whoever pushed beside it: a tag
\* that names something else now was moved by a later push.
PushedTagsWereMoved ==
  \A j \in Jobs : Published(j) => \A i \in DOMAIN tagsOrDefault(j) : tagsOrDefault(j)[i] \in pointed[j]

\* Who asks a registry for the attachments of a digest: by its API, or by the
\* fallback tag where there is none.
Listed(d) == IF api THEN {r \in referrers : r.subject = d} ELSE refTag[d]

\* What a job reported as attached can be found where its kind and its mode say,
\* and is about what that job pushed.  A referrer is never lost; what a tag names
\* may be another job's, of the same kind and about the same digest.
AttachmentsAreFound ==
  \A j \in Jobs : \A k \in reported[j] :
    LET d == digest(j)
        byTag == \E a \in fetchAttachmentImage(d, k) : a.kind = k /\ a.subject = d
        listed == Made(j, k) \in Listed(d) IN
    /\ k # "sbom" \/ Pushes[j].mode = "tag" => byTag
    /\ k = "sbom" /\ Pushes[j].mode = "referrer" => listed
    /\ k = "sbom" /\ Pushes[j].mode = "auto" => listed \/ (~api /\ byTag)

-----------------------------------------------------------------------------
(* The invariants that PushedTagsWereMoved and AttachmentsAreFound follow    *)
(* from                                                                      *)

\* A push is at one of its tags, and those before it named its digest.  No
\* session keeps the list of a registry without the API.
TagsInOrder ==
  \A j \in Jobs :
    /\ at[j] # "index"
    /\ at[j] = "head" => n[j] = 1
    /\ at[j] \in {"head", "write", "check", "retag"} =>
         /\ n[j] \in DOMAIN tagsOrDefault(j)
         /\ \A i \in DOMAIN tagsOrDefault(j) : i < n[j] => tagsOrDefault(j)[i] \in pointed[j]

\* What the tag of a digest and a kind names is of that kind and about that digest.
TagsAreOfTheirKind ==
  \A d \in Digests, k \in Kinds : \A a \in attTags[d][k] : a.kind = k /\ a.subject = d

IInv == TagsInOrder /\ TagsAreOfTheirKind /\ PushedTagsWereMoved /\ AttachmentsAreFound
=============================================================================
