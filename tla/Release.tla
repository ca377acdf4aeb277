------------------------------- MODULE Release -------------------------------
(***************************************************************************)
(* What the builds of one repository promise about its tags and            *)
(* signatures, whatever they run in between: a build settles on a digest,  *)
(* points its release tags at it one by one, and reports success only when *)
(* all of them have been.  The digest is one it built itself, or, for a    *)
(* build that verifies what it reuses, one that is signed already.         *)
(***************************************************************************)
CONSTANTS
  Builders,     \* the builds
  ReleaseTags,  \* the tags every one of them releases under
  Digests, None,
  Own(_),       \* the digest a builder's own build produces
  Trusting      \* the builders that reuse digests without a signature

VARIABLES
  released,  \* where the release tags point
  sigs,      \* the digests with a signature in the registry
  claim,     \* the digest a build has settled on
  moved,     \* the release tags it has pointed at it
  outcome    \* "running", "ok", "failed"

releaseVars == <<released, sigs, claim, moved, outcome>>

Init ==
  /\ released = [t \in ReleaseTags |-> None]
  /\ sigs = {}
  /\ claim = [b \in Builders |-> None]
  /\ moved = [b \in Builders |-> {}]
  /\ outcome = [b \in Builders |-> "running"]

\* A build can settle again: a reuse that came to nothing becomes a build.
Settle(b) ==
  /\ \E d \in sigs \cup {Own(b), None} \cup (IF b \in Trusting THEN Digests ELSE {}) :
       claim' = [claim EXCEPT ![b] = d]
  /\ moved' = [moved EXCEPT ![b] = {}]
  /\ UNCHANGED <<released, sigs, outcome>>

\* The registry may have taken a request the build believes to have failed.
Point(b) ==
  /\ claim[b] # None
  /\ \E t \in ReleaseTags :
       /\ released' = [released EXCEPT ![t] = claim[b]]
       /\ moved' \in {[moved EXCEPT ![b] = @ \cup {t}], [moved EXCEPT ![b] = {}], moved}
  /\ claim' \in {claim, [claim EXCEPT ![b] = None]}
  /\ UNCHANGED <<sigs, outcome>>

\* Only what was built, and released, here is signed here.
Sign(b) ==
  /\ claim[b] = Own(b) /\ moved[b] = ReleaseTags
  /\ sigs' = sigs \cup {Own(b)}
  /\ UNCHANGED <<released, claim, moved, outcome>>

Finish(b) ==
  /\ \/ moved[b] = ReleaseTags /\ outcome' = [outcome EXCEPT ![b] = "ok"]
     \/ outcome' = [outcome EXCEPT ![b] = "failed"]
  /\ UNCHANGED <<released, sigs, claim, moved>>

Step(b) == outcome[b] = "running" /\ (Settle(b) \/ Point(b) \/ Sign(b) \/ Finish(b))

Spec == Init /\ [][\E b \in Builders : Step(b)]_releaseVars
=============================================================================
