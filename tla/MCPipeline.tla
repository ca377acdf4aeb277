----------------------------- MODULE MCPipeline -----------------------------
(* Instances of Pipeline for TLC: builders of one source. *)
EXTENDS Pipeline, TLC

CONSTANTS a, b, c, v1, latest, s1, s2, bunA, bunB

\* All builders build s1; s2 only has a cache tag.
SameSource == [x \in Builders |-> s1]

SameBun == [x \in Builders |-> bunA]
OwnBun == [x \in Builders |-> IF x = a THEN bunA ELSE bunB]

TagSymmetry == Permutations({v1, latest})
=============================================================================
