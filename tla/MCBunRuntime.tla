---------------------------- MODULE MCBunRuntime ----------------------------
(* Instances of BunRuntime for TLC: release keys, one of them pinned at     *)
(* compile time, and a stub; calls of a build, and of one beside it.        *)
EXTENDS BunRuntime, TLC

CONSTANTS c1, c2, c3, p1, p2, amd, arm, old, stub, new, older, forged

OneProcess == [c \in Calls |-> p1]
TwoProcesses == [c \in Calls |-> IF c = c3 THEN p2 ELSE p1]

\* Any release's manifest lists the file name, so an older one is signed too.
SignedFor == [k \in Keys |-> IF k = stub THEN {} ELSE {new, older}]
CompiledIn == [k \in Keys |-> IF k = old THEN older ELSE None]

=============================================================================
