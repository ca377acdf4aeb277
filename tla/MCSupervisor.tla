---------------------------- MODULE MCSupervisor ----------------------------
(* Instances of Supervisor for TLC. *)
EXTENDS Supervisor, TLC

CONSTANTS p1, p2, p3

ProcessIds == {p1, p2, p3}
TwoProcessIds == {p1, p2}

\* Pids are only compared.
PidSymmetry == Permutations(ProcessIds)
=============================================================================
