------------------------------- MODULE MCReset -------------------------------
(* Instances of Reset for TLC.  No window is mapped, so Addr is empty.      *)
EXTENDS Reset, TLC

CONSTANTS c1, c2, p1, p2, d1, d2, d3

\* A process with a descriptor to spare and one without.
TwoProcesses == [x \in {c1, c2, d1, d2, d3} |-> IF x \in {c2, d3} THEN p2 ELSE p1]

FileSymmetry == Permutations(File)

Shared == {{}}
==============================================================================
