-------------------------------- MODULE MCQueue --------------------------------
(* Instances of Queue for TLC: a Rust and a Python session, in processes of *)
(* their own, and two handles.                                              *)
EXTENDS Queue, TLC

CONSTANTS c1, c2, p1, p2, d1, d2, r1, r2

TwoProcesses == [x \in {c1, c2, d1, d2} |-> IF x \in {c2, d2} THEN p2 ELSE p1]

OpensShared == {{}}

QueueSymmetry == Permutations(File) \cup Permutations(Req) \cup Permutations(Handle)
\* What the steps and the properties depend on: op, ret, err and rsp only
\* report.
QueueView == <<kmdVars, fd, flags, req, pc, driverVars,
               spc, inCall, waited, spins, asleep, queueVars>>
==============================================================================
