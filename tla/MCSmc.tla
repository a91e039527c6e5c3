-------------------------------- MODULE MCSmc --------------------------------
(* Instances of Smc for TLC: clients in processes of their own.             *)
EXTENDS Smc, TLC

CONSTANTS c1, c2, p1, p2, d1, d2, r1, r2

TwoProcesses == [x \in {c1, c2, d1, d2} |-> IF x \in {c2, d2} THEN p2 ELSE p1]

Shared == {{}}

ReqSymmetry == Permutations(Req)
SmcSymmetry == Permutations(File) \cup ReqSymmetry
\* What the steps and the mailbox depend on: op, ret and err only report.
MailView == <<kmdVars, fd, flags, req, pc, driverVars,
              spc, inCall, waited, spins, asleep, rsp>>
==============================================================================
