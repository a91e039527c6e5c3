------------------------------ MODULE MCSession ------------------------------
(* Instances of Session for TLC.  No window is mapped, so Addr is empty.    *)
EXTENDS Session

CONSTANTS c1, c2, p1, d1, d2

\* One process of two threads.
OneProcess == [x \in {c1, c2, d1, d2} |-> p1]

AllModes == SUBSET OpenFlags
==============================================================================
