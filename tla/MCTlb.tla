--------------------------------- MODULE MCTlb ---------------------------------
(* Instances of Tlb for TLC, with the history that Rebinds keeps.           *)
EXTENDS Rebinds, TLC

CONSTANTS c1, c2, p1, d1, d2, a1, a2, h1, h2, h3

\* Two threads of one process, which share its descriptors and addresses.
OneProcess == [x \in {c1, c2, d1, d2, a1, a2} |-> p1]

\* One thread has two handles.
Owners == [h \in {h1, h2, h3} |-> IF h = h3 THEN c2 ELSE c1]

SharedOrExclusive == {{}, {"EXCL", "NONBLOCK"}}

TlbSymmetry ==
  Permutations(File) \cup Permutations(Window) \cup Permutations(Addr) \cup Permutations(Fd)
==============================================================================
