--------------------------------- MODULE MCRust ---------------------------------
(* Instances of Rust for TLC: clients in processes of their own.            *)
EXTENDS Rust

CONSTANTS c1, c2, p1, p2, d1, d2, a1, a2, h1, h2, hi

TwoProcesses == [x \in {c1, c2, d1, d2, a1, a2} |-> IF x \in {c2, d2} THEN p2 ELSE p1]

OneOwner == [h \in {h1, h2} |-> c1]

\* One client uses it all, on persistent sessions of two kinds; the other holds the device.
Waits == [Blank EXCEPT !.persist = TRUE]
Excludes == [excl |-> TRUE, nonblock |-> TRUE, persist |-> TRUE]
SomeOptions == [c \in {c1, c2} |->
                  IF c = c1 THEN {Waits, Excludes}
                  ELSE {[Blank EXCEPT !.excl = TRUE, !.nonblock = TRUE]}]
SomeUses == [c \in {c1, c2} |-> IF c = c1 THEN Methods ELSE {"open", "close"}]
==============================================================================
