-------------------------------- MODULE MCPython --------------------------------
(* Instances of Python for TLC: two threads of one interpreter.             *)
EXTENDS Python, TLC

CONSTANTS t1, t2, p1, d1, d2, a1, a2, h1, o1, o2

OneProcess == [x \in {t1, t2, d1, d2, a1, a2} |-> p1]

Waits == [excl |-> FALSE, nonblock |-> FALSE, persist |-> TRUE]
Excludes == [excl |-> TRUE, nonblock |-> FALSE, persist |-> FALSE]

SomeOptions == [o \in {o1, o2} |-> IF o = o1 THEN {Waits} ELSE {Excludes}]

\* One thread uses all of one session, which the other calls; the other holds
\* the device for itself in between.  A power request and these two queries do
\* nothing to a session that telemetry does not.
Queries == {"info", "power", "fw_version"}
SomeUses == [t \in {t1, t2} |->
               [o \in {o1, o2} |->
                  CASE t = t1 /\ o = o1 -> Methods \ ({"call"} \cup Queries)
                    [] t = t1 /\ o = o2 -> {}
                    [] t = t2 /\ o = o1 -> {"call"}
                    [] t = t2 /\ o = o2 -> {"open", "close"} \cup Queries]]
==============================================================================
