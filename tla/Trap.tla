---------------------------------- MODULE Trap ----------------------------------
(***************************************************************************)
(* The SIGBUS guard (src/src/trap.c) in one process: the range each thread *)
(* has armed, the handler that recovers a fault inside it, and the handler *)
(* it chains to.  An address stands for the whole of a mapped range.       *)
(*                                                                         *)
(* A disposition of ignoring the signal is the default one, as it is for a *)
(* fault.  A handler over the guard's that forwards to it makes no         *)
(* difference here, as siglongjmp restores the mask, so the handler the    *)
(* application may put over it is the one that restores the guard and      *)
(* raises the signal again (tests/trap.c, `reraise`).                      *)
(***************************************************************************)
CONSTANTS
  Thread,
  Addr,      \* addresses of the process where a window can be mapped
  NoAddr     \* NULL

ASSUME TrapAssumption == NoAddr \notin Addr

VARIABLES
  once,      \* the pthread_once of the installation
  before,    \* what SIGBUS did before the guard: a constant of the process
  prev,      \* the guard's copy of it
  disp,      \* what SIGBUS does now
  armed,     \* armed_ptr
  fate       \* how a fault ended the process, and whose access it was

trapVars == <<once, before, prev, disp, armed, fate>>

TrapTypeOK ==
  /\ once \in {"new", "running", "done"}
  /\ before \in {"default", "handler"}
  /\ prev \in {"default", "handler"}
  /\ disp \in {"before", "guard", "over", "default"}
  /\ armed \in [Thread -> Addr \cup {NoAddr}]
  /\ fate \in [end: {"alive", "killed", "handled", "lost"},
               who: {"nobody", "library", "application"}]

\* prev is static, hence SIG_DFL.
TrapInit ==
  /\ once = "new"
  /\ before \in {"default", "handler"}
  /\ prev = "default"
  /\ disp = "before"
  /\ armed = [t \in Thread |-> NoAddr]
  /\ fate = [end |-> "alive", who |-> "nobody"]

Alive == fate.end = "alive"
Ends(how, who) == fate' = [end |-> how, who |-> who]

\* install: sigaction changes the disposition, then prev is written.
Install ==
  /\ \/ once = "new" /\ once' = "running" /\ disp' = "guard" /\ prev' = prev
     \/ once = "running" /\ once' = "done" /\ prev' = before /\ disp' = disp
  /\ UNCHANGED <<before, armed, fate>>

tt_trap_arm(t, a) ==
  /\ once = "done"
  /\ armed' = [armed EXCEPT ![t] = a]
  /\ UNCHANGED <<once, before, prev, disp, fate>>

tt_trap_disarm(t) ==
  /\ armed' = [armed EXCEPT ![t] = NoAddr]
  /\ UNCHANGED <<once, before, prev, disp, fate>>

\* The application puts its handler over the guard's.
Cover ==
  /\ once = "done" /\ disp = "guard"
  /\ disp' = "over"
  /\ UNCHANGED <<once, before, prev, armed, fate>>

------------------------------------------------------------------------------
(* A fault of thread t at address a, by an access of who.                   *)

\* The end of handler, for a fault it does not own.
Chain(who) ==
  /\ UNCHANGED <<once, before, prev, armed>>
  /\ \/ prev = "handler" /\ Ends("handled", who) /\ UNCHANGED disp
     \/ prev = "default" /\ Ends("killed", who) /\ disp' = "default"

Recovers(t, a) == disp = "guard" /\ armed[t] = a

\* The jump out of handler.  Its target is a frame of the library, which is
\* gone if the application made the access.
Recover(t, who) ==
  /\ armed' = [armed EXCEPT ![t] = NoAddr]
  /\ IF who = "application" THEN Ends("lost", who) ELSE UNCHANGED fate
  /\ UNCHANGED <<once, before, prev, disp>>

\* Mutant: a signal raised again is taken for somebody else's.
RaiseAgainChains(t, who) == Chain(who)

\* handler, called for the signal raised again: the access is left to fault
\* once more if the thread has armed a range.
RaiseAgain(t, who) ==
  \/ /\ armed[t] # NoAddr
     /\ disp' = "guard"
     /\ UNCHANGED <<once, before, prev, armed, fate>>
  \/ /\ armed[t] = NoAddr
     /\ UNCHANGED <<once, before, prev, armed>>
     /\ \/ prev = "handler" /\ Ends("handled", who) /\ disp' = "guard"
        \/ prev = "default" /\ Ends("killed", who) /\ disp' = "default"

Fault(t, a, who) ==
  \/ disp = "guard" /\ Recovers(t, a) /\ Recover(t, who)
  \/ disp = "guard" /\ ~Recovers(t, a) /\ Chain(who)
  \/ disp = "over" /\ RaiseAgain(t, who)
  \/ /\ disp = "before"
     /\ Ends(IF before = "handler" THEN "handled" ELSE "killed", who)
     /\ UNCHANGED <<once, before, prev, disp, armed>>
==============================================================================
