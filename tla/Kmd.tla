--------------------------------- MODULE Kmd ---------------------------------
(***************************************************************************)
(* The tt-kmd driver and the kernel tables of the processes that use it,   *)
(* as far as the library depends on them.  None of this code is in the     *)
(* repository: it is modelled from how the library uses it and from what   *)
(* the library's comments and vendor/tt-kmd/ioctl.h say of it.             *)
(*                                                                         *)
(* One device.  An open(2) of its node creates an open file description    *)
(* (a member of File), which descriptors and memory mappings refer to and  *)
(* which lives until the last of them is gone.  File descriptions are      *)
(* reused, so the model needs no counter; an instance has as many of them  *)
(* as there are slots and addresses, so that open(2) never lacks one.      *)
(***************************************************************************)
EXTENDS Naturals

CONSTANTS
  Proc,      \* processes
  File,      \* open file descriptions
  Fd,        \* descriptor slots, of all processes
  Addr,      \* addresses a window can be mapped at, in all processes
  ProcOf,    \* the process a slot or an address belongs to
  NoFile     \* an empty slot or an unmapped address

ASSUME KmdAssumption ==
  /\ NoFile \notin File
  /\ Fd \cap Addr = {}
  /\ \A x \in Fd \cup Addr : ProcOf[x] \in Proc

VARIABLES
  present,   \* the device node exists
  st,        \* what became of each file description
  excl,      \* file description was opened with O_EXCL
  fdtab,     \* descriptor slot -> file description
  vma        \* address -> file description mapped there

kmdVars == <<present, st, excl, fdtab, vma>>

\* "live": usable.  "stale": severed by a reset it did not issue; operations
\* on it fail with ENODEV.  "dead": its device instance was removed.
Status == {"free", "live", "stale", "dead"}

KmdTypeOK ==
  /\ present \in BOOLEAN
  /\ st \in [File -> Status]
  /\ excl \in [File -> BOOLEAN]
  /\ fdtab \in [Fd -> File \cup {NoFile}]
  /\ vma \in [Addr -> File \cup {NoFile}]

KmdInit ==
  /\ present = TRUE
  /\ st = [f \in File |-> "free"]
  /\ excl = [f \in File |-> FALSE]
  /\ fdtab = [d \in Fd |-> NoFile]
  /\ vma = [a \in Addr |-> NoFile]

------------------------------------------------------------------------------
(* Open-time arbitration: a reader/writer lock whose writer is O_EXCL.  A   *)
(* severed description counts until it is closed; one of a removed instance *)
(* does not, since a re-probed device is a new instance.                    *)

Holds(f) == st[f] \in {"live", "stale"}

CanOpen(e) == \A f \in File : Holds(f) => ~e /\ ~excl[f]

FreeFds(p) == {d \in Fd : ProcOf[d] = p /\ fdtab[d] = NoFile}

\* open(2) succeeds: slot d gets a new file description.
Grant(d, e) ==
  \E f \in File :
    /\ st[f] = "free"
    /\ st' = [st EXCEPT ![f] = "live"]
    /\ excl' = [excl EXCEPT ![f] = e]
    /\ fdtab' = [fdtab EXCEPT ![d] = f]
    /\ UNCHANGED <<present, vma>>

\* The tables become fds and maps; descriptions nothing refers to are freed.
Retain(fds, maps) ==
  LET InUse(f) == (\E d \in Fd : fds[d] = f) \/ (\E a \in Addr : maps[a] = f)
  IN  /\ fdtab' = fds
      /\ vma' = maps
      /\ st' = [f \in File |-> IF InUse(f) THEN st[f] ELSE "free"]
      /\ excl' = [f \in File |-> InUse(f) /\ excl[f]]
      /\ UNCHANGED present

\* close(2): the slot is freed whatever close(2) reports.
Release(d) == Retain([fdtab EXCEPT ![d] = NoFile], vma)

\* The errno of an ioctl(2) or mmap(2) on slot d that is otherwise valid.
Io(d) ==
  IF fdtab[d] = NoFile THEN "EBADF"
  ELSE IF st[fdtab[d]] = "live" THEN "OK" ELSE "ENODEV"

\* A reset severs every live description but those of the set spared.
Sever(spared) ==
  st' = [f \in File |-> IF st[f] = "live" /\ f \notin spared THEN "stale"
                        ELSE st[f]]

------------------------------------------------------------------------------
(* What happens to the device and to processes from outside.                *)

OobReset ==
  /\ present
  /\ Sever({})
  /\ UNCHANGED <<present, excl, fdtab, vma>>

Remove ==
  /\ present
  /\ present' = FALSE
  /\ st' = [f \in File |-> IF st[f] = "free" THEN "free" ELSE "dead"]
  /\ UNCHANGED <<excl, fdtab, vma>>

Reprobe ==
  /\ ~present
  /\ present' = TRUE
  /\ UNCHANGED <<st, excl, fdtab, vma>>

\* Process p dies; the kernel closes its descriptors and drops its mappings.
Exit(p) ==
  Retain([d \in Fd |-> IF ProcOf[d] = p THEN NoFile ELSE fdtab[d]],
         [a \in Addr |-> IF ProcOf[a] = p THEN NoFile ELSE vma[a]])
==============================================================================
