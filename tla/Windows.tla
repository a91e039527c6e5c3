-------------------------------- MODULE Windows --------------------------------
(***************************************************************************)
(* TLB windows as the driver keeps them, external like Kmd: a window is    *)
(* allocated to a file description and mapped at addresses of a process; a *)
(* mapping keeps the description alive (src/src/dev/tlb.c, tt_tlb_free).   *)
(***************************************************************************)
EXTENDS Session

CONSTANTS
  Window,     \* TLB windows of the device
  NoWindow,
  NoAddr      \* ptr is NULL

ASSUME WindowsAssumption ==
  /\ NoWindow \notin Window
  /\ NoAddr \notin Addr

VARIABLES
  holder,    \* the description a window is allocated to
  shows      \* the window mapped at an address

windowVars == <<holder, shows>>

WindowsTypeOK ==
  /\ holder \in [Window -> File \cup {NoFile}]
  /\ shows \in [Addr -> Window \cup {NoWindow}]

WindowsInit ==
  /\ holder = [w \in Window |-> NoFile]
  /\ shows = [a \in Addr |-> NoWindow]

\* A tt_tlb_t: its id and ptr.
Tlbs == [id: Window \cup {NoWindow}, ptr: Addr \cup {NoAddr}]
Unused == [id |-> NoWindow, ptr |-> NoAddr]

\* Windows of descriptions that are gone, or whose device is, are free again.
Reclaim ==
  holder' = [w \in Window |->
               IF holder[w] # NoFile /\ st'[holder[w]] \in {"free", "dead"} THEN NoFile
               ELSE holder[w]]

\* munmap(2) of address a, nothing if it is NULL.
Munmap(a) ==
  /\ Retain(fdtab, [b \in Addr |-> IF b = a THEN NoFile ELSE vma[b]])
  /\ shows' = [b \in Addr |-> IF b = a THEN NoWindow ELSE shows[b]]
  /\ Reclaim

FreeAddrs(p) == {a \in Addr : ProcOf[a] = p /\ vma[a] = NoFile}
==============================================================================
