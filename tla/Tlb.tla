---------------------------------- MODULE Tlb ----------------------------------
(***************************************************************************)
(* TLB windows (src/src/dev/tlb.c): tt_tlb_alloc, tt_tlb_bind and          *)
(* tt_tlb_free, over sessions that open, close, reopen and are severed     *)
(* (module Session).                                                       *)
(*                                                                         *)
(* A handle is a tt_tlb_t; it belongs to one client and is used with that  *)
(* client's session, whichever description that has by now.                *)
(* A client frees a handle once, whatever tt_tlb_free returns, as the      *)
(* bindings do.  Sizes and cache modes are abstracted to whether the mode  *)
(* is valid, a configuration to whether the driver accepts it.             *)
(***************************************************************************)
EXTENDS Windows

CONSTANTS
  Handle,
  Owner,      \* the client a handle belongs to
  FreesFirst  \* clients free their handles before they open a session again

ASSUME TlbAssumption ==
  /\ \A h \in Handle : Owner[h] \in Client
  /\ FreesFirst \in BOOLEAN

VARIABLES
  tlb,       \* the handles; id is NoWindow when one is not in use
  call       \* the client's latest TLB call: where it is, on which handle,
             \* the mapping tt_tlb_bind has made, the errno it will return

tlbVars == <<sessionVars, windowVars, tlb, call>>

Frame(at, h, new, err) == [at |-> at, h |-> h, new |-> new, err |-> err]

TlbTypeOK ==
  /\ SessionTypeOK
  /\ WindowsTypeOK
  /\ tlb \in [Handle -> Tlbs]
  /\ call \in [Client ->
       [at: {"idle", "undo", "configure", "replace", "cleanup", "free"},
        h: Handle, new: Addr \cup {NoAddr}, err: Codes]]

NoCall == Frame("idle", CHOOSE h \in Handle : TRUE, NoAddr, "OK")

TlbInit ==
  /\ SessionInit
  /\ WindowsInit
  /\ tlb = [h \in Handle |-> Unused]
  /\ call = [c \in Client |-> NoCall]

------------------------------------------------------------------------------
(* The driver's side.                                                       *)

\* The errno of an ioctl(2) or mmap(2) on c's session that names handle h's
\* window, which must be the session's.
WindowIo(c, h) ==
  IF SessionIo(c) = "OK" /\ holder[tlb[h].id] # FileOf(c) THEN "EINVAL"
  ELSE SessionIo(c)

\* FREE_TLB of handle h's window, which must not be mapped, with result r.
FreeTlb(c, h, r) ==
  LET mapped == \E a \in Addr : vma[a] = FileOf(c) /\ shows[a] = tlb[h].id
  IN  /\ r = IF WindowIo(c, h) = "OK" /\ mapped THEN "EINVAL" ELSE WindowIo(c, h)
      /\ holder' = IF r = "OK" THEN [holder EXCEPT ![tlb[h].id] = NoFile] ELSE holder

------------------------------------------------------------------------------
(* The library's operations.                                                *)

CanCall(c) == pc[c] = "idle" /\ call[c].at = "idle"

Handles(c) == {h \in Handle : Owner[h] = c /\ tlb[h].id # NoWindow}

\* A call o starts.  It returns r unless its frame says where it goes on.
Begin(c, o, frame, r) ==
  /\ CanCall(c)
  /\ call' = [call EXCEPT ![c] = frame]
  /\ Return(c, o, r)
  /\ UNCHANGED <<fd, flags, req, pc>>

Goto(c, at) == call' = [call EXCEPT ![c].at = at]

\* The call in progress returns r.
End(c, r) ==
  /\ call' = [call EXCEPT ![c] = Frame("idle", @.h, NoAddr, "OK")]
  /\ Return(c, op[c], r)
  /\ UNCHANGED <<fd, flags, req, pc>>

\* tt_tlb_alloc into a handle not in use.
AllocFail(c, h) ==
  /\ Owner[h] = c /\ tlb[h] = Unused
  /\ \E r \in Codes \ {"OK"} :
       /\ Begin(c, "tt_tlb_alloc", Frame("idle", h, NoAddr, "OK"), r)
       /\ \/ r = SessionIo(c)
          \/ SessionIo(c) = "OK" /\ r = "ENOMEM" /\ \A w \in Window : holder[w] # NoFile
  /\ UNCHANGED <<kmdVars, windowVars, tlb>>

\* The cache mode is looked at after the driver has allocated the window.
Alloc(c, h) ==
  /\ Owner[h] = c /\ tlb[h] = Unused
  /\ SessionIo(c) = "OK"
  /\ \E w \in Window :
       /\ holder[w] = NoFile
       /\ holder' = [holder EXCEPT ![w] = FileOf(c)]
       /\ tlb' = [tlb EXCEPT ![h] = [id |-> w, ptr |-> NoAddr]]
  /\ \E at \in {"idle", "undo"} :
       Begin(c, "tt_tlb_alloc", Frame(at, h, NoAddr, "OK"), "OK")
  /\ UNCHANGED <<kmdVars, shows>>

\* Mutant: the window is not freed when the mode is invalid.
AllocUndoLeaks(c) ==
  /\ call[c].at = "undo"
  /\ tlb' = [tlb EXCEPT ![call[c].h] = Unused]
  /\ End(c, "EINVAL")
  /\ UNCHANGED <<kmdVars, windowVars>>

\* An invalid mode: the window is freed and the result discarded.
AllocUndo(c) ==
  /\ call[c].at = "undo"
  /\ \E r \in Codes : FreeTlb(c, call[c].h, r)
  /\ tlb' = [tlb EXCEPT ![call[c].h] = Unused]
  /\ End(c, "EINVAL")
  /\ UNCHANGED <<kmdVars, shows>>

\* tt_tlb_bind on a closed session.
BindClosed(c, h) ==
  /\ h \in Handles(c)
  /\ fd[c] = NoFd
  /\ Begin(c, "tt_tlb_bind", Frame("idle", h, NoAddr, "OK"), "ENOTCONN")
  /\ UNCHANGED <<kmdVars, windowVars, tlb>>

\* Mutant: the old mapping is undone before the new one is made.
BindUnmapsFirst(c, h) ==
  /\ h \in Handles(c)
  /\ WindowIo(c, h) = "OK"
  /\ \E a \in FreeAddrs(Home[c]) \cup ({tlb[h].ptr} \ {NoAddr}) :
       /\ vma' = [vma EXCEPT ![tlb[h].ptr] = NoFile, ![a] = FileOf(c)]
       /\ shows' = [shows EXCEPT ![tlb[h].ptr] = NoWindow, ![a] = tlb[h].id]
       /\ Begin(c, "tt_tlb_bind", Frame("configure", h, a, "OK"), "OK")
  /\ tlb' = [tlb EXCEPT ![h].ptr = NoAddr]
  /\ UNCHANGED <<present, st, excl, fdtab, holder>>

\* tt_tlb_bind, up to its mmap(2), which picks an address that is not in use.
Bind(c, h) ==
  /\ h \in Handles(c)
  /\ WindowIo(c, h) = "OK"
  /\ \E a \in FreeAddrs(Home[c]) :
       /\ vma' = [vma EXCEPT ![a] = FileOf(c)]
       /\ shows' = [shows EXCEPT ![a] = tlb[h].id]
       /\ Begin(c, "tt_tlb_bind", Frame("configure", h, a, "OK"), "OK")
  /\ UNCHANGED <<present, st, excl, fdtab, holder, tlb>>

\* mmap(2) fails.
BindFail(c, h) ==
  /\ h \in Handles(c)
  /\ fd[c] # NoFd
  /\ \E r \in Codes \ {"OK"} :
       /\ Begin(c, "tt_tlb_bind", Frame("cleanup", h, NoAddr, r), "OK")
       /\ \/ r = WindowIo(c, h)
          \/ WindowIo(c, h) = "OK" /\ r = "ENOMEM" /\ FreeAddrs(Home[c]) = {}
  /\ UNCHANGED <<kmdVars, windowVars, tlb>>

\* The driver accepts the configuration.
Configure(c) ==
  /\ call[c].at = "configure"
  /\ WindowIo(c, call[c].h) = "OK"
  /\ Goto(c, "replace")
  /\ UNCHANGED <<sessionVars, windowVars, tlb>>

ConfigureErrors(c) == {WindowIo(c, call[c].h), "EINVAL"} \ {"OK"}

\* Mutant: the new mapping stays.
ConfigureFailLeaks(c) ==
  /\ call[c].at = "configure"
  /\ \E r \in ConfigureErrors(c) :
       call' = [call EXCEPT ![c] = Frame("cleanup", @.h, NoAddr, r)]
  /\ UNCHANGED <<sessionVars, windowVars, tlb>>

\* It does not: the new mapping is undone, and then the old one.
ConfigureFail(c) ==
  /\ call[c].at = "configure"
  /\ \E r \in ConfigureErrors(c) :
       call' = [call EXCEPT ![c] = Frame("cleanup", @.h, NoAddr, r)]
  /\ Munmap(call[c].new)
  /\ UNCHANGED <<sessVars, tlb>>

\* The old mapping of a rebind gives way to the new one.
Replace(c) ==
  /\ call[c].at = "replace"
  /\ Munmap(tlb[call[c].h].ptr)
  /\ tlb' = [tlb EXCEPT ![call[c].h].ptr = call[c].new]
  /\ End(c, "OK")

\* A failed bind leaves the handle unconfigured.
Cleanup(c) ==
  /\ call[c].at = "cleanup"
  /\ Munmap(tlb[call[c].h].ptr)
  /\ tlb' = [tlb EXCEPT ![call[c].h].ptr = NoAddr]
  /\ End(c, call[c].err)

\* Mutant: the session is checked before the window is unmapped.
FreeNeedsSession(c, h) ==
  /\ h \in Handles(c)
  /\ IF fd[c] = NoFd THEN UNCHANGED <<kmdVars, windowVars>> ELSE Munmap(tlb[h].ptr)
  /\ tlb' = [tlb EXCEPT ![h].ptr = NoAddr]
  /\ Begin(c, "tt_tlb_free", Frame("free", h, NoAddr, "OK"), "OK")

\* tt_tlb_free: the window is unmapped even if the session is closed ...
Free(c, h) ==
  /\ h \in Handles(c)
  /\ Munmap(tlb[h].ptr)
  /\ tlb' = [tlb EXCEPT ![h].ptr = NoAddr]
  /\ Begin(c, "tt_tlb_free", Frame("free", h, NoAddr, "OK"), "OK")

\* ... and freed if it is not.
FreeIoctl(c) ==
  /\ call[c].at = "free"
  /\ \E r \in Codes : FreeTlb(c, call[c].h, r) /\ End(c, r)
  /\ tlb' = [tlb EXCEPT ![call[c].h] = Unused]
  /\ UNCHANGED <<kmdVars, shows>>

TlbStep(c) ==
  \/ \E h \in Handle :
       \/ AllocFail(c, h) \/ Alloc(c, h)
       \/ BindClosed(c, h) \/ Bind(c, h) \/ BindFail(c, h)
       \/ Free(c, h)
  \/ AllocUndo(c) \/ Configure(c) \/ ConfigureFail(c) \/ Replace(c)
  \/ Cleanup(c) \/ FreeIoctl(c)

------------------------------------------------------------------------------
(* The surroundings.                                                        *)

\* The client's calls on its session.
TlbLifecycle(c) ==
  /\ call[c].at = "idle"
  /\ LifecycleStep(c)
  /\ FreesFirst /\ pc'[c] = "opening" => Handles(c) = {}
  /\ Reclaim
  /\ UNCHANGED <<shows, tlb, call>>

TlbExit(p) ==
  /\ ProcessExit(p)
  /\ Reclaim
  /\ shows' = [a \in Addr |-> IF ProcOf[a] = p THEN NoWindow ELSE shows[a]]
  /\ tlb' = [h \in Handle |-> IF Home[Owner[h]] = p THEN Unused ELSE tlb[h]]
  /\ call' = [c \in Client |-> IF Home[c] = p THEN NoCall ELSE call[c]]

TlbEnv == SessionEnv /\ Reclaim /\ UNCHANGED <<shows, tlb, call>>

TlbNext ==
  \/ \E c \in Client : TlbStep(c) \/ TlbLifecycle(c)
  \/ \E p \in Proc : TlbExit(p)
  \/ TlbEnv

TlbSpec == TlbInit /\ [][TlbNext]_tlbVars

------------------------------------------------------------------------------
(* Properties.                                                              *)

\* Every mapped address is the pointer of one handle in use or the mapping a
\* bind has just made, and shows that handle's window; no handle points at an
\* address that is not mapped: no failed bind, rebind, free or close leaves a
\* mapping behind or a pointer dangling.
MappingsOwned ==
  LET Bound == {h \in Handle : tlb[h].ptr # NoAddr}
      Binding == {c \in Client : call[c].new # NoAddr}
  IN  /\ \A h \in Bound : vma[tlb[h].ptr] # NoFile /\ shows[tlb[h].ptr] = tlb[h].id
      /\ \A c \in Binding : vma[call[c].new] # NoFile
      /\ \A a \in Addr : vma[a] # NoFile =>
           \/ \E h \in Bound : tlb[h].ptr = a
           \/ \E c \in Binding : call[c].new = a
      /\ \A g, h \in Bound : tlb[g].ptr = tlb[h].ptr => g = h
      /\ \A h \in Bound, c \in Binding : tlb[h].ptr # call[c].new

\* On a session that is open, handles and the windows the driver has allocated
\* to it correspond one to one: none is lost, none is used through two handles,
\* and no handle names a window of another session.
WindowsOwned ==
  \A c \in Client : FileOf(c) # NoFile /\ st[FileOf(c)] = "live" =>
    /\ \A w \in Window : holder[w] = FileOf(c) => \E h \in Handles(c) : tlb[h].id = w
    /\ \A h \in Handles(c) : holder[tlb[h].id] = FileOf(c)
    /\ \A g, h \in Handles(c) : tlb[g].id = tlb[h].id => g = h

\* EAGAIN means that another client holds the device (ttdal.h, tt_reopen), by
\* its session or by a window it has not freed: what a client has closed and
\* freed never stands in its own way.
RefusedByOthers ==
  [][\A c \in Client :
       /\ pc[c] = "opening" /\ pc'[c] = "idle" /\ ret'[c] = "EAGAIN"
       => \/ \E d \in Client \ {c} : FileOf(d) # NoFile /\ Holds(FileOf(d))
          \/ \E h \in Handle : /\ Owner[h] # c /\ tlb[h].ptr # NoAddr
                               /\ Holds(vma[tlb[h].ptr])]_tlbVars

\* Clients that reopen with handles they have not freed are also refused for the
\* windows these map, and for nothing else: every description that counts against
\* an open is the session of another client or is mapped by a handle, which
\* tt_tlb_free would undo even on a closed session.
RefusedByHolders ==
  [][\A c \in Client :
       /\ pc[c] = "opening" /\ pc'[c] = "idle" /\ ret'[c] = "EAGAIN"
       => \/ \E d \in Client \ {c} : FileOf(d) # NoFile /\ Holds(FileOf(d))
          \/ \E h \in Handle : tlb[h].ptr # NoAddr /\ Holds(vma[tlb[h].ptr])]_tlbVars
==============================================================================
