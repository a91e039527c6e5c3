--------------------------------- MODULE Calls ---------------------------------
(***************************************************************************)
(* The C calls the bindings make besides opening and closing, one step     *)
(* each: modules Tlb and Reset have their system calls.  A call is made on *)
(* descriptor d, which is NoFd when the session is closed, and reports r.  *)
(* Sizes, cache modes and NOC configurations are always of an enumeration  *)
(* here, so tt_tlb_alloc never undoes an allocation; the driver may refuse *)
(* a configuration.                                                        *)
(***************************************************************************)
EXTENDS Windows

CONSTANT PowerFlag   \* the power features a client may request

VARIABLE power       \* the features requested on a file description

callVars == <<kmdVars, windowVars, power>>

CallsTypeOK ==
  /\ SessionTypeOK
  /\ WindowsTypeOK
  /\ power \in [File -> SUBSET PowerFlag]

CallsInit ==
  /\ SessionInit
  /\ WindowsInit
  /\ power = [f \in File |-> {}]

FileAt(d) == IF d = NoFd THEN NoFile ELSE fdtab[d]

\* What is requested or allocated on a description ends with it.
Settle ==
  /\ Reclaim
  /\ power' = [f \in File |-> IF st'[f] = "free" THEN {} ELSE power[f]]

\* close(2) of descriptor d, if it is one.
CloseAt(d, r) ==
  \/ /\ FileAt(d) = NoFile
     /\ r = IF d = NoFd THEN "OK" ELSE "EBADF"
     /\ UNCHANGED kmdVars
  \/ /\ FileAt(d) # NoFile
     /\ Release(d)
     /\ \/ r = "OK"
        \/ CloseFails /\ st[FileAt(d)] # "live" /\ r = "EIO"

\* A call that is one ioctl on the session's descriptor: tt_dev_info, and all
\* that tt_telemetry shows a caller.
IoCall(d, r) ==
  /\ r = IF d = NoFd THEN "ENOTCONN" ELSE tt_fail_io(Io(d))
  /\ UNCHANGED callVars

\* tt_power: the request replaces the one made before on the descriptor.
tt_power(d, feats, r) ==
  /\ r = IF d = NoFd THEN "ENOTCONN" ELSE tt_fail_io(Io(d))
  /\ power' = IF r = "OK" THEN [power EXCEPT ![fdtab[d]] = feats] ELSE power
  /\ UNCHANGED <<kmdVars, windowVars>>

\* tt_tlb_alloc into *tlb, which becomes t.
tt_tlb_alloc(d, t, r) ==
  \/ /\ IoCall(d, r)
     /\ r # "OK"
     /\ t = Unused
  \/ /\ IoCall(d, "OK")
     /\ \A w \in Window : holder[w] # NoFile
     /\ t = Unused
     /\ r = "ENOMEM"
  \/ /\ d # NoFd
     /\ Io(d) = "OK"
     /\ r = "OK"
     /\ \E w \in Window :
          /\ holder[w] = NoFile
          /\ holder' = [holder EXCEPT ![w] = fdtab[d]]
          /\ t = [id |-> w, ptr |-> NoAddr]
     /\ UNCHANGED <<kmdVars, shows, power>>

\* The errno of an mmap(2) or ioctl(2) that names window w: it must be one of
\* the descriptor's.
NamedIo(d, w) ==
  IF Io(d) = "OK" /\ holder[w] # fdtab[d] THEN "EINVAL" ELSE tt_fail_io(Io(d))

\* The address of tlb is unmapped and its window mapped at address a instead,
\* nowhere if that is NoAddr.
Remap(d, tlb, a) ==
  /\ Retain(fdtab, [b \in Addr |-> IF b = a THEN fdtab[d]
                                   ELSE IF b = tlb.ptr THEN NoFile ELSE vma[b]])
  /\ shows' = [b \in Addr |-> IF b = a THEN tlb.id
                              ELSE IF b = tlb.ptr THEN NoWindow ELSE shows[b]]
  /\ Settle

\* tt_tlb_bind of tlb, which becomes t: a failure unmaps it, except on a closed
\* session.
tt_tlb_bind(d, p, tlb, t, r) ==
  \/ /\ d = NoFd
     /\ r = "ENOTCONN"
     /\ t = tlb
     /\ UNCHANGED callVars
  \/ /\ d # NoFd
     /\ \/ r = NamedIo(d, tlb.id) /\ r # "OK"
        \/ NamedIo(d, tlb.id) = "OK" /\ r = "EINVAL"
        \/ NamedIo(d, tlb.id) = "OK" /\ FreeAddrs(p) = {} /\ r = "ENOMEM"
     /\ t = [tlb EXCEPT !.ptr = NoAddr]
     /\ Remap(d, tlb, NoAddr)
  \/ /\ d # NoFd
     /\ NamedIo(d, tlb.id) = "OK"
     /\ r = "OK"
     /\ \E a \in FreeAddrs(p) :
          /\ t = [tlb EXCEPT !.ptr = a]
          /\ Remap(d, tlb, a)

\* tt_tlb_free of tlb: it is unmapped in any case, and its window is freed if it
\* is the descriptor's and not mapped elsewhere.
tt_tlb_free(d, tlb, r) ==
  LET elsewhere == \E a \in Addr \ {tlb.ptr} : vma[a] = FileAt(d) /\ shows[a] = tlb.id
  IN  /\ r = IF d = NoFd THEN "ENOTCONN"
             ELSE IF NamedIo(d, tlb.id) = "OK" /\ elsewhere THEN "EINVAL"
             ELSE NamedIo(d, tlb.id)
      /\ Retain(fdtab, [b \in Addr |-> IF b = tlb.ptr THEN NoFile ELSE vma[b]])
      /\ shows' = [b \in Addr |-> IF b = tlb.ptr THEN NoWindow ELSE shows[b]]
      /\ holder' = [w \in Window |->
                      IF r = "OK" /\ w = tlb.id THEN NoFile
                      ELSE IF holder[w] # NoFile /\ st'[holder[w]] \in {"free", "dead"}
                      THEN NoFile ELSE holder[w]]
      /\ power' = [f \in File |-> IF st'[f] = "free" THEN {} ELSE power[f]]

\* tt_reset in a process p without a session of its own: the exclusive open is
\* refused or granted, and then the sequence ends well or badly; no description
\* is there to be severed.
tt_reset(p, r) ==
  /\ r \in IF ~present \/ FreeFds(p) = {} THEN {"ENODEV"}
           ELSE IF ~CanOpen(TRUE) THEN {"EAGAIN"}
           ELSE {"OK", "EIO", "ECONNRESET", "ETIMEDOUT"}
  /\ UNCHANGED callVars

\* The same for a session whose descriptor was just closed, on kernel tables
\* that are those of the next state.
ResetResults ==
  IF ~present THEN {"ENODEV"}
  ELSE IF \E f \in File : st'[f] \in {"live", "stale"} THEN {"EAGAIN"}
  ELSE {"OK", "EIO", "ECONNRESET", "ETIMEDOUT"}
==============================================================================
