------------------------------ MODULE PythonProofs ------------------------------
(***************************************************************************)
(* Theorems about Python, for any number of threads, Session and Tlb       *)
(* objects and reopen attempts: what a Window points at, and who closes    *)
(* which descriptor.  The second assumes that close(2) does not fail,      *)
(* which tt_reopen and Session.__exit__ would not report.                  *)
(***************************************************************************)
EXTENDS Python, TLAPS

------------------------------------------------------------------------------
(* What a Window points at.                                                 *)

\* A Tlb that points somewhere points at a mapping of its window, and no two at the
\* same address.
Pointed ==
  /\ vma = [a \in Addr |-> vma[a]] /\ shows = [a \in Addr |-> shows[a]]
  /\ tlb \in [Handle -> Tlbs]
  /\ windows \subseteq Handle
  /\ \A h \in Handle : tlb[h].ptr # NoAddr =>
       vma[tlb[h].ptr] # NoFile /\ shows[tlb[h].ptr] = tlb[h].id
  /\ \A g, h \in Handle : tlb[g].ptr # NoAddr /\ tlb[g].ptr = tlb[h].ptr => g = h

\* A step that changes no mapping and no Tlb.
LEMMA PointedStays ==
  ASSUME Pointed, UNCHANGED <<vma, shows, tlb>>, windows' \subseteq windows
  PROVE  Pointed'
  BY DEF Pointed

\* A step that gives Tlb h a new value new, and maps and unmaps no more than that
\* takes.
LEMMA PointedMoves ==
  ASSUME Pointed, NEW h \in Handle, NEW new \in Tlbs,
         tlb' = [tlb EXCEPT ![h] = new],
         vma' = [a \in Addr |-> vma'[a]], shows' = [a \in Addr |-> shows'[a]],
         \A a \in Addr \ {tlb[h].ptr, new.ptr} : vma'[a] = vma[a] /\ shows'[a] = shows[a],
         new.ptr # NoAddr =>
           vma[new.ptr] = NoFile /\ vma'[new.ptr] # NoFile /\ shows'[new.ptr] = new.id,
         windows' \subseteq Handle
  PROVE  Pointed'
  <1> USE WindowsAssumption
  <1>1. tlb'[h] = new /\ tlb' \in [Handle -> Tlbs] /\ \A g \in Handle \ {h} : tlb'[g] = tlb[g]
    BY DEF Pointed
  <1>2. ASSUME NEW g \in Handle \ {h}, tlb[g].ptr # NoAddr
        PROVE  /\ vma'[tlb[g].ptr] # NoFile /\ shows'[tlb[g].ptr] = tlb[g].id
               /\ tlb[g].ptr # new.ptr
    <2>1. /\ tlb[g].ptr \in Addr /\ vma[tlb[g].ptr] # NoFile /\ shows[tlb[g].ptr] = tlb[g].id
          /\ tlb[g].ptr # tlb[h].ptr
      BY <1>2 DEF Pointed, Tlbs
    <2>2. tlb[g].ptr # new.ptr
      BY <1>2, <2>1
    <2> QED
      BY <2>1, <2>2
  <1>3. \A g \in Handle : tlb'[g].ptr # NoAddr =>
          vma'[tlb'[g].ptr] # NoFile /\ shows'[tlb'[g].ptr] = tlb'[g].id
    BY <1>1, <1>2
  <1>4. \A g, k \in Handle : tlb'[g].ptr # NoAddr /\ tlb'[g].ptr = tlb'[k].ptr => g = k
    BY <1>1, <1>2 DEF Pointed
  <1> QED
    BY <1>1, <1>3, <1>4 DEF Pointed

\* The calls that open and close change no mapping.
LEMMA CallsMapNothing ==
  ASSUME NEW t \in Thread,
         \/ \E d, r : CloseAt(d, r)
         \/ Reopen(t) \/ OpenOk(t) \/ OpenFail(t) \/ SessionEnv
  PROVE  vma' = vma
  <1>1. ASSUME NEW d, NEW r, CloseAt(d, r)
        PROVE  vma' = vma
    BY <1>1 DEF CloseAt, Release, Retain, kmdVars
  <1>2. CASE Reopen(t)
    BY <1>2 DEF Reopen, tt_close, CloseCall, Release, Retain, kmdVars
  <1>3. CASE OpenOk(t)
    BY <1>3 DEF OpenOk, OpenGrants, Grant
  <1>4. CASE OpenFail(t) \/ SessionEnv
    BY <1>4 DEF OpenFail, SessionEnv, OobReset, Remove, Reprobe, kmdVars
  <1> QED
    BY <1>1, <1>2, <1>3, <1>4

\* An operation maps nothing; an allocation gives a Tlb a window.
LEMMA RunPoints ==
  ASSUME Pointed, NEW t \in Thread, NEW m \in Performed, NEW o, NEW d, NEW arg,
         m = "alloc" => arg.h \in Handle,
         NEW r \in Codes, Run(t, m, o, d, arg, r)
  PROVE  Pointed'
  <1> USE DEF callVars, kmdVars, windowVars, tlbVars
  <1>1. CASE InfoOp(d, r) \/ TelemetryOp(d, r) \/ VersionOp(d, r) \/ PowerOp(d, arg.feats, r)
    <2>1. UNCHANGED <<vma, shows, tlb, windows>>
      BY <1>1 DEF InfoOp, TelemetryOp, VersionOp, PowerOp, tt_power, IoCall
    <2> QED
      BY <2>1, PointedStays
  <1>2. CASE AllocOp(t, o, d, arg.h, r) /\ m = "alloc"
    <2> DEFINE h == arg.h
    <2>1. PICK new \in Tlbs : tt_tlb_alloc(d, new, r) /\ tlb' = [tlb EXCEPT ![h] = new]
      BY <1>2 DEF AllocOp
    <2>2. new.ptr = NoAddr /\ UNCHANGED <<vma, shows>>
      BY <2>1 DEF tt_tlb_alloc, IoCall, Unused
    <2>3. h \in Handle /\ windows' = windows
      BY <1>2 DEF AllocOp
    <2> HIDE DEF h
    <2>4. /\ vma' = [a \in Addr |-> vma'[a]] /\ shows' = [a \in Addr |-> shows'[a]]
          /\ windows' \subseteq Handle
      BY <2>2, <2>3 DEF Pointed
    <2> QED
      BY <2>1, <2>2, <2>3, <2>4, PointedMoves
  <1> QED
    BY <1>1, <1>2 DEF Run, Performed

LEMMA BindPoints ==
  ASSUME Pointed, NEW t \in Thread, Bind(t)
  PROVE  Pointed'
  <1> USE WindowsAssumption
  <1>1. PICK h \in Handle, new \in Tlbs, r \in Codes :
          /\ tt_tlb_bind(raw[owner[h].o].fd, Home[t], tlb[h], new, r)
          /\ tlb' = [tlb EXCEPT ![h] = new]
          /\ windows' = IF r = "OK" THEN windows \cup {h} ELSE windows
    BY DEF Bind
  <1> DEFINE d == raw[owner[h].o].fd
  <1>2. tlb[h] \in Tlbs /\ windows' \subseteq Handle
    BY <1>1 DEF Pointed
  <1>3. tt_tlb_bind(d, Home[t], tlb[h], new, r)
    BY <1>1
  <1> HIDE DEF d
  <1>4. CASE d = NoFd
    <2>1. UNCHANGED <<vma, shows>> /\ new = tlb[h] /\ r # "OK"
      BY <1>3, <1>4 DEF tt_tlb_bind, callVars, kmdVars, windowVars
    <2>2. tlb' = tlb
      BY <1>1, <2>1 DEF Pointed
    <2> QED
      BY <1>1, <2>1, <2>2, PointedStays
  <1>5. ASSUME NEW a, Remap(d, tlb[h], a)
        PROVE  /\ vma' = [b \in Addr |-> vma'[b]] /\ shows' = [b \in Addr |-> shows'[b]]
               /\ \A b \in Addr \ {tlb[h].ptr, a} : vma'[b] = vma[b] /\ shows'[b] = shows[b]
               /\ a \in Addr => vma'[a] = fdtab[d] /\ shows'[a] = tlb[h].id
    BY <1>5 DEF Remap, Retain
  <1>6. CASE d # NoFd /\ r # "OK"
    <2>1. Remap(d, tlb[h], NoAddr) /\ new = [tlb[h] EXCEPT !.ptr = NoAddr]
      BY <1>3, <1>6 DEF tt_tlb_bind
    <2>2. new.ptr = NoAddr
      BY <1>2, <2>1 DEF Tlbs
    <2>3. /\ vma' = [b \in Addr |-> vma'[b]] /\ shows' = [b \in Addr |-> shows'[b]]
          /\ \A b \in Addr \ {tlb[h].ptr, new.ptr} : vma'[b] = vma[b] /\ shows'[b] = shows[b]
      BY <1>5, <2>1, <2>2
    <2> QED
      BY <1>1, <1>2, <2>2, <2>3, PointedMoves
  <1>7. CASE d # NoFd /\ r = "OK"
    <2>1. NamedIo(d, tlb[h].id) = "OK"
      BY <1>3, <1>7 DEF tt_tlb_bind
    <2>2. PICK a \in FreeAddrs(Home[t]) :
            new = [tlb[h] EXCEPT !.ptr = a] /\ Remap(d, tlb[h], a)
      BY <1>3, <1>7, <2>1 DEF tt_tlb_bind
    <2>3. new.ptr = a /\ new.id = tlb[h].id /\ a \in Addr /\ vma[a] = NoFile
      BY <1>2, <2>2 DEF Tlbs, FreeAddrs
    <2>4. fdtab[d] # NoFile
      BY <2>1 DEF NamedIo, tt_fail_io, Io
    <2>5. /\ vma' = [b \in Addr |-> vma'[b]] /\ shows' = [b \in Addr |-> shows'[b]]
          /\ \A b \in Addr \ {tlb[h].ptr, new.ptr} : vma'[b] = vma[b] /\ shows'[b] = shows[b]
          /\ vma[new.ptr] = NoFile /\ vma'[new.ptr] # NoFile /\ shows'[new.ptr] = new.id
      BY <1>5, <2>2, <2>3, <2>4
    <2> QED
      BY <1>1, <1>2, <2>5, PointedMoves
  <1> QED
    BY <1>4, <1>6, <1>7

LEMMA FreePoints ==
  ASSUME Pointed, NEW t \in Thread, Free(t) \/ DropTlb(t)
  PROVE  Pointed'
  <1>1. ASSUME NEW d, NEW h \in Handle, NEW r, tt_tlb_free(d, tlb[h], r)
        PROVE  /\ vma' = [b \in Addr |-> IF b = tlb[h].ptr THEN NoFile ELSE vma[b]]
               /\ shows' = [b \in Addr |-> IF b = tlb[h].ptr THEN NoWindow ELSE shows[b]]
    BY <1>1 DEF tt_tlb_free, Retain
  <1>2. ASSUME NEW h \in Handle, NEW new \in Tlbs, new.ptr = NoAddr,
               tlb' = [tlb EXCEPT ![h] = new], windows' = windows,
               UNCHANGED <<vma, shows>> \/ \E d, r : tt_tlb_free(d, tlb[h], r)
        PROVE  Pointed'
    <2>1. /\ vma' = [b \in Addr |-> vma'[b]] /\ shows' = [b \in Addr |-> shows'[b]]
          /\ \A b \in Addr \ {tlb[h].ptr, new.ptr} : vma'[b] = vma[b] /\ shows'[b] = shows[b]
      BY <1>1, <1>2 DEF Pointed
    <2>2. windows' \subseteq Handle
      BY <1>2 DEF Pointed
    <2> QED
      BY <1>2, <2>1, <2>2, PointedMoves
  <1>3. Unused \in Tlbs /\ Unused.ptr = NoAddr
    BY DEF Unused, Tlbs
  <1>4. CASE Free(t)
    <2>1. PICK h \in Handle, r \in Codes :
            /\ tt_tlb_free(raw[owner[h].o].fd, tlb[h], r)
            /\ tlb' = [tlb EXCEPT ![h] = Emptied(tlb[h], r)]
      BY <1>4 DEF Free
    <2>2. Emptied(tlb[h], r) \in Tlbs /\ Emptied(tlb[h], r).ptr = NoAddr
      BY DEF Pointed, Emptied, Tlbs
    <2>3. windows' = windows
      BY <1>4 DEF Free
    <2>4. \E d, e : tt_tlb_free(d, tlb[h], e)
      BY <2>1
    <2> QED
      BY <1>2, <2>1, <2>2, <2>3, <2>4
  <1>5. CASE DropTlb(t)
    <2>1. PICK h \in Handle :
            /\ tlb' = [tlb EXCEPT ![h] = Unused]
            /\ (\E d, r : tt_tlb_free(d, tlb[h], r)) \/ UNCHANGED callVars
      BY <1>5 DEF DropTlb
    <2>2. windows' = windows
      BY <1>5 DEF DropTlb
    <2>3. UNCHANGED <<vma, shows>> \/ \E d, r : tt_tlb_free(d, tlb[h], r)
      BY <2>1 DEF callVars, kmdVars, windowVars
    <2> QED
      BY <1>2, <1>3, <2>1, <2>2, <2>3
  <1> QED
    BY <1>4, <1>5

\* A method in progress, the object it uses and what it was given.
Placed(f) ==
  /\ f.at \in {"idle", "detached", "opening", "attach"}
  /\ f.m \in Performed \cup Detaching \cup {"close", "kmd_version"}
  /\ f.at = "idle" <=> f.m = "close"
  /\ f.m \notin {"close", "kmd_version"} => f.o \in Object
  /\ f.m \in {"open", "kmd_version"} => f.at \in {"opening", "attach"}
  /\ f.m \in {"reset", "call"} => f.at \in {"detached", "attach"}
  /\ f.m = "alloc" => f.arg.h \in Handle

\* What a step changes are functions.
Raws == raw = [o \in Object |-> [fd |-> raw[o].fd, flags |-> raw[o].flags]]
Framed ==
  /\ call = [t \in Thread |-> call[t]]
  /\ fd = [t \in Thread |-> fd[t]]
  /\ ret = [t \in Thread |-> ret[t]]
  /\ Raws
  /\ fdtab = [d \in Fd |-> fdtab[d]]

CallInv == Framed /\ \A t \in Thread : Placed(call[t])

LEMMA RawsMove ==
  ASSUME Raws, NEW o, NEW t,
         \/ raw' = raw
         \/ raw' = [raw EXCEPT ![o] = Closed]
         \/ raw' = [raw EXCEPT ![o].fd = NoFd]
         \/ raw' = [raw EXCEPT ![o] = Copy(t)]
  PROVE  Raws'
  <1>1. CASE raw' = raw
    BY <1>1 DEF Raws
  <1>2. ASSUME NEW d, NEW fl, raw' = [raw EXCEPT ![o] = [fd |-> d, flags |-> fl]]
        PROVE  Raws'
    BY <1>2 DEF Raws
  <1>3. CASE raw' = [raw EXCEPT ![o].fd = NoFd]
    <2>1. CASE o \in Object
      <3>1. raw[o] = [fd |-> raw[o].fd, flags |-> raw[o].flags]
        BY <2>1 DEF Raws
      <3>2. [raw[o] EXCEPT !.fd = NoFd] = [fd |-> NoFd, flags |-> raw[o].flags]
        BY <3>1
      <3> QED
        BY <1>2, <1>3, <3>2
    <2>2. CASE o \notin Object
      <3>1. raw' = raw
        BY <1>3, <2>2 DEF Raws
      <3> QED
        BY <1>1, <3>1
    <2> QED
      BY <2>1, <2>2
  <1> QED
    BY <1>1, <1>2, <1>3 DEF Closed, Copy

LEMMA IdleIsPlaced == Placed(Idle)
  BY DEF Placed, Idle, Frame

\* A step of thread t that puts it in frame f.
LEMMA FrameMoves ==
  ASSUME CallInv, NEW t \in Thread, NEW f, Placed(f), call' = [call EXCEPT ![t] = f]
  PROVE  /\ call' = [s \in Thread |-> call'[s]]
         /\ \A s \in Thread : Placed(call'[s])
  BY DEF CallInv, Framed, Raws

\* A frame that keeps the method.
LEMMA GotoIsPlaced ==
  ASSUME CallInv, NEW t \in Thread, NEW at, Goto(t, at),
         \/ at = "attach" /\ call[t].at # "idle"
         \/ at = "opening" /\ call[t].at = "detached" /\ call[t].m \notin {"reset", "call"}
  PROVE  /\ call' = [s \in Thread |-> call'[s]]
         /\ \A s \in Thread : Placed(call'[s])
  <1> DEFINE f == Frame(at, call[t].m, call[t].o, call[t].tries, call[t].arg)
  <1>1. Placed(call[t])
    BY DEF CallInv
  <1>2. Placed(f)
    BY <1>1 DEF Placed, Frame
  <1>3. call' = [call EXCEPT ![t] = f]
    BY DEF Goto
  <1> HIDE DEF f
  <1> QED
    BY <1>2, <1>3, FrameMoves

\* Detaching puts a thread in a frame too.
LEMMA DetachIsPlaced ==
  ASSUME CallInv, NEW t \in Thread, NEW m, NEW o \in Object, NEW tries, NEW arg,
         Detach(t, m, o, tries, arg), m \in Performed \cup {"reopen", "reset", "call"},
         m = "alloc" => arg.h \in Handle
  PROVE  /\ call' = [s \in Thread |-> call'[s]]
         /\ \A s \in Thread : Placed(call'[s])
  <1>1. Placed(Frame("detached", m, o, tries, arg))
    BY DEF Placed, Frame, Performed, Detaching
  <1>2. call' = [call EXCEPT ![t] = Frame("detached", m, o, tries, arg)]
    BY DEF Detach
  <1> QED
    BY <1>1, <1>2, FrameMoves

LEMMA FinishIsPlaced ==
  ASSUME CallInv, NEW t \in Thread, NEW r, Finish(t, r)
  PROVE  /\ call' = [s \in Thread |-> call'[s]]
         /\ \A s \in Thread : Placed(call'[s])
  BY IdleIsPlaced, FrameMoves DEF Finish

\* The calls keep the tables of descriptors functions.
LEMMA CallsFrame ==
  ASSUME Framed, NEW t \in Thread,
         \/ \E d, r : CloseAt(d, r)
         \/ Reopen(t) \/ OpenOk(t) \/ OpenFail(t)
  PROVE  fdtab' = [d \in Fd |-> fdtab'[d]]
  <1>1. ASSUME NEW d, NEW r, CloseAt(d, r)
        PROVE  fdtab' = [e \in Fd |-> fdtab'[e]]
    BY <1>1 DEF Framed, Raws, CloseAt, Release, Retain, kmdVars
  <1>2. CASE Reopen(t)
    BY <1>2 DEF Framed, Raws, Reopen, tt_close, CloseCall, Release, Retain, kmdVars
  <1>3. CASE OpenOk(t)
    BY <1>3 DEF Framed, Raws, OpenOk, OpenGrants, Grant
  <1>4. CASE OpenFail(t)
    BY <1>4 DEF Framed, Raws, OpenFail, kmdVars
  <1> QED
    BY <1>1, <1>2, <1>3, <1>4

\* An operation does not touch the descriptors.
LEMMA RunKeepsDescriptors ==
  ASSUME NEW t, NEW m \in Performed, NEW o, NEW d, NEW arg, NEW r, Run(t, m, o, d, arg, r)
  PROVE  fdtab' = fdtab
  <1>1. InfoOp(d, r) \/ TelemetryOp(d, r) \/ VersionOp(d, r)
          \/ PowerOp(d, arg.feats, r) \/ AllocOp(t, o, d, arg.h, r)
    BY DEF Run, Performed
  <1> QED
    BY <1>1 DEF InfoOp, TelemetryOp, VersionOp, PowerOp, AllocOp, tt_power, tt_tlb_alloc,
                IoCall, callVars, kmdVars

\* What a program does with a Tlb or a Window does not touch them either.
LEMMA TlbsKeepDescriptors ==
  ASSUME NEW t \in Thread, Bind(t) \/ Free(t) \/ DropWindow(t) \/ DropTlb(t)
  PROVE  UNCHANGED <<fd, ret, call, raw, made, fdtab>>
  <1> USE DEF kmdVars, sessVars, callVars, objectVars
  <1>1. ASSUME NEW d, NEW p, NEW old, NEW new, NEW r, tt_tlb_bind(d, p, old, new, r)
        PROVE  fdtab' = fdtab
    BY <1>1 DEF tt_tlb_bind, Remap, Retain
  <1>2. ASSUME NEW d, NEW old, NEW r, tt_tlb_free(d, old, r)
        PROVE  fdtab' = fdtab
    BY <1>2 DEF tt_tlb_free, Retain
  <1>3. CASE Bind(t)
    <2>1. \E d, p, old, new, r : tt_tlb_bind(d, p, old, new, r)
      BY <1>3 DEF Bind
    <2> QED
      BY <1>1, <1>3, <2>1 DEF Bind
  <1>4. CASE Free(t)
    <2>1. \E d, old, r : tt_tlb_free(d, old, r)
      BY <1>4 DEF Free
    <2> QED
      BY <1>2, <1>4, <2>1 DEF Free
  <1>5. CASE DropWindow(t)
    BY <1>5 DEF DropWindow, sessionVars
  <1>6. CASE DropTlb(t)
    <2>1. UNCHANGED callVars \/ \E d, old, r : tt_tlb_free(d, old, r)
      BY <1>6 DEF DropTlb
    <2> QED
      BY <1>2, <1>6, <2>1 DEF DropTlb
  <1> QED
    BY <1>3, <1>4, <1>5, <1>6

LEMMA ArgsPlaced ==
  ASSUME NEW t, NEW m, NEW arg \in Args(t, m), m = "alloc"
  PROVE  arg.h \in Handle
  BY DEF Args, NoArg

LEMMA ThreadStepPlaced ==
  ASSUME CallInv, NEW t \in Thread, ThreadStep(t)
  PROVE  CallInv'
  <1> USE DEF kmdVars, sessVars, callVars, objectVars
  <1>1. Framed /\ \A s \in Thread : Placed(call[s])
    BY DEF CallInv
  <1>2. ASSUME UNCHANGED call
        PROVE  /\ call' = [s \in Thread |-> call'[s]]
               /\ \A s \in Thread : Placed(call'[s])
    BY <1>1, <1>2 DEF Framed, Raws
  <1>3. CASE OpenCall(t) \/ VersionCall(t)
    <2>1. PICK f : call' = [call EXCEPT ![t] = f] /\ Placed(f)
      <3>1. CASE OpenCall(t)
        <4>1. PICK o \in Object : call' = [call EXCEPT ![t] = Frame("opening", "open", o, 0, NoArg)]
          BY <3>1 DEF OpenCall
        <4>2. Placed(Frame("opening", "open", o, 0, NoArg))
          BY DEF Placed, Frame, Detaching
        <4> QED
          BY <4>1, <4>2
      <3>2. CASE VersionCall(t)
        <4>1. Placed(Frame("opening", "kmd_version", NoOwner.o, 0, NoArg))
          BY DEF Placed, Frame
        <4> QED
          BY <3>2, <4>1 DEF VersionCall
      <3> QED
        BY <1>3, <3>1, <3>2
    <2>2. Framed'
      BY <1>1, <1>3, <2>1, FrameMoves DEF OpenCall, VersionCall, Open, Return, Framed, Raws
    <2> QED
      BY <2>1, <2>2, FrameMoves DEF CallInv
  <1>4. CASE DeviceReset(t)
    BY <1>1, <1>4 DEF DeviceReset, tt_reset, CallInv, Framed, Raws
  <1>5. CASE DropSession(t) \/ \E o \in Object : CloseSession(t, o)
    <2>1. UNCHANGED <<fd, ret, call>> /\ Raws'
      BY <1>1, <1>5, RawsMove DEF DropSession, CloseSession, Framed
    <2>2. fdtab' = [d \in Fd |-> fdtab'[d]]
      BY <1>1, <1>5, CallsFrame DEF DropSession, CloseSession
    <2> QED
      BY <1>1, <2>1, <2>2 DEF CallInv, Framed, Raws
  <1>6. ASSUME NEW m \in Performed, Perform(t, m)
        PROVE  CallInv'
    <2>1. PICK o \in Object, arg \in Args(t, m), r \in Codes :
            /\ Run(t, m, o, raw[o].fd, arg, r)
            /\ Detach(t, m, o, 0, arg) \/ UNCHANGED <<sessVars, call>>
      BY <1>6 DEF Perform
    <2>2. fdtab' = fdtab /\ raw' = raw
      BY <1>6, <2>1, RunKeepsDescriptors DEF Perform
    <2>3. /\ call' = [s \in Thread |-> call'[s]]
          /\ \A s \in Thread : Placed(call'[s])
      BY <1>2, <2>1, ArgsPlaced, DetachIsPlaced
    <2>4. fd' = [s \in Thread |-> fd'[s]] /\ ret' = ret
      BY <1>1, <2>1 DEF Detach, Framed, Raws
    <2> QED
      BY <1>1, <2>2, <2>3, <2>4 DEF CallInv, Framed, Raws
  <1>7. ASSUME NEW m \in Detaching, Borrow(t, m)
        PROVE  CallInv'
    <2>1. PICK o \in Object : Detach(t, m, o, 0, NoArg)
      BY <1>7 DEF Borrow
    <2>2. /\ call' = [s \in Thread |-> call'[s]]
          /\ \A s \in Thread : Placed(call'[s])
      BY <1>7, <2>1, DetachIsPlaced DEF Borrow, Detaching
    <2>3. fd' = [s \in Thread |-> fd'[s]] /\ UNCHANGED <<ret, fdtab, raw>>
      BY <1>1, <1>7, <2>1 DEF Borrow, Detach, Framed, Raws
    <2> QED
      BY <1>1, <2>2, <2>3 DEF CallInv, Framed, Raws
  <1>8. CASE Bind(t) \/ Free(t) \/ DropWindow(t) \/ DropTlb(t)
    <2>1. UNCHANGED <<fd, ret, call, raw, fdtab>>
      BY <1>8, TlbsKeepDescriptors
    <2> QED
      BY <1>1, <2>1 DEF CallInv, Framed, Raws
  <1> QED
    BY <1>3, <1>4, <1>5, <1>6, <1>7, <1>8 DEF ThreadStep

LEMMA CallStepPlaced ==
  ASSUME CallInv, NEW t \in Thread, CallStep(t)
  PROVE  CallInv'
  <1> USE DEF kmdVars, sessVars, callVars, objectVars
  <1>1. Framed /\ \A s \in Thread : Placed(call[s])
    BY DEF CallInv
  <1>2. CASE ReopenStart(t) \/ OpenReturn(t)
    <2>1. /\ call' = [s \in Thread |-> call'[s]]
          /\ \A s \in Thread : Placed(call'[s])
      BY <1>2, GotoIsPlaced DEF ReopenStart, OpenReturn
    <2>2. fdtab' = [d \in Fd |-> fdtab'[d]] /\ raw' = raw
      BY <1>1, <1>2, CallsFrame DEF ReopenStart, OpenReturn
    <2>3. fd' = [s \in Thread |-> fd'[s]] /\ ret' = [s \in Thread |-> ret'[s]]
      BY <1>1, <1>2 DEF ReopenStart, OpenReturn, Reopen, tt_close, OpenOk, OpenFail, Return, Framed, Raws
    <2> QED
      BY <1>1, <2>1, <2>2, <2>3 DEF CallInv, Framed, Raws
  <1>3. CASE ResetRun(t) \/ CallRun(t)
    <2>1. /\ call' = [s \in Thread |-> call'[s]]
          /\ \A s \in Thread : Placed(call'[s])
      BY <1>3, GotoIsPlaced DEF ResetRun, CallRun
    <2>2. fdtab' = [d \in Fd |-> fdtab'[d]] /\ raw' = raw
      BY <1>1, <1>3, CallsFrame DEF ResetRun, CallRun, IoCall, Framed, Raws
    <2>3. fd' = [s \in Thread |-> fd'[s]] /\ ret' = [s \in Thread |-> ret'[s]]
      BY <1>1, <1>3 DEF ResetRun, CallRun, Framed, Raws
    <2> QED
      BY <1>1, <2>1, <2>2, <2>3 DEF CallInv, Framed, Raws
  <1>4. ASSUME NEW r, Finish(t, r), Forget(t), fdtab' = [d \in Fd |-> fdtab'[d]],
               Raws'
        PROVE  CallInv'
    <2>1. /\ call' = [s \in Thread |-> call'[s]]
          /\ \A s \in Thread : Placed(call'[s])
      BY <1>4, FinishIsPlaced
    <2>2. fd' = [s \in Thread |-> fd'[s]] /\ ret' = [s \in Thread |-> ret'[s]]
      BY <1>1, <1>4 DEF Finish, Forget, Framed, Raws
    <2> QED
      BY <1>4, <2>1, <2>2 DEF CallInv, Framed, Raws
  <1>5. CASE AttachOpen(t) \/ Attach(t) \/ AttachCall(t) \/ VersionReturn(t)
    <2>1. Finish(t, "OK") /\ Forget(t)
      BY <1>5 DEF AttachOpen, Attach, AttachCall, VersionReturn, Done
    <2>2. fdtab' = [d \in Fd |-> fdtab'[d]]
      BY <1>1, <1>5, CallsFrame DEF AttachOpen, Attach, AttachCall, VersionReturn, Framed, Raws
    <2>3. Raws'
      BY <1>1, <1>5, RawsMove DEF AttachOpen, Attach, AttachCall, VersionReturn, Framed
    <2> QED
      BY <1>4, <2>1, <2>2, <2>3
  <1>6. CASE Again(t)
    <2> DEFINE f == call[t]
    <2>1. Placed(f) /\ f.m \in Performed /\ f.at = "attach" /\ f.o \in Object
      BY <1>1, <1>6 DEF Again, Placed, Performed
    <2>2. Raws'
      <3> PICK o \in Object : o = f.o
        BY <2>1
      <3>1. raw' = [raw EXCEPT ![o] = Copy(t)]
        BY <1>6 DEF Again
      <3>2. Raws
        BY <1>1 DEF Framed
      <3> HIDE DEF f
      <3> QED
        BY <3>1, <3>2, RawsMove
    <2>3. CASE ret[t] # "OK"
      BY <1>1, <1>4, <1>6, <2>2, <2>3 DEF Again, Framed, Raws
    <2>4. CASE ret[t] = "OK"
      <3>1. PICK r \in Codes :
              /\ Run(t, f.m, f.o, fd[t], f.arg, r)
              /\ \/ /\ call' = [call EXCEPT ![t] = Frame("detached", f.m, f.o, f.tries + 1, f.arg)]
                    /\ UNCHANGED sessVars
                 \/ Forget(t) /\ Finish(t, Outcome(r, f.tries + 1))
        BY <1>6, <2>4 DEF Again
      <3>2. fdtab' = fdtab
        BY <2>1, <3>1, RunKeepsDescriptors
      <3>3. CASE Forget(t) /\ Finish(t, Outcome(r, f.tries + 1))
        BY <1>1, <1>4, <2>2, <3>2, <3>3 DEF Framed, Raws
      <3>4. CASE /\ call' = [call EXCEPT ![t] = Frame("detached", f.m, f.o, f.tries + 1, f.arg)]
                 /\ UNCHANGED sessVars
        <4>1. Placed(Frame("detached", f.m, f.o, f.tries + 1, f.arg))
          BY <2>1 DEF Placed, Frame, Performed
        <4>2. /\ call' = [s \in Thread |-> call'[s]]
              /\ \A s \in Thread : Placed(call'[s])
          BY <3>4, <4>1, FrameMoves
        <4> QED
          BY <1>1, <2>2, <3>2, <3>4, <4>2 DEF CallInv, Framed, Raws
      <3> QED
        BY <3>1, <3>3, <3>4
    <2> QED
      BY <2>3, <2>4
  <1> QED
    BY <1>2, <1>3, <1>5, <1>6 DEF CallStep

\* So CallInv is an invariant.
LEMMA CallSteps == CallInv /\ [PythonNext]_allVars => CallInv'
  <1> SUFFICES ASSUME CallInv, [PythonNext]_allVars
               PROVE  CallInv'
    OBVIOUS
  <1>1. CASE Outside \/ UNCHANGED allVars
    <2>1. UNCHANGED <<fd, ret, call, raw, fdtab>>
      BY <1>1 DEF Outside, SessionEnv, OobReset, Remove, Reprobe, objectVars,
                  allVars, pyVars, sessionVars, sessVars, kmdVars
    <2> QED
      BY <2>1 DEF CallInv, Framed, Raws
  <1> QED
    BY <1>1, ThreadStepPlaced, CallStepPlaced DEF PythonNext

LEMMA CallStarts == PythonInit => CallInv
  <1> SUFFICES ASSUME PythonInit
               PROVE  CallInv
    OBVIOUS
  <1>1. Framed
    <2>1. /\ call = [t \in Thread |-> Idle] /\ raw = [o \in Object |-> Closed]
          /\ fd = [t \in Thread |-> NoFd] /\ ret = [t \in Thread |-> "OK"]
          /\ fdtab = [d \in Fd |-> NoFile]
      BY DEF PythonInit, CallsInit, SessionInit, KmdInit, Thread
    <2>2. Raws
      BY <2>1 DEF Raws, Closed
    <2> QED
      BY <2>1, <2>2 DEF Framed
  <1>2. \A t \in Thread : call[t] = Idle
    BY DEF PythonInit
  <1> QED
    BY <1>1, <1>2, IdleIsPlaced DEF CallInv

LEMMA ThreadStepPoints ==
  ASSUME CallInv, Pointed, NEW t \in Thread, ThreadStep(t)
  PROVE  Pointed'
  <1> USE DEF kmdVars, windowVars, callVars, tlbVars
  <1>1. CASE OpenCall(t) \/ VersionCall(t)
    <2>1. UNCHANGED <<vma, shows, tlb, windows>>
      BY <1>1 DEF OpenCall, VersionCall, Open
    <2> QED
      BY <2>1, PointedStays
  <1>2. CASE DeviceReset(t)
    <2>1. UNCHANGED <<vma, shows, tlb, windows>>
      BY <1>2 DEF DeviceReset, tt_reset
    <2> QED
      BY <2>1, PointedStays
  <1>3. CASE DropSession(t) \/ \E o \in Object : CloseSession(t, o)
    <2>1. UNCHANGED <<vma, shows, tlb, windows>>
      BY <1>3, CallsMapNothing DEF DropSession, CloseSession
    <2> QED
      BY <2>1, PointedStays
  <1>4. ASSUME NEW m \in Performed, Perform(t, m)
        PROVE  Pointed'
    BY <1>4, ArgsPlaced, RunPoints DEF Perform
  <1>5. ASSUME NEW m \in Detaching, Borrow(t, m)
        PROVE  Pointed'
    BY <1>5, PointedStays DEF Borrow
  <1>6. CASE DropWindow(t)
    <2>1. UNCHANGED <<vma, shows, tlb>> /\ windows' \subseteq windows
      BY <1>6 DEF DropWindow, sessionVars
    <2> QED
      BY <2>1, PointedStays
  <1> QED
    BY <1>1, <1>2, <1>3, <1>4, <1>5, <1>6, BindPoints, FreePoints DEF ThreadStep

LEMMA CallStepPoints ==
  ASSUME CallInv, Pointed, NEW t \in Thread, CallStep(t)
  PROVE  Pointed'
  <1> USE DEF kmdVars, windowVars, callVars, tlbVars
  <1>1. CASE ReopenStart(t) \/ OpenReturn(t) \/ ResetRun(t) \/ VersionReturn(t)
    <2>1. UNCHANGED <<vma, shows, tlb, windows>>
      BY <1>1, CallsMapNothing DEF ReopenStart, OpenReturn, ResetRun, VersionReturn
    <2> QED
      BY <2>1, PointedStays
  <1>2. CASE CallRun(t) \/ AttachOpen(t) \/ Attach(t) \/ AttachCall(t)
    <2>1. UNCHANGED <<vma, shows, tlb, windows>>
      BY <1>2 DEF CallRun, IoCall, AttachOpen, Attach, AttachCall
    <2> QED
      BY <2>1, PointedStays
  <1>3. CASE Again(t)
    <2>1. Placed(call[t]) /\ call[t].m \in Performed
      BY <1>3 DEF CallInv, Again
    <2>2. CASE ret[t] # "OK"
      <3>1. UNCHANGED <<vma, shows, tlb, windows>>
        BY <1>3, <2>2 DEF Again
      <3> QED
        BY <3>1, PointedStays
    <2>3. CASE ret[t] = "OK"
      <3>1. PICK r \in Codes : Run(t, call[t].m, call[t].o, fd[t], call[t].arg, r)
        BY <1>3, <2>3 DEF Again
      <3>2. call[t].m = "alloc" => call[t].arg.h \in Handle
        BY <2>1 DEF Placed
      <3> QED
        BY <2>1, <3>1, <3>2, RunPoints
    <2> QED
      BY <2>2, <2>3
  <1> QED
    BY <1>1, <1>2, <1>3 DEF CallStep

\* A Tlb with a Window is somebody's, and points nowhere only once it is freed or its
\* bind failed.  The Tlb that an allocation is to make is nobody's, and no other's.
Allocating(t) == call[t].m = "alloc"
Followed ==
  /\ owner = [h \in Handle |-> owner[h]] /\ freed \in [Handle -> BOOLEAN]
  /\ \A h \in windows :
       owner[h] # NoOwner /\ (tlb[h].ptr = NoAddr <=> freed[h] \/ h \in unbound)
  /\ \A t \in Thread : Allocating(t) => owner[call[t].arg.h] = NoOwner
  /\ \A s, t \in Thread :
       Allocating(s) /\ Allocating(t) /\ call[s].arg.h = call[t].arg.h => s = t

\* A step that changes no Tlb and no Window but for dropping some, and puts at most
\* thread t in a frame f: an allocation there is the one it was in.
LEMMA FollowedStays ==
  ASSUME CallInv, Followed, UNCHANGED <<tlb, owner, freed, unbound>>,
         windows' \subseteq windows,
         \/ call' = call
         \/ \E t \in Thread : \E f :
              /\ call' = [call EXCEPT ![t] = f]
              /\ f.m = "alloc" => Allocating(t) /\ f.arg = call[t].arg
  PROVE  Followed'
  <1>1. CASE call' = call
    BY <1>1 DEF Followed, Allocating
  <1>2. ASSUME NEW t \in Thread, NEW f, call' = [call EXCEPT ![t] = f],
               f.m = "alloc" => Allocating(t) /\ f.arg = call[t].arg
        PROVE  Followed'
    <2>1. call'[t] = f /\ \A s \in Thread \ {t} : call'[s] = call[s]
      BY <1>2 DEF CallInv, Framed
    <2>2. \A s \in Thread : Allocating(s)' => Allocating(s) /\ call'[s].arg = call[s].arg
      <3> SUFFICES ASSUME NEW s \in Thread, Allocating(s)'
                   PROVE  Allocating(s) /\ call'[s].arg = call[s].arg
        OBVIOUS
      <3>1. CASE s = t
        <4>1. f.m = "alloc" /\ call'[s].arg = f.arg
          BY <2>1, <3>1 DEF Allocating
        <4> QED
          BY <1>2, <3>1, <4>1
      <3>2. CASE s # t
        BY <2>1, <3>2 DEF Allocating
      <3> QED
        BY <3>1, <3>2
    <2>3. \A s \in Thread : Allocating(s)' => owner'[call'[s].arg.h] = NoOwner
      BY <2>2 DEF Followed
    <2>4. \A r, s \in Thread :
            Allocating(r)' /\ Allocating(s)' /\ call'[r].arg.h = call'[s].arg.h => r = s
      BY <2>2 DEF Followed
    <2> QED
      BY <2>3, <2>4 DEF Followed
  <1> QED
    BY <1>1, <1>2

\* An operation of thread t on Tlb arg.h, which is nobody's nor another thread's to
\* make, after which t is in a frame f: one of the same allocation if it failed, and no
\* allocation otherwise.
Makes(t, m, arg) ==
  m = "alloc" =>
    /\ arg.h \in Handle /\ owner[arg.h] = NoOwner
    /\ \A s \in Thread \ {t} : Allocating(s) => call[s].arg.h # arg.h
Retries(f, m, arg, r) == f.m = "alloc" => m = "alloc" /\ f.arg = arg /\ r # "OK"

LEMMA RunFollows ==
  ASSUME CallInv, Followed, NEW t \in Thread, NEW m \in Performed, NEW o, NEW d,
         NEW arg, NEW r \in Codes, Run(t, m, o, d, arg, r),
         Makes(t, m, arg), NEW f, call' = [call EXCEPT ![t] = f], Retries(f, m, arg, r)
  PROVE  Followed'
  <1> USE DEF Makes, Retries
  <1>1. call'[t] = f /\ \A s \in Thread \ {t} : call'[s] = call[s]
    BY DEF CallInv, Framed
  <1>2. CASE m = "alloc"
    <2> DEFINE h == arg.h
    <2>1. AllocOp(t, o, d, h, r)
      BY <1>2 DEF Run
    <2>2. /\ h \in Handle /\ owner[h] = NoOwner
          /\ \A s \in Thread \ {t} : Allocating(s) => call[s].arg.h # h
          /\ f.m = "alloc" => f.arg.h = h
      BY <1>2
    <2> HIDE DEF h
    <2>3. PICK new \in Tlbs : tlb' = [tlb EXCEPT ![h] = new]
      BY <2>1 DEF AllocOp
    <2>4. /\ owner' = IF r = "OK" THEN [owner EXCEPT ![h] = [o |-> o, t |-> t]] ELSE owner
          /\ freed' = [freed EXCEPT ![h] = FALSE]
          /\ UNCHANGED <<windows, unbound>>
      BY <2>1 DEF AllocOp
    <2>5. h \notin windows
      BY <2>2 DEF Followed
    <2>6. owner' = [g \in Handle |-> owner'[g]] /\ freed' \in [Handle -> BOOLEAN]
      BY <2>4 DEF Followed
    <2>7. \A g : g # h => owner'[g] = owner[g] /\ freed'[g] = freed[g] /\ tlb'[g] = tlb[g]
      BY <2>3, <2>4
    <2>8. \A g \in windows' :
            owner'[g] # NoOwner /\ (tlb'[g].ptr = NoAddr <=> freed'[g] \/ g \in unbound')
      BY <2>4, <2>5, <2>7 DEF Followed
    <2>9. \A s \in Thread : Allocating(s)' => owner'[call'[s].arg.h] = NoOwner
      <3>1. ASSUME NEW s \in Thread \ {t}, Allocating(s)'
            PROVE  owner'[call'[s].arg.h] = NoOwner
        <4>1. Allocating(s) /\ call'[s] = call[s]
          BY <1>1, <3>1 DEF Allocating
        <4>2. call[s].arg.h # h
          BY <2>2, <3>1, <4>1
        <4>3. owner[call[s].arg.h] = NoOwner
          BY <4>1 DEF Followed
        <4>4. owner'[call[s].arg.h] = owner[call[s].arg.h]
          BY <2>7, <4>2
        <4> QED
          BY <4>1, <4>3, <4>4
      <3>2. Allocating(t)' => owner'[call'[t].arg.h] = NoOwner
        BY <1>1, <2>2, <2>4 DEF Allocating
      <3> QED
        BY <3>1, <3>2
    <2>10. \A s, u \in Thread :
             Allocating(s)' /\ Allocating(u)' /\ call'[s].arg.h = call'[u].arg.h => s = u
      <3>1. Allocating(t)' => call'[t].arg.h = h
        BY <1>1, <2>2 DEF Allocating
      <3>2. \A s \in Thread \ {t} :
              Allocating(s)' => Allocating(s) /\ call'[s].arg.h = call[s].arg.h /\ call[s].arg.h # h
        BY <1>1, <2>2 DEF Allocating
      <3> QED
        BY <3>1, <3>2 DEF Followed
    <2> QED
      BY <2>6, <2>8, <2>9, <2>10 DEF Followed
  <1>3. CASE m # "alloc"
    <2>1. UNCHANGED tlbVars
      BY <1>3 DEF Run, Performed, InfoOp, TelemetryOp, VersionOp, PowerOp
    <2>2. windows' \subseteq windows
      BY <2>1 DEF tlbVars
    <2> QED
      BY <1>3, <2>1, <2>2, FollowedStays DEF tlbVars
  <1> QED
    BY <1>2, <1>3

\* A step that changes only Tlb h, which has an owner: to new, freed or not, and with
\* its bind failed or not, and so that it points nowhere only in those cases.
LEMMA TlbFollows ==
  ASSUME CallInv, Pointed, Followed, NEW h \in Handle, NEW new, NEW free \in BOOLEAN,
         owner[h] # NoOwner, UNCHANGED <<call, owner>>,
         tlb' = [tlb EXCEPT ![h] = new], freed' = [freed EXCEPT ![h] = free],
         windows' \subseteq windows \cup {h},
         \A g \in Handle \ {h} : g \in unbound' <=> g \in unbound,
         new.ptr = NoAddr <=> free \/ h \in unbound'
  PROVE  Followed'
  <1>1. /\ owner' = [g \in Handle |-> owner'[g]] /\ freed' \in [Handle -> BOOLEAN]
        /\ freed'[h] = free
    BY DEF Followed
  <1>2. tlb'[h] = new /\ \A g \in Handle \ {h} : tlb'[g] = tlb[g] /\ freed'[g] = freed[g]
    BY DEF Pointed, Followed
  <1>3. ASSUME NEW g \in windows'
        PROVE  owner'[g] # NoOwner /\ (tlb'[g].ptr = NoAddr <=> freed'[g] \/ g \in unbound')
    <2>1. CASE g = h
      BY <1>1, <1>2, <2>1
    <2>2. CASE g # h
      <3>1. g \in windows /\ g \in Handle \ {h}
        BY <1>3, <2>2 DEF Pointed
      <3>2. owner[g] # NoOwner /\ (tlb[g].ptr = NoAddr <=> freed[g] \/ g \in unbound)
        BY <3>1 DEF Followed
      <3>3. tlb'[g] = tlb[g] /\ freed'[g] = freed[g] /\ (g \in unbound' <=> g \in unbound)
        BY <1>2, <3>1
      <3> QED
        BY <3>2, <3>3
    <2> QED
      BY <2>1, <2>2
  <1> QED
    BY <1>1, <1>3 DEF Followed, Allocating

LEMMA MineIsOwned ==
  ASSUME NEW t \in Thread, NEW h, NEW m, Mine(t, h, m)
  PROVE  owner[h] # NoOwner
  BY PythonAssumption DEF Mine, NoOwner

LEMMA BindFollows ==
  ASSUME CallInv, Pointed, Followed, NEW t \in Thread, Bind(t)
  PROVE  Followed'
  <1> USE WindowsAssumption
  <1>1. PICK h \in Handle :
          /\ Mine(t, h, "bind") /\ ~freed[h]
          /\ \E new \in Tlbs, r \in Codes :
               /\ tt_tlb_bind(raw[owner[h].o].fd, Home[t], tlb[h], new, r)
               /\ tlb' = [tlb EXCEPT ![h] = new]
               /\ windows' = IF r = "OK" THEN windows \cup {h} ELSE windows
               /\ unbound' = IF r = "OK" THEN unbound \ {h}
                             ELSE IF r = "ENOTCONN" THEN unbound
                             ELSE unbound \cup {h}
    BY DEF Bind
  <1>2. PICK new \in Tlbs, r \in Codes :
          /\ tt_tlb_bind(raw[owner[h].o].fd, Home[t], tlb[h], new, r)
          /\ tlb' = [tlb EXCEPT ![h] = new]
          /\ windows' = IF r = "OK" THEN windows \cup {h} ELSE windows
          /\ unbound' = IF r = "OK" THEN unbound \ {h}
                        ELSE IF r = "ENOTCONN" THEN unbound
                        ELSE unbound \cup {h}
    BY <1>1
  <1>3. owner[h] # NoOwner /\ UNCHANGED <<call, owner, freed>> /\ freed[h] = freed'[h]
    BY <1>1, MineIsOwned DEF Bind
  <1>4. tlb[h] \in Tlbs /\ freed' = [freed EXCEPT ![h] = FALSE]
    BY <1>1, <1>3 DEF Pointed, Followed
  <1> DEFINE d == raw[owner[h].o].fd
  <1>5. tt_tlb_bind(d, Home[t], tlb[h], new, r)
    BY <1>2
  <1> HIDE DEF d
  <1>6. CASE d = NoFd
    <2>1. new = tlb[h] /\ r = "ENOTCONN"
      BY <1>5, <1>6 DEF tt_tlb_bind
    <2>2. UNCHANGED <<tlb, owner, freed, unbound, windows, call>>
      BY <1>2, <1>3, <2>1 DEF Pointed
    <2> QED
      BY <2>2, FollowedStays
  <1>7. CASE d # NoFd /\ r # "OK"
    <2>1. new = [tlb[h] EXCEPT !.ptr = NoAddr] /\ r # "ENOTCONN"
      BY <1>5, <1>7 DEF tt_tlb_bind, NamedIo, tt_fail_io, Io
    <2>2. new.ptr = NoAddr
      BY <2>1 DEF Pointed, Tlbs
    <2>3. windows' = windows /\ unbound' = unbound \cup {h}
      BY <1>2, <1>7, <2>1
    <2> QED
      BY <1>1, <1>2, <1>3, <1>4, <2>2, <2>3, TlbFollows
  <1>8. CASE d # NoFd /\ r = "OK"
    <2>1. PICK a \in FreeAddrs(Home[t]) : new = [tlb[h] EXCEPT !.ptr = a]
      BY <1>5, <1>8 DEF tt_tlb_bind
    <2>2. new.ptr # NoAddr
      BY <2>1 DEF Pointed, Tlbs, FreeAddrs
    <2>3. windows' = windows \cup {h} /\ unbound' = unbound \ {h}
      BY <1>2, <1>8
    <2> QED
      BY <1>1, <1>2, <1>3, <1>4, <2>2, <2>3, TlbFollows
  <1> QED
    BY <1>6, <1>7, <1>8

LEMMA FreeFollows ==
  ASSUME CallInv, Pointed, Followed, NEW t \in Thread,
         Free(t) \/ DropTlb(t) \/ DropWindow(t)
  PROVE  Followed'
  <1>1. CASE Free(t)
    <2>1. PICK h \in Handle :
            /\ Mine(t, h, "free")
            /\ \E r \in Codes : tlb' = [tlb EXCEPT ![h] = Emptied(tlb[h], r)]
            /\ freed' = [freed EXCEPT ![h] = TRUE]
      BY <1>1 DEF Free
    <2>2. PICK r \in Codes : tlb' = [tlb EXCEPT ![h] = Emptied(tlb[h], r)]
      BY <2>1
    <2>3. Emptied(tlb[h], r).ptr = NoAddr
      BY DEF Emptied
    <2>4. owner[h] # NoOwner
      BY <2>1, MineIsOwned
    <2>5. UNCHANGED <<call, owner, windows, unbound>>
      BY <1>1 DEF Free
    <2> QED
      BY <2>1, <2>2, <2>3, <2>4, <2>5, TlbFollows
  <1>2. CASE DropTlb(t)
    <2>1. PICK h \in Handle \ windows :
            /\ tlb' = [tlb EXCEPT ![h] = Unused]
            /\ owner' = [owner EXCEPT ![h] = NoOwner]
            /\ freed' = [freed EXCEPT ![h] = FALSE]
            /\ unbound' = unbound \ {h}
      BY <1>2 DEF DropTlb
    <2>2. UNCHANGED <<call, windows>>
      BY <1>2 DEF DropTlb
    <2>3. owner' = [g \in Handle |-> owner'[g]] /\ freed' \in [Handle -> BOOLEAN]
      BY <2>1 DEF Followed
    <2>4. \A g : owner[g] = NoOwner => owner'[g] = NoOwner
      BY <2>1 DEF Followed
    <2>5. \A g \in windows' :
            owner'[g] # NoOwner /\ (tlb'[g].ptr = NoAddr <=> freed'[g] \/ g \in unbound')
      BY <2>1, <2>2 DEF Pointed, Followed
    <2>6. \A s \in Thread : Allocating(s)' <=> Allocating(s)
      BY <2>2 DEF Allocating
    <2>7. \A s \in Thread : Allocating(s)' => owner'[call'[s].arg.h] = NoOwner
      BY <2>2, <2>4 DEF Followed, Allocating
    <2> QED
      BY <2>2, <2>3, <2>5, <2>7 DEF Followed, Allocating
  <1>3. CASE DropWindow(t)
    <2>1. UNCHANGED <<tlb, owner, freed, unbound, call>> /\ windows' \subseteq windows
      BY <1>3 DEF DropWindow
    <2> QED
      BY <2>1, FollowedStays
  <1> QED
    BY <1>1, <1>2, <1>3

LEMMA FrameHas ==
  ASSUME NEW at, NEW m, NEW o, NEW tries, NEW arg
  PROVE  Frame(at, m, o, tries, arg).m = m /\ Frame(at, m, o, tries, arg).arg = arg
  BY DEF Frame

LEMMA ThreadStepFollows ==
  ASSUME CallInv, Pointed, Followed, NEW t \in Thread, ThreadStep(t)
  PROVE  Followed'
  <1> USE DEF tlbVars
  <1>1. CASE OpenCall(t) \/ VersionCall(t)
    <2>1. UNCHANGED tlbVars
      BY <1>1 DEF OpenCall, VersionCall
    <2>2. PICK m, o : m # "alloc" /\ call' = [call EXCEPT ![t] = Frame("opening", m, o, 0, NoArg)]
      BY <1>1 DEF OpenCall, VersionCall
    <2> DEFINE f == Frame("opening", m, o, 0, NoArg)
    <2>3. call' = [call EXCEPT ![t] = f] /\ f.m # "alloc"
      BY <2>2, FrameHas
    <2> HIDE DEF f
    <2> QED
      BY <2>1, <2>3, FollowedStays
  <1>2. CASE DeviceReset(t) \/ DropSession(t) \/ \E o \in Object : CloseSession(t, o)
    <2>1. UNCHANGED <<tlbVars, call>>
      BY <1>2 DEF DeviceReset, DropSession, CloseSession
    <2> QED
      BY <2>1, FollowedStays
  <1>3. ASSUME NEW m \in Performed, Perform(t, m)
        PROVE  Followed'
    <2>1. PICK o \in Object, arg \in Args(t, m), r \in Codes :
            /\ Can(t, m, o)
            /\ Run(t, m, o, raw[o].fd, arg, r)
            /\ IF persist[o] /\ Lost(r) THEN Detach(t, m, o, 0, arg)
               ELSE UNCHANGED <<sessVars, call>>
      BY <1>3 DEF Perform
    <2>2. Makes(t, m, arg)
      BY DEF Makes, Args, NoArg, Fresh, Allocating
    <2>3. call[t].m # "alloc"
      BY <2>1 DEF CallInv, Placed, Can
    <2>4. CASE UNCHANGED call
      <3>1. call' = [call EXCEPT ![t] = call[t]]
        BY <2>4 DEF CallInv, Framed
      <3> DEFINE f == call[t]
      <3>2. Retries(f, m, arg, r) /\ call' = [call EXCEPT ![t] = f]
        BY <2>3, <3>1 DEF Retries
      <3> HIDE DEF f
      <3> QED
        BY <2>1, <2>2, <3>2, RunFollows
    <2>5. CASE Lost(r) /\ Detach(t, m, o, 0, arg)
      <3> DEFINE f == Frame("detached", m, o, 0, arg)
      <3>1. call' = [call EXCEPT ![t] = f] /\ f.m = m /\ f.arg = arg /\ r # "OK"
        BY <2>5, FrameHas DEF Detach, Lost
      <3> HIDE DEF f
      <3>2. Retries(f, m, arg, r)
        BY <3>1 DEF Retries
      <3>3. call' = [call EXCEPT ![t] = f]
        BY <3>1
      <3> QED
        BY <2>1, <2>2, <3>2, <3>3, RunFollows
    <2> QED
      BY <2>1, <2>4, <2>5
  <1>4. ASSUME NEW m \in Detaching, Borrow(t, m)
        PROVE  Followed'
    <2>1. UNCHANGED tlbVars
      BY <1>4 DEF Borrow
    <2>2. PICK o : m # "alloc" /\ call' = [call EXCEPT ![t] = Frame("detached", m, o, 0, NoArg)]
      BY <1>4 DEF Borrow, Detach, Detaching
    <2> DEFINE f == Frame("detached", m, o, 0, NoArg)
    <2>3. call' = [call EXCEPT ![t] = f] /\ f.m # "alloc"
      BY <2>2, FrameHas
    <2> HIDE DEF f
    <2> QED
      BY <2>1, <2>3, FollowedStays
  <1> QED
    BY <1>1, <1>2, <1>3, <1>4, BindFollows, FreeFollows DEF ThreadStep

LEMMA CallStepFollows ==
  ASSUME CallInv, Followed, NEW t \in Thread, CallStep(t)
  PROVE  Followed'
  <1> USE DEF tlbVars
  <1>1. ASSUME UNCHANGED tlbVars, NEW at, Goto(t, at)
        PROVE  Followed'
    <2> DEFINE f == Frame(at, call[t].m, call[t].o, call[t].tries, call[t].arg)
    <2>1. call' = [call EXCEPT ![t] = f] /\ f.m = call[t].m /\ f.arg = call[t].arg
      BY <1>1 DEF Goto, Frame
    <2> HIDE DEF f
    <2>2. f.m = "alloc" => Allocating(t) /\ f.arg = call[t].arg
      BY <2>1 DEF Allocating
    <2> QED
      BY <1>1, <2>1, <2>2, FollowedStays
  <1>2. CASE ReopenStart(t) \/ OpenReturn(t) \/ ResetRun(t) \/ CallRun(t)
    <2>1. UNCHANGED tlbVars /\ \E at : Goto(t, at)
      BY <1>2 DEF ReopenStart, OpenReturn, ResetRun, CallRun
    <2> QED
      BY <1>1, <2>1
  <1>3. Idle.m # "alloc"
    BY DEF Idle, Frame
  <1>4. CASE AttachOpen(t) \/ Attach(t) \/ AttachCall(t) \/ VersionReturn(t)
    <2>1. UNCHANGED tlbVars /\ call' = [call EXCEPT ![t] = Idle]
      BY <1>4 DEF AttachOpen, Attach, AttachCall, VersionReturn, Done, Finish
    <2> QED
      BY <1>3, <2>1, FollowedStays
  <1>5. CASE Again(t)
    <2> DEFINE m == call[t].m
               arg == call[t].arg
    <2>1. m \in Performed /\ Placed(call[t])
      BY <1>5 DEF CallInv, Again
    <2>2. CASE ret[t] # "OK"
      <3>1. UNCHANGED tlbVars /\ call' = [call EXCEPT ![t] = Idle]
        BY <1>5, <2>2 DEF Again, Finish
      <3> QED
        BY <1>3, <3>1, FollowedStays
    <2>3. CASE ret[t] = "OK"
      <3>1. PICK r \in Codes :
              /\ Run(t, m, call[t].o, fd[t], arg, r)
              /\ \/ /\ Lost(r)
                    /\ call' = [call EXCEPT ![t] =
                                  Frame("detached", m, call[t].o, call[t].tries + 1, arg)]
                 \/ call' = [call EXCEPT ![t] = Idle]
        BY <1>5, <2>3 DEF Again, Finish
      <3>2. Makes(t, m, arg)
        <4>1. m = "alloc" => Allocating(t)
          BY DEF Allocating
        <4> QED
          BY <2>1, <4>1 DEF Makes, Placed, Followed
      <3>3. PICK f : call' = [call EXCEPT ![t] = f] /\ Retries(f, m, arg, r)
        <4>1. CASE call' = [call EXCEPT ![t] = Idle]
          BY <1>3, <4>1 DEF Retries
        <4>2. CASE /\ Lost(r)
                   /\ call' = [call EXCEPT ![t] =
                                 Frame("detached", m, call[t].o, call[t].tries + 1, arg)]
          <5> DEFINE f == Frame("detached", m, call[t].o, call[t].tries + 1, arg)
          <5>1. Retries(f, m, arg, r)
            BY <4>2, FrameHas DEF Lost, Retries
          <5>2. call' = [call EXCEPT ![t] = f]
            BY <4>2
          <5> HIDE DEF f
          <5> QED
            BY <5>1, <5>2
        <4> QED
          BY <3>1, <4>1, <4>2
      <3> DEFINE o == call[t].o
                 d == fd[t]
      <3>4. Run(t, m, o, d, arg, r)
        BY <3>1
      <3>5. call' = [call EXCEPT ![t] = f]
        BY <3>3
      <3>6. Retries(f, m, arg, r)
        BY <3>3
      <3> HIDE DEF m, arg, o, d
      <3> QED
        BY <2>1, <3>2, <3>4, <3>5, <3>6, RunFollows
    <2> QED
      BY <2>2, <2>3
  <1> QED
    BY <1>2, <1>4, <1>5 DEF CallStep

\* Whatever is rebound, freed, dropped, reopened, reset and removed, by however many
\* threads, a Window object uses its own window's mapping, and NULL once its Tlb was
\* freed or its last bind failed (tlb.rs, Window).
THEOREM PythonWindowsFollowTheirTlb == PythonSpec => []WindowsFollowTheirTlb
  <1>1. PythonInit => CallInv /\ Pointed /\ Followed
    <2> SUFFICES ASSUME PythonInit
                 PROVE  CallInv /\ Pointed /\ Followed
      OBVIOUS
    <2>1. Pointed
      BY DEF PythonInit, CallsInit, SessionInit, KmdInit, WindowsInit, Pointed, Tlbs, Unused
    <2>2. /\ owner = [h \in Handle |-> NoOwner] /\ freed = [h \in Handle |-> FALSE]
          /\ windows = {}
      BY DEF PythonInit
    <2>3. \A t \in Thread : ~Allocating(t)
      BY DEF PythonInit, Allocating, Idle, Frame
    <2> QED
      BY <2>1, <2>2, <2>3, CallStarts DEF Followed
  <1>2. CallInv /\ Pointed /\ Followed /\ [PythonNext]_allVars
          => CallInv' /\ Pointed' /\ Followed'
    <2> SUFFICES ASSUME CallInv, Pointed, Followed, [PythonNext]_allVars
                 PROVE  Pointed' /\ Followed'
      BY CallSteps
    <2>1. CASE Outside \/ UNCHANGED allVars
      <3>1. UNCHANGED <<vma, shows, tlbVars, call>>
        BY <2>1 DEF Outside, SessionEnv, OobReset, Remove, Reprobe, tlbVars,
                    allVars, pyVars, sessionVars, windowVars, kmdVars
      <3> QED
        BY <3>1, PointedStays, FollowedStays DEF tlbVars
    <2> QED
      BY <2>1, ThreadStepPoints, CallStepPoints, ThreadStepFollows, CallStepFollows
         DEF PythonNext
  <1>3. Pointed /\ Followed => WindowsFollowTheirTlb
    BY DEF Pointed, Followed, WindowsFollowTheirTlb
  <1> QED
    BY <1>1, <1>2, <1>3, PTL DEF PythonSpec

------------------------------------------------------------------------------
(* Who closes what.                                                         *)

\* The descriptor that is an object's to close, and the one that is a thread's.
HeldBy(o) ==
  IF o \in made /\ \A t \in Using(o) : call[t].m = "call" THEN raw[o].fd ELSE NoFd
CarriedBy(t) == IF call[t].m = "call" THEN NoFd ELSE fd[t]

\* The descriptors in use are each in one of those places.
Own ==
  /\ \A o \in Object : HeldBy(o) \in Fd \cup {NoFd}
  /\ \A t \in Thread : CarriedBy(t) \in Fd \cup {NoFd}
  /\ \A o, p \in Object : HeldBy(o) # NoFd /\ HeldBy(o) = HeldBy(p) => o = p
  /\ \A s, t \in Thread : CarriedBy(s) # NoFd /\ CarriedBy(s) = CarriedBy(t) => s = t
  /\ \A o \in Object, t \in Thread : HeldBy(o) # NoFd => HeldBy(o) # CarriedBy(t)
  /\ \A d \in Fd : fdtab[d] # NoFile <=> \/ \E o \in Object : HeldBy(o) = d
                                         \/ \E t \in Thread : CarriedBy(t) = d

\* An object is used by one thread, or by several that call it; a call's copy is
\* still the object's descriptor; a thread that waits in open(2), and one whose
\* open failed, has none.
Borrows ==
  /\ made \subseteq Object
  /\ \A o \in Object : \A s, t \in Using(o) : s # t => call[s].m = "call"
  /\ \A o \in Object : \A t \in Using(o) : call[t].m = "open" <=> o \notin made
  /\ \A t \in Thread : call[t].m = "call" => fd[t] = raw[call[t].o].fd
  /\ \A t \in Thread :
       \/ call[t].at \in {"idle", "opening"}
       \/ call[t].m = "open" /\ ret[t] # "OK"
       => fd[t] = NoFd

OwnInv == CallInv /\ Borrows /\ Own

OthersHold(o) == \A p \in Object \ {o} : HeldBy(p)' = HeldBy(p)
OthersCarry(t) == \A s \in Thread \ {t} : CarriedBy(s)' = CarriedBy(s)

LEMMA OwnStays ==
  ASSUME Own, fdtab' = fdtab, \A o \in Object : HeldBy(o)' = HeldBy(o),
         \A t \in Thread : CarriedBy(t)' = CarriedBy(t)
  PROVE  Own'
  BY DEF Own

\* A thread takes what its object holds,
LEMMA OwnTaken ==
  ASSUME Own, fdtab' = fdtab, NEW o \in Object, NEW t \in Thread,
         OthersHold(o), OthersCarry(t),
         CarriedBy(t) = NoFd, CarriedBy(t)' = HeldBy(o), HeldBy(o)' = NoFd
  PROVE  Own'
  BY SessionAssumption DEF Own, OthersHold, OthersCarry

\* and gives it back.
LEMMA OwnGiven ==
  ASSUME Own, fdtab' = fdtab, NEW o \in Object, NEW t \in Thread,
         OthersHold(o), OthersCarry(t),
         HeldBy(o) = NoFd, HeldBy(o)' = CarriedBy(t), CarriedBy(t)' = NoFd
  PROVE  Own'
  BY SessionAssumption DEF Own, OthersHold, OthersCarry

\* What a thread carries is closed, and what an object holds.
LEMMA OwnDropped ==
  ASSUME Own, NEW t \in Thread, OthersCarry(t),
         \A o \in Object : HeldBy(o)' = HeldBy(o),
         CarriedBy(t)' = NoFd,
         \A d \in Fd : fdtab'[d] = IF d = CarriedBy(t) THEN NoFile ELSE fdtab[d]
  PROVE  Own'
  BY SessionAssumption DEF Own, OthersCarry

LEMMA OwnClosed ==
  ASSUME Own, NEW o \in Object, OthersHold(o),
         \A t \in Thread : CarriedBy(t)' = CarriedBy(t),
         HeldBy(o)' = NoFd,
         \A d \in Fd : fdtab'[d] = IF d = HeldBy(o) THEN NoFile ELSE fdtab[d]
  PROVE  Own'
  BY SessionAssumption DEF Own, OthersHold

\* A thread opens.
LEMMA OwnOpened ==
  ASSUME Own, NEW t \in Thread, OthersCarry(t), NEW d \in Fd, fdtab[d] = NoFile,
         \A o \in Object : HeldBy(o)' = HeldBy(o),
         CarriedBy(t) = NoFd, CarriedBy(t)' = d,
         fdtab'[d] # NoFile, \A e \in Fd \ {d} : fdtab'[e] = fdtab[e]
  PROVE  Own'
  BY SessionAssumption DEF Own, OthersCarry

\* Unless close(2) fails it frees its slot, if there is one.
LEMMA Closes ==
  ASSUME ~CloseFails, Framed, NEW d \in Fd \cup {NoFd},
         d # NoFd => fdtab[d] # NoFile, NEW r, CloseAt(d, r)
  PROVE  /\ r = "OK"
         /\ \A e \in Fd : fdtab'[e] = IF e = d THEN NoFile ELSE fdtab[e]
  BY SessionAssumption DEF CloseAt, FileAt, Release, Retain, Framed, Raws, kmdVars

\* What thread t does with an object does not concern the others.
LEMMA OthersKeep ==
  ASSUME Framed, Framed', NEW t \in Thread,
         \A s \in Thread \ {t} : call'[s] = call[s] /\ fd'[s] = fd[s]
  PROVE  /\ OthersCarry(t)
         /\ \A o \in Object :
              /\ t \notin Using(o) /\ t \notin Using(o)'
              /\ raw'[o].fd = raw[o].fd /\ (o \in made' <=> o \in made)
              => HeldBy(o)' = HeldBy(o)
  <1>1. OthersCarry(t)
    BY DEF OthersCarry, CarriedBy
  <1>2. ASSUME NEW o \in Object, t \notin Using(o), t \notin Using(o)',
               raw'[o].fd = raw[o].fd, o \in made' <=> o \in made
        PROVE  HeldBy(o)' = HeldBy(o)
    <2>1. Using(o)' = Using(o) /\ \A s \in Using(o) : call'[s] = call[s]
      BY <1>2 DEF Using
    <2> QED
      BY <1>2, <2>1 DEF HeldBy
  <1> QED
    BY <1>1, <1>2

\* Nor does what it does with one that it alone uses, before or after,
OthersWait(t) ==
  \A s \in Thread \ {t} : call'[s] = call[s] /\ fd'[s] = fd[s] /\ ret'[s] = ret[s]

LEMMA BorrowsAlone ==
  ASSUME CallInv, CallInv', Borrows, NEW t \in Thread, NEW o \in Object, OthersWait(t),
         Using(o) \subseteq {t},
         \A p \in Object \ {o} : /\ t \notin Using(p) /\ t \notin Using(p)'
                                 /\ raw'[p].fd = raw[p].fd /\ (p \in made' <=> p \in made),
         made' \subseteq Object,
         t \in Using(o)' => (call'[t].m = "open" <=> o \notin made'),
         call'[t].m # "call",
         \/ call'[t].at \in {"idle", "opening"}
         \/ call'[t].m = "open" /\ ret'[t] # "OK"
         => fd'[t] = NoFd
  PROVE  Borrows'
  <1>1. \A p \in Object \ {o} : Using(p)' = Using(p) /\ t \notin Using(p)
    BY DEF Using, OthersWait
  <1>2. Using(o)' \subseteq {t}
    BY DEF Using, OthersWait
  <1>3. \A p \in Object : \A r, s \in Using(p)' : r # s => call'[r].m = "call"
    BY <1>1, <1>2 DEF Borrows, OthersWait, Using
  <1>4. \A p \in Object : \A s \in Using(p)' : call'[s].m = "open" <=> p \notin made'
    BY <1>1, <1>2 DEF Borrows, OthersWait, Using
  <1>5. ASSUME NEW s \in Thread, call'[s].m = "call"
        PROVE  fd'[s] = raw'[call'[s].o].fd
    <2>1. s # t /\ call'[s] = call[s] /\ fd'[s] = fd[s]
      BY <1>5 DEF OthersWait
    <2>2. call[s].o \in Object /\ s \in Using(call[s].o)
      BY <1>5, <2>1 DEF CallInv, Placed, Using
    <2>3. call[s].o # o
      BY <2>1, <2>2
    <2> QED
      BY <1>5, <2>1, <2>2, <2>3 DEF Borrows
  <1>6. \A s \in Thread :
          \/ call'[s].at \in {"idle", "opening"}
          \/ call'[s].m = "open" /\ ret'[s] # "OK"
          => fd'[s] = NoFd
    BY DEF Borrows, OthersWait
  <1> QED
    BY <1>3, <1>4, <1>5, <1>6 DEF Borrows

\* with one that it calls,
LEMMA BorrowsCalls ==
  ASSUME CallInv, CallInv', Borrows, NEW t \in Thread, NEW o \in Object, OthersWait(t),
         \A s \in Using(o) : call[s].m = "call", o \in made,
         \A p \in Object \ {o} : t \notin Using(p) /\ t \notin Using(p)',
         UNCHANGED <<raw, made>>,
         \/ call'[t].m = "call" /\ call'[t].o = o /\ fd'[t] = raw[o].fd
         \/ call'[t].m = "close" /\ fd'[t] = NoFd
  PROVE  Borrows'
  <1>1. \A p \in Object \ {o} : Using(p)' = Using(p) /\ t \notin Using(p)
    BY DEF Using, OthersWait
  <1>2. \A s \in Using(o)' : call'[s].m = "call"
    BY DEF Using, OthersWait, CallInv, Placed
  <1>3. \A p \in Object : \A r, s \in Using(p)' : r # s => call'[r].m = "call"
    BY <1>1, <1>2 DEF Borrows, OthersWait, Using
  <1>4. \A p \in Object : \A s \in Using(p)' : call'[s].m = "open" <=> p \notin made'
    BY <1>1, <1>2 DEF Borrows, OthersWait, Using
  <1>5. \A s \in Thread : call'[s].m = "call" => fd'[s] = raw'[call'[s].o].fd
    BY DEF Borrows, OthersWait
  <1>6. \A s \in Thread :
          \/ call'[s].at \in {"idle", "opening"}
          \/ call'[s].m = "open" /\ ret'[s] # "OK"
          => fd'[s] = NoFd
    BY DEF Borrows, OthersWait, CallInv, Placed
  <1> QED
    BY <1>3, <1>4, <1>5, <1>6 DEF Borrows

\* and what it does with none.
LEMMA BorrowsNone ==
  ASSUME CallInv, CallInv', Borrows, NEW t \in Thread, OthersWait(t),
         \A p \in Object : t \notin Using(p) /\ t \notin Using(p)',
         UNCHANGED <<raw, made>>,
         call'[t].m \in {"close", "kmd_version"},
         call'[t].at \in {"idle", "opening"} => fd'[t] = NoFd
  PROVE  Borrows'
  <1>1. \A p \in Object : Using(p)' = Using(p) /\ t \notin Using(p)
    BY DEF Using, OthersWait
  <1>2. \A p \in Object : \A r, s \in Using(p)' : r # s => call'[r].m = "call"
    BY <1>1 DEF Borrows, OthersWait, Using
  <1>3. \A p \in Object : \A s \in Using(p)' : call'[s].m = "open" <=> p \notin made'
    BY <1>1 DEF Borrows, OthersWait, Using
  <1>4. \A s \in Thread : call'[s].m = "call" => fd'[s] = raw'[call'[s].o].fd
    BY DEF Borrows, OthersWait
  <1>5. \A s \in Thread :
          \/ call'[s].at \in {"idle", "opening"}
          \/ call'[s].m = "open" /\ ret'[s] # "OK"
          => fd'[s] = NoFd
    BY DEF Borrows, OthersWait
  <1> QED
    BY <1>2, <1>3, <1>4, <1>5 DEF Borrows

\* A thread uses the object of its method, if that has one, and no other.
LEMMA UsesOne ==
  ASSUME CallInv, NEW t \in Thread
  PROVE  /\ call[t].m \in {"close", "kmd_version"} => \A o \in Object : t \notin Using(o)
         /\ call[t].m \notin {"close", "kmd_version"} =>
              /\ call[t].o \in Object /\ t \in Using(call[t].o)
              /\ \A o \in Object \ {call[t].o} : t \notin Using(o)
  BY DEF CallInv, Placed, Using

\* One that does not only call it is alone with it and carries its descriptor.
LEMMA UsesAlone ==
  ASSUME CallInv, Borrows, NEW t \in Thread,
         call[t].m \notin {"close", "kmd_version", "call"}
  PROVE  /\ Using(call[t].o) = {t}
         /\ HeldBy(call[t].o) = NoFd
         /\ call[t].m = "open" <=> call[t].o \notin made
         /\ CarriedBy(t) = fd[t]
  <1>1. call[t].o \in Object /\ t \in Using(call[t].o)
    BY UsesOne
  <1>2. Using(call[t].o) = {t}
    BY <1>1 DEF Borrows
  <1> QED
    BY <1>1, <1>2 DEF HeldBy, CarriedBy, Borrows

\* What an object that at most one thread uses holds.
LEMMA HeldAlone ==
  ASSUME NEW t, NEW o, Using(o) \subseteq {t}, t \in Using(o) => call[t].m # "call"
  PROVE  HeldBy(o) = IF o \in made /\ t \notin Using(o) THEN raw[o].fd ELSE NoFd
  BY DEF HeldBy

\* A method takes its object.
LEMMA TakeOwns ==
  ASSUME OwnInv, CallInv', NEW t \in Thread, call[t].at = "idle",
         NEW o \in Object, Exclusively(o),
         NEW m \in Performed \cup {"reopen", "reset"}, NEW tries, NEW arg,
         Detach(t, m, o, tries, arg), UNCHANGED <<fdtab, raw, made>>
  PROVE  Borrows' /\ Own'
  <1>1. Framed /\ Framed' /\ Placed(call[t]) /\ Borrows /\ Own /\ CallInv
    BY DEF OwnInv, CallInv
  <1>2. call[t].m = "close" /\ fd[t] = NoFd
    BY <1>1 DEF Placed, Borrows
  <1>3. /\ call'[t].at = "detached" /\ call'[t].m = m /\ call'[t].o = o
        /\ fd'[t] = raw[o].fd /\ OthersWait(t)
    BY <1>1 DEF Detach, Frame, OthersWait, Framed, Raws
  <1>4. m \notin {"open", "call", "close", "kmd_version"}
    BY DEF Performed
  <1>5. o \in made /\ Using(o) = {}
    BY DEF Exclusively
  <1>6. \A p \in Object \ {o} : t \notin Using(p) /\ t \notin Using(p)'
    <2>1. \A p \in Object : t \notin Using(p)
      BY <1>1, <1>2, UsesOne
    <2> QED
      BY <1>3, <2>1 DEF Using
  <1>7. Borrows'
    BY <1>1, <1>3, <1>4, <1>5, <1>6, BorrowsAlone DEF Borrows
  <1>8. OthersCarry(t) /\ OthersHold(o)
    BY <1>1, <1>3, <1>6, OthersKeep DEF OthersHold, OthersWait
  <1>9. CarriedBy(t) = NoFd /\ CarriedBy(t)' = raw[o].fd
    BY <1>2, <1>3, <1>4 DEF CarriedBy
  <1>10. HeldBy(o) = raw[o].fd
    BY <1>5 DEF HeldBy
  <1>11. HeldBy(o)' = NoFd
    <2>1. t \in Using(o)'
      BY <1>3, <1>4 DEF Using
    <2> QED
      BY <1>3, <1>4, <2>1 DEF HeldBy
  <1> QED
    BY <1>1, <1>7, <1>8, <1>9, <1>10, <1>11, OwnTaken

\* A method gives its object back, with the descriptor it has now.
LEMMA GiveOwns ==
  ASSUME OwnInv, CallInv', NEW t \in Thread,
         call[t].m \in Performed \cup {"reopen", "reset", "open"},
         raw' = [raw EXCEPT ![call[t].o] = Copy(t)],
         made' = made \cup {call[t].o},
         Forget(t), NEW r, Finish(t, r), fdtab' = fdtab
  PROVE  Borrows' /\ Own'
  <1>1. Framed /\ Framed' /\ Placed(call[t]) /\ Borrows /\ Own /\ CallInv
    BY DEF OwnInv, CallInv
  <1> PICK o \in Object : o = call[t].o
    BY <1>1 DEF Placed, Performed
  <1>2. /\ call'[t].at = "idle" /\ call'[t].m = "close" /\ fd'[t] = NoFd /\ OthersWait(t)
    BY <1>1 DEF Finish, Forget, Idle, Frame, OthersWait, Framed, Raws
  <1>3. call[t].m \notin {"call", "close", "kmd_version"}
    BY DEF Performed
  <1>4. t \in Using(o) /\ \A p \in Object \ {o} : t \notin Using(p)
    BY <1>1, <1>3, UsesOne
  <1>5. Using(o) = {t} /\ HeldBy(o) = NoFd /\ CarriedBy(t) = fd[t]
    BY <1>1, <1>3, UsesAlone
  <1>6. \A p \in Object : t \notin Using(p)'
    BY <1>2 DEF Using
  <1>7. /\ raw'[o].fd = fd[t] /\ made' = made \cup {o} /\ made' \subseteq Object
        /\ \A p \in Object \ {o} : raw'[p].fd = raw[p].fd /\ (p \in made' <=> p \in made)
    BY <1>1, <1>4 DEF Copy, Framed, Raws, Borrows
  <1>8. Borrows'
    BY <1>1, <1>2, <1>4, <1>5, <1>6, <1>7, BorrowsAlone
  <1>9. OthersCarry(t) /\ OthersHold(o)
    BY <1>1, <1>2, <1>4, <1>6, <1>7, OthersKeep DEF OthersHold, OthersWait
  <1>10. CarriedBy(t)' = NoFd
    BY <1>2 DEF CarriedBy
  <1>11. HeldBy(o)' = fd[t]
    <2>1. Using(o)' = {}
      BY <1>2, <1>5, <1>6, <1>4 DEF Using, OthersWait
    <2> QED
      BY <1>7, <2>1 DEF HeldBy
  <1> QED
    BY <1>1, <1>4, <1>5, <1>8, <1>9, <1>10, <1>11, OwnGiven

\* A method goes on, alone with its object or with none, and gives nothing back.
LEMMA GoesOn ==
  ASSUME OwnInv, CallInv', NEW t \in Thread, call[t].m \notin {"close", "call"},
         OthersWait(t), call'[t].m = call[t].m, call'[t].o = call[t].o, call'[t].at # "idle",
         \A o \in Object \ {call[t].o} : raw'[o] = raw[o],
         call[t].m = "kmd_version" => raw' = raw, made' = made,
         \/ call'[t].at = "opening"
         \/ call'[t].m = "open" /\ ret'[t] # "OK"
         => fd'[t] = NoFd
  PROVE  /\ Borrows' /\ OthersCarry(t)
         /\ \A o \in Object : HeldBy(o)' = HeldBy(o)
         /\ CarriedBy(t) = fd[t] /\ CarriedBy(t)' = fd'[t]
  <1>1. Framed /\ Framed' /\ Placed(call[t]) /\ Borrows /\ Own /\ CallInv
    BY DEF OwnInv, CallInv
  <1>2. CarriedBy(t) = fd[t] /\ CarriedBy(t)' = fd'[t]
    BY DEF CarriedBy
  <1>3. CASE call[t].m = "kmd_version"
    <2>1. \A o \in Object : t \notin Using(o) /\ t \notin Using(o)'
      BY <1>1, <1>3, UsesOne DEF Using
    <2>2. Borrows'
      BY <1>1, <1>3, <2>1, BorrowsNone
    <2>3. OthersCarry(t) /\ \A o \in Object : HeldBy(o)' = HeldBy(o)
      BY <1>1, <1>3, <2>1, OthersKeep DEF OthersWait
    <2> QED
      BY <1>2, <2>2, <2>3
  <1>4. CASE call[t].m # "kmd_version"
    <2> PICK o \in Object : o = call[t].o
      BY <1>1, <1>4 DEF Placed
    <2>1. /\ Using(o) = {t} /\ HeldBy(o) = NoFd
          /\ call[t].m = "open" <=> o \notin made
          /\ \A p \in Object \ {o} : t \notin Using(p)
      BY <1>1, <1>4, UsesAlone, UsesOne
    <2>2. Using(o)' = {t} /\ \A p \in Object \ {o} : t \notin Using(p)'
      BY <1>1, <1>4, <2>1 DEF Using, OthersWait, Placed
    <2>3. Borrows'
      <3>1. made' \subseteq Object
        BY <1>1 DEF Borrows
      <3>2. Using(o) \subseteq {t}
        BY <2>1
      <3>3. t \in Using(o)' => (call'[t].m = "open" <=> o \notin made')
        BY <2>1
      <3>4. call'[t].m # "call" /\ (call'[t].at \in {"idle", "opening"}
                                      \/ (call'[t].m = "open" /\ ret'[t] # "OK") => fd'[t] = NoFd)
        OBVIOUS
      <3>5. \A p \in Object \ {o} : /\ t \notin Using(p) /\ t \notin Using(p)'
                                    /\ raw'[p].fd = raw[p].fd /\ (p \in made' <=> p \in made)
        BY <2>1, <2>2
      <3> QED
        BY <1>1, <3>1, <3>2, <3>3, <3>4, <3>5, BorrowsAlone
    <2>4. OthersCarry(t) /\ \A p \in Object \ {o} : HeldBy(p)' = HeldBy(p)
      BY <1>1, <2>1, <2>2, OthersKeep DEF OthersWait
    <2>5. HeldBy(o)' = NoFd
      BY <2>2 DEF HeldBy
    <2> QED
      BY <1>2, <2>1, <2>3, <2>4, <2>5
  <1> QED
    BY <1>3, <1>4

\* A step that concerns no method and no descriptor.
LEMMA NothingMoves ==
  ASSUME OwnInv, UNCHANGED <<call, fd, ret, raw, made, fdtab>>
  PROVE  Borrows' /\ Own'
  <1>1. \A o \in Object : Using(o)' = Using(o)
    BY DEF Using
  <1>2. Borrows'
    BY <1>1 DEF OwnInv, Borrows
  <1>3. /\ \A o \in Object : HeldBy(o)' = HeldBy(o)
        /\ \A t \in Thread : CarriedBy(t)' = CarriedBy(t)
    BY <1>1 DEF HeldBy, CarriedBy
  <1> QED
    BY <1>2, <1>3, OwnStays DEF OwnInv

\* A method begins to wait in open(2).
LEMMA OpeningOwns ==
  ASSUME OwnInv, CallInv', NEW t \in Thread, OpenCall(t) \/ VersionCall(t)
  PROVE  Borrows' /\ Own'
  <1>1. Framed /\ Framed' /\ Placed(call[t]) /\ Borrows /\ Own /\ CallInv
    BY DEF OwnInv, CallInv
  <1>2. /\ call[t].at = "idle" /\ fd' = fd /\ OthersWait(t) /\ UNCHANGED <<raw, made, fdtab>>
        /\ call'[t].at = "opening"
    BY <1>1 DEF OpenCall, VersionCall, Can, Open, Return, Frame, Framed, Raws, OthersWait, objectVars, kmdVars
  <1>3. call[t].m = "close" /\ fd[t] = NoFd /\ \A o \in Object : t \notin Using(o)
    BY <1>1, <1>2, UsesOne DEF Placed, Borrows
  <1>4. CarriedBy(t)' = CarriedBy(t) /\ OthersCarry(t)
    <2>1. CarriedBy(t) = NoFd
      BY <1>3 DEF CarriedBy
    <2>2. CarriedBy(t)' = NoFd
      BY <1>2, <1>3 DEF CarriedBy
    <2> QED
      BY <1>1, <1>2, <2>1, <2>2, OthersKeep DEF OthersWait
  <1>5. CASE OpenCall(t)
    <2>1. PICK o \in Object \ made : /\ Using(o) = {}
                                     /\ call' = [call EXCEPT ![t] = Frame("opening", "open", o, 0, NoArg)]
      BY <1>5 DEF OpenCall
    <2>2. call'[t].m = "open" /\ call'[t].o = o
      BY <1>1, <2>1 DEF Frame, Framed, Raws
    <2>3. \A p \in Object \ {o} : t \notin Using(p)'
      BY <2>2 DEF Using
    <2>4. Borrows'
      BY <1>1, <1>2, <1>3, <2>1, <2>2, <2>3, BorrowsAlone DEF Borrows
    <2>5. \A p \in Object \ {o} : HeldBy(p)' = HeldBy(p)
      BY <1>1, <1>2, <1>3, <2>3, OthersKeep DEF OthersWait
    <2>6. HeldBy(o)' = HeldBy(o)
      BY <1>2, <2>1 DEF HeldBy
    <2> QED
      BY <1>1, <1>2, <1>4, <2>4, <2>5, <2>6, OwnStays DEF OthersCarry
  <1>6. CASE VersionCall(t)
    <2>1. call'[t].m = "kmd_version"
      BY <1>1, <1>6 DEF VersionCall, Frame, Framed, Raws
    <2>2. \A p \in Object : t \notin Using(p)'
      BY <2>1 DEF Using
    <2>3. Borrows'
      BY <1>1, <1>2, <1>3, <2>1, <2>2, BorrowsNone
    <2>4. \A p \in Object : HeldBy(p)' = HeldBy(p)
      BY <1>1, <1>2, <1>3, <2>2, OthersKeep DEF OthersWait
    <2> QED
      BY <1>1, <1>2, <1>4, <2>3, <2>4, OwnStays DEF OthersCarry
  <1> QED
    BY <1>5, <1>6

\* What a thread carries is open.
LEMMA CarriedIsOpen ==
  ASSUME Own, NEW t \in Thread, CarriedBy(t) = fd[t]
  PROVE  /\ fd[t] \in Fd \cup {NoFd}
         /\ fd[t] # NoFd => fdtab[fd[t]] # NoFile
  BY DEF Own

\* tt_reopen and tt_reset_with close it.
LEMMA ClosingOwns ==
  ASSUME ~CloseFails, OwnInv, CallInv', NEW t \in Thread, ReopenStart(t) \/ ResetRun(t)
  PROVE  Borrows' /\ Own'
  <1>1. Framed /\ Framed' /\ Placed(call[t]) /\ Borrows /\ Own /\ CallInv
    BY DEF OwnInv, CallInv
  <1>2. /\ call[t].at = "detached" /\ OthersWait(t) /\ UNCHANGED <<raw, made>>
        /\ call'[t].at \in {"opening", "attach"}
        /\ call'[t].m = call[t].m /\ call'[t].o = call[t].o
    <2>1. /\ call[t].at = "detached" /\ UNCHANGED <<raw, made>>
          /\ Goto(t, "opening") \/ Goto(t, "attach")
      BY DEF ReopenStart, ResetRun, objectVars
    <2>2. \A s \in Thread \ {t} : fd'[s] = fd[s] /\ ret'[s] = ret[s]
      BY <1>1 DEF ReopenStart, ResetRun, Reopen, tt_close, Return, Framed, Raws
    <2>3. /\ call'[t].at \in {"opening", "attach"}
          /\ call'[t].m = call[t].m /\ call'[t].o = call[t].o
          /\ \A s \in Thread \ {t} : call'[s] = call[s]
      BY <1>1, <2>1 DEF Goto, Frame, Framed, Raws
    <2> QED
      BY <2>1, <2>2, <2>3 DEF OthersWait
  <1>3. call[t].m \notin {"close", "call", "open", "kmd_version"}
    <2>1. call[t].m # "call"
      BY DEF ReopenStart, ResetRun
    <2> QED
      BY <1>1, <1>2, <2>1 DEF Placed
  <1>4. CarriedBy(t) = fd[t]
    BY <1>3 DEF CarriedBy
  <1>5. fd[t] \in Fd \cup {NoFd} /\ (fd[t] # NoFd => fdtab[fd[t]] # NoFile)
    BY <1>1, <1>4, CarriedIsOpen
  <1>6. /\ fd'[t] = NoFd
        /\ \A e \in Fd : fdtab'[e] = IF e = fd[t] THEN NoFile ELSE fdtab[e]
    <2>1. CASE ReopenStart(t)
      <3>1. PICK r \in Codes : tt_close(t, r)
        BY <2>1 DEF ReopenStart, Reopen
      <3>2. CloseAt(fd[t], r)
        BY <1>5, <3>1 DEF tt_close, CloseCall, CloseAt, FileAt
      <3>3. /\ r = "OK"
            /\ \A e \in Fd : fdtab'[e] = IF e = fd[t] THEN NoFile ELSE fdtab[e]
        BY <1>1, <1>5, <3>2, Closes
      <3> QED
        BY <1>1, <3>1, <3>3 DEF tt_close, Framed, Raws
    <2>2. CASE ResetRun(t)
      <3>1. PICK r \in Codes : CloseAt(fd[t], r)
        BY <2>2 DEF ResetRun
      <3>2. \A e \in Fd : fdtab'[e] = IF e = fd[t] THEN NoFile ELSE fdtab[e]
        BY <1>1, <1>5, <3>1, Closes
      <3> QED
        BY <1>1, <2>2, <3>2 DEF ResetRun, Framed, Raws
    <2> QED
      BY <2>1, <2>2
  <1>7. /\ Borrows' /\ OthersCarry(t)
        /\ \A o \in Object : HeldBy(o)' = HeldBy(o)
        /\ CarriedBy(t)' = fd'[t]
    BY <1>2, <1>3, <1>6, GoesOn
  <1> QED
    BY <1>1, <1>4, <1>6, <1>7, OwnDropped

\* open(2) returns, with a descriptor or without.
LEMMA OpenReturnOwns ==
  ASSUME OwnInv, CallInv', NEW t \in Thread, OpenReturn(t)
  PROVE  Borrows' /\ Own'
  <1>1. Framed /\ Framed' /\ Placed(call[t]) /\ Borrows /\ Own /\ CallInv
    BY DEF OwnInv, CallInv
  <1>2. /\ call[t].at = "opening" /\ OthersWait(t) /\ UNCHANGED <<raw, made>>
        /\ call'[t].at = "attach" /\ call'[t].m = call[t].m /\ call'[t].o = call[t].o
    <2>1. \A s \in Thread \ {t} : fd'[s] = fd[s] /\ ret'[s] = ret[s]
      BY <1>1 DEF OpenReturn, OpenOk, OpenFail, Return, Framed, Raws
    <2>2. /\ call'[t].at = "attach" /\ call'[t].m = call[t].m /\ call'[t].o = call[t].o
          /\ \A s \in Thread \ {t} : call'[s] = call[s]
      BY <1>1 DEF OpenReturn, Goto, Frame, Framed, Raws
    <2> QED
      BY <2>1, <2>2 DEF OpenReturn, OthersWait, objectVars
  <1>3. call[t].m \notin {"close", "call"} /\ fd[t] = NoFd
    BY <1>1, <1>2 DEF Placed, Borrows
  <1>4. CASE OpenOk(t)
    <2>1. ret'[t] = "OK"
      BY <1>1, <1>4 DEF OpenOk, Return, Framed, Raws
    <2>2. PICK d \in Fd : OpenGrants(Home[t], req[t], d) /\ fd' = [fd EXCEPT ![t] = d]
      BY <1>4 DEF OpenOk
    <2>3. /\ fdtab[d] = NoFile /\ fdtab'[d] # NoFile
          /\ \A e \in Fd \ {d} : fdtab'[e] = fdtab[e]
      BY <1>1, <2>2, KmdAssumption DEF OpenGrants, Grant, FreeFds, Framed, Raws
    <2>4. fd'[t] = d
      BY <1>1, <2>2 DEF Framed, Raws
    <2>5. /\ Borrows' /\ OthersCarry(t)
          /\ \A o \in Object : HeldBy(o)' = HeldBy(o)
          /\ CarriedBy(t) = fd[t] /\ CarriedBy(t)' = fd'[t]
      BY <1>2, <1>3, <2>1, GoesOn
    <2> QED
      BY <1>1, <1>3, <2>3, <2>4, <2>5, OwnOpened
  <1>5. CASE OpenFail(t)
    <2>1. fd' = fd /\ fdtab' = fdtab
      BY <1>5 DEF OpenFail, kmdVars
    <2>2. /\ Borrows' /\ OthersCarry(t)
          /\ \A o \in Object : HeldBy(o)' = HeldBy(o)
          /\ CarriedBy(t) = fd[t] /\ CarriedBy(t)' = fd'[t]
      BY <1>2, <1>3, <2>1, GoesOn
    <2> QED
      BY <1>1, <2>1, <2>2, OwnStays DEF OthersCarry
  <1> QED
    BY <1>4, <1>5 DEF OpenReturn

\* Session.call borrows its object, works on a copy and forgets it.
LEMMA CallingOwns ==
  ASSUME OwnInv, CallInv', NEW t \in Thread, NEW o \in Object, OthersWait(t),
         o \in made, \A s \in Using(o) : call[s].m = "call",
         \/ call[t].m = "close"
         \/ call[t].m = "call" /\ call[t].o = o,
         \/ call'[t].m = "call" /\ call'[t].o = o /\ fd'[t] = raw[o].fd
         \/ call'[t].m = "close" /\ fd'[t] = NoFd,
         UNCHANGED <<raw, made, fdtab>>
  PROVE  Borrows' /\ Own'
  <1>1. Framed /\ Framed' /\ Borrows /\ Own /\ CallInv
    BY DEF OwnInv, CallInv
  <1>2. \A p \in Object \ {o} : t \notin Using(p)
    BY <1>1, UsesOne
  <1>3. \A p \in Object \ {o} : t \notin Using(p)'
    BY DEF Using, CallInv, Placed
  <1>4. Borrows'
    BY <1>1, <1>2, <1>3, BorrowsCalls
  <1>5. OthersCarry(t) /\ \A p \in Object \ {o} : HeldBy(p)' = HeldBy(p)
    BY <1>1, <1>2, <1>3, OthersKeep DEF OthersWait
  <1>6. HeldBy(o)' = HeldBy(o)
    <2>1. \A s \in Using(o)' : call'[s].m = "call"
      BY DEF Using, OthersWait, CallInv, Placed
    <2> QED
      BY <2>1 DEF HeldBy
  <1>7. CarriedBy(t)' = CarriedBy(t)
    <2>1. call[t].m = "close" => fd[t] = NoFd
      BY <1>1 DEF Borrows, CallInv, Placed
    <2>2. CarriedBy(t) = NoFd
      BY <2>1 DEF CarriedBy
    <2>3. CarriedBy(t)' = NoFd
      BY DEF CarriedBy
    <2> QED
      BY <2>2, <2>3
  <1> QED
    BY <1>1, <1>4, <1>5, <1>6, <1>7, OwnStays DEF OthersCarry

\* Session.close, and dropping a Session, close what the object holds.
LEMMA CloseOwns ==
  ASSUME ~CloseFails, OwnInv, CallInv', NEW t \in Thread,
         DropSession(t) \/ \E o \in Object : CloseSession(t, o)
  PROVE  Borrows' /\ Own'
  <1>1. Framed /\ Framed' /\ Borrows /\ Own /\ CallInv
    BY DEF OwnInv, CallInv
  <1>2. call[t].at = "idle" /\ UNCHANGED <<call, fd, ret>>
    BY DEF DropSession, CloseSession, Can, sessVars
  <1>3. PICK o \in Object, r \in Codes :
          /\ Exclusively(o) /\ CloseAt(raw[o].fd, r)
          /\ \/ /\ raw' = IF r = "OK" THEN [raw EXCEPT ![o].fd = NoFd] ELSE raw
                /\ made' = made
             \/ /\ raw' = [raw EXCEPT ![o] = Closed]
                /\ made' = made \ {o}
    BY DEF DropSession, CloseSession
  <1>4. o \in made /\ Using(o) = {} /\ HeldBy(o) = raw[o].fd
    BY <1>3 DEF Exclusively, HeldBy
  <1>5. raw[o].fd \in Fd \cup {NoFd} /\ (raw[o].fd # NoFd => fdtab[raw[o].fd] # NoFile)
    BY <1>1, <1>4 DEF Own
  <1>6. /\ r = "OK"
        /\ \A e \in Fd : fdtab'[e] = IF e = raw[o].fd THEN NoFile ELSE fdtab[e]
    BY <1>1, <1>3, <1>5, Closes
  <1>7. /\ raw'[o].fd = NoFd /\ made' \subseteq made
        /\ \A p \in Object \ {o} : raw'[p] = raw[p] /\ (p \in made' <=> p \in made)
    <2>1. \A p \in Object \ {o} : raw'[p] = raw[p] /\ (p \in made' <=> p \in made)
      BY <1>1, <1>3, <1>6 DEF Framed, Raws
    <2>2. CASE raw' = [raw EXCEPT ![o] = Closed] /\ made' = made \ {o}
      BY <1>1, <2>1, <2>2 DEF Closed, Framed, Raws
    <2>3. CASE raw' = [raw EXCEPT ![o].fd = NoFd] /\ made' = made
      <3>1. raw'[o].fd = NoFd
        BY <1>1, <2>3 DEF Framed, Raws
      <3> QED
        BY <2>1, <2>3, <3>1
    <2> QED
      BY <1>3, <1>6, <2>2, <2>3
  <1>8. \A p \in Object : Using(p)' = Using(p)
    BY <1>2 DEF Using
  <1>9. Borrows'
    <2>1. made' \subseteq Object
      BY <1>1, <1>7 DEF Borrows
    <2>2. \A p \in Object : \A r2, s \in Using(p)' : r2 # s => call'[r2].m = "call"
      BY <1>1, <1>2, <1>8 DEF Borrows
    <2>3. \A p \in Object : \A s \in Using(p)' : call'[s].m = "open" <=> p \notin made'
      BY <1>1, <1>2, <1>4, <1>7, <1>8 DEF Borrows
    <2>4. ASSUME NEW s \in Thread, call[s].m = "call"
          PROVE  fd[s] = raw'[call[s].o].fd
      <3>1. call[s].o \in Object /\ s \in Using(call[s].o)
        BY <1>1, <2>4, UsesOne
      <3>2. call[s].o # o
        BY <1>4, <3>1
      <3> QED
        BY <1>1, <1>7, <2>4, <3>1, <3>2 DEF Borrows
    <2> QED
      BY <1>1, <1>2, <2>1, <2>2, <2>3, <2>4 DEF Borrows
  <1>10. OthersHold(o)
    BY <1>2, <1>7, <1>8 DEF OthersHold, HeldBy
  <1>11. HeldBy(o)' = NoFd
    BY <1>7 DEF HeldBy
  <1>12. \A s \in Thread : CarriedBy(s)' = CarriedBy(s)
    BY <1>2 DEF CarriedBy
  <1> QED
    BY <1>1, <1>4, <1>6, <1>9, <1>10, <1>11, <1>12, OwnClosed

\* The descriptor of an open, a reopen or a reset becomes the object's.
LEMMA AttachOwns ==
  ASSUME OwnInv, CallInv', NEW t \in Thread, AttachOpen(t) \/ Attach(t)
  PROVE  Borrows' /\ Own'
  <1>1. Framed /\ Framed' /\ Placed(call[t]) /\ Borrows /\ Own /\ CallInv
    BY DEF OwnInv, CallInv
  <1>2. Forget(t) /\ Finish(t, "OK") /\ fdtab' = fdtab
    BY DEF AttachOpen, Attach, Done, kmdVars
  <1>3. call[t].m \in {"open", "reopen", "reset"} /\ call[t].at = "attach"
    BY DEF AttachOpen, Attach
  <1>4. call[t].o \in Object /\ Using(call[t].o) = {t}
          /\ (call[t].m = "open" <=> call[t].o \notin made)
    BY <1>1, <1>3, UsesAlone DEF Placed
  <1>5. CASE Attach(t) \/ ret[t] = "OK"
    <2>1. raw' = [raw EXCEPT ![call[t].o] = Copy(t)]
      BY <1>5 DEF Attach, AttachOpen
    <2>2. made' = made \cup {call[t].o}
      <3>1. CASE Attach(t)
        <4>1. call[t].o \in made /\ made' = made
          BY <1>4, <3>1 DEF Attach
        <4> QED
          BY <4>1
      <3>2. CASE AttachOpen(t) /\ ret[t] = "OK"
        BY <3>2 DEF AttachOpen
      <3> QED
        BY <1>5, <3>1, <3>2
    <2> QED
      BY <1>2, <1>3, <2>1, <2>2, GiveOwns
  <1>6. CASE AttachOpen(t) /\ ret[t] # "OK"
    <2> PICK o \in Object : o = call[t].o
      BY <1>4
    <2>1. fd[t] = NoFd /\ call[t].m = "open" /\ UNCHANGED <<raw, made>> /\ o \notin made
      BY <1>1, <1>4, <1>6 DEF Borrows, AttachOpen
    <2>2. call'[t].at = "idle" /\ call'[t].m = "close" /\ fd'[t] = NoFd /\ OthersWait(t)
      BY <1>1, <1>2 DEF Finish, Forget, Idle, Frame, OthersWait, Framed
    <2>3. \A p \in Object \ {o} : t \notin Using(p)
      BY <1>1, <2>1, UsesOne
    <2>4. \A p \in Object : t \notin Using(p)'
      BY <2>2 DEF Using
    <2>5. Borrows'
      <3>1. made' \subseteq Object /\ Using(o) \subseteq {t}
        BY <1>1, <1>4, <2>1 DEF Borrows
      <3>2. \A p \in Object \ {o} : /\ t \notin Using(p) /\ t \notin Using(p)'
                                    /\ raw'[p].fd = raw[p].fd /\ (p \in made' <=> p \in made)
        BY <2>1, <2>3, <2>4
      <3> QED
        BY <1>1, <2>2, <2>4, <3>1, <3>2, BorrowsAlone
    <2>6. OthersCarry(t) /\ \A p \in Object \ {o} : HeldBy(p)' = HeldBy(p)
      BY <1>1, <2>1, <2>2, <2>3, <2>4, OthersKeep DEF OthersWait
    <2>7. HeldBy(o)' = HeldBy(o)
      BY <2>1 DEF HeldBy
    <2>8. CarriedBy(t)' = CarriedBy(t)
      <3>1. CarriedBy(t) = NoFd
        BY <2>1 DEF CarriedBy
      <3>2. CarriedBy(t)' = NoFd
        BY <2>2 DEF CarriedBy
      <3> QED
        BY <3>1, <3>2
    <2> QED
      BY <1>1, <1>2, <2>5, <2>6, <2>7, <2>8, OwnStays DEF OthersCarry
  <1> QED
    BY <1>5, <1>6

\* perform goes on after its reopen: it gives the descriptor back, or keeps it for
\* one more.
LEMMA AgainOwns ==
  ASSUME OwnInv, CallInv', NEW t \in Thread, Again(t)
  PROVE  Borrows' /\ Own'
  <1>1. Framed /\ Framed' /\ Placed(call[t]) /\ Borrows /\ Own /\ CallInv
    BY DEF OwnInv, CallInv
  <1>2. call[t].m \in Performed /\ call[t].at = "attach" /\ made' = made
          /\ raw' = [raw EXCEPT ![call[t].o] = Copy(t)]
    BY DEF Again
  <1>3. call[t].m \notin {"close", "call", "kmd_version", "open"}
    BY <1>2 DEF Performed
  <1>4. call[t].o \in Object /\ call[t].o \in made
    BY <1>1, <1>3, UsesAlone DEF Placed
  <1>5. made' = made \cup {call[t].o}
    BY <1>2, <1>4
  <1>6. ASSUME NEW r, Finish(t, r), Forget(t), fdtab' = fdtab
        PROVE  Borrows' /\ Own'
    BY <1>2, <1>5, <1>6, GiveOwns
  <1>7. CASE ret[t] # "OK"
    BY <1>6, <1>7 DEF Again, callVars, kmdVars
  <1>8. CASE ret[t] = "OK"
    <2>1. PICK r \in Codes :
            /\ Run(t, call[t].m, call[t].o, fd[t], call[t].arg, r)
            /\ \/ /\ call' = [call EXCEPT ![t] = Frame("detached", call[t].m, call[t].o,
                                                       call[t].tries + 1, call[t].arg)]
                  /\ UNCHANGED sessVars
               \/ Forget(t) /\ Finish(t, Outcome(r, call[t].tries + 1))
      BY <1>8 DEF Again
    <2>2. fdtab' = fdtab
      BY <1>2, <2>1, RunKeepsDescriptors
    <2>3. CASE Forget(t) /\ Finish(t, Outcome(r, call[t].tries + 1))
      BY <1>6, <2>2, <2>3
    <2>4. CASE /\ call' = [call EXCEPT ![t] = Frame("detached", call[t].m, call[t].o,
                                                    call[t].tries + 1, call[t].arg)]
               /\ UNCHANGED sessVars
      <3>1. /\ call'[t].m = call[t].m /\ call'[t].o = call[t].o /\ call'[t].at = "detached"
            /\ OthersWait(t) /\ fd' = fd
        BY <1>1, <2>4 DEF Frame, Framed, OthersWait, sessVars
      <3>2. \A o \in Object \ {call[t].o} : raw'[o] = raw[o]
        BY <1>1, <1>2 DEF Framed, Raws
      <3>3. /\ Borrows' /\ OthersCarry(t)
            /\ \A o \in Object : HeldBy(o)' = HeldBy(o)
            /\ CarriedBy(t) = fd[t] /\ CarriedBy(t)' = fd'[t]
        BY <1>2, <1>3, <3>1, <3>2, GoesOn
      <3> QED
        BY <1>1, <2>2, <3>1, <3>3, OwnStays DEF OthersCarry
    <2> QED
      BY <2>1, <2>3, <2>4
  <1> QED
    BY <1>7, <1>8

\* kmd.version closes what it opened.
LEMMA VersionOwns ==
  ASSUME ~CloseFails, OwnInv, CallInv', NEW t \in Thread, VersionReturn(t)
  PROVE  Borrows' /\ Own'
  <1>1. Framed /\ Framed' /\ Placed(call[t]) /\ Borrows /\ Own /\ CallInv
    BY DEF OwnInv, CallInv
  <1>2. call[t].m = "kmd_version" /\ UNCHANGED <<raw, made>>
    BY DEF VersionReturn, objectVars
  <1>3. call'[t].at = "idle" /\ call'[t].m = "close" /\ fd'[t] = NoFd /\ OthersWait(t)
    BY <1>1 DEF VersionReturn, Done, Finish, Forget, Idle, Frame, OthersWait, Framed
  <1>4. \A p \in Object : t \notin Using(p) /\ t \notin Using(p)'
    <2>1. \A p \in Object : t \notin Using(p)
      BY <1>1, <1>2, UsesOne
    <2> QED
      BY <1>3, <2>1 DEF Using
  <1>5. Borrows'
    BY <1>1, <1>2, <1>3, <1>4, BorrowsNone
  <1>6. OthersCarry(t) /\ \A p \in Object : HeldBy(p)' = HeldBy(p)
    BY <1>1, <1>2, <1>3, <1>4, OthersKeep DEF OthersWait
  <1>7. CarriedBy(t) = fd[t] /\ CarriedBy(t)' = NoFd
    BY <1>2, <1>3 DEF CarriedBy
  <1>8. fd[t] \in Fd \cup {NoFd} /\ (fd[t] # NoFd => fdtab[fd[t]] # NoFile)
    BY <1>1, <1>7, CarriedIsOpen
  <1>9. \A e \in Fd : fdtab'[e] = IF e = fd[t] THEN NoFile ELSE fdtab[e]
    <2>1. PICK r \in Codes : CloseAt(fd[t], r)
      BY DEF VersionReturn
    <2> QED
      BY <1>1, <1>8, <2>1, Closes
  <1> QED
    BY <1>1, <1>5, <1>6, <1>7, <1>9, OwnDropped

LEMMA ThreadStepOwns ==
  ASSUME ~CloseFails, OwnInv, CallInv', NEW t \in Thread, ThreadStep(t)
  PROVE  Borrows' /\ Own'
  <1>1. Framed /\ Framed' /\ Placed(call[t]) /\ Borrows /\ Own /\ CallInv
    BY DEF OwnInv, CallInv
  <1>2. CASE DeviceReset(t)
    <2>1. UNCHANGED <<call, fd, ret, raw, made, fdtab>>
      BY <1>2 DEF DeviceReset, tt_reset, callVars, kmdVars, sessVars, objectVars
    <2> QED
      BY <2>1, NothingMoves
  <1>3. CASE Bind(t) \/ Free(t) \/ DropWindow(t) \/ DropTlb(t)
    BY <1>3, TlbsKeepDescriptors, NothingMoves
  <1>4. ASSUME NEW m \in Performed, Perform(t, m)
        PROVE  Borrows' /\ Own'
    <2>1. PICK o \in Object, arg \in Args(t, m), r \in Codes :
            /\ Exclusively(o) /\ Run(t, m, o, raw[o].fd, arg, r)
            /\ Detach(t, m, o, 0, arg) \/ UNCHANGED <<sessVars, call>>
      BY <1>4 DEF Perform
    <2>2. call[t].at = "idle" /\ UNCHANGED <<raw, made>>
      BY <1>4 DEF Perform, Can, objectVars
    <2>3. fdtab' = fdtab
      BY <2>1, RunKeepsDescriptors
    <2>4. CASE Detach(t, m, o, 0, arg)
      BY <2>1, <2>2, <2>3, <2>4, TakeOwns
    <2>5. CASE UNCHANGED <<sessVars, call>>
      BY <2>2, <2>3, <2>5, NothingMoves DEF sessVars
    <2> QED
      BY <2>1, <2>4, <2>5
  <1>5. ASSUME NEW m \in Detaching, Borrow(t, m)
        PROVE  Borrows' /\ Own'
    <2>1. PICK o \in Object : /\ IF m = "call" THEN Shared(o) ELSE Exclusively(o)
                              /\ Detach(t, m, o, 0, NoArg)
      BY <1>5 DEF Borrow
    <2>2. call[t].at = "idle" /\ UNCHANGED <<raw, made, fdtab>> /\ m # "open"
      BY <1>5 DEF Borrow, Can, objectVars, kmdVars
    <2>3. CASE m # "call"
      <3>1. m \in {"reopen", "reset"} /\ Exclusively(o)
        BY <2>1, <2>2, <2>3 DEF Detaching
      <3> QED
        BY <2>1, <2>2, <3>1, TakeOwns
    <2>4. CASE m = "call"
      <3>1. /\ call'[t].m = "call" /\ call'[t].o = o /\ fd'[t] = raw[o].fd /\ OthersWait(t)
        BY <1>1, <2>1, <2>4 DEF Detach, Frame, Framed, OthersWait
      <3>2. call[t].m = "close" /\ o \in made /\ \A s \in Using(o) : call[s].m = "call"
        BY <1>1, <2>1, <2>2, <2>4 DEF Shared, Placed
      <3> QED
        BY <2>2, <3>1, <3>2, CallingOwns
    <2> QED
      BY <2>3, <2>4
  <1> QED
    BY <1>2, <1>3, <1>4, <1>5, OpeningOwns, CloseOwns DEF ThreadStep

LEMMA CallStepOwns ==
  ASSUME ~CloseFails, OwnInv, CallInv', NEW t \in Thread, CallStep(t)
  PROVE  Borrows' /\ Own'
  <1>1. Framed /\ Framed' /\ Placed(call[t]) /\ Borrows /\ Own /\ CallInv
    BY DEF OwnInv, CallInv
  <1>2. CASE CallRun(t) \/ AttachCall(t)
    <2>1. call[t].m = "call" /\ call[t].at # "idle" /\ UNCHANGED <<raw, made, fdtab>>
      BY <1>2 DEF CallRun, AttachCall, IoCall, callVars, kmdVars, objectVars
    <2> PICK o \in Object : o = call[t].o
      BY <1>1, <2>1 DEF Placed
    <2>2. t \in Using(o) /\ fd[t] = raw[o].fd
      BY <1>1, <2>1 DEF Using, Borrows
    <2>3. o \in made /\ \A s \in Using(o) : call[s].m = "call"
      BY <1>1, <2>1, <2>2 DEF Borrows
    <2>4. CASE CallRun(t)
      <3>1. call'[t].m = "call" /\ call'[t].o = o /\ fd'[t] = raw[o].fd /\ OthersWait(t)
        BY <1>1, <2>1, <2>2, <2>4 DEF CallRun, Goto, Frame, Framed, OthersWait
      <3> QED
        BY <2>1, <2>3, <3>1, CallingOwns
    <2>5. CASE AttachCall(t)
      <3>1. call'[t].m = "close" /\ fd'[t] = NoFd /\ OthersWait(t)
        BY <1>1, <2>5 DEF AttachCall, Done, Finish, Forget, Idle, Frame, Framed, OthersWait
      <3> QED
        BY <2>1, <2>3, <3>1, CallingOwns
    <2> QED
      BY <1>2, <2>4, <2>5
  <1> QED
    BY <1>2, ClosingOwns, OpenReturnOwns, AttachOwns, AgainOwns, VersionOwns DEF CallStep

\* So OwnInv is an invariant of programs whose close(2) does not fail.
LEMMA OwnInvariant ==
  ASSUME ~CloseFails
  PROVE  PythonSpec => []OwnInv
  <1>1. PythonInit => OwnInv
    <2> SUFFICES ASSUME PythonInit
                 PROVE  OwnInv
      OBVIOUS
    <2>1. CallInv
      BY CallStarts
    <2>2. /\ made = {} /\ fd = [t \in Thread |-> NoFd] /\ fdtab = [d \in Fd |-> NoFile]
          /\ \A t \in Thread : call[t].at = "idle" /\ call[t].m = "close"
      BY DEF PythonInit, CallsInit, SessionInit, KmdInit, Thread, Idle, Frame
    <2>3. \A o \in Object : Using(o) = {}
      BY <2>2 DEF Using
    <2>4. Borrows
      BY <2>2, <2>3 DEF Borrows
    <2>5. /\ \A o \in Object : HeldBy(o) = NoFd
          /\ \A t \in Thread : CarriedBy(t) = NoFd
      BY <2>2 DEF HeldBy, CarriedBy
    <2>6. Own
      BY <2>2, <2>5, SessionAssumption DEF Own
    <2> QED
      BY <2>1, <2>4, <2>6 DEF OwnInv
  <1>2. OwnInv /\ [PythonNext]_allVars => OwnInv'
    <2> SUFFICES ASSUME OwnInv, [PythonNext]_allVars
                 PROVE  OwnInv'
      OBVIOUS
    <2>1. CallInv'
      BY CallSteps DEF OwnInv
    <2>2. CASE Outside \/ UNCHANGED allVars
      <3>1. UNCHANGED <<call, fd, ret, raw, made, fdtab>>
        BY <2>2 DEF Outside, SessionEnv, OobReset, Remove, Reprobe, objectVars,
                    allVars, pyVars, sessionVars, sessVars, kmdVars
      <3> QED
        BY <2>1, <3>1, NothingMoves DEF OwnInv
    <2>3. ASSUME NEW t \in Thread, ThreadStep(t) \/ CallStep(t)
          PROVE  Borrows' /\ Own'
      BY <2>1, <2>3, ThreadStepOwns, CallStepOwns
    <2> QED
      BY <2>1, <2>2, <2>3 DEF PythonNext, OwnInv
  <1> QED
    BY <1>1, <1>2, PTL DEF PythonSpec

\* However many threads copy tt_session_t's out of objects, wait, fail and copy them
\* back, each descriptor in use has one closer and no other is closed (mod.rs,
\* Session::reopen).
THEOREM PythonOneCloser ==
  ASSUME ~CloseFails
  PROVE  PythonSpec => []OneCloser
  <1>1. OwnInv => OneCloser
    <2> SUFFICES ASSUME OwnInv, NEW d \in Fd
                 PROVE  /\ \A x, y \in Closers(d) : x = y
                        /\ (Closers(d) # {}) = (fdtab[d] # NoFile)
      BY DEF OneCloser
    <2>1. Own /\ made \subseteq Object /\ d # NoFd
      BY SessionAssumption DEF OwnInv, Borrows
    <2>2. \A x : x \in Closers(d) <=> \/ x \in Object /\ HeldBy(x) = d
                                      \/ x \in Thread /\ CarriedBy(x) = d
      BY <2>1 DEF Closers, HeldBy, CarriedBy
    <2>3. \A x, y \in Closers(d) : x = y
      BY <2>1, <2>2, PythonAssumption DEF Own
    <2>4. fdtab[d] # NoFile <=> \E x : x \in Closers(d)
      BY <2>1, <2>2 DEF Own
    <2> QED
      BY <2>3, <2>4
  <1> QED
    BY <1>1, OwnInvariant, PTL

\* While a thread waits in Session.call, nobody closes or replaces its session's
\* descriptor (smc.rs, Session::call).
THEOREM PythonCallsOnCurrent ==
  ASSUME ~CloseFails
  PROVE  PythonSpec => []CallsOnCurrent
  <1>1. OwnInv => CallsOnCurrent
    <2> SUFFICES ASSUME OwnInv, NEW t \in Thread, call[t].at # "idle", call[t].m = "call"
                 PROVE  /\ fd[t] = raw[call[t].o].fd
                        /\ fd[t] # NoFd => fdtab[fd[t]] # NoFile
      BY DEF CallsOnCurrent
    <2>1. CallInv /\ Borrows /\ Own
      BY DEF OwnInv
    <2> PICK o \in Object : o = call[t].o
      BY <2>1, UsesOne
    <2>2. t \in Using(o) /\ fd[t] = raw[o].fd
      BY <2>1 DEF Using, Borrows
    <2>3. o \in made /\ \A s \in Using(o) : call[s].m = "call"
      BY <2>1, <2>2 DEF Borrows
    <2>4. HeldBy(o) = fd[t]
      BY <2>2, <2>3 DEF HeldBy
    <2> QED
      BY <2>1, <2>2, <2>4 DEF Own
  <1> QED
    BY <1>1, OwnInvariant, PTL
================================================================================
