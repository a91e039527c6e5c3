------------------------------- MODULE TlbProofs -------------------------------
(***************************************************************************)
(* Theorems about Tlb and Rebinds, for any number of clients, processes,   *)
(* handles, windows and addresses: types, who owns which mapping, which    *)
(* window, what an open can be refused for, and which pointers miss.       *)
(* Of mappings nothing is assumed, for types that there is a handle, and   *)
(* of refusals that close(2) does not fail.  Where a window is known by    *)
(* its number, which a description opened later may give to another        *)
(* handle, clients are also to free their handles before they open their   *)
(* sessions again.                                                         *)
(***************************************************************************)
EXTENDS Rebinds, SessionProofs

------------------------------------------------------------------------------
(* The invariant.                                                           *)

CallPoints == {"idle", "undo", "configure", "replace", "cleanup", "free"}

MapTypes ==
  /\ vma = [a \in Addr |-> vma[a]]
  /\ shows \in [Addr -> Window \cup {NoWindow}]
  /\ tlb \in [Handle -> Tlbs]
  /\ call \in [Client -> [at: CallPoints, h: Handle \cup {NoCall.h},
                          new: Addr \cup {NoAddr}, err: Codes]]

\* A handle that points somewhere points at a mapping of its window, in the
\* process of its owner.
HandleOK(h) ==
  tlb[h].ptr # NoAddr =>
    /\ vma[tlb[h].ptr] # NoFile
    /\ shows[tlb[h].ptr] = tlb[h].id
    /\ ProcOf[tlb[h].ptr] = Home[Owner[h]]

\* A call in progress is on a handle of the caller's; the mapping it has made, if
\* any, is of that handle's window; where it ends by forgetting the handle, the
\* handle points nowhere.
CallOK(c) ==
  /\ call[c].at # "idle" => call[c].h \in Handle /\ Owner[call[c].h] = c
  /\ call[c].at \in {"undo", "free"} => tlb[call[c].h].ptr = NoAddr
  /\ call[c].at \in {"configure", "replace"} <=> call[c].new # NoAddr
  /\ call[c].new # NoAddr =>
       /\ vma[call[c].new] # NoFile
       /\ shows[call[c].new] = tlb[call[c].h].id
       /\ ProcOf[call[c].new] = Home[c]

\* No address is held twice.
Apart ==
  /\ \A g, h \in Handle : tlb[g].ptr # NoAddr /\ tlb[g].ptr = tlb[h].ptr => g = h
  /\ \A h \in Handle, c \in Client : tlb[h].ptr # NoAddr => tlb[h].ptr # call[c].new
  /\ \A c, d \in Client : call[c].new # NoAddr /\ call[c].new = call[d].new => c = d

\* Every mapped address is held.
Held ==
  \A a \in Addr : vma[a] # NoFile =>
    (\E h \in Handle : tlb[h].ptr = a) \/ (\E c \in Client : call[c].new = a)

MapInv ==
  /\ MapTypes
  /\ \A h \in Handle : HandleOK(h)
  /\ \A c \in Client : CallOK(c)
  /\ Apart
  /\ Held

------------------------------------------------------------------------------
(* Steps.                                                                   *)

\* A step that leaves the mappings and the pointers alone, and gives one client a
\* frame that keeps the mapping it has made, if any.
LEMMA FrameKeeps ==
  ASSUME MapInv, UNCHANGED <<vma, shows>>, NEW c \in Client, NEW f,
         f \in [at: CallPoints, h: Handle \cup {NoCall.h}, new: Addr \cup {NoAddr}, err: Codes],
         call' = [call EXCEPT ![c] = f], f.new = call[c].new,
         f.new # NoAddr => f.h = call[c].h,
         f.at # "idle" => f.h \in Handle /\ Owner[f.h] = c,
         f.at \in {"undo", "free"} => tlb'[f.h].ptr = NoAddr,
         f.at \in {"configure", "replace"} <=> f.new # NoAddr,
         tlb' \in [Handle -> Tlbs],
         \A h \in Handle : tlb'[h].ptr = tlb[h].ptr,
         \A h \in Handle : tlb'[h] = tlb[h]
                           \/ (Owner[h] = c /\ tlb[h].ptr = NoAddr /\ call[c].new = NoAddr)
  PROVE  MapInv'
  <1>1. MapTypes'
    BY DEF MapInv, MapTypes
  <1>2. call'[c] = f /\ \A d \in Client \ {c} : call'[d] = call[d]
    BY DEF MapInv, MapTypes
  <1>3. \A d \in Client : call'[d].new = call[d].new
    BY <1>2
  <1>4. \A h \in Handle : HandleOK(h)'
    BY DEF MapInv, HandleOK
  <1>5. CallOK(c)'
    <2>1. f.new # NoAddr => f.h \in Handle /\ tlb'[f.h] = tlb[f.h]
      BY DEF MapInv, CallOK
    <2> QED
      BY <1>2, <2>1 DEF MapInv, CallOK
  <1>6. ASSUME NEW d \in Client \ {c}
        PROVE  CallOK(d)'
    <2>1. CallOK(d) /\ call'[d] = call[d]
      BY <1>2 DEF MapInv
    <2>2. call[d].at # "idle" => tlb'[call[d].h] = tlb[call[d].h]
      BY <2>1 DEF CallOK
    <2> QED
      BY <2>1, <2>2 DEF CallOK
  <1>7. Apart'
    BY <1>3 DEF MapInv, Apart
  <1>8. Held'
    BY <1>3 DEF MapInv, Held
  <1> QED
    BY <1>1, <1>4, <1>5, <1>6, <1>7, <1>8 DEF MapInv

\* munmap(2) of one address, or of none.
LEMMA Munmapped ==
  ASSUME MapTypes, NEW a, Munmap(a)
  PROVE  /\ vma' = [b \in Addr |-> vma'[b]]
         /\ shows' \in [Addr -> Window \cup {NoWindow}]
         /\ \A b \in Addr : IF b = a THEN vma'[b] = NoFile
                            ELSE vma'[b] = vma[b] /\ shows'[b] = shows[b]
  BY DEF MapTypes, Munmap, Retain

\* Of the pointer of h and the mapping made by the call on it, the one that is a is
\* unmapped and the other is what h points at from now on; either may be none.
LEMMA MunmapKeeps ==
  ASSUME MapInv, NEW c \in Client, NEW h \in Handle, Owner[h] = c,
         NEW a,
         \/ a = tlb[h].ptr /\ tlb'[h].ptr = call[c].new
         \/ a = call[c].new /\ tlb'[h].ptr = tlb[h].ptr,
         call[c].new # NoAddr => call[c].h = h,
         Munmap(a),
         tlb' \in [Handle -> Tlbs], tlb'[h].id = tlb[h].id,
         \A g \in Handle \ {h} : tlb'[g] = tlb[g],
         NEW f \in [at: CallPoints, h: Handle \cup {NoCall.h}, new: {NoAddr}, err: Codes],
         call' = [call EXCEPT ![c] = f],
         f.at \notin {"configure", "replace"},
         f.at # "idle" => f.h = h,
         f.at \in {"undo", "free"} => tlb'[h].ptr = NoAddr
  PROVE  MapInv'
  <1> USE WindowsAssumption
  <1> DEFINE p == tlb'[h].ptr
  <1>1. MapTypes /\ HandleOK(h) /\ CallOK(c) /\ Apart /\ Held
    BY DEF MapInv
  <1>2. /\ vma' = [b \in Addr |-> vma'[b]]
        /\ shows' \in [Addr -> Window \cup {NoWindow}]
        /\ \A b \in Addr : IF b = a THEN vma'[b] = NoFile
                           ELSE vma'[b] = vma[b] /\ shows'[b] = shows[b]
    BY <1>1, Munmapped
  <1>3. MapTypes'
    BY <1>1, <1>2 DEF MapTypes
  <1>4. /\ call'[c] = f /\ f.new = NoAddr
        /\ \A d \in Client \ {c} : call'[d] = call[d]
    BY <1>1 DEF MapTypes
  <1>5. p # NoAddr => p \in Addr /\ p # a
    BY <1>1 DEF MapTypes, Tlbs, Apart
  <1>6. HandleOK(h)'
    BY <1>1, <1>2, <1>5 DEF HandleOK, CallOK
  <1>7. ASSUME NEW g \in Handle \ {h}
        PROVE  HandleOK(g)' /\ (tlb[g].ptr # NoAddr => tlb[g].ptr \notin {a, p})
    <2>1. HandleOK(g)
      BY DEF MapInv
    <2>2. tlb[g].ptr # NoAddr => tlb[g].ptr \in Addr /\ tlb[g].ptr # a /\ tlb[g].ptr # p
      BY <1>1 DEF MapTypes, Tlbs, Apart
    <2> QED
      BY <1>2, <2>1, <2>2 DEF HandleOK
  <1>8. CallOK(c)'
    BY <1>4 DEF CallOK
  <1>9. ASSUME NEW d \in Client \ {c}
        PROVE  CallOK(d)' /\ (call[d].new # NoAddr => call[d].new \notin {a, p})
    <2>1. CallOK(d) /\ call'[d] = call[d]
      BY <1>4 DEF MapInv
    <2>2. call[d].new # NoAddr => call[d].new \in Addr /\ call[d].new # a /\ call[d].new # p
      BY <1>1 DEF MapTypes, Tlbs, Apart
    <2>3. call[d].at # "idle" => tlb'[call[d].h] = tlb[call[d].h]
      BY <2>1 DEF CallOK
    <2> QED
      BY <1>2, <2>1, <2>2, <2>3 DEF CallOK
  <1>10. Apart'
    <2>1. \A g, k \in Handle : tlb'[g].ptr # NoAddr /\ tlb'[g].ptr = tlb'[k].ptr => g = k
      BY <1>1, <1>7 DEF Apart
    <2>2. \A g \in Handle, d \in Client : tlb'[g].ptr # NoAddr => tlb'[g].ptr # call'[d].new
      BY <1>1, <1>4, <1>9 DEF Apart
    <2>3. \A d, e \in Client : call'[d].new # NoAddr /\ call'[d].new = call'[e].new => d = e
      BY <1>1, <1>4 DEF Apart
    <2> QED
      BY <2>1, <2>2, <2>3 DEF Apart
  <1>11. Held'
    <2> SUFFICES ASSUME NEW b \in Addr, vma'[b] # NoFile
                 PROVE  (\E g \in Handle : tlb'[g].ptr = b) \/ (\E d \in Client : call'[d].new = b)
      BY DEF Held
    <2>1. vma[b] # NoFile /\ b # a
      BY <1>2
    <2>2. CASE \E g \in Handle : tlb[g].ptr = b
      BY <2>1, <2>2
    <2>3. CASE \E d \in Client : call[d].new = b
      BY <1>4, <2>1, <2>3
    <2> QED
      BY <1>1, <2>1, <2>2, <2>3 DEF Held
  <1> QED
    BY <1>3, <1>6, <1>7, <1>8, <1>9, <1>10, <1>11 DEF MapInv

\* A step that concerns no mapping, handle or call.
LEMMA MapStays ==
  ASSUME MapInv, UNCHANGED <<vma, shows, tlb, call>>
  PROVE  MapInv'
  BY DEF MapInv, MapTypes, HandleOK, CallOK, Apart, Held

LEMMA AllocKeeps ==
  ASSUME MapInv, NEW c \in Client, NEW h \in Handle,
         AllocFail(c, h) \/ Alloc(c, h) \/ BindClosed(c, h) \/ BindFail(c, h)
  PROVE  MapInv'
  <1> USE WindowsAssumption DEF MapTypes
  <1>1. MapTypes /\ CallOK(c)
    BY DEF MapInv
  <1>2. call[c].at = "idle" => call[c].new = NoAddr
    BY <1>1 DEF CallOK
  <1>3. CASE AllocFail(c, h)
    <2> DEFINE f == Frame("idle", h, NoAddr, "OK")
    <2>1. /\ UNCHANGED <<vma, shows, tlb>> /\ call' = [call EXCEPT ![c] = f]
          /\ call[c].new = NoAddr /\ tlb' \in [Handle -> Tlbs]
      BY <1>1, <1>2, <1>3 DEF AllocFail, Begin, CanCall, kmdVars, windowVars
    <2>2. f \in [at: CallPoints, h: Handle \cup {NoCall.h}, new: Addr \cup {NoAddr}, err: Codes]
      BY DEF Frame, CallPoints, Codes
    <2>3. f.at = "idle" /\ f.new = NoAddr
      BY DEF Frame
    <2> HIDE DEF f
    <2> QED
      BY <2>1, <2>2, <2>3, FrameKeeps
  <1>4. CASE Alloc(c, h)
    <2>1. PICK at \in {"idle", "undo"} : call' = [call EXCEPT ![c] = Frame(at, h, NoAddr, "OK")]
      BY <1>4 DEF Alloc, Begin
    <2>2. PICK w \in Window : tlb' = [tlb EXCEPT ![h] = [id |-> w, ptr |-> NoAddr]]
      BY <1>4 DEF Alloc
    <2>3. /\ UNCHANGED <<vma, shows>> /\ call[c].new = NoAddr /\ Owner[h] = c
          /\ tlb[h].ptr = NoAddr
      BY <1>2, <1>4 DEF Alloc, Begin, CanCall, kmdVars, Unused
    <2>4. /\ tlb' \in [Handle -> Tlbs] /\ tlb'[h].ptr = NoAddr
          /\ \A g \in Handle \ {h} : tlb'[g] = tlb[g]
      BY <1>1, <2>2 DEF Tlbs
    <2> DEFINE f == Frame(at, h, NoAddr, "OK")
    <2>5. f \in [at: CallPoints, h: Handle \cup {NoCall.h}, new: Addr \cup {NoAddr}, err: Codes]
      BY DEF Frame, CallPoints, Codes
    <2>6. f.at \in {"idle", "undo"} /\ f.new = NoAddr /\ f.h = h
      BY DEF Frame
    <2> HIDE DEF f
    <2>7. call' = [call EXCEPT ![c] = f]
      BY <2>1 DEF f
    <2> QED
      BY <2>3, <2>4, <2>5, <2>6, <2>7, FrameKeeps
  <1>5. CASE BindClosed(c, h)
    <2> DEFINE f == Frame("idle", h, NoAddr, "OK")
    <2>1. /\ UNCHANGED <<vma, shows, tlb>> /\ call' = [call EXCEPT ![c] = f]
          /\ call[c].new = NoAddr /\ tlb' \in [Handle -> Tlbs]
      BY <1>1, <1>2, <1>5 DEF BindClosed, Begin, CanCall, kmdVars, windowVars
    <2>2. f \in [at: CallPoints, h: Handle \cup {NoCall.h}, new: Addr \cup {NoAddr}, err: Codes]
      BY DEF Frame, CallPoints, Codes
    <2>3. f.at = "idle" /\ f.new = NoAddr
      BY DEF Frame
    <2> HIDE DEF f
    <2> QED
      BY <2>1, <2>2, <2>3, FrameKeeps
  <1>6. CASE BindFail(c, h)
    <2>1. PICK r \in Codes : call' = [call EXCEPT ![c] = Frame("cleanup", h, NoAddr, r)]
      BY <1>6 DEF BindFail, Begin
    <2> DEFINE f == Frame("cleanup", h, NoAddr, r)
    <2>2. /\ UNCHANGED <<vma, shows, tlb>> /\ call' = [call EXCEPT ![c] = f]
          /\ call[c].new = NoAddr /\ tlb' \in [Handle -> Tlbs] /\ Owner[h] = c
      BY <1>1, <1>2, <1>6, <2>1 DEF BindFail, Begin, CanCall, kmdVars, windowVars, Handles
    <2>3. f \in [at: CallPoints, h: Handle \cup {NoCall.h}, new: Addr \cup {NoAddr}, err: Codes]
      BY DEF Frame, CallPoints
    <2>4. f.at = "cleanup" /\ f.new = NoAddr /\ f.h = h
      BY DEF Frame
    <2> HIDE DEF f
    <2> QED
      BY <2>2, <2>3, <2>4, FrameKeeps
  <1> QED
    BY <1>3, <1>4, <1>5, <1>6

\* The mapping a bind makes is at an address nobody holds.
LEMMA BindKeeps ==
  ASSUME MapInv, NEW c \in Client, NEW h \in Handle, Bind(c, h)
  PROVE  MapInv'
  <1> USE WindowsAssumption, KmdAssumption
  <1>1. MapTypes /\ CallOK(c) /\ Apart /\ Held
    BY DEF MapInv
  <1>2. PICK a \in FreeAddrs(Home[c]) :
          /\ vma' = [vma EXCEPT ![a] = FileOf(c)]
          /\ shows' = [shows EXCEPT ![a] = tlb[h].id]
          /\ Begin(c, "tt_tlb_bind", Frame("configure", h, a, "OK"), "OK")
    BY DEF Bind
  <1>3. /\ a \in Addr /\ a # NoAddr /\ vma[a] = NoFile /\ ProcOf[a] = Home[c]
        /\ call' = [call EXCEPT ![c] = Frame("configure", h, a, "OK")]
        /\ call[c].at = "idle" /\ call[c].new = NoAddr
    BY <1>1, <1>2 DEF FreeAddrs, Begin, CanCall, CallOK
  <1>4. /\ tlb' = tlb /\ Owner[h] = c /\ tlb[h].id \in Window
    BY <1>1 DEF Bind, Handles, MapTypes, Tlbs
  <1>5. FileOf(c) # NoFile
    BY DEF Bind, WindowIo, SessionIo, tt_fail_io, Io, FileOf
  <1>6. /\ vma'[a] # NoFile /\ shows'[a] = tlb[h].id
        /\ \A b \in Addr \ {a} : vma'[b] = vma[b] /\ shows'[b] = shows[b]
    BY <1>1, <1>2, <1>3, <1>5 DEF MapTypes
  <1> DEFINE f == Frame("configure", h, a, "OK")
  <1>7. /\ f \in [at: CallPoints, h: Handle \cup {NoCall.h}, new: Addr \cup {NoAddr}, err: Codes]
        /\ f.at = "configure" /\ f.h = h /\ f.new = a
    BY <1>3 DEF Frame, CallPoints, Codes
  <1> HIDE DEF f
  <1>8. /\ call' = [call EXCEPT ![c] = f] /\ call'[c] = f
        /\ \A d \in Client \ {c} : call'[d] = call[d]
    BY <1>1, <1>3 DEF MapTypes, f
  <1>9. MapTypes'
    BY <1>1, <1>2, <1>4, <1>7, <1>8 DEF MapTypes
  <1>10. ASSUME NEW g \in Handle
         PROVE  HandleOK(g)' /\ tlb[g].ptr # a
    <2>1. HandleOK(g) /\ tlb[g].ptr \in Addr \cup {NoAddr}
      BY <1>1 DEF MapInv, MapTypes, Tlbs
    <2>2. tlb[g].ptr # a
      BY <1>3, <2>1 DEF HandleOK
    <2> QED
      BY <1>4, <1>6, <2>1, <2>2 DEF HandleOK
  <1>11. CallOK(c)'
    BY <1>3, <1>4, <1>6, <1>7, <1>8 DEF CallOK
  <1>12. ASSUME NEW d \in Client \ {c}
         PROVE  CallOK(d)' /\ call[d].new # a
    <2>1. CallOK(d) /\ call[d].new \in Addr \cup {NoAddr}
      BY <1>1 DEF MapInv, MapTypes
    <2>2. call[d].new # a
      BY <1>3, <2>1 DEF CallOK
    <2> QED
      BY <1>4, <1>6, <1>8, <2>1, <2>2 DEF CallOK
  <1>13. Apart'
    BY <1>1, <1>4, <1>7, <1>8, <1>10, <1>12 DEF Apart
  <1>14. Held'
    <2> SUFFICES ASSUME NEW b \in Addr, vma'[b] # NoFile
                 PROVE  (\E g \in Handle : tlb'[g].ptr = b) \/ (\E d \in Client : call'[d].new = b)
      BY DEF Held
    <2>1. CASE b = a
      BY <1>7, <1>8, <2>1
    <2>2. CASE b # a
      <3>1. (\E g \in Handle : tlb[g].ptr = b) \/ (\E d \in Client : call[d].new = b)
        BY <1>1, <1>6, <2>2 DEF Held
      <3> QED
        BY <1>3, <1>4, <1>8, <3>1
    <2> QED
      BY <2>1, <2>2
  <1> QED
    BY <1>9, <1>10, <1>11, <1>12, <1>13, <1>14 DEF MapInv

\* The steps of a call that is under way.
LEMMA CallKeeps ==
  ASSUME MapInv, NEW c \in Client,
         \/ AllocUndo(c) \/ Configure(c) \/ ConfigureFail(c)
         \/ Replace(c) \/ Cleanup(c) \/ FreeIoctl(c)
  PROVE  MapInv'
  <1> USE WindowsAssumption
  <1> DEFINE h == call[c].h
             Frames == [at: CallPoints, h: Handle \cup {NoCall.h}, new: Addr \cup {NoAddr}, err: Codes]
  <1>1. MapTypes /\ CallOK(c) /\ call[c] \in Frames
    BY DEF MapInv, MapTypes
  <1>2. call[c].at # "idle" => h \in Handle /\ Owner[h] = c
    BY <1>1 DEF CallOK
  <1> HIDE DEF h
  <1>3. CASE AllocUndo(c) \/ FreeIoctl(c)
    <2> DEFINE f == Frame("idle", h, NoAddr, "OK")
    <2>1. /\ UNCHANGED <<vma, shows>> /\ call' = [call EXCEPT ![c] = f]
          /\ tlb' = [tlb EXCEPT ![h] = Unused] /\ call[c].at \in {"undo", "free"}
      BY <1>3 DEF AllocUndo, FreeIoctl, End, kmdVars, h
    <2>2. h \in Handle /\ Owner[h] = c /\ tlb[h].ptr = NoAddr /\ call[c].new = NoAddr
      BY <1>1, <1>2, <2>1 DEF CallOK, h
    <2>3. /\ f \in Frames
          /\ f.at = "idle" /\ f.new = NoAddr
      BY <2>2 DEF Frame, CallPoints, Codes
    <2>4. /\ tlb' \in [Handle -> Tlbs] /\ tlb'[h].ptr = NoAddr
          /\ \A g \in Handle \ {h} : tlb'[g] = tlb[g]
      BY <1>1, <2>1, <2>2 DEF MapTypes, Tlbs, Unused
    <2> HIDE DEF f
    <2> QED
      BY <2>1, <2>2, <2>3, <2>4, FrameKeeps
  <1>4. CASE Configure(c)
    <2> DEFINE f == [call[c] EXCEPT !.at = "replace"]
    <2>1. /\ call' = [call EXCEPT ![c] = f] /\ call[c].at = "configure"
          /\ UNCHANGED <<vma, shows, tlb>>
      BY <1>4 DEF Configure, Goto, sessionVars, kmdVars, windowVars
    <2>2. /\ f \in Frames
          /\ f.at = "replace" /\ f.new = call[c].new /\ f.h = h
      BY <1>1 DEF CallPoints, h
    <2>3. call[c].new # NoAddr /\ h \in Handle /\ Owner[h] = c /\ tlb' \in [Handle -> Tlbs]
      BY <1>1, <1>2, <2>1 DEF CallOK, MapTypes
    <2> HIDE DEF f
    <2> QED
      BY <2>1, <2>2, <2>3, FrameKeeps DEF h
  <1>5. CASE ConfigureFail(c)
    <2>1. PICK r \in ConfigureErrors(c) :
            call' = [call EXCEPT ![c] = Frame("cleanup", h, NoAddr, r)]
      BY <1>5 DEF ConfigureFail, h
    <2> DEFINE f == Frame("cleanup", h, NoAddr, r)
    <2>2. Munmap(call[c].new) /\ tlb' = tlb /\ h \in Handle /\ Owner[h] = c
      BY <1>2, <1>5 DEF ConfigureFail
    <2>3. r \in Codes
      <3>1. Io(fd[c]) \in Codes
        BY DEF Io, Codes
      <3>2. SessionIo(c) \in Codes
        BY <3>1 DEF SessionIo, tt_fail_io, Codes
      <3>3. WindowIo(c, call[c].h) \in Codes
        BY <3>2 DEF WindowIo, Codes
      <3> QED
        BY <2>1, <3>3 DEF ConfigureErrors, Codes
    <2>4. /\ f \in [at: CallPoints, h: Handle \cup {NoCall.h}, new: {NoAddr}, err: Codes]
          /\ f.at = "cleanup" /\ f.h = h
      BY <2>2, <2>3 DEF Frame, CallPoints
    <2>5. call' = [call EXCEPT ![c] = f] /\ tlb' \in [Handle -> Tlbs]
      BY <1>1, <2>1, <2>2 DEF MapTypes
    <2> HIDE DEF f
    <2> QED
      BY <2>2, <2>4, <2>5, MunmapKeeps DEF h
  <1>6. CASE Replace(c)
    <2> DEFINE f == Frame("idle", h, NoAddr, "OK")
    <2>1. /\ Munmap(tlb[h].ptr) /\ tlb' = [tlb EXCEPT ![h].ptr = call[c].new]
          /\ call' = [call EXCEPT ![c] = f] /\ h \in Handle /\ Owner[h] = c
      BY <1>2, <1>6 DEF Replace, End, h
    <2>2. /\ tlb' \in [Handle -> Tlbs] /\ tlb'[h].id = tlb[h].id /\ tlb'[h].ptr = call[c].new
          /\ \A g \in Handle \ {h} : tlb'[g] = tlb[g]
      BY <1>1, <2>1 DEF MapTypes, Tlbs
    <2>3. /\ f \in [at: CallPoints, h: Handle \cup {NoCall.h}, new: {NoAddr}, err: Codes]
          /\ f.at = "idle"
      BY <2>1 DEF Frame, CallPoints, Codes
    <2> HIDE DEF f
    <2> QED
      BY <2>1, <2>2, <2>3, MunmapKeeps DEF h
  <1>7. CASE Cleanup(c)
    <2> DEFINE f == Frame("idle", h, NoAddr, "OK")
    <2>1. /\ Munmap(tlb[h].ptr) /\ tlb' = [tlb EXCEPT ![h].ptr = NoAddr]
          /\ call' = [call EXCEPT ![c] = f] /\ h \in Handle /\ Owner[h] = c
          /\ call[c].new = NoAddr
      BY <1>1, <1>2, <1>7 DEF Cleanup, End, CallOK, h
    <2>2. /\ tlb' \in [Handle -> Tlbs] /\ tlb'[h].id = tlb[h].id /\ tlb'[h].ptr = NoAddr
          /\ \A g \in Handle \ {h} : tlb'[g] = tlb[g]
      BY <1>1, <2>1 DEF MapTypes, Tlbs
    <2>3. /\ f \in [at: CallPoints, h: Handle \cup {NoCall.h}, new: {NoAddr}, err: Codes]
          /\ f.at = "idle"
      BY <2>1 DEF Frame, CallPoints, Codes
    <2> HIDE DEF f
    <2> QED
      BY <2>1, <2>2, <2>3, MunmapKeeps
  <1> QED
    BY <1>3, <1>4, <1>5, <1>6, <1>7

LEMMA FreeKeeps ==
  ASSUME MapInv, NEW c \in Client, NEW h \in Handle, Free(c, h)
  PROVE  MapInv'
  <1> USE WindowsAssumption
  <1> DEFINE f == Frame("free", h, NoAddr, "OK")
  <1>1. MapTypes /\ CallOK(c)
    BY DEF MapInv
  <1>2. /\ Munmap(tlb[h].ptr) /\ tlb' = [tlb EXCEPT ![h].ptr = NoAddr]
        /\ call' = [call EXCEPT ![c] = f] /\ Owner[h] = c /\ call[c].new = NoAddr
    BY <1>1 DEF Free, Begin, CanCall, CallOK, Handles
  <1>3. /\ tlb' \in [Handle -> Tlbs] /\ tlb'[h].id = tlb[h].id /\ tlb'[h].ptr = NoAddr
        /\ \A g \in Handle \ {h} : tlb'[g] = tlb[g]
    BY <1>1, <1>2 DEF MapTypes, Tlbs
  <1>4. /\ f \in [at: CallPoints, h: Handle \cup {NoCall.h}, new: {NoAddr}, err: Codes]
        /\ f.at = "free" /\ f.h = h
    BY DEF Frame, CallPoints, Codes
  <1> HIDE DEF f
  <1>5. /\ f.at \notin {"configure", "replace"} /\ tlb'[h].ptr = call[c].new
        /\ call' = [call EXCEPT ![c] = f]
    BY <1>2, <1>3, <1>4
  <1> QED
    <2>1. Owner[h] = c /\ Munmap(tlb[h].ptr)
      BY <1>2
    <2>2. call[c].new # NoAddr => call[c].h = h
      BY <1>2
    <2>3. \A g \in Handle \ {h} : tlb'[g] = tlb[g]
      BY <1>3
    <2>4. tlb' \in [Handle -> Tlbs] /\ tlb'[h].id = tlb[h].id
      BY <1>3
    <2>5. f.at # "idle" => f.h = h
      BY <1>4
    <2>6. f.at \in {"undo", "free"} => tlb'[h].ptr = NoAddr
      BY <1>3
    <2>7. f \in [at: CallPoints, h: Handle \cup {NoCall.h}, new: {NoAddr}, err: Codes]
      BY <1>4
    <2> QED
      BY <1>5, <2>1, <2>2, <2>3, <2>4, <2>5, <2>6, <2>7, MunmapKeeps, Zenon

\* A process that exits takes its mappings, handles and calls with it.
LEMMA TlbExitKeeps ==
  ASSUME MapInv, NEW p \in Proc, TlbExit(p)
  PROVE  MapInv'
  <1> USE WindowsAssumption
  <1>1. MapTypes /\ Apart /\ Held
    BY DEF MapInv
  <1>2. /\ vma' = [a \in Addr |-> IF ProcOf[a] = p THEN NoFile ELSE vma[a]]
        /\ shows' = [a \in Addr |-> IF ProcOf[a] = p THEN NoWindow ELSE shows[a]]
        /\ tlb' = [h \in Handle |-> IF Home[Owner[h]] = p THEN Unused ELSE tlb[h]]
        /\ call' = [c \in Client |-> IF Home[c] = p THEN NoCall ELSE call[c]]
    BY DEF TlbExit, ProcessExit, Exit, Retain
  <1>3. NoCall.at = "idle" /\ NoCall.new = NoAddr /\ NoCall.err = "OK"
    BY DEF NoCall, Frame
  <1>4. NoCall \in [at: CallPoints, h: Handle \cup {NoCall.h}, new: Addr \cup {NoAddr}, err: Codes]
    BY DEF NoCall, Frame, CallPoints, Codes
  <1>5. MapTypes'
    BY <1>1, <1>2, <1>4 DEF MapTypes, Tlbs, Unused
  <1>6. ASSUME NEW h \in Handle
        PROVE  /\ HandleOK(h)'
               /\ IF Home[Owner[h]] = p THEN tlb'[h].ptr = NoAddr ELSE tlb'[h] = tlb[h]
               /\ tlb[h].ptr # NoAddr => ProcOf[tlb[h].ptr] = Home[Owner[h]]
    <2>1. HandleOK(h) /\ tlb[h].ptr \in Addr \cup {NoAddr}
      BY <1>1 DEF MapInv, MapTypes, Tlbs
    <2>2. IF Home[Owner[h]] = p THEN tlb'[h].ptr = NoAddr ELSE tlb'[h] = tlb[h]
      BY <1>2 DEF Unused
    <2> QED
      BY <1>2, <2>1, <2>2 DEF HandleOK
  <1>7. ASSUME NEW c \in Client
        PROVE  /\ CallOK(c)'
               /\ IF Home[c] = p THEN call'[c].new = NoAddr ELSE call'[c] = call[c]
               /\ call[c].new # NoAddr => ProcOf[call[c].new] = Home[c]
    <2>1. CallOK(c) /\ call[c].new \in Addr \cup {NoAddr}
      BY <1>1 DEF MapInv, MapTypes
    <2>2. CASE Home[c] = p
      <3>1. call'[c].at = "idle" /\ call'[c].new = NoAddr
        BY <1>2, <1>3, <2>2
      <3> QED
        BY <2>1, <2>2, <3>1 DEF CallOK
    <2>3. CASE Home[c] # p
      <3>1. call'[c] = call[c]
        BY <1>2, <2>3
      <3>2. call[c].at # "idle" => tlb'[call[c].h] = tlb[call[c].h]
        BY <1>2, <2>1, <2>3 DEF CallOK
      <3> QED
        BY <1>2, <2>1, <2>3, <3>1, <3>2 DEF CallOK
    <2> QED
      BY <2>2, <2>3
  <1>8. Apart'
    BY <1>1, <1>6, <1>7 DEF Apart
  <1>9. Held'
    <2> SUFFICES ASSUME NEW a \in Addr, vma'[a] # NoFile
                 PROVE  (\E h \in Handle : tlb'[h].ptr = a) \/ (\E c \in Client : call'[c].new = a)
      BY DEF Held
    <2>1. vma[a] # NoFile /\ ProcOf[a] # p /\ a # NoAddr
      BY <1>2
    <2>2. ASSUME NEW h \in Handle, tlb[h].ptr = a
          PROVE  tlb'[h].ptr = a
      BY <1>6, <2>1, <2>2
    <2>3. ASSUME NEW c \in Client, call[c].new = a
          PROVE  call'[c].new = a
      BY <1>7, <2>1, <2>3
    <2> QED
      BY <1>1, <2>1, <2>2, <2>3 DEF Held
  <1> QED
    BY <1>5, <1>6, <1>7, <1>8, <1>9 DEF MapInv

\* The calls on a session change no mapping.
LEMMA LifecycleMaps ==
  ASSUME MapInv, NEW c \in Client, TlbLifecycle(c)
  PROVE  MapInv' /\ vma' = vma
  <1>1. vma' = vma
    <2>1. \A r : tt_close(c, r) => vma' = vma
      BY DEF tt_close, CloseCall, Release, Retain, kmdVars
    <2>2. \A fl, d : OpenGrants(Home[c], fl, d) => vma' = vma
      BY DEF OpenGrants, Grant
    <2> QED
      BY <2>1, <2>2 DEF TlbLifecycle, LifecycleStep, Open, Reopen, OpenOk, OpenFail, Close, kmdVars
  <1>2. UNCHANGED <<shows, tlb, call>>
    BY DEF TlbLifecycle
  <1> QED
    BY <1>1, <1>2, MapStays

LEMMA MapInvInit ==
  ASSUME TlbInit
  PROVE  MapInv
  <1>1. /\ vma = [a \in Addr |-> NoFile] /\ shows = [a \in Addr |-> NoWindow]
        /\ tlb = [h \in Handle |-> Unused] /\ call = [c \in Client |-> NoCall]
    BY DEF TlbInit, SessionInit, KmdInit, WindowsInit
  <1>2. NoCall.at = "idle" /\ NoCall.new = NoAddr /\ Unused.ptr = NoAddr
    BY DEF NoCall, Frame, Unused
  <1>3. NoCall \in [at: CallPoints, h: Handle \cup {NoCall.h}, new: Addr \cup {NoAddr}, err: Codes]
    BY DEF NoCall, Frame, CallPoints, Codes
  <1>4. MapTypes
    BY <1>1, <1>3 DEF MapTypes, Tlbs, Unused
  <1>5. (\A h \in Handle : HandleOK(h)) /\ (\A c \in Client : CallOK(c)) /\ Apart /\ Held
    BY <1>1, <1>2 DEF HandleOK, CallOK, Apart, Held
  <1> QED
    BY <1>4, <1>5 DEF MapInv

LEMMA MapInvStep ==
  ASSUME MapInv, [TlbNext]_tlbVars
  PROVE  MapInv'
  <1>1. ASSUME NEW c \in Client, TlbStep(c)
        PROVE  MapInv'
    BY <1>1, AllocKeeps, BindKeeps, FreeKeeps, CallKeeps DEF TlbStep
  <1>2. CASE TlbEnv
    BY <1>2, MapStays DEF TlbEnv, SessionEnv, OobReset, Remove, Reprobe
  <1>3. CASE UNCHANGED tlbVars
    BY <1>3, MapStays DEF tlbVars, sessionVars, kmdVars, windowVars
  <1> QED
    BY <1>1, <1>2, <1>3, LifecycleMaps, TlbExitKeeps DEF TlbNext

LEMMA MapInvInductive == TlbSpec => []MapInv
  BY MapInvInit, MapInvStep, PTL DEF TlbSpec

\* No failed bind, rebind, free, close or exit leaves a mapping that nobody will
\* undo, a pointer to an address that is not mapped, or one address to two handles.
THEOREM TlbMappingsOwned == TlbSpec => []MappingsOwned
  <1>1. MapInv => MappingsOwned
    <2> SUFFICES ASSUME MapInv
                 PROVE  MappingsOwned
      OBVIOUS
    <2>1. \A h \in Handle : tlb[h].ptr # NoAddr =>
            vma[tlb[h].ptr] # NoFile /\ shows[tlb[h].ptr] = tlb[h].id
      BY DEF MapInv, HandleOK
    <2>2. \A c \in Client : call[c].new # NoAddr => vma[call[c].new] # NoFile
      BY DEF MapInv, CallOK
    <2>3. \A a \in Addr : vma[a] # NoFile =>
            \/ \E h \in Handle : tlb[h].ptr # NoAddr /\ tlb[h].ptr = a
            \/ \E c \in Client : call[c].new # NoAddr /\ call[c].new = a
      BY WindowsAssumption DEF MapInv, Held
    <2> QED
      BY <2>1, <2>2, <2>3 DEF MappingsOwned, MapInv, Apart
  <1> QED
    BY <1>1, MapInvInductive, PTL

------------------------------------------------------------------------------
(* Who owns which window.                                                   *)

\* A description exists while a slot or a mapping refers to it.
Counted ==
  \A f \in File : st[f] # "free" <=> (\E s \in Fd : fdtab[s] = f) \/ (\E a \in Addr : vma[a] = f)

\* A window is allocated to a description that counts in the arbitration.
Allocated ==
  /\ holder \in [Window -> File \cup {NoFile}]
  /\ \A w \in Window : holder[w] # NoFile => Holds(holder[w])

\* What WindowsOwned says of client c.
Live(c) == FileOf(c) # NoFile /\ st[FileOf(c)] = "live"
Owns(c) ==
  /\ \A w \in Window : holder[w] = FileOf(c) => \E h \in Handles(c) : tlb[h].id = w
  /\ \A h \in Handles(c) : holder[tlb[h].id] = FileOf(c)
  /\ \A g, h \in Handles(c) : tlb[g].id = tlb[h].id => g = h

\* A client that is opening its session has no handle and no TLB call in progress; one
\* that is in a TLB call is in it with a handle in use, and what it has mapped is its
\* session.
Busy(c) ==
  /\ pc[c] = "opening" => Handles(c) = {} /\ call[c].at = "idle"
  /\ call[c].at # "idle" => call[c].h \in Handles(c)
  /\ call[c].new # NoAddr => FileOf(c) # NoFile /\ vma[call[c].new] = FileOf(c)

\* What a handle maps of a session that is open is mapped by the handle's owner, and a
\* handle that maps something is in use.
Mine(h) ==
  tlb[h].ptr # NoAddr =>
    /\ tlb[h].id # NoWindow
    /\ \A c \in Client : FileOf(c) # NoFile /\ vma[tlb[h].ptr] = FileOf(c) => Owner[h] = c

WinOK ==
  /\ Counted
  /\ Allocated
  /\ \A c \in Client : Live(c) => Owns(c)
  /\ \A c \in Client : Busy(c)
  /\ \A h \in Handle : Mine(h)

WinInv == MapInv /\ SessionInv /\ WinOK

\* Sessions that are open are open on descriptions of their own.
LEMMA FilesApart ==
  ASSUME SessionInv
  PROVE  /\ \A c \in Client : FileOf(c) \in File \cup {NoFile}
         /\ \A c \in Client : FileOf(c) # NoFile => fd[c] \in Fd /\ FileOf(c) = fdtab[fd[c]]
         /\ \A c, d \in Client : FileOf(c) # NoFile /\ FileOf(c) = FileOf(d) => c = d
  <1>1. \A c \in Client : fd[c] # NoFd => fd[c] \in Fd /\ fdtab[fd[c]] \in File \cup {NoFile}
    BY DEF SessionInv, SessionTypeOK, KmdTypeOK
  <1> QED
    BY <1>1 DEF SessionInv, DescriptorsOwned, SlotsDistinct, FileOf

\* Reclaiming leaves a window with its description or frees it, and frees it only if
\* the description does not count any more.
LEMMA Reclaimed ==
  ASSUME Allocated, KmdTypeOK', Reclaim
  PROVE  /\ Allocated'
         /\ \A w \in Window : holder'[w] # NoFile => holder'[w] = holder[w]
         /\ \A w \in Window : holder[w] # NoFile /\ st'[holder[w]] = "live" => holder'[w] = holder[w]
  <1> USE KmdAssumption
  <1>1. \A w \in Window :
          holder'[w] = IF holder[w] # NoFile /\ st'[holder[w]] \in {"free", "dead"} THEN NoFile
                       ELSE holder[w]
    BY DEF Reclaim
  <1>2. holder' \in [Window -> File \cup {NoFile}]
    BY DEF Reclaim, Allocated
  <1>3. \A f \in File : st'[f] \in {"free", "dead"} \/ Holds(f)'
    BY DEF KmdTypeOK, Status, Holds
  <1>4. \A w \in Window : holder'[w] # NoFile =>
          holder'[w] = holder[w] /\ holder[w] \in File /\ st'[holder[w]] \notin {"free", "dead"}
    BY <1>1 DEF Allocated
  <1>5. \A w \in Window : holder'[w] # NoFile => Holds(holder[w])'
    BY <1>3, <1>4 DEF Holds
  <1>6. \A w \in Window : holder[w] # NoFile /\ st'[holder[w]] = "live" => holder'[w] = holder[w]
    BY <1>1
  <1> QED
    BY <1>2, <1>4, <1>5, <1>6 DEF Allocated

\* Client c keeps what it owns where its live session and the windows allocated to it
\* are what they were, and its handles name what they named ...
LEMMA OwnsStays ==
  ASSUME MapTypes, NEW c \in Client, Live(c) => Owns(c),
         Live(c)' => Live(c) /\ FileOf(c)' = FileOf(c),
         Live(c)' => \A w \in Window : holder'[w] = FileOf(c) <=> holder[w] = FileOf(c),
         \A h \in Handle : Owner[h] = c => tlb'[h].id = tlb[h].id
  PROVE  Live(c)' => Owns(c)'
  <1> SUFFICES ASSUME Live(c)'
               PROVE  Owns(c)'
    OBVIOUS
  <1>1. /\ Owns(c) /\ FileOf(c)' = FileOf(c)
        /\ \A w \in Window : holder'[w] = FileOf(c) <=> holder[w] = FileOf(c)
    OBVIOUS
  <1>2. Handles(c)' = Handles(c) /\ \A h \in Handles(c) : tlb'[h].id = tlb[h].id
    BY DEF Handles
  <1>3. \A h \in Handles(c) : tlb[h].id \in Window
    BY DEF Handles, MapTypes, Tlbs
  <1> QED
    BY <1>1, <1>2, <1>3 DEF Owns

\* ... and so it does where windows are only reclaimed.
LEMMA OwnsThrough ==
  ASSUME MapTypes, Allocated, KmdTypeOK', Reclaim, NEW c \in Client, Live(c) => Owns(c),
         Live(c)' => Live(c) /\ FileOf(c)' = FileOf(c),
         \A h \in Handle : Owner[h] = c => tlb'[h].id = tlb[h].id
  PROVE  Live(c)' => Owns(c)'
  <1>1. ASSUME Live(c)', NEW w \in Window
        PROVE  holder'[w] = FileOf(c) <=> holder[w] = FileOf(c)
    <2>1. FileOf(c) # NoFile /\ st'[FileOf(c)] = "live"
      BY <1>1 DEF Live
    <2>2. holder'[w] # NoFile => holder'[w] = holder[w]
      BY Reclaimed
    <2>3. holder[w] = FileOf(c) => holder'[w] = holder[w]
      BY <2>1, Reclaimed
    <2> QED
      BY <2>1, <2>2, <2>3
  <1> QED
    BY <1>1, OwnsStays

\* A client other than the one that makes a step is where it was.
LEMMA BusyStays ==
  ASSUME NEW c \in Client, Busy(c), call'[c] = call[c], pc'[c] = pc[c], FileOf(c)' = FileOf(c),
         \A h \in Handle : Owner[h] = c => tlb'[h].id = tlb[h].id,
         call[c].new # NoAddr => vma'[call[c].new] = vma[call[c].new]
  PROVE  Busy(c)'
  <1>1. Handles(c)' = Handles(c)
    BY DEF Handles
  <1> QED
    BY <1>1 DEF Busy

\* A step that changes no table and no handle.
LEMMA FrameWindows ==
  ASSUME WinInv, UNCHANGED <<kmdVars, windowVars, tlb, fd, pc>>, NEW c \in Client, NEW f,
         call' = [call EXCEPT ![c] = f], f.new = call[c].new,
         f.at # "idle" => f.h \in Handles(c) /\ pc[c] # "opening"
  PROVE  WinOK'
  <1>1. UNCHANGED <<st, fdtab, vma, holder>>
    BY DEF kmdVars, windowVars
  <1>2. \A d \in Client : FileOf(d)' = FileOf(d) /\ Handles(d)' = Handles(d)
    BY <1>1 DEF FileOf, Handles
  <1>3. MapTypes
    BY DEF WinInv, MapInv
  <1>4. call'[c] = f /\ \A d \in Client \ {c} : call'[d] = call[d]
    BY <1>3 DEF MapTypes
  <1>5. Counted' /\ Allocated'
    BY <1>1 DEF WinInv, WinOK, Counted, Allocated, Holds
  <1>6. ASSUME NEW d \in Client
        PROVE  (Live(d) => Owns(d))'
    BY <1>1, <1>2, <1>3, OwnsStays DEF WinInv, WinOK, Live
  <1>7. Busy(c)'
    BY <1>1, <1>2, <1>4 DEF WinInv, WinOK, Busy
  <1>8. \A d \in Client \ {c} : Busy(d)'
    BY <1>1, <1>2, <1>4 DEF WinInv, WinOK, Busy
  <1>9. \A h \in Handle : Mine(h)'
    BY <1>1, <1>2 DEF WinInv, WinOK, Mine
  <1> QED
    BY <1>5, <1>6, <1>7, <1>8, <1>9 DEF WinOK

\* The driver allocates a window that was free to c's description, and one handle of c's
\* that was not in use names it.
LEMMA AllocWindows ==
  ASSUME WinInv, NEW c \in Client, NEW h \in Handle, Alloc(c, h)
  PROVE  WinOK'
  <1> USE WindowsAssumption, KmdAssumption
  <1>1. MapTypes /\ CallOK(c) /\ SessionInv /\ Allocated /\ Busy(c)
    BY DEF WinInv, WinOK, MapInv
  <1>2. /\ Owner[h] = c /\ tlb[h] = Unused /\ SessionIo(c) = "OK"
        /\ UNCHANGED <<st, fdtab, vma, fd, pc>> /\ call[c].at = "idle" /\ pc[c] = "idle"
    BY DEF Alloc, Begin, CanCall, kmdVars
  <1>3. PICK w \in Window : /\ holder[w] = NoFile
                            /\ holder' = [holder EXCEPT ![w] = FileOf(c)]
                            /\ tlb' = [tlb EXCEPT ![h] = [id |-> w, ptr |-> NoAddr]]
    BY DEF Alloc
  <1>4. PICK at \in {"idle", "undo"} : call' = [call EXCEPT ![c] = Frame(at, h, NoAddr, "OK")]
    BY DEF Alloc, Begin
  <1>5. /\ \A d \in Client \ {c} : call'[d] = call[d]
        /\ call'[c].at \in {"idle", "undo"} /\ call'[c].h = h /\ call'[c].new = NoAddr
    BY <1>1, <1>4 DEF MapTypes, Frame
  <1>6. Live(c) /\ FileOf(c) \in File
    BY <1>1, <1>2, FilesApart DEF SessionIo, tt_fail_io, Io, Live, FileOf
  <1>7. \A d \in Client : FileOf(d)' = FileOf(d) /\ (Live(d)' <=> Live(d))
    BY <1>2 DEF FileOf, Live
  <1>8. /\ tlb'[h].id = w /\ tlb'[h].ptr = NoAddr /\ tlb[h].id = NoWindow
        /\ \A g \in Handle \ {h} : tlb'[g] = tlb[g]
    BY <1>1, <1>2, <1>3 DEF MapTypes, Unused
  <1>9. holder'[w] = FileOf(c) /\ \A v \in Window \ {w} : holder'[v] = holder[v]
    BY <1>1, <1>3 DEF Allocated
  <1>10. Counted'
    BY <1>2 DEF WinInv, WinOK, Counted
  <1>11. Allocated'
    <2>1. holder' \in [Window -> File \cup {NoFile}]
      BY <1>1, <1>3, <1>6 DEF Allocated
    <2> QED
      BY <1>1, <1>2, <1>6, <1>9, <2>1 DEF Allocated, Holds, Live
  <1>12. Owns(c)'
    <2>1. Handles(c)' = Handles(c) \cup {h} /\ h \notin Handles(c)
      BY <1>2, <1>8 DEF Handles
    <2>2. /\ \A v \in Window : holder[v] = FileOf(c) => \E g \in Handles(c) : tlb[g].id = v
          /\ \A g \in Handles(c) : holder[tlb[g].id] = FileOf(c)
          /\ \A g, k \in Handles(c) : tlb[g].id = tlb[k].id => g = k
      BY <1>6 DEF WinInv, WinOK, Owns
    <2>3. \A g \in Handles(c) : g \in Handle \ {h} /\ tlb[g].id \in Window \ {w}
      BY <1>1, <1>3, <1>6, <2>1, <2>2 DEF Handles, MapTypes, Tlbs
    <2>4. \A v \in Window : holder'[v] = FileOf(c) => \E g \in Handles(c) \cup {h} : tlb'[g].id = v
      BY <1>8, <1>9, <2>2, <2>3
    <2>5. \A g \in Handles(c) \cup {h} : holder'[tlb'[g].id] = FileOf(c)
      BY <1>8, <1>9, <2>2, <2>3
    <2>6. \A g, k \in Handles(c) \cup {h} : tlb'[g].id = tlb'[k].id => g = k
      BY <1>8, <2>2, <2>3
    <2> QED
      BY <1>7, <2>1, <2>4, <2>5, <2>6 DEF Owns
  <1>13. ASSUME NEW d \in Client \ {c}
         PROVE  (Live(d) => Owns(d))' /\ Busy(d)'
    <2>1. \A g \in Handle : Owner[g] = d => tlb'[g].id = tlb[g].id
      BY <1>2, <1>8
    <2>2. ASSUME Live(d), NEW v \in Window
          PROVE  holder'[v] = FileOf(d) <=> holder[v] = FileOf(d)
      <3>1. FileOf(d) # NoFile /\ FileOf(d) # FileOf(c)
        BY <1>1, <2>2, FilesApart DEF Live
      <3> QED
        BY <1>3, <1>9, <3>1
    <2>3. Live(d) => Owns(d)
      BY DEF WinInv, WinOK
    <2>4. (Live(d) => Owns(d))'
      BY <1>1, <1>7, <2>1, <2>2, <2>3, OwnsStays
    <2>5. Busy(d)'
      BY <1>2, <1>5, <1>7, <2>1, BusyStays DEF WinInv, WinOK
    <2> QED
      BY <2>4, <2>5
  <1>14. Busy(c)'
    <2>1. h \in Handles(c)'
      BY <1>2, <1>8 DEF Handles
    <2> QED
      BY <1>2, <1>5, <2>1 DEF Busy
  <1>15. ASSUME NEW g \in Handle
         PROVE  Mine(g)'
    BY <1>2, <1>7, <1>8 DEF WinInv, WinOK, Mine
  <1> QED
    BY <1>10, <1>11, <1>12, <1>13, <1>14, <1>15 DEF WinOK

\* What a bind maps is the caller's own session.
LEMMA BindWindows ==
  ASSUME WinInv, NEW c \in Client, NEW h \in Handle, Bind(c, h)
  PROVE  WinOK'
  <1> USE WindowsAssumption, KmdAssumption
  <1>1. MapInv /\ MapTypes /\ CallOK(c) /\ SessionInv /\ Allocated /\ Busy(c)
    BY DEF WinInv, WinOK, MapInv
  <1>2. PICK a \in FreeAddrs(Home[c]) :
          /\ vma' = [vma EXCEPT ![a] = FileOf(c)]
          /\ Begin(c, "tt_tlb_bind", Frame("configure", h, a, "OK"), "OK")
    BY DEF Bind
  <1>3. /\ a \in Addr /\ a # NoAddr /\ vma[a] = NoFile
        /\ call' = [call EXCEPT ![c] = Frame("configure", h, a, "OK")]
        /\ call[c].at = "idle" /\ call[c].new = NoAddr /\ pc[c] = "idle"
    BY <1>1, <1>2 DEF FreeAddrs, Begin, CanCall, CallOK
  <1>4. /\ UNCHANGED <<st, fdtab, holder, tlb, fd, pc>> /\ h \in Handles(c)
        /\ WindowIo(c, h) = "OK"
    BY <1>2 DEF Bind, Begin
  <1>5. FileOf(c) \in File /\ fd[c] \in Fd /\ FileOf(c) = fdtab[fd[c]]
    <2>1. FileOf(c) # NoFile
      BY <1>4 DEF WindowIo, SessionIo, tt_fail_io, Io, FileOf
    <2> QED
      BY <1>1, <2>1, FilesApart
  <1>6. vma'[a] = FileOf(c) /\ \A b \in Addr \ {a} : vma'[b] = vma[b]
    BY <1>1, <1>2, <1>3 DEF MapTypes
  <1>7. /\ \A d \in Client \ {c} : call'[d] = call[d]
        /\ call'[c].at = "configure" /\ call'[c].h = h /\ call'[c].new = a
    BY <1>1, <1>3 DEF MapTypes, Frame
  <1>8. \A d \in Client : FileOf(d)' = FileOf(d) /\ Handles(d)' = Handles(d)
    BY <1>4 DEF FileOf, Handles
  <1>9. Counted'
    <2> SUFFICES ASSUME NEW f \in File
                 PROVE  st'[f] # "free" <=> (\E s \in Fd : fdtab'[s] = f) \/ (\E b \in Addr : vma'[b] = f)
      BY DEF Counted
    <2>1. st[f] # "free" <=> (\E s \in Fd : fdtab[s] = f) \/ (\E b \in Addr : vma[b] = f)
      BY DEF WinInv, WinOK, Counted
    <2>2. CASE f = FileOf(c)
      BY <1>4, <1>5, <2>1, <2>2
    <2>3. CASE f # FileOf(c)
      <3>1. (\E b \in Addr : vma'[b] = f) <=> (\E b \in Addr : vma[b] = f)
        BY <1>3, <1>6, <2>3
      <3> QED
        BY <1>4, <2>1, <3>1
    <2> QED
      BY <2>2, <2>3
  <1>10. Allocated'
    BY <1>1, <1>4 DEF Allocated, Holds
  <1>11. ASSUME NEW d \in Client
         PROVE  (Live(d) => Owns(d))'
    BY <1>1, <1>4, <1>8, OwnsStays DEF WinInv, WinOK, Live
  <1>12. Busy(c)'
    BY <1>3, <1>4, <1>5, <1>6, <1>7, <1>8 DEF Busy
  <1>13. ASSUME NEW d \in Client \ {c}
         PROVE  Busy(d)'
    <2>1. CallOK(d) /\ call[d].new \in Addr \cup {NoAddr}
      BY <1>1 DEF MapInv, MapTypes
    <2>2. call[d].new # NoAddr => vma'[call[d].new] = vma[call[d].new]
      BY <1>3, <1>6, <2>1 DEF CallOK
    <2> QED
      BY <1>4, <1>7, <1>8, <2>2, BusyStays DEF WinInv, WinOK
  <1>14. ASSUME NEW g \in Handle
         PROVE  Mine(g)'
    <2>1. HandleOK(g) /\ tlb[g].ptr \in Addr \cup {NoAddr}
      BY <1>1 DEF MapInv, MapTypes, Tlbs
    <2>2. tlb[g].ptr # NoAddr => vma'[tlb[g].ptr] = vma[tlb[g].ptr]
      BY <1>3, <1>6, <2>1 DEF HandleOK
    <2> QED
      BY <1>4, <1>8, <2>2 DEF WinInv, WinOK, Mine
  <1> QED
    BY <1>9, <1>10, <1>11, <1>12, <1>13, <1>14 DEF WinOK

\* A munmap(2) frees at most a description that no slot refers to.
LEMMA MunmapTables ==
  ASSUME SessionInv, Counted, NEW a, Munmap(a), UNCHANGED fd
  PROVE  /\ KmdTypeOK' /\ Reclaim /\ Counted'
         /\ \A c \in Client : FileOf(c)' = FileOf(c) /\ (Live(c)' => Live(c))
  <1> USE KmdAssumption
  <1> DEFINE maps == [b \in Addr |-> IF b = a THEN NoFile ELSE vma[b]]
  <1>1. KmdTypeOK
    BY DEF SessionInv, SessionTypeOK
  <1>2. Retain(fdtab, maps) /\ Reclaim
    BY DEF Munmap
  <1>3. maps \in [Addr -> File \cup {NoFile}] /\ \A b \in Addr : maps[b] \in {vma[b], NoFile}
    BY <1>1 DEF KmdTypeOK
  <1> HIDE DEF maps
  <1>4. KmdTypeOK'
    BY <1>1, <1>2, <1>3, RetainTypes DEF KmdTypeOK
  <1> DEFINE InUse(f) == (\E d \in Fd : fdtab[d] = f) \/ (\E b \in Addr : maps[b] = f)
  <1>5. /\ fdtab' = fdtab /\ vma' = maps
        /\ st' = [f \in File |-> IF InUse(f) THEN st[f] ELSE "free"]
    BY <1>2 DEF Retain
  <1>6. \A f \in File : InUse(f) => st[f] # "free"
    BY <1>1, <1>3 DEF Counted
  <1>7. \A f \in File : InUse(f) <=> (\E d \in Fd : fdtab'[d] = f) \/ (\E b \in Addr : vma'[b] = f)
    BY <1>5
  <1>8. Counted'
    <2> HIDE DEF InUse
    <2>1. \A f \in File : st'[f] # "free" <=> InUse(f)
      BY <1>5, <1>6
    <2> QED
      BY <1>7, <2>1 DEF Counted
  <1>9. ASSUME NEW c \in Client
        PROVE  FileOf(c)' = FileOf(c) /\ (Live(c)' => Live(c))
    <2>1. FileOf(c)' = FileOf(c) /\ FileOf(c) \in File \cup {NoFile}
      BY <1>1, <1>5, FilesApart DEF FileOf
    <2> HIDE DEF InUse
    <2>2. \A f \in File : st'[f] = "live" => st[f] = "live"
      BY <1>5
    <2> QED
      BY <2>1, <2>2 DEF Live
  <1> QED
    BY <1>2, <1>4, <1>8, <1>9

\* The steps that unmap: Free, ConfigureFail, Replace and Cleanup (see MunmapKeeps).
LEMMA MunmapWindows ==
  ASSUME WinInv, NEW c \in Client, NEW h \in Handles(c), NEW a, Munmap(a),
         \/ a = tlb[h].ptr /\ tlb'[h].ptr = call[c].new
         \/ a = call[c].new /\ tlb'[h].ptr = tlb[h].ptr,
         tlb'[h].id = tlb[h].id, \A g \in Handle \ {h} : tlb'[g] = tlb[g],
         UNCHANGED <<fd, pc>>, pc[c] # "opening",
         NEW f, f.new = NoAddr, f.at # "idle" => f.h = h, call' = [call EXCEPT ![c] = f]
  PROVE  WinOK'
  <1> USE WindowsAssumption
  <1>1. /\ MapInv /\ MapTypes /\ HandleOK(h) /\ CallOK(c) /\ Apart /\ SessionInv /\ Allocated
        /\ Busy(c) /\ Mine(h) /\ h \in Handle /\ Owner[h] = c /\ tlb[h].id # NoWindow
    BY DEF WinInv, WinOK, MapInv, Handles
  <1>2. /\ KmdTypeOK' /\ Reclaim /\ Counted'
        /\ \A d \in Client : FileOf(d)' = FileOf(d) /\ (Live(d)' => Live(d))
    BY <1>1, MunmapTables DEF WinInv, WinOK
  <1>3. \A b \in Addr : b # a => vma'[b] = vma[b]
    BY <1>1, Munmapped
  <1>4. Allocated'
    BY <1>1, <1>2, Reclaimed
  <1>5. \A g \in Handle : tlb'[g].id = tlb[g].id
    OBVIOUS
  <1>6. \A d \in Client : Handles(d)' = Handles(d)
    BY <1>5 DEF Handles
  <1>7. ASSUME NEW d \in Client
        PROVE  (Live(d) => Owns(d))'
    <2>1. Live(d) => Owns(d)
      BY DEF WinInv, WinOK
    <2>2. Live(d)' => Live(d) /\ FileOf(d)' = FileOf(d)
      BY <1>2
    <2>3. (Live(d))' => (Owns(d))'
      BY <1>1, <1>2, <1>5, <2>1, <2>2, OwnsThrough
    <2> QED
      BY <2>3
  <1>8. call'[c] = f /\ \A d \in Client \ {c} : call'[d] = call[d]
    BY <1>1 DEF MapTypes
  <1>9. Busy(c)'
    BY <1>6, <1>8 DEF Busy
  <1>10. ASSUME NEW d \in Client \ {c}
         PROVE  Busy(d)'
    <2>1. call[d].new # NoAddr => call[d].new \in Addr /\ call[d].new # a
      BY <1>1 DEF MapTypes, Tlbs, Apart
    <2>2. call[d].new # NoAddr => vma'[call[d].new] = vma[call[d].new]
      BY <1>3, <2>1
    <2> QED
      BY <1>2, <1>5, <1>8, <2>2, BusyStays DEF WinInv, WinOK
  <1>11. Mine(h)'
    <2> SUFFICES ASSUME tlb'[h].ptr # NoAddr, NEW d \in Client, FileOf(d) # NoFile,
                        vma'[tlb'[h].ptr] = FileOf(d)
                 PROVE  c = d
      BY <1>1, <1>2 DEF Mine
    <2>1. tlb'[h].ptr \in Addr /\ tlb'[h].ptr # a
      BY <1>1 DEF MapTypes, Tlbs, Apart
    <2>2. vma[tlb'[h].ptr] = FileOf(d)
      BY <1>3, <2>1
    <2>3. CASE tlb'[h].ptr = tlb[h].ptr
      BY <1>1, <2>2, <2>3 DEF Mine
    <2>4. CASE tlb'[h].ptr = call[c].new
      BY <1>1, <2>2, <2>4, FilesApart DEF Busy
    <2> QED
      BY <2>3, <2>4
  <1>12. ASSUME NEW g \in Handle \ {h}
         PROVE  Mine(g)'
    <2>1. tlb[g].ptr # NoAddr => tlb[g].ptr \in Addr /\ tlb[g].ptr # a
      BY <1>1 DEF MapTypes, Tlbs, Apart
    <2>2. tlb[g].ptr # NoAddr => vma'[tlb[g].ptr] = vma[tlb[g].ptr]
      BY <1>3, <2>1
    <2> QED
      BY <1>2, <2>2 DEF WinInv, WinOK, Mine
  <1> QED
    BY <1>2, <1>4, <1>7, <1>9, <1>10, <1>11, <1>12 DEF WinOK

\* FREE_TLB at the end of tt_tlb_free and of a tt_tlb_alloc that fails: on a session that
\* is open it frees the window, for no address shows it any more.
LEMMA FreeWindows ==
  ASSUME WinInv, NEW c \in Client, call[c].at \in {"undo", "free"},
         NEW r, FreeTlb(c, call[c].h, r), UNCHANGED <<kmdVars, fd, pc>>,
         tlb' = [tlb EXCEPT ![call[c].h] = Unused],
         NEW f, f.at = "idle", f.new = NoAddr, call' = [call EXCEPT ![c] = f]
  PROVE  WinOK'
  <1> USE WindowsAssumption, KmdAssumption
  <1>1. /\ MapInv /\ MapTypes /\ CallOK(c) /\ Held /\ SessionInv /\ Allocated
        /\ Busy(c) /\ UNCHANGED <<st, fdtab, vma>>
    BY DEF WinInv, WinOK, MapInv, kmdVars
  <1>2. PICK h \in Handles(c) : h = call[c].h
    BY <1>1 DEF Busy
  <1>3. /\ h \in Handle /\ Owner[h] = c /\ tlb[h].id \in Window
        /\ tlb[h].ptr = NoAddr /\ call[c].new = NoAddr
    BY <1>1, <1>2 DEF Handles, MapTypes, Tlbs, CallOK
  <1>4. /\ tlb'[h].id = NoWindow /\ tlb'[h].ptr = NoAddr
        /\ \A g \in Handle \ {h} : tlb'[g] = tlb[g]
    BY <1>1, <1>2, <1>3 DEF MapTypes, Unused
  <1>5. call'[c] = f /\ \A d \in Client \ {c} : call'[d] = call[d]
    BY <1>1 DEF MapTypes
  <1>6. \A d \in Client : FileOf(d)' = FileOf(d) /\ (Live(d)' <=> Live(d))
    BY <1>1 DEF FileOf, Live
  <1>7. Counted'
    BY <1>1 DEF WinInv, WinOK, Counted
  <1>8. r = "OK" => /\ Live(c) /\ holder[tlb[h].id] = FileOf(c)
                    /\ holder'[tlb[h].id] = NoFile
                    /\ \A w \in Window \ {tlb[h].id} : holder'[w] = holder[w]
    <2> SUFFICES ASSUME r = "OK"
                 PROVE  /\ Live(c) /\ holder[tlb[h].id] = FileOf(c)
                        /\ holder'[tlb[h].id] = NoFile
                        /\ \A w \in Window \ {tlb[h].id} : holder'[w] = holder[w]
      OBVIOUS
    <2>1. WindowIo(c, h) = "OK"
      BY <1>2 DEF FreeTlb
    <2>2. SessionIo(c) = "OK" /\ holder[tlb[h].id] = FileOf(c)
      BY <2>1 DEF WindowIo
    <2>3. Live(c)
      BY <2>2 DEF SessionIo, tt_fail_io, Io, Live, FileOf
    <2>4. holder' = [holder EXCEPT ![tlb[h].id] = NoFile]
      BY <1>2 DEF FreeTlb
    <2> QED
      BY <1>1, <1>3, <2>2, <2>3, <2>4 DEF Allocated
  <1>9. r # "OK" => holder' = holder
    BY DEF FreeTlb
  <1>10. Allocated'
    <2>1. holder' \in [Window -> File \cup {NoFile}]
      BY <1>1, <1>9 DEF FreeTlb, Allocated
    <2> QED
      BY <1>1, <1>8, <1>9, <2>1 DEF Allocated, Holds
  <1>11. Live(c) => r = "OK"
    <2> SUFFICES ASSUME Live(c)
                 PROVE  r = "OK"
      OBVIOUS
    <2>1. Owns(c)
      BY DEF WinInv, WinOK
    <2>2. SessionIo(c) = "OK"
      BY DEF Live, FileOf, SessionIo, tt_fail_io, Io
    <2>3. WindowIo(c, h) = "OK"
      BY <2>1, <2>2 DEF Owns, WindowIo
    <2>4. ASSUME NEW a \in Addr, vma[a] = FileOf(c), shows[a] = tlb[h].id
          PROVE  FALSE
      <3>1. vma[a] # NoFile /\ FileOf(c) # NoFile
        BY <2>4 DEF Live
      <3>2. ASSUME NEW g \in Handle, tlb[g].ptr = a
            PROVE  FALSE
        <4>1. Mine(g) /\ HandleOK(g)
          BY DEF WinInv, WinOK, MapInv
        <4>2. Owner[g] = c /\ tlb[g].id = tlb[h].id /\ tlb[g].id # NoWindow
          BY <2>4, <3>1, <3>2, <4>1 DEF Mine, HandleOK
        <4>3. g = h
          BY <2>1, <4>2 DEF Owns, Handles
        <4> QED
          BY <1>3, <3>2, <4>3
      <3>3. ASSUME NEW d \in Client, call[d].new = a
            PROVE  FALSE
        <4>1. Busy(d)
          BY DEF WinInv, WinOK
        <4>2. FileOf(d) = FileOf(c)
          BY <2>4, <3>3, <4>1 DEF Busy
        <4>3. d = c
          BY <1>1, <3>1, <4>2, FilesApart
        <4> QED
          BY <1>3, <3>3, <4>3
      <3> QED
        BY <1>1, <3>1, <3>2, <3>3 DEF Held
    <2> QED
      BY <1>2, <2>3, <2>4 DEF FreeTlb
  <1>12. ASSUME Live(c)
         PROVE  Owns(c)'
    <2>1. /\ holder'[tlb[h].id] = NoFile
          /\ \A w \in Window \ {tlb[h].id} : holder'[w] = holder[w]
          /\ FileOf(c) # NoFile
      BY <1>8, <1>11, <1>12 DEF Live
    <2>2. /\ \A w \in Window : holder[w] = FileOf(c) => \E g \in Handles(c) : tlb[g].id = w
          /\ \A g \in Handles(c) : holder[tlb[g].id] = FileOf(c)
          /\ \A g, k \in Handles(c) : tlb[g].id = tlb[k].id => g = k
      BY <1>12 DEF WinInv, WinOK, Owns
    <2>3. Handles(c)' = Handles(c) \ {h}
      BY <1>4 DEF Handles
    <2>4. \A g \in Handles(c) \ {h} : /\ tlb'[g] = tlb[g]
                                      /\ tlb[g].id \in Window \ {tlb[h].id}
      BY <1>1, <1>2, <1>4, <2>2 DEF Handles, MapTypes, Tlbs
    <2>5. \A w \in Window : holder'[w] = FileOf(c) => \E g \in Handles(c) \ {h} : tlb'[g].id = w
      BY <2>1, <2>2, <2>4
    <2>6. \A g \in Handles(c) \ {h} : holder'[tlb'[g].id] = FileOf(c)
      BY <2>1, <2>2, <2>4
    <2>7. \A g, k \in Handles(c) \ {h} : tlb'[g].id = tlb'[k].id => g = k
      BY <2>2, <2>4
    <2> QED
      BY <1>6, <2>3, <2>5, <2>6, <2>7 DEF Owns
  <1>13. ASSUME NEW d \in Client \ {c}
         PROVE  (Live(d) => Owns(d))' /\ Busy(d)'
    <2>1. \A g \in Handle : Owner[g] = d => tlb'[g].id = tlb[g].id
      BY <1>3, <1>4
    <2>2. ASSUME Live(d), NEW w \in Window
          PROVE  holder'[w] = FileOf(d) <=> holder[w] = FileOf(d)
      <3>1. FileOf(d) # NoFile /\ FileOf(d) # FileOf(c)
        BY <1>1, <2>2, FilesApart DEF Live
      <3> QED
        BY <1>8, <1>9, <3>1
    <2>3. Live(d) => Owns(d)
      BY DEF WinInv, WinOK
    <2>4. (Live(d) => Owns(d))'
      BY <1>1, <1>6, <2>1, <2>2, <2>3, OwnsStays
    <2>5. Busy(d)'
      BY <1>1, <1>5, <1>6, <2>1, BusyStays DEF WinInv, WinOK
    <2> QED
      BY <2>4, <2>5
  <1>14. Busy(c)'
    <2>1. pc[c] # "opening"
      BY <1>1 DEF Busy
    <2> QED
      BY <1>5, <2>1 DEF Busy
  <1>15. ASSUME NEW g \in Handle
         PROVE  Mine(g)'
    BY <1>1, <1>4, <1>6 DEF WinInv, WinOK, Mine
  <1> QED
    BY <1>6, <1>7, <1>10, <1>12, <1>13, <1>14, <1>15 DEF WinOK

\* A TLB call leaves the session as it is.
LEMMA TlbStepSession ==
  ASSUME MapInv, SessionInv, NEW c \in Client, TlbStep(c)
  PROVE  SessionInv' /\ UNCHANGED <<fd, pc>>
  <1>1. /\ MapInv /\ MapTypes /\ SessionInv
        /\ vma \in [Addr -> File \cup {NoFile}] /\ FileOf(c) \in File \cup {NoFile}
    BY FilesApart DEF MapInv, SessionInv, SessionTypeOK, KmdTypeOK
  <1>2. ASSUME NEW o \in Ops, NEW f, NEW r \in Codes, Begin(c, o, f, r)
        PROVE  Reported(c)
    BY <1>1, <1>2 DEF Begin, Return, Reported, SessionInv, SessionTypeOK
  <1>3. ASSUME NEW r \in Codes, End(c, r)
        PROVE  Reported(c)
    BY <1>1, <1>3 DEF End, Return, Reported, SessionInv, SessionTypeOK
  <1>4. ASSUME Reported(c), NEW a, Munmap(a)
        PROVE  SessionInv'
    <2> DEFINE maps == [b \in Addr |-> IF b = a THEN NoFile ELSE vma[b]]
    <2>1. Mapped(maps)
      BY <1>1, <1>4 DEF Munmap, Mapped
    <2> HIDE DEF maps
    <2> QED
      BY <1>1, <1>4, <2>1, MappedKeeps
  <1>5. ASSUME NEW h \in Handle, AllocFail(c, h) \/ Alloc(c, h) \/ BindClosed(c, h) \/ BindFail(c, h)
        PROVE  SessionInv' /\ UNCHANGED <<fd, pc>>
    <2>1. UNCHANGED kmdVars /\ \E o \in {"tt_tlb_alloc", "tt_tlb_bind"}, r \in Codes :
                                 \E f : Begin(c, o, f, r)
      BY <1>5 DEF AllocFail, Alloc, BindClosed, BindFail, Codes
    <2>2. Reported(c)
      BY <1>2, <2>1 DEF Ops
    <2> QED
      BY <1>1, <2>1, <2>2, ReportedKeeps DEF Reported
  <1>6. ASSUME NEW h \in Handle, Bind(c, h)
        PROVE  SessionInv' /\ UNCHANGED <<fd, pc>>
    <2>1. PICK a \in Addr : /\ vma' = [vma EXCEPT ![a] = FileOf(c)]
                            /\ Begin(c, "tt_tlb_bind", Frame("configure", h, a, "OK"), "OK")
      BY <1>6 DEF Bind, FreeAddrs
    <2>2. Reported(c)
      BY <1>2, <2>1 DEF Ops, Codes
    <2>3. UNCHANGED <<present, st, excl, fdtab>>
      BY <1>6 DEF Bind
    <2>4. vma' \in [Addr -> File \cup {NoFile}]
      BY <1>1, <2>1
    <2>5. SessionTypeOK'
      BY <1>1, <2>2, <2>3, <2>4 DEF Reported, SessionInv, SessionTypeOK, KmdTypeOK
    <2>6. Quiet /\ OpeningIsClosed'
      BY <1>1, <2>2, <2>3 DEF Reported, Quiet, Holds, OpeningIsClosed, SessionInv
    <2> QED
      BY <1>1, <2>2, <2>5, <2>6, QuietKeeps DEF SessionInv, SessionTypeOK, Reported
  <1>7. ASSUME NEW h \in Handle, Free(c, h)
        PROVE  SessionInv' /\ UNCHANGED <<fd, pc>>
    <2>1. Munmap(tlb[h].ptr) /\ Reported(c)
      BY <1>2, <1>7 DEF Free, Ops, Codes
    <2> QED
      BY <1>4, <2>1 DEF Reported
  <1>8. CASE AllocUndo(c) \/ FreeIoctl(c)
    <2>1. UNCHANGED kmdVars /\ \E r \in Codes : End(c, r)
      BY <1>8 DEF AllocUndo, FreeIoctl, Codes
    <2> QED
      BY <1>1, <1>3, <2>1, ReportedKeeps DEF Reported
  <1>9. CASE Configure(c)
    <2>1. UNCHANGED <<kmdVars, fd, flags, req, pc, op, ret>>
      BY <1>9 DEF Configure, sessionVars, sessVars
    <2>2. Reported(c)
      BY <1>1, <2>1 DEF Reported, SessionInv, SessionTypeOK
    <2> QED
      BY <1>1, <2>1, <2>2, ReportedKeeps
  <1>10. CASE ConfigureFail(c)
    <2>1. UNCHANGED <<fd, flags, req, pc, op, ret>> /\ Munmap(call[c].new)
      BY <1>10 DEF ConfigureFail, sessVars
    <2>2. Reported(c)
      BY <1>1, <2>1 DEF Reported, SessionInv, SessionTypeOK
    <2> QED
      BY <1>4, <2>1, <2>2
  <1>11. CASE Replace(c) \/ Cleanup(c)
    <2>1. Munmap(tlb[call[c].h].ptr) /\ \E r \in Codes : End(c, r)
      BY <1>1, <1>11 DEF Replace, Cleanup, Codes, MapTypes
    <2>2. Reported(c)
      BY <1>3, <2>1
    <2> QED
      BY <1>4, <2>1, <2>2 DEF Reported
  <1> QED
    BY <1>5, <1>6, <1>7, <1>8, <1>9, <1>10, <1>11 DEF TlbStep

LEMMA TlbStepWindows ==
  ASSUME WinInv, NEW c \in Client, TlbStep(c)
  PROVE  WinOK'
  <1>1. /\ MapTypes /\ CallOK(c) /\ Busy(c) /\ UNCHANGED <<fd, pc>>
    BY TlbStepSession DEF WinInv, WinOK, MapInv
  <1>2. call[c].at = "idle" => call[c].new = NoAddr
    BY <1>1 DEF CallOK
  <1>3. ASSUME NEW h \in Handle, AllocFail(c, h) \/ BindClosed(c, h) \/ BindFail(c, h)
        PROVE  WinOK'
    <2>1. PICK at \in {"idle", "cleanup"}, r \in Codes :
            /\ call' = [call EXCEPT ![c] = Frame(at, h, NoAddr, r)]
            /\ at = "cleanup" => h \in Handles(c)
      BY <1>3 DEF AllocFail, BindClosed, BindFail, Begin, Codes
    <2>2. UNCHANGED <<kmdVars, windowVars, tlb>> /\ CanCall(c)
      BY <1>3 DEF AllocFail, BindClosed, BindFail, Begin
    <2> DEFINE f == Frame(at, h, NoAddr, r)
    <2>3. f.at = at /\ f.new = NoAddr /\ f.h = h
      BY DEF Frame
    <2> HIDE DEF f
    <2>4. call' = [call EXCEPT ![c] = f]
      BY <2>1 DEF f
    <2>5. f.new = call[c].new /\ (f.at # "idle" => f.h \in Handles(c) /\ pc[c] # "opening")
      BY <1>2, <2>1, <2>2, <2>3 DEF CanCall
    <2> QED
      BY <1>1, <2>2, <2>4, <2>5, FrameWindows
  <1>4. CASE AllocUndo(c) \/ FreeIoctl(c)
    <2>1. PICK r \in Codes : FreeTlb(c, call[c].h, r)
      BY <1>4 DEF AllocUndo, FreeIoctl
    <2>2. /\ call[c].at \in {"undo", "free"} /\ UNCHANGED kmdVars
          /\ tlb' = [tlb EXCEPT ![call[c].h] = Unused]
          /\ call' = [call EXCEPT ![c] = Frame("idle", call[c].h, NoAddr, "OK")]
      BY <1>4 DEF AllocUndo, FreeIoctl, End
    <2> DEFINE f == Frame("idle", call[c].h, NoAddr, "OK")
    <2>3. f.at = "idle" /\ f.new = NoAddr
      BY DEF Frame
    <2>4. call' = [call EXCEPT ![c] = f]
      BY <2>2
    <2> HIDE DEF f
    <2> QED
      BY <1>1, <2>1, <2>2, <2>3, <2>4, FreeWindows
  <1>5. CASE Configure(c)
    <2> DEFINE f == [call[c] EXCEPT !.at = "replace"]
    <2>1. /\ call' = [call EXCEPT ![c] = f] /\ call[c].at = "configure"
          /\ UNCHANGED <<kmdVars, windowVars, tlb>>
      BY <1>5 DEF Configure, Goto, sessionVars
    <2>2. f.new = call[c].new /\ f.h = call[c].h
      BY <1>1 DEF MapTypes
    <2>3. call[c].h \in Handles(c) /\ pc[c] # "opening"
      BY <1>1, <2>1 DEF Busy
    <2> HIDE DEF f
    <2> QED
      BY <1>1, <2>1, <2>2, <2>3, FrameWindows
  <1>6. ASSUME NEW h \in Handle, Free(c, h)
        PROVE  WinOK'
    <2> DEFINE f == Frame("free", h, NoAddr, "OK")
    <2>1. /\ Munmap(tlb[h].ptr) /\ tlb' = [tlb EXCEPT ![h].ptr = NoAddr]
          /\ call' = [call EXCEPT ![c] = f] /\ h \in Handles(c) /\ CanCall(c)
      BY <1>6 DEF Free, Begin
    <2>2. /\ tlb'[h].id = tlb[h].id /\ tlb'[h].ptr = NoAddr
          /\ \A g \in Handle \ {h} : tlb'[g] = tlb[g]
      BY <1>1, <2>1 DEF MapTypes, Tlbs
    <2>3. f.new = NoAddr /\ f.h = h
      BY DEF Frame
    <2>4. tlb'[h].ptr = call[c].new /\ pc[c] # "opening"
      BY <1>2, <2>1, <2>2 DEF CanCall
    <2> HIDE DEF f
    <2> QED
      BY <1>1, <2>1, <2>2, <2>3, <2>4, MunmapWindows
  <1>7. CASE ConfigureFail(c)
    <2>1. PICK r : call' = [call EXCEPT ![c] = Frame("cleanup", call[c].h, NoAddr, r)]
      BY <1>7 DEF ConfigureFail
    <2> DEFINE h == call[c].h
               f == Frame("cleanup", h, NoAddr, r)
    <2>2. /\ Munmap(call[c].new) /\ tlb' = tlb /\ h \in Handles(c) /\ pc[c] # "opening"
      BY <1>1, <1>7 DEF ConfigureFail, Busy
    <2>3. f.new = NoAddr /\ f.h = h
      BY DEF Frame
    <2>4. call' = [call EXCEPT ![c] = f]
      BY <2>1
    <2> HIDE DEF f, h
    <2> QED
      BY <1>1, <2>2, <2>3, <2>4, MunmapWindows
  <1>8. CASE Replace(c) \/ Cleanup(c)
    <2> DEFINE h == call[c].h
               f == Frame("idle", h, NoAddr, "OK")
    <2>1. /\ Munmap(tlb[h].ptr) /\ tlb' = [tlb EXCEPT ![h].ptr = call[c].new]
          /\ call' = [call EXCEPT ![c] = f] /\ h \in Handles(c) /\ pc[c] # "opening"
      BY <1>1, <1>8 DEF Replace, Cleanup, End, Busy, CallOK
    <2>2. f.new = NoAddr /\ f.at = "idle"
      BY DEF Frame
    <2> HIDE DEF f, h
    <2>3. h \in Handle
      BY <2>1 DEF Handles
    <2>4. /\ tlb'[h].id = tlb[h].id /\ tlb'[h].ptr = call[c].new
          /\ \A g \in Handle \ {h} : tlb'[g] = tlb[g]
      BY <1>1, <2>1, <2>3 DEF MapTypes, Tlbs
    <2> QED
      BY <1>1, <2>1, <2>2, <2>4, MunmapWindows
  <1> QED
    BY <1>3, <1>4, <1>5, <1>6, <1>7, <1>8, AllocWindows, BindWindows DEF TlbStep

\* What a call on a session does to the tables: its own session is let go, or what it was,
\* or a description that is new.
LEMMA LifecycleTables ==
  ASSUME ~CloseFails, SessionInv, Counted, NEW c \in Client, LifecycleStep(c)
  PROVE  /\ vma' = vma /\ Counted'
         /\ \A d \in Client \ {c} : /\ FileOf(d)' = FileOf(d) /\ (Live(d)' => Live(d))
                                    /\ pc'[d] = pc[d]
         /\ \/ FileOf(c)' = NoFile
            \/ FileOf(c)' = FileOf(c) /\ (Live(c)' => Live(c))
            \/ pc[c] = "opening" /\ st[FileOf(c)'] = "free" /\ FileOf(c)' \in File
         /\ FileOf(c)' # NoFile => pc'[c] = "idle"
  <1> USE KmdAssumption, SessionAssumption DEF SessionInv
  <1>1. SessionTypeOK /\ KmdTypeOK /\ DescriptorsOwned
    BY DEF SessionTypeOK
  <1>2. ASSUME UNCHANGED <<kmdVars, fd>>
        PROVE  /\ vma' = vma /\ Counted'
               /\ \A d \in Client : FileOf(d)' = FileOf(d) /\ (Live(d)' => Live(d))
    BY <1>2 DEF kmdVars, Counted, FileOf, Live
  <1>3. ASSUME NEW r \in Codes, tt_close(c, r)
        PROVE  /\ vma' = vma /\ Counted' /\ FileOf(c)' = NoFile
               /\ \A d \in Client \ {c} : FileOf(d)' = FileOf(d) /\ (Live(d)' => Live(d))
    <2>1. CASE fd[c] = NoFd
      <3>1. r = "OK" /\ UNCHANGED kmdVars /\ fd' = fd
        BY <1>1, <1>3, <2>1 DEF tt_close, CloseCall, SessionTypeOK
      <3> QED
        BY <1>2, <2>1, <3>1 DEF FileOf
    <2>2. CASE fd[c] # NoFd
      <3>1. fd[c] \in Fd /\ fdtab[fd[c]] # NoFile
        BY <1>1, <2>2 DEF DescriptorsOwned, FileOf, SessionTypeOK
      <3> DEFINE fds == [fdtab EXCEPT ![fd[c]] = NoFile]
                 InUse(f) == (\E s \in Fd : fds[s] = f) \/ (\E a \in Addr : vma[a] = f)
      <3>2. r = "OK" /\ fd' = [fd EXCEPT ![c] = NoFd] /\ Retain(fds, vma)
        BY <1>3, <2>2, <3>1 DEF tt_close, CloseCall, Release
      <3>3. /\ fds[fd[c]] = NoFile
            /\ \A s \in Fd \ {fd[c]} : fds[s] = fdtab[s]
        BY <1>1, <3>1 DEF KmdTypeOK
      <3> HIDE DEF fds
      <3>4. /\ fdtab' = fds /\ vma' = vma
            /\ st' = [f \in File |-> IF InUse(f) THEN st[f] ELSE "free"]
        BY <3>2 DEF Retain
      <3>5. \A f \in File : InUse(f) => st[f] # "free"
        BY <3>3 DEF Counted
      <3>6. \A f \in File : InUse(f) <=> (\E s \in Fd : fdtab'[s] = f) \/ (\E a \in Addr : vma'[a] = f)
        BY <3>4
      <3> HIDE DEF InUse
      <3>7. Counted' /\ \A f \in File : st'[f] = "live" => st[f] = "live"
        BY <3>4, <3>5, <3>6 DEF Counted
      <3>8. FileOf(c)' = NoFile
        BY <1>1, <3>2 DEF FileOf, SessionTypeOK
      <3>9. ASSUME NEW d \in Client \ {c}
            PROVE  FileOf(d)' = FileOf(d) /\ (Live(d)' => Live(d))
        <4>1. fd'[d] = fd[d] /\ (fd[d] # NoFd => fd[d] \in Fd \ {fd[c]})
          BY <1>1, <2>2, <3>2 DEF SessionTypeOK, DescriptorsOwned
        <4>2. FileOf(d)' = FileOf(d) /\ FileOf(d) \in File \cup {NoFile}
          BY <3>3, <3>4, <4>1, FilesApart DEF FileOf
        <4> QED
          BY <3>7, <4>2 DEF Live
      <3> QED
        BY <3>4, <3>7, <3>8, <3>9
    <2> QED
      BY <2>1, <2>2
  <1>4. ASSUME NEW fl, Open(c, fl)
        PROVE  /\ UNCHANGED <<kmdVars, fd>> /\ FileOf(c)' = NoFile
               /\ \A d \in Client \ {c} : pc'[d] = pc[d]
    BY <1>1, <1>4 DEF Open, FileOf, SessionTypeOK
  <1>5. CASE Reopen(c)
    BY <1>1, <1>3, <1>5 DEF Reopen, SessionTypeOK
  <1>6. CASE Close(c)
    BY <1>1, <1>3, <1>6 DEF Close, SessionTypeOK
  <1>7. CASE OpenFail(c)
    <2>1. UNCHANGED <<kmdVars, fd>> /\ pc' = [pc EXCEPT ![c] = "idle"]
      BY <1>7 DEF OpenFail
    <2> QED
      BY <1>1, <1>2, <2>1 DEF SessionTypeOK
  <1>8. CASE OpenOk(c)
    <2>1. PICK d \in Fd : OpenGrants(Home[c], req[c], d) /\ fd' = [fd EXCEPT ![c] = d]
      BY <1>8 DEF OpenOk
    <2>2. fdtab[d] = NoFile
      BY <2>1 DEF OpenGrants, FreeFds
    <2>3. PICK f \in File : /\ st[f] = "free" /\ st' = [st EXCEPT ![f] = "live"]
                            /\ fdtab' = [fdtab EXCEPT ![d] = f] /\ vma' = vma
      BY <2>1 DEF OpenGrants, Grant
    <2>4. pc[c] = "opening" /\ pc' = [pc EXCEPT ![c] = "idle"]
      BY <1>8 DEF OpenOk
    <2>5. FileOf(c)' = f
      BY <1>1, <2>1, <2>3 DEF FileOf, SessionTypeOK, KmdTypeOK
    <2>6. fdtab'[d] = f /\ \A s \in Fd \ {d} : fdtab'[s] = fdtab[s]
      BY <1>1, <2>3 DEF KmdTypeOK
    <2>7. st'[f] # "free" /\ \A g \in File \ {f} : st'[g] = st[g]
      BY <1>1, <2>3 DEF KmdTypeOK
    <2>8. ASSUME NEW g \in File \ {f}
          PROVE  (\E s \in Fd : fdtab'[s] = g) <=> (\E s \in Fd : fdtab[s] = g)
      BY <2>2, <2>6
    <2>9. Counted'
      BY <2>3, <2>6, <2>7, <2>8 DEF Counted
    <2>10. ASSUME NEW b \in Client \ {c}
           PROVE  FileOf(b)' = FileOf(b) /\ (Live(b)' => Live(b)) /\ pc'[b] = pc[b]
      <3>1. fd'[b] = fd[b] /\ pc'[b] = pc[b] /\ (fd[b] # NoFd => fd[b] \in Fd \ {d})
        BY <1>1, <2>1, <2>2, <2>4 DEF SessionTypeOK, DescriptorsOwned, FileOf
      <3>2. FileOf(b)' = FileOf(b) /\ FileOf(b) \in File \cup {NoFile}
        BY <2>6, <3>1, FilesApart DEF FileOf
      <3>3. FileOf(b) # NoFile => FileOf(b) # f
        BY <2>3, FilesApart DEF SlotsDistinct
      <3> QED
        BY <2>7, <3>1, <3>2, <3>3 DEF Live
    <2> QED
      BY <1>1, <2>3, <2>4, <2>5, <2>9, <2>10 DEF SessionTypeOK
  <1> QED
    BY <1>2, <1>4, <1>5, <1>6, <1>7, <1>8 DEF LifecycleStep

\* A client that opens its session has freed its handles, so the new one has none.
LEMMA LifecycleWindows ==
  ASSUME ~CloseFails, FreesFirst, WinInv, NEW c \in Client, TlbLifecycle(c)
  PROVE  SessionInv' /\ WinOK'
  <1>1. /\ MapTypes /\ SessionInv /\ Counted /\ Allocated /\ Busy(c) /\ CallOK(c)
        /\ LifecycleStep(c) /\ Reclaim /\ UNCHANGED <<shows, tlb, call>> /\ call[c].at = "idle"
        /\ pc'[c] = "opening" => Handles(c) = {}
    BY DEF WinInv, WinOK, MapInv, TlbLifecycle
  <1>2. SessionInv' /\ KmdTypeOK'
    BY <1>1, LifecycleKeeps DEF SessionInv, SessionTypeOK
  <1>3. /\ vma' = vma /\ Counted'
        /\ \A d \in Client \ {c} : /\ FileOf(d)' = FileOf(d) /\ (Live(d)' => Live(d))
                                   /\ pc'[d] = pc[d]
        /\ \/ FileOf(c)' = NoFile
           \/ FileOf(c)' = FileOf(c) /\ (Live(c)' => Live(c))
           \/ pc[c] = "opening" /\ st[FileOf(c)'] = "free" /\ FileOf(c)' \in File
        /\ FileOf(c)' # NoFile => pc'[c] = "idle"
    BY <1>1, LifecycleTables
  <1>4. Allocated' /\ \A w \in Window : holder'[w] # NoFile => holder'[w] = holder[w]
    BY <1>1, <1>2, Reclaimed
  <1>5. \A d \in Client : Handles(d)' = Handles(d)
    BY <1>1 DEF Handles
  <1>6. ASSUME NEW d \in Client, Live(d)' => Live(d) /\ FileOf(d)' = FileOf(d)
        PROVE  (Live(d) => Owns(d))'
    <2>1. Live(d) => Owns(d)
      BY DEF WinInv, WinOK
    <2>2. \A h \in Handle : Owner[h] = d => tlb'[h].id = tlb[h].id
      BY <1>1
    <2> QED
      BY <1>1, <1>2, <1>6, <2>1, <2>2, OwnsThrough
  <1>7. (Live(c) => Owns(c))'
    <2>1. CASE FileOf(c)' = NoFile
      BY <2>1 DEF Live
    <2>2. CASE FileOf(c)' = FileOf(c) /\ (Live(c)' => Live(c))
      BY <1>6, <2>2
    <2>3. CASE pc[c] = "opening" /\ st[FileOf(c)'] = "free" /\ FileOf(c)' \in File
      <3> DEFINE f == FileOf(c)'
      <3>1. st[f] = "free" /\ f \in File /\ Handles(c) = {}
        BY <1>1, <2>3 DEF Busy
      <3> HIDE DEF f
      <3>2. \A w \in Window : holder'[w] # f
        BY <1>1, <1>4, <3>1, KmdAssumption DEF Allocated, Holds
      <3> QED
        BY <1>5, <3>1, <3>2 DEF Owns, f
    <2> QED
      BY <1>3, <2>1, <2>2, <2>3
  <1>8. \A d \in Client \ {c} : (Live(d) => Owns(d))'
    BY <1>3, <1>6
  <1>9. Busy(c)'
    <2>1. call'[c].new = NoAddr
      BY <1>1 DEF CallOK
    <2> QED
      BY <1>1, <1>5, <2>1 DEF Busy
  <1>10. ASSUME NEW d \in Client \ {c}
         PROVE  Busy(d)'
    BY <1>1, <1>3, BusyStays DEF WinInv, WinOK
  <1>11. ASSUME NEW h \in Handle
         PROVE  Mine(h)'
    <2> SUFFICES ASSUME tlb[h].ptr # NoAddr, NEW d \in Client, FileOf(d)' # NoFile,
                        vma[tlb[h].ptr] = FileOf(d)'
                 PROVE  Owner[h] = d
      BY <1>1, <1>3 DEF Mine, WinInv, WinOK
    <2>1. Mine(h) /\ tlb[h].ptr \in Addr
      BY <1>1 DEF WinInv, WinOK, MapTypes, Tlbs
    <2>2. CASE FileOf(d)' = FileOf(d)
      BY <2>1, <2>2 DEF Mine
    <2>3. CASE d = c /\ st[FileOf(c)'] = "free" /\ FileOf(c)' \in File
      BY <1>1, <2>1, <2>3 DEF Counted
    <2> QED
      BY <1>3, <2>2, <2>3
  <1> QED
    BY <1>2, <1>3, <1>4, <1>7, <1>8, <1>9, <1>10, <1>11 DEF WinOK

\* A process that exits takes its sessions, handles and calls with it, and its mappings of
\* what the others have.
LEMMA ExitWindows ==
  ASSUME WinInv, NEW p \in Proc, TlbExit(p)
  PROVE  SessionInv' /\ WinOK'
  <1> USE WindowsAssumption, KmdAssumption, SessionAssumption, TlbAssumption
  <1>1. /\ MapInv /\ MapTypes /\ SessionInv /\ KmdTypeOK /\ Counted /\ Allocated
        /\ ProcessExit(p) /\ Reclaim
    BY DEF WinInv, WinOK, MapInv, SessionInv, SessionTypeOK, TlbExit
  <1>2. SessionInv' /\ KmdTypeOK'
    <2>1. SessionTypeOK'
      BY <1>1, ProcessExitTypes DEF SessionInv
    <2>2. OpeningIsClosed'
      BY <1>1 DEF ProcessExit, OpeningIsClosed, SessionInv
    <2>3. SessionInv'
      BY <1>1, <2>1, <2>2, ExitKeeps DEF SessionInv
    <2> QED
      BY <2>3 DEF SessionInv, SessionTypeOK
  <1> DEFINE fds == [s \in Fd |-> IF ProcOf[s] = p THEN NoFile ELSE fdtab[s]]
             maps == [a \in Addr |-> IF ProcOf[a] = p THEN NoFile ELSE vma[a]]
             InUse(f) == (\E s \in Fd : fds[s] = f) \/ (\E a \in Addr : maps[a] = f)
  <1>3. /\ \A s \in Fd : fds[s] = IF ProcOf[s] = p THEN NoFile ELSE fdtab[s]
        /\ \A a \in Addr : maps[a] = IF ProcOf[a] = p THEN NoFile ELSE vma[a]
    OBVIOUS
  <1>4. Retain(fds, maps)
    BY <1>1 DEF ProcessExit, Exit
  <1> HIDE DEF fds, maps
  <1>5. /\ fdtab' = fds /\ vma' = maps
        /\ st' = [f \in File |-> IF InUse(f) THEN st[f] ELSE "free"]
    BY <1>4 DEF Retain
  <1>6. \A f \in File : InUse(f) => st[f] # "free"
    BY <1>1, <1>3 DEF Counted
  <1>7. \A f \in File : InUse(f) <=> (\E s \in Fd : fdtab'[s] = f) \/ (\E a \in Addr : vma'[a] = f)
    BY <1>5
  <1> HIDE DEF InUse
  <1>8. Counted' /\ \A f \in File : st'[f] = "live" => st[f] = "live"
    BY <1>5, <1>6, <1>7 DEF Counted
  <1>9. Allocated'
    BY <1>1, <1>2, Reclaimed
  <1>10. /\ tlb' = [h \in Handle |-> IF Home[Owner[h]] = p THEN Unused ELSE tlb[h]]
         /\ call' = [c \in Client |-> IF Home[c] = p THEN NoCall ELSE call[c]]
         /\ fd' = [c \in Client |-> IF Home[c] = p THEN NoFd ELSE fd[c]]
         /\ pc' = [c \in Client |-> IF Home[c] = p THEN "idle" ELSE pc[c]]
    BY <1>1 DEF TlbExit, ProcessExit
  <1>11. NoCall.at = "idle" /\ NoCall.new = NoAddr /\ Unused.id = NoWindow /\ Unused.ptr = NoAddr
    BY DEF NoCall, Frame, Unused
  <1>12. ASSUME NEW c \in Client, Home[c] = p
         PROVE  FileOf(c)' = NoFile /\ Handles(c)' = {} /\ Busy(c)'
    <2>1. FileOf(c)' = NoFile
      BY <1>10, <1>12 DEF FileOf
    <2>2. Handles(c)' = {}
      BY <1>10, <1>11, <1>12 DEF Handles
    <2>3. call'[c] = NoCall /\ pc'[c] = "idle"
      BY <1>10, <1>12
    <2> QED
      BY <1>11, <2>1, <2>2, <2>3 DEF Busy
  <1>13. ASSUME NEW c \in Client, Home[c] # p
         PROVE  FileOf(c)' = FileOf(c) /\ FileOf(c) \in File \cup {NoFile} /\ (Live(c)' => Live(c))
    <2>1. fd'[c] = fd[c] /\ (fd[c] # NoFd => fd[c] \in Fd /\ ProcOf[fd[c]] # p)
      BY <1>1, <1>10, <1>13 DEF SessionInv, SessionTypeOK, DescriptorsOwned
    <2>2. FileOf(c)' = FileOf(c) /\ FileOf(c) \in File \cup {NoFile}
      BY <1>1, <1>3, <1>5, <2>1, FilesApart DEF FileOf
    <2> QED
      BY <1>8, <2>2 DEF Live
  <1>14. ASSUME NEW c \in Client, Home[c] # p
         PROVE  (Live(c) => Owns(c))' /\ Busy(c)'
    <2>1. \A h \in Handle : Owner[h] = c => tlb'[h].id = tlb[h].id
      BY <1>10, <1>14
    <2>2. Live(c) => Owns(c)
      BY DEF WinInv, WinOK
    <2>3. Live(c)' => Live(c) /\ FileOf(c)' = FileOf(c)
      BY <1>13, <1>14
    <2>4. (Live(c) => Owns(c))'
      BY <1>1, <1>2, <2>1, <2>2, <2>3, OwnsThrough
    <2>5. CallOK(c) /\ call[c].new \in Addr \cup {NoAddr}
      BY <1>1 DEF MapInv, MapTypes
    <2>6. call[c].new # NoAddr => vma'[call[c].new] = vma[call[c].new]
      BY <1>3, <1>5, <1>14, <2>5 DEF CallOK
    <2>7. call'[c] = call[c] /\ pc'[c] = pc[c]
      BY <1>10, <1>14
    <2>8. Busy(c)'
      BY <1>13, <1>14, <2>1, <2>6, <2>7, BusyStays DEF WinInv, WinOK
    <2> QED
      BY <2>4, <2>8
  <1>15. ASSUME NEW h \in Handle
         PROVE  Mine(h)'
    <2> SUFFICES ASSUME tlb'[h].ptr # NoAddr
                 PROVE  Mine(h)'
      BY DEF Mine
    <2>1. Home[Owner[h]] # p /\ tlb'[h] = tlb[h]
      BY <1>10, <1>11
    <2>2. HandleOK(h) /\ Mine(h) /\ tlb[h].ptr \in Addr
      BY <1>1, <2>1 DEF MapInv, MapTypes, Tlbs, WinInv, WinOK
    <2>3. vma'[tlb[h].ptr] = vma[tlb[h].ptr]
      BY <1>3, <1>5, <2>1, <2>2 DEF HandleOK
    <2>4. ASSUME NEW c \in Client, FileOf(c)' # NoFile, vma'[tlb[h].ptr] = FileOf(c)'
          PROVE  Owner[h] = c
      <3>1. Home[c] # p
        BY <1>12, <2>4
      <3>2. FileOf(c)' = FileOf(c)
        BY <1>13, <3>1
      <3> QED
        BY <2>1, <2>2, <2>3, <2>4, <3>2 DEF Mine
    <2> QED
      BY <2>1, <2>2, <2>4 DEF Mine
  <1>16. \A c \in Client : (Live(c) => Owns(c))' /\ Busy(c)'
    BY <1>12, <1>14 DEF Live
  <1> QED
    BY <1>2, <1>8, <1>9, <1>15, <1>16 DEF WinOK

\* A reset, a removal or a re-probe only makes sessions that were open unusable.
LEMMA EnvWindows ==
  ASSUME WinInv, TlbEnv
  PROVE  SessionInv' /\ WinOK'
  <1>1. /\ MapTypes /\ SessionInv /\ Counted /\ Allocated
        /\ SessionEnv /\ Reclaim /\ UNCHANGED <<shows, tlb, call>>
    BY DEF WinInv, WinOK, MapInv, TlbEnv
  <1>2. /\ SessionInv' /\ KmdTypeOK'
        /\ \A c \in Client : FileOf(c)' = FileOf(c) /\ FileOf(c) \in File \cup {NoFile}
        /\ \A f \in File : /\ st'[f] = "free" <=> st[f] = "free"
                           /\ st'[f] = "live" => st[f] = "live"
    BY <1>1, EnvKeeps, FilesApart DEF SessionInv, SessionTypeOK
  <1>3. UNCHANGED <<fdtab, vma, pc>>
    BY <1>1 DEF SessionEnv, OobReset, Remove, Reprobe, sessVars
  <1>4. Counted'
    BY <1>1, <1>2, <1>3 DEF Counted
  <1>5. Allocated'
    BY <1>1, <1>2, Reclaimed
  <1>6. ASSUME NEW c \in Client
        PROVE  (Live(c) => Owns(c))' /\ Busy(c)'
    <2>1. \A h \in Handle : Owner[h] = c => tlb'[h].id = tlb[h].id
      BY <1>1
    <2>2. Live(c) => Owns(c)
      BY DEF WinInv, WinOK
    <2>3. Live(c)' => Live(c) /\ FileOf(c)' = FileOf(c)
      BY <1>2 DEF Live
    <2>4. (Live(c) => Owns(c))'
      BY <1>1, <1>2, <2>1, <2>2, <2>3, OwnsThrough
    <2>5. Busy(c)'
      BY <1>1, <1>2, <1>3, BusyStays DEF WinInv, WinOK
    <2> QED
      BY <2>4, <2>5
  <1>7. \A h \in Handle : Mine(h)'
    BY <1>1, <1>2, <1>3 DEF WinInv, WinOK, Mine
  <1> QED
    BY <1>2, <1>4, <1>5, <1>6, <1>7 DEF WinOK

LEMMA StillWindows ==
  ASSUME WinInv, UNCHANGED tlbVars
  PROVE  SessionInv' /\ WinOK'
  <1>1. /\ UNCHANGED <<kmdVars, fd, flags, req, pc, op, ret, holder, shows, tlb, call>>
        /\ UNCHANGED <<present, st, excl, fdtab, vma>>
    BY DEF tlbVars, sessionVars, sessVars, kmdVars, windowVars
  <1>2. SessionInv'
    BY <1>1, ReportsKeeps DEF WinInv, SessionInv, SessionTypeOK
  <1>3. \A c \in Client : FileOf(c)' = FileOf(c) /\ Handles(c)' = Handles(c)
    BY <1>1 DEF FileOf, Handles
  <1>4. Counted' /\ Allocated'
    BY <1>1 DEF WinInv, WinOK, Counted, Allocated, Holds
  <1>5. \A c \in Client : (Live(c) => Owns(c))' /\ Busy(c)'
    BY <1>1, <1>3 DEF WinInv, WinOK, Live, Owns, Busy
  <1>6. \A h \in Handle : Mine(h)'
    BY <1>1, <1>3 DEF WinInv, WinOK, Mine
  <1> QED
    BY <1>2, <1>4, <1>5, <1>6 DEF WinOK

LEMMA WinInvInductive ==
  ASSUME ~CloseFails, FreesFirst
  PROVE  TlbSpec => []WinInv
  <1>1. TlbInit => WinInv
    <2> SUFFICES ASSUME TlbInit
                 PROVE  WinInv
      OBVIOUS
    <2>1. MapInv /\ SessionInv
      BY MapInvInit, SessionInvInit DEF TlbInit
    <2>2. /\ st = [f \in File |-> "free"] /\ fdtab = [s \in Fd |-> NoFile]
          /\ vma = [a \in Addr |-> NoFile] /\ holder = [w \in Window |-> NoFile]
          /\ tlb = [h \in Handle |-> Unused] /\ call = [c \in Client |-> NoCall]
          /\ fd = [c \in Client |-> NoFd] /\ pc = [c \in Client |-> "idle"]
      BY DEF TlbInit, SessionInit, KmdInit, WindowsInit
    <2>3. NoCall.at = "idle" /\ NoCall.new = NoAddr /\ Unused.ptr = NoAddr
      BY DEF NoCall, Frame, Unused
    <2>4. Counted /\ Allocated
      BY <2>2, KmdAssumption DEF Counted, Allocated
    <2>5. \A c \in Client : ~Live(c) /\ Busy(c)
      BY <2>2, <2>3 DEF Live, FileOf, Busy
    <2>6. \A h \in Handle : Mine(h)
      BY <2>2, <2>3 DEF Mine
    <2> QED
      BY <2>1, <2>4, <2>5, <2>6 DEF WinInv, WinOK
  <1>2. WinInv /\ [TlbNext]_tlbVars => WinInv'
    <2> SUFFICES ASSUME WinInv, [TlbNext]_tlbVars
                 PROVE  WinInv'
      OBVIOUS
    <2>1. MapInv'
      BY MapInvStep DEF WinInv
    <2>2. ASSUME NEW c \in Client, TlbStep(c)
          PROVE  SessionInv' /\ WinOK'
      BY <2>2, TlbStepSession, TlbStepWindows DEF WinInv
    <2>3. ASSUME NEW c \in Client, TlbLifecycle(c)
          PROVE  SessionInv' /\ WinOK'
      BY <2>3, LifecycleWindows
    <2>4. SessionInv' /\ WinOK'
      BY <2>2, <2>3, ExitWindows, EnvWindows, StillWindows DEF TlbNext
    <2> QED
      BY <2>1, <2>4 DEF WinInv
  <1> QED
    BY <1>1, <1>2, PTL DEF TlbSpec

\* While its session is open a client's handles and the windows allocated to it correspond
\* one to one, whatever binds, frees, closes, resets and exits come between, as long as
\* clients free their handles before they open a session again and close(2) does not fail.
THEOREM TlbWindowsOwned ==
  ASSUME ~CloseFails, FreesFirst
  PROVE  TlbSpec => []WindowsOwned
  <1>1. WinInv => WindowsOwned
    BY DEF WinInv, WinOK, WindowsOwned, Live, Owns
  <1> QED
    BY <1>1, WinInvInductive, PTL

\* An open that is refused with EAGAIN meets a description that counts.
LEMMA OpenRefused ==
  ASSUME MapInv, SessionInv, [TlbNext]_tlbVars, NEW c \in Client,
         pc[c] = "opening", pc'[c] = "idle", ret'[c] = "EAGAIN"
  PROVE  \E f \in File : Holds(f)
  <1>1. SessionTypeOK
    BY DEF SessionInv
  <1>2. OpenFail(c)
    <2>1. ASSUME NEW d \in Client, TlbStep(d)
          PROVE  FALSE
      BY <1>1, <2>1, TlbStepSession
    <2>2. ASSUME NEW d \in Client, LifecycleStep(d)
          PROVE  OpenFail(c)
      <3>1. pc[d] = "idle" => pc'[c] = "opening"
        BY <1>1, <2>2 DEF LifecycleStep, Open, Reopen, OpenOk, OpenFail, Close, SessionTypeOK
      <3>2. OpenOk(d) \/ OpenFail(d)
        BY <2>2, <3>1 DEF LifecycleStep, Open, Reopen, Close
      <3>3. d = c
        BY <1>1, <3>2 DEF OpenOk, OpenFail, SessionTypeOK
      <3>4. OpenOk(c) => ret'[c] = "OK"
        BY <1>1 DEF OpenOk, Return, SessionTypeOK
      <3> QED
        BY <3>2, <3>3, <3>4
    <2>3. ASSUME NEW p \in Proc, ProcessExit(p)
          PROVE  FALSE
      <3>1. pc'[c] = pc[c] \/ ret'[c] = "OK"
        BY <2>3 DEF ProcessExit
      <3> QED
        BY <3>1
    <2>4. CASE SessionEnv \/ UNCHANGED tlbVars
      BY <2>4 DEF SessionEnv, sessVars, sessionVars, tlbVars
    <2> QED
      BY <2>1, <2>2, <2>3, <2>4 DEF TlbNext, TlbLifecycle, TlbExit, TlbEnv
  <1>3. \E f \in File : Holds(f)
    <2>1. PICK e \in OpenFailures(Home[c], req[c]) : Return(c, op[c], OpenErrno(e))
      BY <1>2 DEF OpenFail
    <2>2. ret'[c] = OpenErrno(e)
      BY <1>1, <2>1 DEF Return, SessionTypeOK
    <2>3. e = "EAGAIN"
      BY <2>2 DEF OpenErrno
    <2> QED
      BY <2>1, <2>3 DEF OpenFailures, CanOpen
  <1> QED
    BY <1>3

\* A client is never refused with EAGAIN because of what it has itself closed and freed:
\* what counts against it is a session, or a mapping, of another client.
THEOREM TlbRefusedByOthers ==
  ASSUME ~CloseFails, FreesFirst
  PROVE  TlbSpec => RefusedByOthers
  <1> USE WindowsAssumption
  <1> DEFINE Others(c) == \/ \E d \in Client \ {c} : FileOf(d) # NoFile /\ Holds(FileOf(d))
                          \/ \E h \in Handle : /\ Owner[h] # c /\ tlb[h].ptr # NoAddr
                                               /\ Holds(vma[tlb[h].ptr])
             Refused(c) == pc[c] = "opening" /\ pc'[c] = "idle" /\ ret'[c] = "EAGAIN"
             A == \A c \in Client :
                    /\ pc[c] = "opening" /\ pc'[c] = "idle" /\ ret'[c] = "EAGAIN"
                    => \/ \E d \in Client \ {c} : FileOf(d) # NoFile /\ Holds(FileOf(d))
                       \/ \E h \in Handle : /\ Owner[h] # c /\ tlb[h].ptr # NoAddr
                                            /\ Holds(vma[tlb[h].ptr])
  <1>1. WinInv /\ [TlbNext]_tlbVars => [A]_tlbVars
    <2> SUFFICES ASSUME WinInv, [TlbNext]_tlbVars, NEW c \in Client, Refused(c)
                 PROVE  Others(c)
      OBVIOUS
    <2>1. MapInv /\ MapTypes /\ Held /\ SessionInv /\ Counted /\ Busy(c) /\ SessionTypeOK
      BY DEF WinInv, WinOK, MapInv, SessionInv
    <2>3. PICK f \in File : Holds(f)
      BY <2>1, OpenRefused
    <2>4. CASE \E s \in Fd : fdtab[s] = f
      <3>1. PICK s \in Fd : fdtab[s] = f
        BY <2>4
      <3>2. PICK d \in Client : fd[d] = s
        BY <2>1, <3>1, KmdAssumption DEF SessionInv, DescriptorsOwned
      <3>3. d # c /\ FileOf(d) = f /\ f # NoFile
        BY <2>1, <3>1, <3>2, SessionAssumption, KmdAssumption
           DEF SessionInv, OpeningIsClosed, FileOf
      <3> QED
        BY <2>3, <3>3
    <2>5. CASE \E a \in Addr : vma[a] = f
      <3>1. PICK a \in Addr : vma[a] = f
        BY <2>5
      <3>2. ASSUME NEW h \in Handle, tlb[h].ptr = a
            PROVE  Others(c)
        <4>1. Mine(h) /\ Handles(c) = {}
          BY <2>1 DEF WinInv, WinOK, Busy
        <4>2. Owner[h] # c
          BY <3>2, <4>1 DEF Mine, Handles
        <4> QED
          BY <2>3, <3>1, <3>2, <4>2
      <3>3. ASSUME NEW d \in Client, call[d].new = a
            PROVE  Others(c)
        <4>1. Busy(d) /\ CallOK(c) /\ call[c].at = "idle"
          BY <2>1 DEF WinInv, WinOK, MapInv, Busy
        <4>2. FileOf(d) = f /\ FileOf(d) # NoFile
          BY <3>1, <3>3, <4>1 DEF Busy
        <4>3. d # c
          BY <3>3, <4>1 DEF CallOK
        <4> QED
          BY <2>3, <4>2, <4>3
      <3> QED
        BY <2>1, <3>1, <3>2, <3>3, KmdAssumption DEF Held
    <2> QED
      BY <2>1, <2>3, <2>4, <2>5 DEF Counted, Holds
  <1> QED
    BY <1>1, WinInvInductive, PTL DEF TlbSpec, RefusedByOthers

------------------------------------------------------------------------------
(* What an open can be refused for, whether or not clients free their handles *)
(* before they open their sessions again.                                   *)

\* A client that is opening its session has no TLB call in progress; what one has mapped
\* is its session.
Making(c) ==
  /\ pc[c] = "opening" => call[c].at = "idle"
  /\ call[c].new # NoAddr => FileOf(c) # NoFile /\ vma[call[c].new] = FileOf(c)

BookInv == MapInv /\ SessionInv /\ Counted /\ \A c \in Client : Making(c)

\* A client other than the one that makes a step is where it was.
LEMMA MakingStays ==
  ASSUME NEW c \in Client, Making(c), call'[c] = call[c], pc'[c] = pc[c], FileOf(c)' = FileOf(c),
         call[c].new # NoAddr => vma'[call[c].new] = vma[call[c].new]
  PROVE  Making(c)'
  BY DEF Making

\* The steps of the calls that leave the driver's tables alone, ...
LEMMA QuietBook ==
  ASSUME BookInv, NEW c \in Client, UNCHANGED kmdVars, UNCHANGED <<fd, pc>>, pc[c] # "opening", NEW f,
         f.new = NoAddr \/ f.new = call[c].new, call' = [call EXCEPT ![c] = f]
  PROVE  Counted' /\ \A d \in Client : Making(d)'
  <1>1. UNCHANGED <<st, fdtab, vma>> /\ MapTypes /\ Counted /\ \A d \in Client : Making(d)
    BY DEF kmdVars, BookInv, MapInv
  <1>2. \A d \in Client : FileOf(d)' = FileOf(d)
    BY <1>1 DEF FileOf
  <1>3. call'[c] = f /\ \A d \in Client \ {c} : call'[d] = call[d]
    BY <1>1 DEF MapTypes
  <1>4. Counted'
    BY <1>1 DEF Counted
  <1>5. Making(c)'
    BY <1>1, <1>2, <1>3 DEF Making
  <1>6. \A d \in Client \ {c} : Making(d)'
    BY <1>1, <1>2, <1>3, MakingStays
  <1> QED
    BY <1>4, <1>5, <1>6

\* ... those that unmap something, which is nothing another client is mapping, ...
LEMMA MunmapBook ==
  ASSUME BookInv, NEW c \in Client, NEW a, Munmap(a), UNCHANGED <<fd, pc>>, pc[c] # "opening",
         a = call[c].new \/ \E h \in Handle : a = tlb[h].ptr, NEW f, f.new = NoAddr,
         call' = [call EXCEPT ![c] = f]
  PROVE  Counted' /\ \A d \in Client : Making(d)'
  <1>1. MapInv /\ MapTypes /\ Apart /\ SessionInv /\ Counted
    BY DEF BookInv, MapInv
  <1>2. Counted' /\ \A d \in Client : FileOf(d)' = FileOf(d)
    BY <1>1, MunmapTables
  <1>3. call'[c] = f /\ \A d \in Client \ {c} : call'[d] = call[d]
    BY <1>1 DEF MapTypes
  <1>4. Making(c)'
    BY <1>3 DEF Making
  <1>5. ASSUME NEW d \in Client \ {c}
        PROVE  Making(d)'
    <2>1. call[d].new # NoAddr => call[d].new \in Addr /\ call[d].new # a
      BY <1>1, WindowsAssumption DEF MapTypes, Apart
    <2>2. call[d].new # NoAddr => vma'[call[d].new] = vma[call[d].new]
      BY <1>1, <2>1, Munmapped
    <2>3. Making(d)
      BY DEF BookInv
    <2> QED
      BY <1>2, <1>3, <2>2, <2>3, MakingStays
  <1> QED
    BY <1>2, <1>4, <1>5

\* ... and the mmap(2) of a bind.
LEMMA BindBook ==
  ASSUME BookInv, NEW c \in Client, NEW h \in Handle, Bind(c, h)
  PROVE  Counted' /\ \A d \in Client : Making(d)'
  <1> USE WindowsAssumption, KmdAssumption
  <1>1. MapInv /\ MapTypes /\ SessionInv /\ Counted /\ \A d \in Client : Making(d) /\ CallOK(d)
    BY DEF BookInv, MapInv
  <1>2. PICK a \in FreeAddrs(Home[c]) :
          /\ vma' = [vma EXCEPT ![a] = FileOf(c)]
          /\ Begin(c, "tt_tlb_bind", Frame("configure", h, a, "OK"), "OK")
    BY DEF Bind
  <1>3. /\ a \in Addr /\ vma[a] = NoFile /\ pc[c] = "idle"
        /\ call' = [call EXCEPT ![c] = Frame("configure", h, a, "OK")]
        /\ UNCHANGED <<st, fdtab, fd, pc>> /\ WindowIo(c, h) = "OK"
    BY <1>2 DEF Bind, FreeAddrs, Begin, CanCall
  <1>4. FileOf(c) # NoFile
    BY <1>3 DEF WindowIo, SessionIo, tt_fail_io, Io, FileOf
  <1>5. FileOf(c) \in File /\ fd[c] \in Fd /\ FileOf(c) = fdtab[fd[c]]
    BY <1>1, <1>4, FilesApart
  <1>6. vma'[a] = FileOf(c) /\ \A b \in Addr \ {a} : vma'[b] = vma[b]
    BY <1>1, <1>2, <1>3 DEF MapTypes
  <1>7. \A d \in Client : FileOf(d)' = FileOf(d)
    BY <1>3 DEF FileOf
  <1>8. /\ \A d \in Client \ {c} : call'[d] = call[d]
        /\ call'[c].new = a
    BY <1>1, <1>3 DEF MapTypes, Frame
  <1>9. Counted'
    <2>1. ASSUME NEW f \in File
          PROVE  st[f] # "free" <=> (\E s \in Fd : fdtab[s] = f) \/ (\E b \in Addr : vma'[b] = f)
      <3>1. f # FileOf(c) => ((\E b \in Addr : vma'[b] = f) <=> \E b \in Addr : vma[b] = f)
        BY <1>3, <1>6
      <3>2. f = FileOf(c) => \E s \in Fd : fdtab[s] = f
        BY <1>5
      <3> QED
        BY <1>1, <3>1, <3>2 DEF Counted
    <2> QED
      BY <1>3, <2>1 DEF Counted
  <1>10. Making(c)'
    BY <1>3, <1>4, <1>6, <1>7, <1>8 DEF Making
  <1>11. ASSUME NEW d \in Client \ {c}
         PROVE  Making(d)'
    <2>1. call[d].new # NoAddr => call[d].new \in Addr /\ vma[call[d].new] # NoFile
      <3>1. CallOK(d) /\ call[d].new \in Addr \cup {NoAddr}
        BY <1>1 DEF MapTypes
      <3> QED
        BY <3>1 DEF CallOK
    <2>2. call[d].new # NoAddr => vma'[call[d].new] = vma[call[d].new]
      BY <1>3, <1>6, <2>1
    <2>3. call'[d] = call[d] /\ pc'[d] = pc[d] /\ FileOf(d)' = FileOf(d) /\ Making(d)
      BY <1>1, <1>3, <1>7, <1>8
    <2> QED
      BY <2>2, <2>3, MakingStays
  <1> QED
    BY <1>9, <1>10, <1>11

LEMMA TlbStepBook ==
  ASSUME BookInv, NEW c \in Client, TlbStep(c)
  PROVE  Counted' /\ \A d \in Client : Making(d)'
  <1>1. MapInv /\ MapTypes /\ SessionInv /\ Making(c) /\ CallOK(c)
    BY DEF BookInv, MapInv
  <1>2. UNCHANGED <<fd, pc>>
    BY <1>1, TlbStepSession
  <1>3. pc[c] # "opening"
    BY <1>1 DEF TlbStep, AllocFail, Alloc, BindClosed, Bind, BindFail, Free, Begin, CanCall,
                AllocUndo, Configure, ConfigureFail, Replace, Cleanup, FreeIoctl, Making
  <1>4. ASSUME NEW h \in Handle, AllocFail(c, h) \/ Alloc(c, h) \/ BindClosed(c, h) \/ BindFail(c, h)
        PROVE  Counted' /\ \A d \in Client : Making(d)'
    <2>1. UNCHANGED kmdVars /\ \E at, r : call' = [call EXCEPT ![c] = Frame(at, h, NoAddr, r)]
      BY <1>4 DEF AllocFail, Alloc, BindClosed, BindFail, Begin
    <2>2. PICK at, r : call' = [call EXCEPT ![c] = Frame(at, h, NoAddr, r)]
      BY <2>1
    <2> DEFINE f == Frame(at, h, NoAddr, r)
    <2>3. call' = [call EXCEPT ![c] = f]
      BY <2>2
    <2>4. f.new = NoAddr \/ f.new = call[c].new
      BY DEF Frame
    <2> HIDE DEF f
    <2> QED
      BY <1>2, <1>3, <2>1, <2>3, <2>4, QuietBook
  <1>5. ASSUME NEW h \in Handle, Free(c, h)
        PROVE  Counted' /\ \A d \in Client : Making(d)'
    <2> DEFINE f == Frame("free", h, NoAddr, "OK")
    <2>1. Munmap(tlb[h].ptr) /\ call' = [call EXCEPT ![c] = f]
      BY <1>5 DEF Free, Begin
    <2>2. f.new = NoAddr
      BY DEF Frame
    <2> HIDE DEF f
    <2> QED
      BY <1>2, <1>3, <2>1, <2>2, MunmapBook
  <1>6. CASE AllocUndo(c) \/ FreeIoctl(c)
    <2> DEFINE f == Frame("idle", call[c].h, NoAddr, "OK")
    <2>1. UNCHANGED kmdVars /\ call' = [call EXCEPT ![c] = f]
      BY <1>6 DEF AllocUndo, FreeIoctl, End
    <2>2. f.new = NoAddr \/ f.new = call[c].new
      BY DEF Frame
    <2> HIDE DEF f
    <2> QED
      BY <1>2, <1>3, <2>1, <2>2, QuietBook
  <1>7. CASE Configure(c)
    <2> DEFINE f == [call[c] EXCEPT !.at = "replace"]
    <2>1. UNCHANGED kmdVars /\ call' = [call EXCEPT ![c] = f]
      BY <1>7 DEF Configure, Goto, sessionVars
    <2>2. f.new = NoAddr \/ f.new = call[c].new
      BY <1>1 DEF MapTypes
    <2> HIDE DEF f
    <2> QED
      BY <1>2, <1>3, <2>1, <2>2, QuietBook
  <1>8. CASE ConfigureFail(c)
    <2>1. PICK r : call' = [call EXCEPT ![c] = Frame("cleanup", call[c].h, NoAddr, r)]
      BY <1>8 DEF ConfigureFail
    <2> DEFINE f == Frame("cleanup", call[c].h, NoAddr, r)
    <2>2. Munmap(call[c].new) /\ call' = [call EXCEPT ![c] = f]
      BY <1>8, <2>1 DEF ConfigureFail
    <2>3. f.new = NoAddr
      BY DEF Frame
    <2> HIDE DEF f
    <2> QED
      BY <1>2, <1>3, <2>2, <2>3, MunmapBook
  <1>9. CASE Replace(c) \/ Cleanup(c)
    <2> DEFINE f == Frame("idle", call[c].h, NoAddr, "OK")
    <2>1. /\ Munmap(tlb[call[c].h].ptr) /\ call' = [call EXCEPT ![c] = f]
          /\ call[c].h \in Handle
      BY <1>1, <1>9 DEF Replace, Cleanup, End, CallOK
    <2>2. f.new = NoAddr
      BY DEF Frame
    <2> HIDE DEF f
    <2> QED
      BY <1>2, <1>3, <2>1, <2>2, MunmapBook
  <1> QED
    BY <1>4, <1>5, <1>6, <1>7, <1>8, <1>9, BindBook DEF TlbStep

\* A process that exits takes its sessions, handles and calls with it, and its mappings of
\* what the others have.
LEMMA ExitBook ==
  ASSUME BookInv, NEW p \in Proc, TlbExit(p)
  PROVE  SessionInv' /\ Counted' /\ \A c \in Client : Making(c)'
  <1> USE WindowsAssumption, KmdAssumption, SessionAssumption, TlbAssumption
  <1>1. MapInv /\ MapTypes /\ SessionInv /\ Counted /\ ProcessExit(p)
    BY DEF BookInv, MapInv, TlbExit
  <1>2. SessionInv'
    <2>1. SessionTypeOK'
      BY <1>1, ProcessExitTypes DEF SessionInv
    <2>2. OpeningIsClosed'
      BY <1>1 DEF ProcessExit, OpeningIsClosed, SessionInv
    <2> QED
      BY <1>1, <2>1, <2>2, ExitKeeps DEF SessionInv
  <1> DEFINE fds == [s \in Fd |-> IF ProcOf[s] = p THEN NoFile ELSE fdtab[s]]
             maps == [a \in Addr |-> IF ProcOf[a] = p THEN NoFile ELSE vma[a]]
             InUse(f) == (\E s \in Fd : fds[s] = f) \/ (\E a \in Addr : maps[a] = f)
  <1>3. /\ \A s \in Fd : fds[s] = IF ProcOf[s] = p THEN NoFile ELSE fdtab[s]
        /\ \A a \in Addr : maps[a] = IF ProcOf[a] = p THEN NoFile ELSE vma[a]
    OBVIOUS
  <1>4. Retain(fds, maps)
    BY <1>1 DEF ProcessExit, Exit
  <1> HIDE DEF fds, maps
  <1>5. /\ fdtab' = fds /\ vma' = maps
        /\ st' = [f \in File |-> IF InUse(f) THEN st[f] ELSE "free"]
    BY <1>4 DEF Retain
  <1>6. \A f \in File : InUse(f) => st[f] # "free"
    BY <1>1, <1>3 DEF Counted
  <1>7. \A f \in File : InUse(f) <=> (\E s \in Fd : fdtab'[s] = f) \/ (\E a \in Addr : vma'[a] = f)
    BY <1>5
  <1> HIDE DEF InUse
  <1>8. Counted'
    BY <1>5, <1>6, <1>7 DEF Counted
  <1>9. /\ call' = [c \in Client |-> IF Home[c] = p THEN NoCall ELSE call[c]]
        /\ fd' = [c \in Client |-> IF Home[c] = p THEN NoFd ELSE fd[c]]
        /\ pc' = [c \in Client |-> IF Home[c] = p THEN "idle" ELSE pc[c]]
        /\ NoCall.at = "idle" /\ NoCall.new = NoAddr
    BY <1>1 DEF TlbExit, ProcessExit, NoCall, Frame
  <1>10. ASSUME NEW c \in Client, Home[c] = p
         PROVE  Making(c)'
    BY <1>9, <1>10 DEF Making
  <1>11. ASSUME NEW c \in Client, Home[c] # p
         PROVE  Making(c)'
    <2>1. fd'[c] = fd[c] /\ (fd[c] # NoFd => fd[c] \in Fd /\ ProcOf[fd[c]] # p)
      BY <1>1, <1>9, <1>11 DEF SessionInv, SessionTypeOK, DescriptorsOwned
    <2>2. FileOf(c)' = FileOf(c)
      BY <1>3, <1>5, <2>1 DEF FileOf
    <2>3. CallOK(c) /\ Making(c) /\ call[c].new \in Addr \cup {NoAddr}
      BY <1>1 DEF BookInv, MapInv, MapTypes
    <2>4. call[c].new # NoAddr => vma'[call[c].new] = vma[call[c].new]
      BY <1>3, <1>5, <1>11, <2>3 DEF CallOK
    <2>5. call'[c] = call[c] /\ pc'[c] = pc[c]
      BY <1>9, <1>11
    <2> QED
      BY <2>2, <2>3, <2>4, <2>5, MakingStays
  <1> QED
    BY <1>2, <1>8, <1>10, <1>11

LEMMA BookInvInductive ==
  ASSUME ~CloseFails
  PROVE  TlbSpec => []BookInv
  <1>1. TlbInit => BookInv
    <2> SUFFICES ASSUME TlbInit
                 PROVE  Counted /\ \A c \in Client : Making(c)
      BY MapInvInit, SessionInvInit DEF TlbInit, BookInv
    <2>1. /\ st = [f \in File |-> "free"] /\ fdtab = [s \in Fd |-> NoFile]
          /\ vma = [a \in Addr |-> NoFile]
          /\ call = [c \in Client |-> NoCall] /\ pc = [c \in Client |-> "idle"]
      BY DEF TlbInit, SessionInit, KmdInit
    <2>2. NoCall.at = "idle" /\ NoCall.new = NoAddr
      BY DEF NoCall, Frame
    <2> QED
      BY <2>1, <2>2, KmdAssumption DEF Counted, Making
  <1>2. BookInv /\ [TlbNext]_tlbVars => BookInv'
    <2> SUFFICES ASSUME BookInv, [TlbNext]_tlbVars
                 PROVE  SessionInv' /\ Counted' /\ \A c \in Client : Making(c)'
      BY MapInvStep DEF BookInv
    <2>1. MapInv /\ MapTypes /\ SessionInv /\ Counted /\ \A c \in Client : Making(c) /\ CallOK(c)
      BY DEF BookInv, MapInv
    <2>2. ASSUME NEW c \in Client, TlbStep(c)
          PROVE  SessionInv' /\ Counted' /\ \A d \in Client : Making(d)'
      BY <2>1, <2>2, TlbStepSession, TlbStepBook
    <2>3. ASSUME NEW c \in Client, TlbLifecycle(c)
          PROVE  SessionInv' /\ Counted' /\ \A d \in Client : Making(d)'
      <3>1. LifecycleStep(c) /\ call[c].at = "idle" /\ call' = call
        BY <2>3 DEF TlbLifecycle
      <3>2. SessionInv'
        BY <2>1, <3>1, LifecycleKeeps
      <3>3. /\ vma' = vma /\ Counted'
            /\ \A d \in Client \ {c} : FileOf(d)' = FileOf(d) /\ pc'[d] = pc[d]
        BY <2>1, <3>1, LifecycleTables
      <3>4. Making(c)'
        BY <2>1, <3>1 DEF Making, CallOK
      <3>5. ASSUME NEW d \in Client \ {c}
            PROVE  Making(d)'
        BY <2>1, <3>1, <3>3, MakingStays
      <3> QED
        BY <3>2, <3>3, <3>4, <3>5
    <2>4. ASSUME TlbEnv
          PROVE  SessionInv' /\ Counted' /\ \A d \in Client : Making(d)'
      <3>1. SessionEnv /\ call' = call
        BY <2>4 DEF TlbEnv
      <3>2. /\ SessionInv' /\ \A c \in Client : FileOf(c)' = FileOf(c)
            /\ \A f \in File : st'[f] = "free" <=> st[f] = "free"
        BY <2>1, <3>1, EnvKeeps
      <3>3. UNCHANGED <<fdtab, vma, pc>>
        BY <3>1 DEF SessionEnv, OobReset, Remove, Reprobe, sessVars
      <3>4. Counted'
        BY <2>1, <3>2, <3>3 DEF Counted
      <3>5. \A d \in Client : Making(d)'
        BY <2>1, <3>1, <3>2, <3>3 DEF Making
      <3> QED
        BY <3>2, <3>4, <3>5
    <2>5. ASSUME UNCHANGED tlbVars
          PROVE  SessionInv' /\ Counted' /\ \A d \in Client : Making(d)'
      <3>1. /\ UNCHANGED <<kmdVars, fd, flags, req, pc, op, ret, call>>
            /\ UNCHANGED <<present, st, excl, fdtab, vma>>
        BY <2>5 DEF tlbVars, sessionVars, sessVars, kmdVars
      <3>2. SessionInv'
        BY <2>1, <3>1, ReportsKeeps DEF SessionInv, SessionTypeOK
      <3>3. Counted' /\ \A d \in Client : Making(d)'
        BY <2>1, <3>1 DEF Counted, Making, FileOf
      <3> QED
        BY <3>2, <3>3
    <2> QED
      BY <2>2, <2>3, <2>4, <2>5, ExitBook DEF TlbNext
  <1> QED
    BY <1>1, <1>2, PTL DEF TlbSpec

\* Of what an open or a reopen is refused for with EAGAIN nothing is without a holder who
\* could let it go: it is the session of another client, or a window that a handle still
\* maps.  Clients need not free their handles before they open a session again.
THEOREM TlbRefusedByHolders ==
  ASSUME ~CloseFails
  PROVE  TlbSpec => RefusedByHolders
  <1> DEFINE Holder(c) == \/ \E d \in Client \ {c} : FileOf(d) # NoFile /\ Holds(FileOf(d))
                          \/ \E h \in Handle : tlb[h].ptr # NoAddr /\ Holds(vma[tlb[h].ptr])
             Refused(c) == pc[c] = "opening" /\ pc'[c] = "idle" /\ ret'[c] = "EAGAIN"
             A == \A c \in Client :
                    /\ pc[c] = "opening" /\ pc'[c] = "idle" /\ ret'[c] = "EAGAIN"
                    => \/ \E d \in Client \ {c} : FileOf(d) # NoFile /\ Holds(FileOf(d))
                       \/ \E h \in Handle : tlb[h].ptr # NoAddr /\ Holds(vma[tlb[h].ptr])
  <1>1. BookInv /\ [TlbNext]_tlbVars => [A]_tlbVars
    <2> SUFFICES ASSUME BookInv, [TlbNext]_tlbVars, NEW c \in Client, Refused(c)
                 PROVE  Holder(c)
      OBVIOUS
    <2>1. /\ MapInv /\ MapTypes /\ Held /\ SessionInv /\ Counted /\ SessionTypeOK
          /\ \A d \in Client : Making(d) /\ CallOK(d)
      BY DEF BookInv, MapInv, SessionInv
    <2>3. PICK f \in File : Holds(f)
      BY <2>1, OpenRefused
    <2>4. CASE \E s \in Fd : fdtab[s] = f
      <3>1. PICK s \in Fd : fdtab[s] = f
        BY <2>4
      <3>2. PICK d \in Client : fd[d] = s
        BY <2>1, <3>1, KmdAssumption DEF SessionInv, DescriptorsOwned
      <3>3. d # c /\ FileOf(d) = f /\ f # NoFile
        BY <2>1, <3>1, <3>2, SessionAssumption, KmdAssumption
           DEF SessionInv, OpeningIsClosed, FileOf
      <3> QED
        BY <2>3, <3>3
    <2>5. CASE \E a \in Addr : vma[a] = f
      <3>1. PICK a \in Addr : vma[a] = f
        BY <2>5
      <3>2. ASSUME NEW h \in Handle, tlb[h].ptr = a
            PROVE  Holder(c)
        BY <2>3, <3>1, <3>2, WindowsAssumption
      <3>3. ASSUME NEW d \in Client, call[d].new = a
            PROVE  Holder(c)
        <4>1. Making(c) /\ Making(d) /\ CallOK(c) /\ call[d].new # NoAddr
          BY <2>1, <3>3, WindowsAssumption
        <4>2. FileOf(d) = f /\ FileOf(d) # NoFile
          BY <3>1, <3>3, <4>1 DEF Making
        <4>3. d # c
          BY <4>1 DEF CallOK, Making
        <4> QED
          BY <2>3, <4>2, <4>3
      <3> QED
        BY <2>1, <3>1, <3>2, <3>3, KmdAssumption DEF Held
    <2> QED
      BY <2>1, <2>3, <2>4, <2>5 DEF Counted, Holds
  <1> QED
    BY <1>1, BookInvInductive, PTL DEF TlbSpec, RefusedByHolders

------------------------------------------------------------------------------
(* Pointers that users have saved.                                          *)

\* How a step may change where handle h points: it points where it did,
\* and a bind of it goes on; it is unbound, freed or loses its owner; or a bind of it ends
\* and it points at what that bind has mapped.
Moved(h) ==
  \/ tlb'[h].ptr = tlb[h].ptr /\ (Binding(h) => Binding(h)')
  \/ tlb'[h].ptr = NoAddr /\ ~Binding(h)'
  \/ Binding(h) /\ ~Binding(h)' /\ tlb'[h].ptr = call[Owner[h]].new

BindPoints == {"configure", "replace", "cleanup"}

LEMMA FrameMoves ==
  ASSUME MapTypes, NEW c \in Client, NEW h \in Handle, Owner[h] = c, NEW f,
         call' = [call EXCEPT ![c] = f], call[c].at = "idle" \/ call[c].h = h,
         \A g \in Handle \ {h} : tlb'[g] = tlb[g],
         \/ tlb'[h].ptr = tlb[h].ptr /\ (call[c].at \in BindPoints => f.at \in BindPoints /\ f.h = h)
         \/ tlb'[h].ptr = NoAddr /\ f.at \notin BindPoints
         \/ /\ call[c].at \in BindPoints /\ call[c].h = h /\ f.at \notin BindPoints
            /\ tlb'[h].ptr = call[c].new
  PROVE  \A g \in Handle : Moved(g)
  <1>1. call'[c] = f /\ \A d \in Client \ {c} : call'[d] = call[d]
    BY DEF MapTypes
  <1>2. Moved(h)
    BY <1>1 DEF Moved, Binding, BindPoints
  <1>3. ASSUME NEW g \in Handle \ {h}
        PROVE  Moved(g)
    <2>1. CASE Owner[g] = c
      <3>1. ~Binding(g)
        BY <2>1 DEF Binding
      <3> QED
        BY <3>1 DEF Moved
    <2>2. CASE Owner[g] # c
      <3>1. Binding(g) => Binding(g)'
        BY <1>1, <2>2, TlbAssumption DEF Binding
      <3> QED
        BY <3>1 DEF Moved
    <2> QED
      BY <2>1, <2>2
  <1> QED
    BY <1>2, <1>3

LEMMA TlbStepMoves ==
  ASSUME MapInv, NEW c \in Client, TlbStep(c)
  PROVE  \A h \in Handle : Moved(h)
  <1>1. MapTypes /\ CallOK(c)
    BY DEF MapInv
  <1> DEFINE Idle(h) == Frame("idle", h, NoAddr, "OK")
  <1>2. \A at, h, new, err : Frame(at, h, new, err).at = at /\ Frame(at, h, new, err).h = h
    BY DEF Frame
  <1>3. ASSUME NEW h \in Handle, AllocFail(c, h) \/ Alloc(c, h) \/ BindClosed(c, h) \/ Bind(c, h)
                                 \/ BindFail(c, h) \/ Free(c, h)
        PROVE  \A g \in Handle : Moved(g)
    <2>1. PICK f : call' = [call EXCEPT ![c] = f]
      BY <1>3 DEF AllocFail, Alloc, BindClosed, Bind, BindFail, Free, Begin
    <2>2. Owner[h] = c /\ call[c].at = "idle"
      BY <1>3 DEF AllocFail, Alloc, BindClosed, Bind, BindFail, Free, Begin, CanCall, Handles
    <2>3. \A g \in Handle \ {h} : tlb'[g] = tlb[g]
      BY <1>1, <1>3 DEF AllocFail, Alloc, BindClosed, Bind, BindFail, Free, MapTypes
    <2>4. CASE ~Free(c, h)
      <3>1. tlb'[h].ptr = tlb[h].ptr
        BY <1>1, <1>3, <2>4 DEF AllocFail, Alloc, BindClosed, Bind, BindFail, MapTypes, Unused
      <3>2. call[c].at \notin BindPoints
        BY <2>2 DEF BindPoints
      <3> QED
        BY <1>1, <2>1, <2>2, <2>3, <3>1, <3>2, FrameMoves
    <2>5. CASE Free(c, h)
      <3> DEFINE e == Frame("free", h, NoAddr, "OK")
      <3>1. tlb'[h].ptr = NoAddr /\ call' = [call EXCEPT ![c] = e]
        BY <1>1, <2>5 DEF Free, Begin, MapTypes, Tlbs
      <3>2. e.at \notin BindPoints
        BY <1>2 DEF BindPoints
      <3> HIDE DEF e
      <3> QED
        BY <1>1, <2>2, <2>3, <3>1, <3>2, FrameMoves
    <2> QED
      BY <2>4, <2>5
  <1>4. ASSUME call[c].at # "idle"
        PROVE  call[c].h \in Handle /\ Owner[call[c].h] = c
    BY <1>1, <1>4 DEF CallOK
  <1>5. CASE AllocUndo(c) \/ FreeIoctl(c) \/ Cleanup(c) \/ Replace(c)
    <2> DEFINE h == call[c].h
               f == Idle(h)
    <2>1. call' = [call EXCEPT ![c] = f] /\ h \in Handle /\ Owner[h] = c
      BY <1>4, <1>5 DEF AllocUndo, FreeIoctl, Cleanup, Replace, End
    <2>2. f.at \notin BindPoints
      BY <1>2 DEF BindPoints
    <2> HIDE DEF f, h
    <2>3. \A g \in Handle \ {h} : tlb'[g] = tlb[g]
      BY <1>1, <1>5, <2>1 DEF AllocUndo, FreeIoctl, Cleanup, Replace, MapTypes, h
    <2>4. CASE AllocUndo(c) \/ FreeIoctl(c)
      <3>1. tlb'[h].ptr = NoAddr
        BY <1>1, <2>1, <2>4 DEF AllocUndo, FreeIoctl, MapTypes, Unused, h
      <3> QED
        BY <1>1, <2>1, <2>2, <2>3, <3>1, FrameMoves DEF h
    <2>5. CASE Cleanup(c)
      <3>1. tlb'[h].ptr = NoAddr
        BY <1>1, <2>1, <2>5 DEF Cleanup, MapTypes, Tlbs, h
      <3> QED
        BY <1>1, <2>1, <2>2, <2>3, <3>1, FrameMoves DEF h
    <2>6. CASE Replace(c)
      <3>1. tlb'[h].ptr = call[c].new /\ call[c].at \in BindPoints /\ call[c].h = h
        BY <1>1, <2>1, <2>6 DEF Replace, MapTypes, Tlbs, BindPoints, h
      <3> QED
        BY <1>1, <2>1, <2>2, <2>3, <3>1, FrameMoves
    <2> QED
      BY <1>5, <2>4, <2>5, <2>6
  <1>6. CASE Configure(c) \/ ConfigureFail(c)
    <2> DEFINE h == call[c].h
    <2>1. PICK f : call' = [call EXCEPT ![c] = f] /\ f.h = h /\ f.at \in BindPoints
      <3>1. CASE Configure(c)
        <4> DEFINE e == [call[c] EXCEPT !.at = "replace"]
        <4>1. call' = [call EXCEPT ![c] = e]
          BY <3>1 DEF Configure, Goto
        <4>2. e.h = h /\ e.at = "replace"
          BY <1>1 DEF MapTypes
        <4>3. e.at \in BindPoints
          BY <4>2 DEF BindPoints
        <4> HIDE DEF e, h
        <4> QED
          BY <4>1, <4>2, <4>3
      <3>2. CASE ConfigureFail(c)
        <4>1. PICK r : call' = [call EXCEPT ![c] = Frame("cleanup", h, NoAddr, r)]
          BY <3>2 DEF ConfigureFail
        <4> DEFINE e == Frame("cleanup", h, NoAddr, r)
        <4>2. call' = [call EXCEPT ![c] = e]
          BY <4>1
        <4>3. e.h = h /\ e.at \in BindPoints
          BY <1>2 DEF BindPoints
        <4> HIDE DEF e, h
        <4> QED
          BY <4>2, <4>3
      <3> QED
        BY <1>6, <3>1, <3>2
    <2>2. h \in Handle /\ Owner[h] = c /\ tlb' = tlb
      BY <1>4, <1>6 DEF Configure, ConfigureFail
    <2> QED
      BY <1>1, <2>1, <2>2, FrameMoves
  <1> QED
    BY <1>3, <1>5, <1>6 DEF TlbStep

LEMMA NextMoves ==
  ASSUME MapInv, TlbNext
  PROVE  \A h \in Handle : Moved(h)
  <1>1. ASSUME UNCHANGED <<tlb, call>>, NEW h \in Handle
        PROVE  Moved(h)
    BY <1>1 DEF Moved, Binding
  <1>2. ASSUME NEW p \in Proc, TlbExit(p), NEW h \in Handle
        PROVE  Moved(h)
    <2>1. /\ tlb' = [g \in Handle |-> IF Home[Owner[g]] = p THEN Unused ELSE tlb[g]]
          /\ call' = [d \in Client |-> IF Home[d] = p THEN NoCall ELSE call[d]]
      BY <1>2 DEF TlbExit
    <2>2. Home[Owner[h]] # p => tlb'[h] = tlb[h] /\ call'[Owner[h]] = call[Owner[h]]
      BY <2>1, TlbAssumption
    <2>3. CASE Home[Owner[h]] = p
      <3>1. tlb'[h].ptr = NoAddr
        BY <2>1, <2>3 DEF Unused
      <3>2. call'[Owner[h]].at = "idle"
        BY <2>1, <2>3, TlbAssumption DEF NoCall, Frame
      <3> QED
        BY <3>1, <3>2 DEF Moved, Binding
    <2> QED
      BY <2>2, <2>3 DEF Moved, Binding
  <1> QED
    BY <1>1, <1>2, TlbStepMoves DEF TlbNext, TlbLifecycle, TlbEnv

\* A handle that is in use keeps its window, and no step but the mmap(2) of a bind maps an
\* address.
LEMMA NextKeeps ==
  ASSUME MapInv, TlbNext
  PROVE  /\ \A h \in Handle : tlb'[h].id \in {tlb[h].id, NoWindow} \/ \E c \in Client : Alloc(c, h)
         /\ \/ \E c \in Client, h \in Handle : Bind(c, h)
            \/ /\ \A c \in Client : call'[c].new \in {call[c].new, NoAddr}
               /\ \A a \in Addr : vma'[a] \in {vma[a], NoFile}
  <1> DEFINE Ids == \A h \in Handle : tlb'[h].id \in {tlb[h].id, NoWindow}
             Maps == /\ \A c \in Client : call'[c].new \in {call[c].new, NoAddr}
                     /\ \A a \in Addr : vma'[a] \in {vma[a], NoFile}
  <1>1. MapTypes
    BY DEF MapInv
  <1>2. ASSUME UNCHANGED <<tlb, call>>, vma' = vma
        PROVE  Ids /\ Maps
    BY <1>2
  <1>3. ASSUME NEW a, Munmap(a)
        PROVE  \A b \in Addr : vma'[b] \in {vma[b], NoFile}
    BY <1>3 DEF Munmap, Retain
  <1>4. ASSUME NEW c \in Client, NEW f, call' = [call EXCEPT ![c] = f],
               f.new \in {call[c].new, NoAddr}
        PROVE  \A d \in Client : call'[d].new \in {call[d].new, NoAddr}
    BY <1>1, <1>4 DEF MapTypes
  <1>5. \A at, h, err : Frame(at, h, NoAddr, err).new = NoAddr
    BY DEF Frame
  <1>6. ASSUME NEW c \in Client, NEW at, NEW h, NEW err,
               call' = [call EXCEPT ![c] = Frame(at, h, NoAddr, err)]
        PROVE  \A d \in Client : call'[d].new \in {call[d].new, NoAddr}
    BY <1>1, <1>5, <1>6 DEF MapTypes
  <1>7. ASSUME NEW c \in Client, NEW h \in Handle,
               AllocFail(c, h) \/ BindClosed(c, h) \/ BindFail(c, h)
        PROVE  Ids /\ Maps
    <2>1. tlb' = tlb /\ vma' = vma
      BY <1>7 DEF AllocFail, BindClosed, BindFail, kmdVars
    <2>2. PICK at, r : call' = [call EXCEPT ![c] = Frame(at, h, NoAddr, r)]
      BY <1>7 DEF AllocFail, BindClosed, BindFail, Begin
    <2> QED
      BY <1>6, <2>1, <2>2
  <1>8. ASSUME NEW c \in Client, NEW h \in Handle, Alloc(c, h)
        PROVE  Maps /\ \A g \in Handle \ {h} : tlb'[g] = tlb[g]
    <2>1. vma' = vma
      BY <1>8 DEF Alloc, kmdVars
    <2>2. PICK at : call' = [call EXCEPT ![c] = Frame(at, h, NoAddr, "OK")]
      BY <1>8 DEF Alloc, Begin
    <2>3. \A g \in Handle \ {h} : tlb'[g] = tlb[g]
      BY <1>1, <1>8 DEF Alloc, MapTypes
    <2> QED
      BY <1>6, <2>1, <2>2, <2>3
  <1>9. ASSUME NEW c \in Client, NEW h \in Handle, Free(c, h)
        PROVE  Ids /\ Maps
    <2>1. /\ tlb' = [tlb EXCEPT ![h].ptr = NoAddr] /\ Munmap(tlb[h].ptr)
          /\ call' = [call EXCEPT ![c] = Frame("free", h, NoAddr, "OK")]
      BY <1>9 DEF Free, Begin
    <2>2. Ids
      BY <1>1, <2>1 DEF MapTypes, Tlbs
    <2> QED
      BY <1>3, <1>6, <2>1, <2>2
  <1>10. ASSUME NEW c \in Client, AllocUndo(c) \/ FreeIoctl(c)
         PROVE  Ids /\ Maps
    <2>1. /\ tlb' = [tlb EXCEPT ![call[c].h] = Unused] /\ vma' = vma
          /\ call' = [call EXCEPT ![c] = Frame("idle", call[c].h, NoAddr, "OK")]
      BY <1>10 DEF AllocUndo, FreeIoctl, End, kmdVars
    <2>2. Ids
      BY <1>1, <2>1 DEF MapTypes, Unused
    <2> QED
      BY <1>6, <2>1, <2>2
  <1>11. ASSUME NEW c \in Client, Configure(c)
         PROVE  Ids /\ Maps
    <2>1. /\ tlb' = tlb /\ vma' = vma
          /\ call' = [call EXCEPT ![c].at = "replace"]
      BY <1>11 DEF Configure, Goto, sessionVars, kmdVars
    <2>2. \A d \in Client : call'[d].new = call[d].new
      BY <1>1, <2>1 DEF MapTypes
    <2> QED
      BY <2>1, <2>2
  <1>12. ASSUME NEW c \in Client, ConfigureFail(c)
         PROVE  Ids /\ Maps
    <2>1. tlb' = tlb /\ Munmap(call[c].new)
      BY <1>12 DEF ConfigureFail
    <2>2. PICK r : call' = [call EXCEPT ![c] = Frame("cleanup", call[c].h, NoAddr, r)]
      BY <1>12 DEF ConfigureFail
    <2> QED
      BY <1>3, <1>6, <2>1, <2>2
  <1>13. ASSUME NEW c \in Client, Replace(c) \/ Cleanup(c)
         PROVE  Ids /\ Maps
    <2>1. /\ \E a : tlb' = [tlb EXCEPT ![call[c].h].ptr = a]
          /\ Munmap(tlb[call[c].h].ptr)
          /\ call' = [call EXCEPT ![c] = Frame("idle", call[c].h, NoAddr, "OK")]
      BY <1>13 DEF Replace, Cleanup, End
    <2>2. Ids
      BY <1>1, <2>1 DEF MapTypes, Tlbs
    <2> QED
      BY <1>3, <1>6, <2>1, <2>2
  <1>14. ASSUME NEW c \in Client, TlbLifecycle(c)
         PROVE  Ids /\ Maps
    <2>1. vma' = vma
      BY <1>14, LifecycleMaps DEF TlbLifecycle
    <2> QED
      BY <1>2, <1>14, <2>1 DEF TlbLifecycle
  <1>15. ASSUME NEW p \in Proc, TlbExit(p)
         PROVE  Ids /\ Maps
    <2>1. /\ tlb' = [h \in Handle |-> IF Home[Owner[h]] = p THEN Unused ELSE tlb[h]]
          /\ call' = [c \in Client |-> IF Home[c] = p THEN NoCall ELSE call[c]]
          /\ vma' = [a \in Addr |-> IF ProcOf[a] = p THEN NoFile ELSE vma[a]]
      BY <1>15 DEF TlbExit, ProcessExit, Exit, Retain
    <2> QED
      BY <2>1 DEF Unused, NoCall, Frame
  <1>16. ASSUME TlbEnv
         PROVE  Ids /\ Maps
    <2>1. vma' = vma
      BY <1>16 DEF TlbEnv, SessionEnv, OobReset, Remove, Reprobe
    <2> QED
      BY <1>2, <1>16, <2>1 DEF TlbEnv
  <1> HIDE DEF Maps
  <1>17. ASSUME NEW c \in Client, NEW h \in Handle, Bind(c, h)
         PROVE  Ids
    BY <1>17 DEF Bind
  <1>18. (\E c \in Client, h \in Handle : Bind(c, h)) \/ Maps
    BY <1>7, <1>8, <1>9, <1>10, <1>11, <1>12, <1>13, <1>14, <1>15, <1>16 DEF TlbNext, TlbStep
  <1>19. ASSUME NEW h \in Handle
         PROVE  tlb'[h].id \in {tlb[h].id, NoWindow} \/ \E c \in Client : Alloc(c, h)
    <2>1. ASSUME NEW c \in Client, NEW g \in Handle, Alloc(c, g)
          PROVE  tlb'[h].id \in {tlb[h].id, NoWindow} \/ \E d \in Client : Alloc(d, h)
      BY <1>8, <2>1
    <2>2. Ids \/ \E c \in Client, g \in Handle : Alloc(c, g)
      <3> HIDE DEF Ids
      <3> QED
        BY <1>7, <1>9, <1>10, <1>11, <1>12, <1>13, <1>14, <1>15, <1>16, <1>17 DEF TlbNext, TlbStep
    <2> QED
      BY <2>1, <2>2
  <1> QED
    BY <1>18, <1>19 DEF Maps

\* Client c maps something at address a, by a handle or in a bind in progress.
Has(c, a) ==
  /\ a \in Addr /\ vma[a] # NoFile
  /\ call[c].new = a \/ \E h \in Handle : Owner[h] = c /\ tlb[h].ptr = a

\* Two clients map nothing of one description.
OwnFiles ==
  \A c, d \in Client, a, b \in Addr : Has(c, a) /\ Has(d, b) /\ vma[a] = vma[b] => c = d

\* Two handles of a client are two windows.
OwnWindows ==
  \A g, h \in Handle : Owner[g] = Owner[h] /\ tlb[g].id # NoWindow /\ tlb[g].id = tlb[h].id => g = h

\* A bind in progress may still return to the address it has on record, a bind that has
\* returned has replaced it.
PriorOK(h) ==
  prior[h] # NoAddr =>
    /\ prior[h] \in Addr
    /\ Binding(h) <=> prior[h] = tlb[h].ptr

LEMMA OwnFilesStep ==
  ASSUME WinInv, WinInv', OwnFiles, TlbNext
  PROVE  OwnFiles'
  <1> USE WindowsAssumption, KmdAssumption, TlbAssumption
  <1>1. MapInv /\ MapTypes /\ SessionInv /\ MapTypes'
    BY DEF WinInv, MapInv
  <1>2. CASE /\ \A c \in Client : call'[c].new \in {call[c].new, NoAddr}
             /\ \A a \in Addr : vma'[a] \in {vma[a], NoFile}
    <2>1. ASSUME NEW c \in Client, NEW a \in Addr, Has(c, a)'
          PROVE  Has(c, a) /\ vma'[a] = vma[a]
      <3>1. vma'[a] = vma[a] /\ vma[a] # NoFile
        BY <1>2, <2>1 DEF Has
      <3>2. ASSUME NEW h \in Handle, Owner[h] = c, tlb'[h].ptr = a
            PROVE  Has(c, a)
        <4>1. Moved(h)
          BY <1>1, NextMoves
        <4>2. a # NoAddr /\ (tlb[h].ptr = a \/ call[c].new = a)
          BY <3>2, <4>1 DEF Moved, Unused
        <4> QED
          BY <3>1, <3>2, <4>2 DEF Has
      <3>3. call'[c].new = a => Has(c, a)
        BY <1>2, <3>1 DEF Has
      <3> QED
        BY <2>1, <3>1, <3>2, <3>3 DEF Has
    <2> SUFFICES ASSUME NEW c \in Client, NEW d \in Client, NEW a \in Addr, NEW b \in Addr,
                        Has(c, a)', Has(d, b)', vma'[a] = vma'[b]
                 PROVE  c = d
      BY DEF OwnFiles
    <2>2. Has(c, a) /\ Has(d, b) /\ vma[a] = vma[b]
      BY <2>1
    <2> QED
      BY <2>2 DEF OwnFiles
  <1>3. ASSUME NEW c \in Client, NEW h \in Handle, Bind(c, h)
        PROVE  OwnFiles'
    <2>1. PICK x \in FreeAddrs(Home[c]) :
            /\ vma' = [vma EXCEPT ![x] = FileOf(c)]
            /\ Begin(c, "tt_tlb_bind", Frame("configure", h, x, "OK"), "OK")
      BY <1>3 DEF Bind
    <2>2. /\ x \in Addr /\ vma[x] = NoFile /\ tlb' = tlb
          /\ call' = [call EXCEPT ![c] = Frame("configure", h, x, "OK")]
      BY <1>3, <2>1 DEF Bind, FreeAddrs, Begin
    <2>3. /\ vma'[x] = FileOf(c) /\ \A a \in Addr \ {x} : vma'[a] = vma[a]
          /\ call'[c].new = x /\ \A d \in Client \ {c} : call'[d] = call[d]
      BY <1>1, <2>1, <2>2 DEF MapTypes, Frame
    <2>4. ASSUME NEW d \in Client, NEW a \in Addr, Has(d, a)'
          PROVE  (d = c /\ a = x) \/ (Has(d, a) /\ a # x /\ vma'[a] = vma[a])
      <3>1. CASE a = x
        <4>1. ASSUME NEW g \in Handle, tlb[g].ptr = x
              PROVE  FALSE
          BY <1>1, <2>2, <4>1 DEF MapInv, HandleOK
        <4>2. \A e \in Client : call[e].new # x
          BY <1>1, <2>2 DEF MapInv, CallOK
        <4> QED
          BY <2>2, <2>3, <2>4, <3>1, <4>1, <4>2 DEF Has
      <3>2. CASE a # x
        BY <2>2, <2>3, <2>4, <3>2 DEF Has
      <3> QED
        BY <3>1, <3>2
    <2>5. ASSUME NEW d \in Client, NEW a \in Addr, Has(d, a), vma[a] = FileOf(c)
          PROVE  d = c
      <3>1. ASSUME NEW g \in Handle, Owner[g] = d, tlb[g].ptr = a
            PROVE  d = c
        <4>1. Mine(g)
          BY DEF WinInv, WinOK
        <4> QED
          BY <2>5, <3>1, <4>1 DEF Mine, Has
      <3>2. ASSUME call[d].new = a
            PROVE  d = c
        <4>1. Busy(d)
          BY DEF WinInv, WinOK
        <4>2. FileOf(d) # NoFile /\ FileOf(d) = FileOf(c)
          BY <2>5, <3>2, <4>1 DEF Busy
        <4> QED
          BY <1>1, <4>2, FilesApart
      <3> QED
        BY <2>5, <3>1, <3>2 DEF Has
    <2> SUFFICES ASSUME NEW d \in Client, NEW e \in Client, NEW a \in Addr, NEW b \in Addr,
                        Has(d, a)', Has(e, b)', vma'[a] = vma'[b]
                 PROVE  d = e
      BY DEF OwnFiles
    <2>6. CASE a = x /\ b = x
      BY <2>4, <2>6
    <2>7. CASE a = x /\ b # x
      <3>1. d = c /\ Has(e, b) /\ vma[b] = FileOf(c)
        BY <2>3, <2>4, <2>7
      <3> QED
        BY <2>5, <3>1
    <2>8. CASE a # x /\ b = x
      <3>1. e = c /\ Has(d, a) /\ vma[a] = FileOf(c)
        BY <2>3, <2>4, <2>8
      <3> QED
        BY <2>5, <3>1
    <2>9. CASE a # x /\ b # x
      <3>1. Has(d, a) /\ Has(e, b) /\ vma[a] = vma[b]
        BY <2>4, <2>9
      <3> QED
        BY <3>1 DEF OwnFiles
    <2> QED
      BY <2>6, <2>7, <2>8, <2>9
  <1> QED
    BY <1>1, <1>2, <1>3, NextKeeps

LEMMA OwnWindowsStep ==
  ASSUME WinInv, OwnWindows, TlbNext
  PROVE  OwnWindows'
  <1> USE WindowsAssumption, KmdAssumption
  <1>1. MapInv /\ MapTypes /\ SessionInv
    BY DEF WinInv, MapInv
  <1>2. ASSUME NEW c \in Client, NEW k \in Handle, Alloc(c, k)
        PROVE  OwnWindows'
    <2>1. PICK w \in Window : /\ holder[w] = NoFile
                              /\ tlb' = [tlb EXCEPT ![k] = [id |-> w, ptr |-> NoAddr]]
      BY <1>2 DEF Alloc
    <2>2. /\ tlb'[k].id = w /\ \A g \in Handle \ {k} : tlb'[g] = tlb[g]
          /\ Owner[k] = c /\ SessionIo(c) = "OK"
      BY <1>1, <1>2, <2>1 DEF Alloc, MapTypes
    <2>3. Live(c) /\ FileOf(c) # NoFile
      BY <1>1, <2>2, FilesApart DEF SessionIo, tt_fail_io, Io, Live, FileOf
    <2>4. \A g \in Handles(c) : holder[tlb[g].id] = FileOf(c)
      BY <2>3 DEF WinInv, WinOK, Owns
    <2>5. ASSUME NEW g \in Handle \ {k}, Owner[g] = c
          PROVE  tlb[g].id # w
      BY <2>1, <2>3, <2>4, <2>5 DEF Handles
    <2> QED
      BY <2>2, <2>5 DEF OwnWindows
  <1>3. CASE \A h \in Handle : tlb'[h].id \in {tlb[h].id, NoWindow}
    BY <1>3 DEF OwnWindows
  <1> QED
    BY <1>1, <1>2, <1>3, NextKeeps

LEMMA PriorStep ==
  ASSUME MapInv, \A h \in Handle : PriorOK(h), TlbNext, Record, NEW h \in Handle
  PROVE  PriorOK(h)'
  <1> USE WindowsAssumption
  <1>1. Moved(h) /\ PriorOK(h) /\ MapTypes /\ Apart /\ Owner[h] \in Client
    BY NextMoves, TlbAssumption DEF MapInv
  <1>2. prior'[h] = IF ~Binding(h) /\ Binding(h)' THEN tlb[h].ptr
                    ELSE IF tlb'[h].ptr = NoAddr /\ ~Binding(h)' THEN NoAddr
                    ELSE prior[h]
    BY DEF Record
  <1>3. tlb[h].ptr \in Addr \cup {NoAddr}
    BY <1>1 DEF MapTypes, Tlbs
  <1>4. tlb[h].ptr # NoAddr => tlb[h].ptr # call[Owner[h]].new
    BY <1>1 DEF Apart
  <1>5. CASE tlb'[h].ptr = NoAddr /\ ~Binding(h)'
    BY <1>2, <1>5 DEF PriorOK
  <1>6. CASE tlb'[h].ptr = tlb[h].ptr /\ (Binding(h) => Binding(h)')
    BY <1>1, <1>2, <1>3, <1>5, <1>6 DEF PriorOK
  <1>7. CASE Binding(h) /\ ~Binding(h)' /\ tlb'[h].ptr = call[Owner[h]].new
    BY <1>1, <1>2, <1>4, <1>5, <1>7 DEF PriorOK
  <1> QED
    BY <1>1, <1>5, <1>6, <1>7 DEF Moved

\* The pointer that a rebind replaces never reaches the handle's window under its new
\* configuration, whatever is mapped and unmapped in between, by other threads too: the
\* new mapping is made before the old one is undone.  Clients free their handles before
\* they open a session again, and close(2) does not fail.
THEOREM TlbStalePointersMiss ==
  ASSUME ~CloseFails, FreesFirst
  PROVE  RebindsSpec => []StalePointersMiss
  <1> DEFINE Rest == OwnFiles /\ OwnWindows /\ \A h \in Handle : PriorOK(h)
  <1>1. RebindsSpec => []WinInv
    <2>1. RebindsSpec => TlbSpec
      <3>1. RebindsInit => TlbInit
        BY DEF RebindsInit
      <3>2. [TlbNext /\ Record]_rebindVars => [TlbNext]_tlbVars
        BY DEF rebindVars
      <3> QED
        BY <3>1, <3>2, PTL DEF RebindsSpec, TlbSpec
    <2> QED
      BY <2>1, WinInvInductive, PTL
  <1>2. RebindsInit => Rest
    <2> SUFFICES ASSUME RebindsInit
                 PROVE  Rest
      OBVIOUS
    <2>1. /\ vma = [a \in Addr |-> NoFile] /\ tlb = [h \in Handle |-> Unused]
          /\ prior = [h \in Handle |-> NoAddr]
      BY DEF RebindsInit, TlbInit, SessionInit, KmdInit
    <2>2. \A h \in Handle : tlb[h].id = NoWindow /\ prior[h] = NoAddr
      BY <2>1 DEF Unused
    <2>3. \A c \in Client, a \in Addr : ~Has(c, a)
      BY <2>1 DEF Has
    <2> QED
      BY <2>2, <2>3 DEF OwnFiles, OwnWindows, PriorOK
  <1>3. WinInv /\ WinInv' /\ Rest /\ [TlbNext /\ Record]_rebindVars => Rest'
    <2> SUFFICES ASSUME WinInv, WinInv', Rest, [TlbNext /\ Record]_rebindVars
                 PROVE  Rest'
      OBVIOUS
    <2>1. CASE TlbNext /\ Record
      <3>1. \A h \in Handle : PriorOK(h)'
        BY <2>1, PriorStep DEF WinInv
      <3> QED
        BY <2>1, <3>1, OwnFilesStep, OwnWindowsStep
    <2>2. CASE UNCHANGED rebindVars
      <3>1. UNCHANGED <<tlb, call, vma, prior>>
        BY <2>2 DEF rebindVars, tlbVars, sessionVars, kmdVars
      <3> QED
        BY <3>1 DEF OwnFiles, OwnWindows, PriorOK, Has, Binding
    <2> QED
      BY <2>1, <2>2
  <1>4. WinInv /\ Rest => StalePointersMiss
    <2> SUFFICES ASSUME WinInv, Rest, NEW h \in Handle, prior[h] # NoAddr, tlb[h].ptr # NoAddr,
                        ~Binding(h), vma[prior[h]] = vma[tlb[h].ptr],
                        shows[prior[h]] = tlb[h].id
                 PROVE  FALSE
      BY DEF StalePointersMiss
    <2> DEFINE a == prior[h]
    <2>1. /\ MapInv /\ MapTypes /\ Held /\ HandleOK(h) /\ PriorOK(h) /\ Mine(h)
          /\ Owner[h] \in Client
      BY TlbAssumption DEF WinInv, WinOK, MapInv
    <2>2. /\ a \in Addr /\ a # tlb[h].ptr /\ tlb[h].ptr \in Addr
          /\ vma[a] # NoFile /\ vma[a] = vma[tlb[h].ptr] /\ shows[a] = tlb[h].id
          /\ tlb[h].id # NoWindow
      BY <2>1 DEF PriorOK, HandleOK, Mine, MapTypes, Tlbs
    <2> HIDE DEF a
    <2>3. Has(Owner[h], tlb[h].ptr)
      BY <2>1, <2>2 DEF Has
    <2>4. ASSUME NEW g \in Handle, tlb[g].ptr = a
          PROVE  FALSE
      <3>1. Has(Owner[g], a) /\ Owner[g] \in Client
        BY <2>2, <2>4, TlbAssumption DEF Has
      <3>2. Owner[g] = Owner[h]
        BY <2>1, <2>2, <2>3, <3>1 DEF OwnFiles
      <3>3. tlb[g].id = tlb[h].id
        BY <2>1, <2>2, <2>4, WindowsAssumption DEF MapInv, HandleOK
      <3>4. g = h
        BY <2>2, <3>2, <3>3 DEF OwnWindows
      <3> QED
        BY <2>2, <2>4, <3>4
    <2>5. ASSUME NEW c \in Client, call[c].new = a
          PROVE  FALSE
      <3>1. Has(c, a)
        BY <2>2, <2>5 DEF Has
      <3>2. c = Owner[h]
        BY <2>1, <2>2, <2>3, <3>1 DEF OwnFiles
      <3>3. CallOK(c) /\ call[c].new # NoAddr
        BY <2>1, <2>2, <2>5, WindowsAssumption DEF MapInv
      <3>4. /\ call[c].at \in {"configure", "replace"} /\ call[c].h \in Handle
            /\ Owner[call[c].h] = c /\ tlb[call[c].h].id = tlb[h].id
        BY <2>2, <2>5, <3>3 DEF CallOK
      <3>5. call[c].h = h
        BY <2>2, <3>2, <3>4 DEF OwnWindows
      <3> QED
        BY <3>2, <3>4, <3>5 DEF Binding
    <2> QED
      BY <2>1, <2>2, <2>4, <2>5 DEF Held
  <1> QED
    BY <1>1, <1>2, <1>3, <1>4, PTL DEF RebindsSpec

------------------------------------------------------------------------------
(* Types.  Nothing is assumed of close(2) here.                             *)

HolderType == holder \in [Window -> File \cup {NoFile}]

\* A TLB call reports a code of the library's and leaves the session as it is.
LEMMA CallReports ==
  ASSUME SessionTypeOK, NEW c \in Client
  PROVE  /\ \A o \in Ops, r \in Codes : \A f : Begin(c, o, f, r) => Reported(c)
         /\ \A r \in Codes : End(c, r) => Reported(c)
         /\ UNCHANGED sessVars => Reported(c)
  BY DEF SessionTypeOK, Begin, End, Return, Reported, sessVars

\* What the steps of the calls do to the kernel's tables and to the windows.
LEMMA MunmapTypes ==
  ASSUME KmdTypeOK, HolderType, NEW a, Munmap(a)
  PROVE  KmdTypeOK' /\ HolderType'
  <1> DEFINE maps == [b \in Addr |-> IF b = a THEN NoFile ELSE vma[b]]
  <1>1. Retain(fdtab, maps) /\ Reclaim
    BY DEF Munmap
  <1>2. maps \in [Addr -> File \cup {NoFile}] /\ fdtab \in [Fd -> File \cup {NoFile}]
    BY DEF KmdTypeOK
  <1> HIDE DEF maps
  <1>3. KmdTypeOK'
    BY <1>1, <1>2, RetainTypes
  <1>4. HolderType'
    BY <1>1 DEF Reclaim, HolderType
  <1> QED
    BY <1>3, <1>4

LEMMA TlbStepTypes ==
  ASSUME MapInv, SessionTypeOK, HolderType, NEW c \in Client, TlbStep(c)
  PROVE  SessionTypeOK' /\ HolderType'
  <1>1. /\ MapTypes /\ KmdTypeOK /\ FileOf(c) \in File \cup {NoFile}
        /\ vma \in [Addr -> File \cup {NoFile}]
    BY DEF MapInv, SessionTypeOK, KmdTypeOK, FileOf
  <1>2. Reported(c) /\ KmdTypeOK' => SessionTypeOK'
    BY DEF Reported, SessionTypeOK
  <1>3. UNCHANGED kmdVars => KmdTypeOK'
    BY <1>1 DEF kmdVars, KmdTypeOK
  <1>4. ASSUME NEW h \in Handle, AllocFail(c, h) \/ Alloc(c, h) \/ BindClosed(c, h) \/ BindFail(c, h)
        PROVE  SessionTypeOK' /\ HolderType'
    <2>1. UNCHANGED kmdVars /\ \E o \in {"tt_tlb_alloc", "tt_tlb_bind"}, r \in Codes :
                                 \E f : Begin(c, o, f, r)
      BY <1>4 DEF AllocFail, Alloc, BindClosed, BindFail, Codes
    <2>2. Reported(c)
      BY <2>1, CallReports DEF Ops
    <2>3. HolderType'
      BY <1>1, <1>4 DEF AllocFail, Alloc, BindClosed, BindFail, windowVars, HolderType
    <2> QED
      BY <1>2, <1>3, <2>1, <2>2, <2>3
  <1>5. ASSUME NEW h \in Handle, Bind(c, h)
        PROVE  SessionTypeOK' /\ HolderType'
    <2>1. PICK a \in Addr : /\ vma' = [vma EXCEPT ![a] = FileOf(c)]
                            /\ Begin(c, "tt_tlb_bind", Frame("configure", h, a, "OK"), "OK")
      BY <1>5 DEF Bind, FreeAddrs
    <2>2. Reported(c)
      BY <2>1, CallReports DEF Ops, Codes
    <2>3. KmdTypeOK' /\ HolderType'
      BY <1>1, <1>5, <2>1 DEF Bind, KmdTypeOK, HolderType
    <2> QED
      BY <1>2, <2>2, <2>3
  <1>6. ASSUME NEW h \in Handle, Free(c, h)
        PROVE  SessionTypeOK' /\ HolderType'
    <2>1. Munmap(tlb[h].ptr) /\ Begin(c, "tt_tlb_free", Frame("free", h, NoAddr, "OK"), "OK")
      BY <1>6 DEF Free
    <2>2. Reported(c)
      BY <2>1, CallReports DEF Ops, Codes
    <2> QED
      BY <1>1, <1>2, <2>1, <2>2, MunmapTypes
  <1>7. CASE AllocUndo(c) \/ FreeIoctl(c)
    <2>1. UNCHANGED kmdVars /\ \E r \in Codes : End(c, r)
      BY <1>7 DEF AllocUndo, FreeIoctl, Codes
    <2>2. HolderType'
      BY <1>7 DEF AllocUndo, FreeIoctl, FreeTlb, HolderType
    <2> QED
      BY <1>2, <1>3, <2>1, <2>2, CallReports
  <1>8. CASE Configure(c)
    BY <1>2, <1>3, <1>8, CallReports DEF Configure, sessionVars, windowVars, HolderType
  <1>9. CASE ConfigureFail(c)
    <2>1. UNCHANGED sessVars /\ Munmap(call[c].new)
      BY <1>9 DEF ConfigureFail
    <2> QED
      BY <1>1, <1>2, <2>1, CallReports, MunmapTypes
  <1>10. CASE Replace(c) \/ Cleanup(c)
    <2>1. Munmap(tlb[call[c].h].ptr) /\ \E r \in Codes : End(c, r)
      BY <1>1, <1>10 DEF Replace, Cleanup, Codes, MapTypes
    <2> QED
      BY <1>1, <1>2, <2>1, CallReports, MunmapTypes
  <1> QED
    BY <1>4, <1>5, <1>6, <1>7, <1>8, <1>9, <1>10 DEF TlbStep

\* Every reachable state of the windows and of the sessions under them is well typed.
THEOREM TlbTypeCorrect ==
  ASSUME Handle # {}
  PROVE  TlbSpec => []TlbTypeOK
  <1> DEFINE Inv == MapInv /\ SessionTypeOK /\ HolderType
  <1>1. TlbInit => Inv
    <2>1. TlbInit => SessionTypeOK
      BY DEF TlbInit, SessionInit, KmdInit, SessionTypeOK, KmdTypeOK, Status, Ops, Codes
    <2>2. TlbInit => HolderType
      BY DEF TlbInit, WindowsInit, HolderType
    <2> QED
      BY <2>1, <2>2, MapInvInit
  <1>2. Inv /\ [TlbNext]_tlbVars => Inv'
    <2> SUFFICES ASSUME Inv, [TlbNext]_tlbVars
                 PROVE  SessionTypeOK' /\ HolderType'
      BY MapInvStep
    <2>1. ASSUME NEW c \in Client, TlbStep(c)
          PROVE  SessionTypeOK' /\ HolderType'
      BY <2>1, TlbStepTypes
    <2>2. ASSUME NEW c \in Client, TlbLifecycle(c)
          PROVE  SessionTypeOK' /\ HolderType'
      BY <2>2, LifecycleTypes DEF TlbLifecycle, Reclaim, HolderType
    <2>3. ASSUME NEW p \in Proc, TlbExit(p)
          PROVE  SessionTypeOK' /\ HolderType'
      BY <2>3, ProcessExitTypes DEF TlbExit, Reclaim, HolderType
    <2>4. CASE TlbEnv
      BY <2>4, EnvTypes DEF TlbEnv, SessionEnv, SessionTypeOK, sessVars, Reclaim, HolderType
    <2>5. CASE UNCHANGED tlbVars
      BY <2>5 DEF tlbVars, sessionVars, sessVars, kmdVars, windowVars,
                  SessionTypeOK, KmdTypeOK, HolderType
    <2> QED
      BY <2>1, <2>2, <2>3, <2>4, <2>5 DEF TlbNext
  <1>3. Inv => TlbTypeOK
    <2>1. NoCall.h \in Handle
      BY DEF NoCall, Frame
    <2> QED
      BY <2>1 DEF MapInv, MapTypes, CallPoints, HolderType, WindowsTypeOK, TlbTypeOK
  <1> QED
    BY <1>1, <1>2, <1>3, PTL DEF TlbSpec
================================================================================
