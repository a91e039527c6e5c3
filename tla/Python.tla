--------------------------------- MODULE Python ---------------------------------
(***************************************************************************)
(* The Python binding's objects (src/bind/py/src/dev/mod.rs, tlb.rs,       *)
(* reset.rs, power.rs, telem.rs, kmd.rs, fw.rs).                           *)
(*                                                                         *)
(* The threads of one interpreter, in process Home[t], share its Session   *)
(* objects.  A method runs with the interpreter lock (gil) and a borrow of *)
(* its object; open, reopen, reset and call work on a copy of the          *)
(* tt_session_t while the lock is released.  A thread's fd and flags       *)
(* (module Session) are that copy.  What a thread does between taking the  *)
(* lock and releasing it is one step.  A method of an object that is       *)
(* borrowed incompatibly raises RuntimeError and changes nothing: no step, *)
(* except for a Tlb that is dropped.                                       *)
(***************************************************************************)
EXTENDS Calls

CONSTANTS
  Object,     \* Session objects
  Handle,     \* Tlb objects, which only the thread that made them can use
  Options,    \* the arguments of Device.open an object is made with
  Uses,       \* the methods a thread calls of an object
  NoThread,
  RETRIES     \* reopen attempts before a persistent session gives up

Thread == Client

ASSUME PythonAssumption ==
  /\ \A s, t \in Thread : Home[s] = Home[t]
  /\ NoThread \notin Thread
  /\ Thread \cap Object = {}
  /\ \A o \in Object : Options[o] \subseteq [excl: BOOLEAN, nonblock: BOOLEAN, persist: BOOLEAN]
  /\ RETRIES \in Nat \ {0}

VARIABLES
  gil,       \* the thread that waits with the interpreter lock held
  raw,       \* sess.raw of a Session object
  persist,   \* sess.persist
  made,      \* the Session objects there are
  call,      \* the method a thread is in
  tlb,       \* tlb.raw
  owner,     \* the Session and the thread of a Tlb, NoOwner if there is none
  freed,     \* tlb.freed
  windows,   \* the Tlb objects that Window objects refer to
  unbound    \* a history variable: the Tlb objects whose last bind failed and
             \* unmapped them

objectVars == <<raw, persist, made>>
tlbVars == <<tlb, owner, freed, windows, unbound>>
pyVars == <<gil, objectVars, call, tlbVars>>
allVars == <<sessionVars, windowVars, power, pyVars>>

Performed == {"info", "telemetry", "power", "fw_version", "alloc"}
Detaching == {"open", "reopen", "reset", "call"}
Methods == Performed \cup Detaching \cup {"close", "bind", "free", "kmd_version"}

Closed == [fd |-> NoFd, flags |-> {}]
NoOwner == [o |-> CHOOSE o \in Object : TRUE, t |-> NoThread]
Frame(at, m, o, tries, arg) == [at |-> at, m |-> m, o |-> o, tries |-> tries, arg |-> arg]
NoArg == [h |-> CHOOSE h \in Handle : TRUE, feats |-> {}]
Idle == Frame("idle", "close", NoOwner.o, 0, NoArg)

PythonTypeOK ==
  /\ CallsTypeOK
  /\ gil \in Thread \cup {NoThread}
  /\ raw \in [Object -> [fd: Fd \cup {NoFd}, flags: SUBSET OpenFlags]]
  /\ persist \in [Object -> BOOLEAN]
  /\ made \subseteq Object
  /\ call \in [Thread -> [at: {"idle", "detached", "opening", "attach"}, m: Methods,
                          o: Object, tries: 0 .. RETRIES,
                          arg: [h: Handle, feats: SUBSET PowerFlag]]]
  /\ tlb \in [Handle -> Tlbs]
  /\ owner \in [Handle -> [o: Object, t: Thread \cup {NoThread}]]
  /\ freed \in [Handle -> BOOLEAN]
  /\ windows \subseteq Handle
  /\ unbound \subseteq Handle

PythonInit ==
  /\ CallsInit
  /\ gil = NoThread
  /\ raw = [o \in Object |-> Closed]
  /\ persist = [o \in Object |-> FALSE]
  /\ made = {}
  /\ call = [t \in Thread |-> Idle]
  /\ tlb = [h \in Handle |-> Unused]
  /\ owner = [h \in Handle |-> NoOwner]
  /\ freed = [h \in Handle |-> FALSE]
  /\ windows = {}
  /\ unbound = {}

------------------------------------------------------------------------------
(* Borrows, and the lock.                                                   *)

Using(o) == {t \in Thread : call[t].at # "idle" /\ call[t].m # "kmd_version" /\ call[t].o = o}

\* try_borrow_mut, and try_borrow: nobody, or only Session.call, has the object.
Exclusively(o) == o \in made /\ Using(o) = {}
Shared(o) == o \in made /\ \A t \in Using(o) : call[t].m = "call"

\* Thread t can call method m of o.
Can(t, m, o) == gil = NoThread /\ call[t].at = "idle" /\ m \in Uses[t][o]

\* Thread t can call method m of Tlb h, which is its own.
Mine(t, h, m) == owner[h].t = t /\ Can(t, m, owner[h].o)

\* What is left of thread t's copy: nothing.
Forget(t) ==
  /\ fd' = [fd EXCEPT ![t] = NoFd]
  /\ flags' = [flags EXCEPT ![t] = {}]
  /\ req' = [req EXCEPT ![t] = {}]
  /\ op' = [op EXCEPT ![t] = "none"]
  /\ UNCHANGED pc

\* The method returns r.  Results that no property is about are not kept: they
\* are raised or returned and change nothing more.
Finish(t, r) ==
  /\ call' = [call EXCEPT ![t] = Idle]
  /\ ret' = [ret EXCEPT ![t] = r]
Done(t) == Finish(t, "OK")

\* Thread t releases the lock in method m of o, with a copy of o.
Detach(t, m, o, tries, arg) ==
  /\ call' = [call EXCEPT ![t] = Frame("detached", m, o, tries, arg)]
  /\ fd' = [fd EXCEPT ![t] = raw[o].fd]
  /\ flags' = [flags EXCEPT ![t] = raw[o].flags]
  /\ UNCHANGED <<req, pc, op, ret>>

\* The lock is released and the C call's next point reached.
Goto(t, at) == call' = [call EXCEPT ![t] = Frame(at, @.m, @.o, @.tries, @.arg)]

\* crate::err::lost.
Lost(r) == r = "ECONNRESET"

------------------------------------------------------------------------------
(* Session::perform.                                                        *)

\* Session.info, the closure, on descriptor d.
InfoOp(d, r) == IoCall(d, r) /\ UNCHANGED tlbVars

\* Session.telemetry, the closure: a severed session or a table out of order.
TelemetryOp(d, r) ==
  /\ \E e \in Codes : IoCall(d, e) /\ r \in IF e = "OK" THEN {"OK", "EIO"} ELSE {e}
  /\ UNCHANGED tlbVars

\* fw.version, the closure: it reads sysfs, which a reset leaves alone.
VersionOp(d, r) ==
  /\ r \in IF d = NoFd THEN {"ENOTCONN"} ELSE IF present THEN {"OK", "EIO"} ELSE {"ENOENT"}
  /\ UNCHANGED <<callVars, tlbVars>>

\* Session.power, the closure.
PowerOp(d, feats, r) == tt_power(d, feats, r) /\ UNCHANGED tlbVars

\* Session.alloc, the closure, and the Tlb made of its result by thread t on o.
AllocOp(t, o, d, h, r) ==
  \E new \in Tlbs :
    /\ tt_tlb_alloc(d, new, r)
    /\ tlb' = [tlb EXCEPT ![h] = new]
    /\ owner' = IF r = "OK" THEN [owner EXCEPT ![h] = [o |-> o, t |-> t]] ELSE owner
    /\ freed' = [freed EXCEPT ![h] = FALSE]
    /\ UNCHANGED <<windows, unbound>>

Run(t, m, o, d, arg, r) ==
  CASE m = "info"       -> InfoOp(d, r)
    [] m = "telemetry"  -> TelemetryOp(d, r)
    [] m = "fw_version" -> VersionOp(d, r)
    [] m = "power"      -> PowerOp(d, arg.feats, r)
    [] m = "alloc"      -> AllocOp(t, o, d, arg.h, r)

\* The Tlb objects there are not, and are not about to be.
Fresh(h) == owner[h] = NoOwner /\ \A t \in Thread : call[t].m = "alloc" => call[t].arg.h # h

Args(t, m) ==
  CASE m = "power" -> {[NoArg EXCEPT !.feats = feats] : feats \in SUBSET PowerFlag}
    [] m = "alloc" -> {[NoArg EXCEPT !.h = h] : h \in {g \in Handle : Fresh(g)}}
    [] OTHER -> {NoArg}

\* The result of a method whose operation returned r after so many reopens.
Outcome(r, tries) == IF Lost(r) /\ tries = RETRIES THEN "ENODEV" ELSE r

\* A method runs its operation, which returned r: to be reopened, or done.
Perform(t, m) ==
  /\ \E o \in Object :
       /\ Can(t, m, o) /\ Exclusively(o)
       /\ \E arg \in Args(t, m), r \in Codes :
            /\ Run(t, m, o, raw[o].fd, arg, r)
            /\ IF persist[o] /\ Lost(r) THEN Detach(t, m, o, 0, arg)
               ELSE UNCHANGED <<sessVars, call>>
  /\ UNCHANGED <<gil, objectVars>>

------------------------------------------------------------------------------
(* What runs without the lock.                                              *)

\* Mutants: Device.open waits with the lock held; so does kmd.version, below.
OpenKeepsGil(t) ==
  /\ \E o \in Object \ made : \E a \in Options[o] :
       /\ Can(t, "open", o)
       /\ Using(o) = {}
       /\ Open(t, (IF a.excl THEN {"EXCL"} ELSE {}) \cup (IF a.nonblock THEN {"NONBLOCK"} ELSE {}))
       /\ persist' = [persist EXCEPT ![o] = a.persist]
       /\ call' = [call EXCEPT ![t] = Frame("opening", "open", o, 0, NoArg)]
  /\ gil' = t
  /\ UNCHANGED <<windowVars, power, raw, made, tlbVars>>

\* Device.open, up to its open(2).
OpenCall(t) ==
  /\ \E o \in Object \ made : \E a \in Options[o] :
       /\ Can(t, "open", o)
       /\ Using(o) = {}
       /\ Open(t, (IF a.excl THEN {"EXCL"} ELSE {}) \cup (IF a.nonblock THEN {"NONBLOCK"} ELSE {}))
       /\ persist' = [persist EXCEPT ![o] = a.persist]
       /\ call' = [call EXCEPT ![t] = Frame("opening", "open", o, 0, NoArg)]
  /\ UNCHANGED <<windowVars, power, gil, raw, made, tlbVars>>

\* Session.reopen, .reset and .call, up to the release of the lock.
Borrow(t, m) ==
  /\ m \in Detaching \ {"open"}
  /\ \E o \in Object :
       /\ Can(t, m, o)
       /\ IF m = "call" THEN Shared(o) ELSE Exclusively(o)
       /\ Detach(t, m, o, 0, NoArg)
  /\ UNCHANGED <<kmdVars, windowVars, power, gil, objectVars, tlbVars>>

\* tt_reopen of the copy, up to its open(2) ...
ReopenStart(t) ==
  /\ call[t].at = "detached" /\ call[t].m \notin {"reset", "call"}
  /\ Reopen(t)
  /\ Goto(t, "opening")
  /\ Settle
  /\ UNCHANGED <<shows, gil, objectVars, tlbVars>>

\* ... and the rest of it, or of tt_open.
OpenReturn(t) ==
  /\ call[t].at = "opening"
  /\ OpenOk(t) \/ OpenFail(t)
  /\ Goto(t, "attach")
  /\ Settle
  /\ UNCHANGED <<shows, gil, objectVars, tlbVars>>

\* tt_reset_with of the copy.
ResetRun(t) ==
  /\ call[t].at = "detached" /\ call[t].m = "reset"
  /\ \E r \in Codes :
       /\ CloseAt(fd[t], r)
       /\ IF fd[t] = NoFd THEN ret' = [ret EXCEPT ![t] = "ENOTCONN"]
          ELSE IF r # "OK" THEN ret' = [ret EXCEPT ![t] = r]
          ELSE \E e \in ResetResults : ret' = [ret EXCEPT ![t] = e]
  /\ fd' = [fd EXCEPT ![t] = NoFd]
  /\ Goto(t, "attach")
  /\ Settle
  /\ UNCHANGED <<flags, req, pc, op, shows, gil, objectVars, tlbVars>>

\* tt_smc_call of the copy, which only reads it: modules Smc and Queue.
CallRun(t) ==
  /\ call[t].at = "detached" /\ call[t].m = "call"
  /\ \E r \in Codes : IoCall(fd[t], r) /\ ret' = [ret EXCEPT ![t] = r]
  /\ Goto(t, "attach")
  /\ UNCHANGED <<fd, flags, req, pc, op, gil, objectVars, tlbVars>>

\* Device.reset, with the lock released all the while.
DeviceReset(t) ==
  /\ \E o \in Object : Can(t, "reset", o)
  /\ \E r \in Codes : tt_reset(Home[t], r)
  /\ UNCHANGED <<sessVars, gil, objectVars, call, tlbVars>>

\* The lock is taken again and the copy becomes the object's: for open, if there
\* is one.
Copy(t) == [fd |-> fd[t], flags |-> flags[t]]

AttachOpen(t) ==
  /\ call[t].at = "attach" /\ call[t].m = "open"
  /\ gil \in {NoThread, t}
  /\ gil' = NoThread
  /\ IF ret[t] = "OK"
     THEN /\ raw' = [raw EXCEPT ![call[t].o] = Copy(t)]
          /\ made' = made \cup {call[t].o}
          /\ UNCHANGED persist
     ELSE /\ persist' = [persist EXCEPT ![call[t].o] = FALSE]
          /\ UNCHANGED <<raw, made>>
  /\ Forget(t)
  /\ Done(t)
  /\ UNCHANGED <<kmdVars, windowVars, power, tlbVars>>

\* Mutant: the copy is adopted only when the call succeeded.
AttachKeepsOld(t) ==
  /\ call[t].at = "attach" /\ call[t].m \in {"reopen", "reset"}
  /\ gil = NoThread
  /\ raw' = IF ret[t] = "OK" THEN [raw EXCEPT ![call[t].o] = Copy(t)] ELSE raw
  /\ Forget(t)
  /\ Done(t)
  /\ UNCHANGED <<kmdVars, windowVars, power, gil, persist, made, tlbVars>>

\* For reopen and reset, whether they failed or not.
Attach(t) ==
  /\ call[t].at = "attach" /\ call[t].m \in {"reopen", "reset"}
  /\ gil = NoThread
  /\ raw' = [raw EXCEPT ![call[t].o] = Copy(t)]
  /\ Forget(t)
  /\ Done(t)
  /\ UNCHANGED <<kmdVars, windowVars, power, gil, persist, made, tlbVars>>

\* For call, not at all.
AttachCall(t) ==
  /\ call[t].at = "attach" /\ call[t].m = "call"
  /\ gil = NoThread
  /\ Forget(t)
  /\ Done(t)
  /\ UNCHANGED <<kmdVars, windowVars, power, gil, objectVars, tlbVars>>

\* perform goes on after its reopen: the operation runs again.
Again(t) ==
  LET f == call[t]
  IN  /\ f.at = "attach" /\ f.m \in Performed
      /\ gil = NoThread
      /\ raw' = [raw EXCEPT ![f.o] = Copy(t)]
      /\ IF ret[t] # "OK"
         THEN Forget(t) /\ Finish(t, ret[t]) /\ UNCHANGED <<callVars, tlbVars>>
         ELSE \E r \in Codes :
                /\ Run(t, f.m, f.o, fd[t], f.arg, r)
                /\ IF Lost(r) /\ f.tries + 1 < RETRIES
                   THEN /\ call' = [call EXCEPT ![t] =
                                      Frame("detached", f.m, f.o, f.tries + 1, f.arg)]
                        /\ UNCHANGED sessVars
                   ELSE Forget(t) /\ Finish(t, Outcome(r, f.tries + 1))
      /\ UNCHANGED <<gil, persist, made>>

------------------------------------------------------------------------------
(* What runs with it.                                                       *)

\* Mutant: a session is closed while Session.call is using it.
CloseShared(t, o) ==
  /\ Can(t, "close", o) /\ Shared(o)
  /\ \E r \in Codes :
       /\ CloseAt(raw[o].fd, r)
       /\ raw' = IF r = "OK" THEN [raw EXCEPT ![o].fd = NoFd] ELSE raw
  /\ Settle
  /\ UNCHANGED <<sessVars, shows, gil, persist, made, call, tlbVars>>

\* Session.close, of which a second does nothing, and __exit__, which discards
\* its result.
CloseSession(t, o) ==
  /\ Can(t, "close", o) /\ Exclusively(o)
  /\ \E r \in Codes :
       /\ CloseAt(raw[o].fd, r)
       /\ raw' = IF r = "OK" THEN [raw EXCEPT ![o].fd = NoFd] ELSE raw
  /\ Settle
  /\ UNCHANGED <<sessVars, shows, gil, persist, made, call, tlbVars>>

\* A Session is dropped once nothing refers to it, no Tlb either.
DropSession(t) ==
  /\ \E o \in Object :
       /\ Can(t, "close", o) /\ Exclusively(o)
       /\ \A h \in Handle : owner[h] # NoOwner => owner[h].o # o
       /\ \E r \in Codes : CloseAt(raw[o].fd, r)
       /\ raw' = [raw EXCEPT ![o] = Closed]
       /\ persist' = [persist EXCEPT ![o] = FALSE]
       /\ made' = made \ {o}
  /\ Settle
  /\ UNCHANGED <<sessVars, shows, gil, call, tlbVars>>

\* Tlb.bind: the Window refers to the Tlb.
Bind(t) ==
  /\ \E h \in Handle :
       /\ Mine(t, h, "bind") /\ ~freed[h] /\ Shared(owner[h].o)
       /\ \E new \in Tlbs, r \in Codes :
            /\ tt_tlb_bind(raw[owner[h].o].fd, Home[t], tlb[h], new, r)
            /\ tlb' = [tlb EXCEPT ![h] = new]
            /\ windows' = IF r = "OK" THEN windows \cup {h} ELSE windows
            /\ unbound' = IF r = "OK" THEN unbound \ {h}
                          ELSE IF r = "ENOTCONN" THEN unbound
                          ELSE unbound \cup {h}
  /\ UNCHANGED <<sessVars, gil, objectVars, call, owner, freed>>

\* Mutant: the pointer survives the mapping.
EmptiedNot(old, r) == [old EXCEPT !.id = IF r = "OK" THEN NoWindow ELSE @]

\* What tt_tlb_free leaves of tlb.
Emptied(old, r) == [id |-> IF r = "OK" THEN NoWindow ELSE old.id, ptr |-> NoAddr]

\* Tlb.free and __exit__: once only, in the session's state of the moment.
Free(t) ==
  /\ \E h \in Handle :
       /\ Mine(t, h, "free") /\ ~freed[h] /\ Shared(owner[h].o)
       /\ \E r \in Codes :
            /\ tt_tlb_free(raw[owner[h].o].fd, tlb[h], r)
            /\ tlb' = [tlb EXCEPT ![h] = Emptied(tlb[h], r)]
       /\ freed' = [freed EXCEPT ![h] = TRUE]
  /\ UNCHANGED <<sessVars, gil, objectVars, call, owner, windows, unbound>>

\* A Window is dropped: nothing is unmapped.
DropWindow(t) ==
  /\ \E h \in windows : Mine(t, h, "free") /\ windows' = windows \ {h}
  /\ UNCHANGED <<sessionVars, windowVars, power, gil, objectVars, call, tlb, owner, freed, unbound>>

\* A Tlb is dropped: it is freed if its session can be borrowed, and its mapping
\* is left behind if not.
DropTlb(t) ==
  /\ \E h \in Handle \ windows :
       /\ Mine(t, h, "free")
       /\ IF ~freed[h] /\ Shared(owner[h].o)
          THEN \E r \in Codes : tt_tlb_free(raw[owner[h].o].fd, tlb[h], r)
          ELSE UNCHANGED callVars
       /\ tlb' = [tlb EXCEPT ![h] = Unused]
       /\ owner' = [owner EXCEPT ![h] = NoOwner]
       /\ freed' = [freed EXCEPT ![h] = FALSE]
       /\ unbound' = unbound \ {h}
  /\ UNCHANGED <<sessVars, gil, objectVars, call, windows>>

\* kmd.version, up to the open(2) of tt_kmd_version: the lock is held ...
VersionCall(t) ==
  /\ \E o \in Object : Can(t, "kmd_version", o)
  /\ Open(t, {})
  /\ call' = [call EXCEPT ![t] = Frame("opening", "kmd_version", NoOwner.o, 0, NoArg)]
  /\ gil' = t
  /\ UNCHANGED <<windowVars, power, objectVars, tlbVars>>

\* ... and the rest: the ioctl and the close.
VersionReturn(t) ==
  /\ call[t].at = "attach" /\ call[t].m = "kmd_version"
  /\ \E r \in Codes : CloseAt(fd[t], r)
  /\ Forget(t)
  /\ Done(t)
  /\ gil' = NoThread
  /\ Settle
  /\ UNCHANGED <<shows, objectVars, tlbVars>>

------------------------------------------------------------------------------

ThreadStep(t) ==
  \/ OpenCall(t) \/ DeviceReset(t) \/ DropSession(t) \/ VersionCall(t)
  \/ \E o \in Object : CloseSession(t, o)
  \/ \E m \in Performed : Perform(t, m)
  \/ \E m \in Detaching : Borrow(t, m)
  \/ Bind(t) \/ Free(t) \/ DropWindow(t) \/ DropTlb(t)

CallStep(t) ==
  \/ ReopenStart(t) \/ OpenReturn(t) \/ ResetRun(t) \/ CallRun(t)
  \/ AttachOpen(t) \/ Attach(t) \/ AttachCall(t) \/ Again(t) \/ VersionReturn(t)

Outside ==
  /\ SessionEnv
  /\ Settle
  /\ UNCHANGED <<shows, gil, objectVars, call, tlbVars>>

PythonNext == (\E t \in Thread : ThreadStep(t) \/ CallStep(t)) \/ Outside

PythonSpec == PythonInit /\ [][PythonNext]_allVars

\* A method in progress goes on, and the program closes a session that it can
\* close again and again: that much is assumed of it.
FairPythonSpec ==
  /\ PythonSpec
  /\ \A t \in Thread : WF_allVars(CallStep(t))
  /\ \A o \in Object : SF_allVars(raw[o].fd # NoFd /\ \E t \in Thread : CloseSession(t, o))

------------------------------------------------------------------------------
(* Properties.                                                              *)

\* The Session objects and the threads that have to close descriptor d: a thread
\* in open, reopen, reset or kmd.version, with the copy it works on, instead of
\* the object it borrows.
Closers(d) ==
  {o \in made : raw[o].fd = d /\ \A t \in Using(o) : call[t].m = "call"}
    \cup {t \in Thread : fd[t] = d /\ call[t].m # "call"}

\* Every slot in use has exactly one closer, and none closes a slot that is not
\* in use, though the tt_session_t is copied out of its object and back around
\* each wait (mod.rs, Session::reopen: "Kept on failure too").
OneCloser ==
  \A d \in Fd :
    /\ \A x, y \in Closers(d) : x = y
    /\ (Closers(d) # {}) = (fdtab[d] # NoFile)

\* While Session.call waits on a copy without the lock, the copy is still the
\* session's descriptor (smc.rs, Session::call: "the call only reads the
\* session").
CallsOnCurrent ==
  \A t \in Thread :
    call[t].at # "idle" /\ call[t].m = "call" =>
      fd[t] = raw[call[t].o].fd /\ (fd[t] # NoFd => fdtab[fd[t]] # NoFile)

\* A Window object reads and writes through its own Tlb's window, mapped, across
\* reopens, resets, removals, drops and what other threads do.  Only what is done to
\* that Tlb, a free or a bind that fails, takes the mapping away, and then the address
\* is NULL and not one where another mapping could come to lie (tlb.rs, Window: "the
\* mapping is released when the owning Tlb is freed").
WindowsFollowTheirTlb ==
  \A h \in windows :
    IF freed[h] \/ h \in unbound THEN tlb[h].ptr = NoAddr
    ELSE /\ tlb[h].ptr # NoAddr
         /\ vma[tlb[h].ptr] # NoFile /\ shows[tlb[h].ptr] = tlb[h].id

\* A program that wants to close a session can: a thread waiting for the device
\* does not keep the interpreter from the thread that holds it (mod.rs,
\* Device::open: "releases the interpreter lock while it waits").  kmd.version
\* does.
SessionsClose ==
  \A o \in Object :
    raw[o].fd # NoFd
      ~> \/ raw[o].fd = NoFd
         \/ Using(o) # {}
         \/ gil # NoThread /\ call[gil].m = "kmd_version"
================================================================================
