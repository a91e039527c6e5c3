---------------------------------- MODULE Rust ----------------------------------
(***************************************************************************)
(* The Rust binding's sessions and TLB handles (src/bind/rs/src/dev/mod.rs,*)
(* tlb.rs, power.rs, telem.rs, reset.rs).                                  *)
(*                                                                         *)
(* A client is a thread with at most one Session, which it cannot share    *)
(* (Session holds a Cell).  A handle is a Tlb value that borrows its       *)
(* owner's Session: the Session is not moved, closed or dropped while one  *)
(* is owned.  A Window borrows its Tlb mutably: the Tlb is not bound or    *)
(* freed while it is in use.  The methods that run under perform are taken *)
(* apart at each operation and each reopen; any other method is one step.  *)
(***************************************************************************)
EXTENDS Calls

CONSTANTS
  Handle,
  Owner,      \* the client whose session a handle is allocated on
  Options,    \* the OpenOptions values a client opens with
  Uses,       \* the methods a client calls
  RETRIES     \* reopen attempts before a persistent session gives up

ASSUME RustAssumption ==
  /\ \A h \in Handle : Owner[h] \in Client
  /\ \A c \in Client : Options[c] \subseteq [excl: BOOLEAN, nonblock: BOOLEAN, persist: BOOLEAN]
  /\ RETRIES \in Nat \ {0}

VARIABLES
  alive,     \* the clients that have a Session
  opts,      \* sess.opts
  call,      \* the method in progress: at which point, which one, how many
             \* reopens it has made, what it was given; ret is the last result
  tlb,       \* tlb.raw
  owned,     \* the handles in use
  windows,   \* the handles with a Window in use
  severings  \* resets and removals during the call, counted up to RETRIES

rustVars == <<alive, opts, call, tlb, owned, windows, severings>>
allVars == <<sessionVars, windowVars, power, rustVars>>

Blank == [excl |-> FALSE, nonblock |-> FALSE, persist |-> FALSE]
Performed == {"info", "telemetry", "power", "fw_version", "alloc"}
Methods == Performed \cup {"none", "open", "reopen", "close", "reset", "bind", "free"}

Frame(at, m, tries, arg) == [at |-> at, m |-> m, tries |-> tries, arg |-> arg]
NoArg == [h |-> CHOOSE h \in Handle : TRUE, feats |-> {}]
Idle == Frame("idle", "none", 0, NoArg)

RustTypeOK ==
  /\ CallsTypeOK
  /\ alive \subseteq Client
  /\ opts \in [Client -> [excl: BOOLEAN, nonblock: BOOLEAN, persist: BOOLEAN]]
  /\ call \in [Client -> [at: {"idle", "open", "op", "reopen", "reopening"},
                          m: Methods, tries: 0 .. RETRIES,
                          arg: [h: Handle, feats: SUBSET PowerFlag]]]
  /\ tlb \in [Handle -> Tlbs]
  /\ owned \subseteq Handle
  /\ windows \subseteq owned
  /\ severings \in [Client -> 0 .. RETRIES]

RustInit ==
  /\ CallsInit
  /\ alive = {}
  /\ opts = [c \in Client |-> Blank]
  /\ call = [c \in Client |-> Idle]
  /\ tlb = [h \in Handle |-> Unused]
  /\ owned = {}
  /\ windows = {}
  /\ severings = [c \in Client |-> 0]

------------------------------------------------------------------------------
(* Helpers.                                                                 *)

\* Client c can call method m.
Can(c, m) == call[c].at = "idle" /\ m \in Uses[c] /\ (m = "open") = (c \notin alive)
Borrowed(c) == \E h \in owned : Owner[h] = c

\* Client c's method returns r, or goes on at a point.
Finish(c, r) ==
  /\ call' = [call EXCEPT ![c] = Idle]
  /\ ret' = [ret EXCEPT ![c] = r]
  /\ severings' = [severings EXCEPT ![c] = 0]
Goto(c, at) == call' = [call EXCEPT ![c] = Frame(at, @.m, @.tries, @.arg)] /\ UNCHANGED severings

handleVars == <<tlb, owned, windows>>

\* OpenOptions::flags.
Flags(o) == (IF o.excl THEN {"EXCL"} ELSE {}) \cup (IF o.nonblock THEN {"NONBLOCK"} ELSE {})

\* Error::is_lost.
IsLost(r) == r = "ECONNRESET"

------------------------------------------------------------------------------
(* Opening, closing, resetting.                                             *)

\* OpenOptions::open, and Session::open for the blank options: tt_open on a
\* tt_session_t of its own, up to its open(2) ...
OpenCall(c) ==
  /\ Can(c, "open")
  /\ \E o \in Options[c] :
       /\ Open(c, Flags(o))
       /\ opts' = [opts EXCEPT ![c] = o]
  /\ call' = [call EXCEPT ![c] = Frame("open", "open", 0, NoArg)]
  /\ UNCHANGED <<windowVars, power, alive, handleVars, severings>>

\* ... and the rest: only a success makes a Session of it.
OpenReturn(c) ==
  /\ call[c].at = "open"
  /\ OpenOk(c) \/ OpenFail(c)
  /\ Finish(c, ret'[c])
  /\ alive' = IF ret'[c] = "OK" THEN alive \cup {c} ELSE alive
  /\ Settle
  /\ opts' = IF ret'[c] = "OK" THEN opts ELSE [opts EXCEPT ![c] = Blank]
  /\ UNCHANGED <<shows, handleVars>>

\* The tt_close that ends a Session's life: its raw goes with it, whatever
\* close(2) reports.
Consume(c, r) ==
  /\ CloseCall(c, r)
  /\ fd' = [fd EXCEPT ![c] = NoFd]
  /\ alive' = alive \ {c}
  /\ opts' = [opts EXCEPT ![c] = Blank]
  /\ flags' = [flags EXCEPT ![c] = {}]
  /\ req' = [req EXCEPT ![c] = {}]
  /\ Settle
  /\ UNCHANGED <<pc, op, shows, handleVars>>

\* Mutant: the Session is left to be dropped, and closed, once more.
CloseSessionTwice(c) ==
  /\ Can(c, "close") /\ ~Borrowed(c)
  /\ \E r \in Codes : CloseCall(c, r) /\ Finish(c, r)
  /\ Settle
  /\ UNCHANGED <<fd, flags, req, pc, op, shows, alive, opts, handleVars>>

\* Session::close, and Drop, which discards the result.
CloseSession(c) ==
  /\ Can(c, "close") /\ ~Borrowed(c)
  /\ \E r \in Codes : Consume(c, r) /\ Finish(c, r)

\* Session::reset: tt_reset_with consumes the session, then resets the device.
ResetSession(c) ==
  /\ Can(c, "reset") /\ ~Borrowed(c)
  /\ \E r \in Codes :
       /\ Consume(c, r)
       /\ IF fd[c] = NoFd THEN Finish(c, "ENOTCONN")
          ELSE IF r # "OK" THEN Finish(c, r)
          ELSE \E e \in ResetResults : Finish(c, e)

\* Device::reset.
ResetDevice(c) ==
  /\ call[c].at = "idle" /\ "reset" \in Uses[c]
  /\ \E r \in Codes : tt_reset(Home[c], r) /\ Finish(c, r)
  /\ UNCHANGED <<fd, flags, req, pc, op, alive, opts, handleVars>>

------------------------------------------------------------------------------
(* Session::perform and what runs under it.                                 *)

\* A method that runs under perform starts.
Begin(c, m, arg) ==
  /\ Can(c, m)
  /\ call' = [call EXCEPT ![c] = Frame("op", m, 0, arg)]
  /\ Return(c, "none", "OK")
  /\ UNCHANGED <<kmdVars, fd, flags, req, pc, severings, windowVars, power, alive, opts, handleVars>>

Power(c) == \E feats \in SUBSET PowerFlag : Begin(c, "power", [NoArg EXCEPT !.feats = feats])
Alloc(c) == \E h \in Handle \ owned : Owner[h] = c /\ Begin(c, "alloc", [NoArg EXCEPT !.h = h])
Inspect(c) == \E m \in {"info", "telemetry", "fw_version"} : Begin(c, m, NoArg)

\* Session::info, the closure.
InfoOp(c, r) == IoCall(fd[c], r) /\ UNCHANGED handleVars

\* Session::telemetry, the closure: a severed session or a table out of order.
TelemetryOp(c, r) ==
  /\ \E e \in Codes : IoCall(fd[c], e) /\ r \in IF e = "OK" THEN {"OK", "EIO"} ELSE {e}
  /\ UNCHANGED handleVars

\* fw::version, the closure: it reads sysfs, which a reset leaves alone.
VersionOp(c, r) ==
  /\ r \in IF fd[c] = NoFd THEN {"ENOTCONN"} ELSE IF present THEN {"OK", "EIO"} ELSE {"ENOENT"}
  /\ UNCHANGED <<callVars, handleVars>>

\* Session::power, the closure.
PowerOp(c, r) == tt_power(fd[c], call[c].arg.feats, r) /\ UNCHANGED handleVars

\* Session::alloc, the closure, and the Tlb made of its result.
AllocOp(c, r) ==
  LET h == call[c].arg.h
  IN  \E t \in Tlbs :
        /\ tt_tlb_alloc(fd[c], t, r)
        /\ tlb' = [tlb EXCEPT ![h] = t]
        /\ owned' = IF r = "OK" THEN owned \cup {h} ELSE owned
        /\ UNCHANGED windows

Run(c, r) ==
  CASE call[c].m = "info"       -> InfoOp(c, r)
    [] call[c].m = "telemetry"  -> TelemetryOp(c, r)
    [] call[c].m = "fw_version" -> VersionOp(c, r)
    [] call[c].m = "power"      -> PowerOp(c, r)
    [] call[c].m = "alloc"      -> AllocOp(c, r)

\* The session is to be reopened.
Reconnect(c) == Goto(c, "reopen") /\ UNCHANGED ret

\* Mutants: the last loss is returned as it is; one attempt too few; no bound.
PerformedRaw(c, r) ==
  IF opts[c].persist /\ IsLost(r) /\ call[c].tries < RETRIES THEN Reconnect(c)
  ELSE Finish(c, r)
PerformedShort(c, r) ==
  IF ~(opts[c].persist /\ IsLost(r)) THEN Finish(c, r)
  ELSE IF call[c].tries + 1 < RETRIES THEN Reconnect(c)
  ELSE Finish(c, "ENODEV")
PerformedForever(c, r) ==
  IF opts[c].persist /\ IsLost(r)
  THEN call' = [call EXCEPT ![c] = Frame("reopen", @.m, 0, @.arg)] /\ UNCHANGED <<ret, severings>>
  ELSE Finish(c, r)

\* perform has run its operation, which returned r: a lost connection of a
\* persistent session is reopened, RETRIES times at most.
PerformedOp(c, r) ==
  IF ~(opts[c].persist /\ IsLost(r)) THEN Finish(c, r)
  ELSE IF call[c].tries < RETRIES THEN Reconnect(c)
  ELSE Finish(c, "ENODEV")

PerformOp(c) ==
  /\ call[c].at = "op"
  /\ \E r \in Codes : Run(c, r) /\ PerformedOp(c, r)
  /\ UNCHANGED <<fd, flags, req, pc, op, alive, opts>>

\* Session::reopen, called by the program.
ReopenCall(c) ==
  /\ Can(c, "reopen")
  /\ call' = [call EXCEPT ![c] = Frame("reopen", "reopen", 0, NoArg)]
  /\ UNCHANGED <<sessionVars, severings, windowVars, power, alive, opts, handleVars>>

\* tt_reopen, up to its open(2) ...
ReopenStart(c) ==
  /\ call[c].at = "reopen"
  /\ Reopen(c)
  /\ Goto(c, "reopening")
  /\ Settle
  /\ UNCHANGED <<shows, alive, opts, handleVars>>

Reopened(c) ==
  /\ call[c].at = "reopening"
  /\ OpenOk(c) \/ OpenFail(c)
  /\ Settle
  /\ UNCHANGED <<shows, alive, opts, handleVars>>

\* Another attempt at the operation.
Retry(c) ==
  call' = [call EXCEPT ![c] = Frame("op", @.m, @.tries + 1, @.arg)] /\ UNCHANGED severings

\* Mutants: the failure of a reopen is dropped; its success ends the method.
ReopenReturnDropped(c) ==
  /\ Reopened(c)
  /\ IF call[c].m = "reopen" THEN Finish(c, ret'[c]) ELSE Retry(c)
ReopenReturnDone(c) == Reopened(c) /\ Finish(c, ret'[c])

\* ... and the rest: its failure ends the method, its success the wait.
ReopenReturn(c) ==
  /\ Reopened(c)
  /\ IF call[c].m = "reopen" \/ ret'[c] # "OK" THEN Finish(c, ret'[c]) ELSE Retry(c)

------------------------------------------------------------------------------
(* Handles.                                                                 *)

\* Mutant: the window outlives the exclusive borrow, and the Tlb is rebound.
BindShared(c, h) ==
  /\ Can(c, "bind") /\ Owner[h] = c /\ h \in owned
  /\ \E t \in Tlbs, r \in Codes :
       /\ tt_tlb_bind(fd[c], Home[c], tlb[h], t, r)
       /\ tlb' = [tlb EXCEPT ![h] = t]
       /\ windows' = IF r = "OK" THEN windows \cup {h} ELSE windows
       /\ Finish(c, r)
  /\ UNCHANGED <<fd, flags, req, pc, op, alive, opts, owned>>

\* Tlb::bind.
Bind(c, h) ==
  /\ Can(c, "bind") /\ Owner[h] = c /\ h \in owned \ windows
  /\ \E t \in Tlbs, r \in Codes :
       /\ tt_tlb_bind(fd[c], Home[c], tlb[h], t, r)
       /\ tlb' = [tlb EXCEPT ![h] = t]
       /\ windows' = IF r = "OK" THEN windows \cup {h} ELSE windows
       /\ Finish(c, r)
  /\ UNCHANGED <<fd, flags, req, pc, op, alive, opts, owned>>

\* A Window goes out of scope.
DropWindow(c, h) ==
  /\ Can(c, "free") /\ Owner[h] = c /\ h \in windows
  /\ windows' = windows \ {h}
  /\ UNCHANGED <<sessionVars, windowVars, power, alive, opts, call, tlb, owned, severings>>

\* Tlb::free, and Drop, which discards the result: on the descriptor the session
\* has by now.
Free(c, h) ==
  /\ Can(c, "free") /\ Owner[h] = c /\ h \in owned \ windows
  /\ \E r \in Codes :
       /\ tt_tlb_free(fd[c], tlb[h], r)
       /\ Finish(c, r)
  /\ tlb' = [tlb EXCEPT ![h] = Unused]
  /\ owned' = owned \ {h}
  /\ UNCHANGED <<fd, flags, req, pc, op, alive, opts, windows>>

\* Window::read and Window::write reach the device through tlb.raw.ptr.
Accessed(h) ==
  IF tlb[h].ptr = NoAddr \/ vma[tlb[h].ptr] = NoFile THEN NoWindow ELSE shows[tlb[h].ptr]

------------------------------------------------------------------------------

ClientStep(c) ==
  \/ OpenCall(c) \/ CloseSession(c) \/ ResetSession(c) \/ ResetDevice(c) \/ ReopenCall(c)
  \/ Power(c) \/ Alloc(c) \/ Inspect(c)
  \/ \E h \in Handle : Bind(c, h) \/ DropWindow(c, h) \/ Free(c, h)

CallStep(c) == OpenReturn(c) \/ PerformOp(c) \/ ReopenStart(c) \/ ReopenReturn(c)

Outside ==
  /\ SessionEnv
  /\ Settle
  /\ severings' = [c \in Client |->
                     IF call[c].at \in {"op", "reopen", "reopening"} /\ present /\ severings[c] < RETRIES
                     THEN severings[c] + 1 ELSE severings[c]]
  /\ UNCHANGED <<shows, alive, opts, call, handleVars>>

RustNext == (\E c \in Client : ClientStep(c) \/ CallStep(c)) \/ Outside

RustSpec == RustInit /\ [][RustNext]_allVars

\* A method in progress goes on; nothing obliges a program to call another.
FairRustSpec == RustSpec /\ \A c \in Client : WF_allVars(CallStep(c))

------------------------------------------------------------------------------
(* Properties.                                                              *)

\* On a persistent session no operation under perform reports the connection
\* lost (OpenOptions::persistent: "never as ConnectionReset").
NeverLost ==
  [][\A c \in Client :
       opts[c].persist /\ call[c].m \in Performed /\ call'[c].at = "idle"
       => ~IsLost(ret'[c])]_allVars

\* ENODEV from a session means that the device is gone, or that it was reset
\* at least RETRIES times while the call ran (OpenOptions::persistent).
GivesUpForCause ==
  [][\A c \in Client :
       /\ call[c].at \in {"op", "reopening"} /\ call'[c].at = "idle"
       /\ ret'[c] = "ENODEV"
       => ~present \/ severings[c] >= RETRIES]_allVars

\* ENOTCONN is reported by a session that was closed when the call began, not
\* by one whose reopen fails during it: that failure is what the call returns
\* (OpenOptions::persistent: "A failed reopen surfaces").
FailedReopenSurfaces ==
  [][\A c \in Client :
       call[c].at = "op" /\ call'[c].at = "idle" /\ ret'[c] = "ENOTCONN"
       => call[c].tries = 0]_allVars

\* What a method was granted is granted to the descriptor the session has now,
\* however often it was reopened on the way: the power features of the request,
\* and the window of the new Tlb.
GrantedOnCurrent ==
  [][\A c \in Client :
       call[c].at # "idle" /\ call'[c].at = "idle" /\ ret'[c] = "OK" =>
         LET arg == call[c].arg
         IN  /\ call[c].m = "power" => power'[FileOf(c)'] = arg.feats
             /\ call[c].m = "alloc" => holder'[tlb'[arg.h].id] = FileOf(c)']_allVars

\* A Window reaches the window of its own Tlb, and nothing else, for as long as
\* it exists: across rebinds, and across reopens, resets and removals under it
\* (tlb.rs, Window).
WindowsReachTheirTlb == \A h \in windows : Accessed(h) = tlb[h].id

\* Every slot in use is the descriptor of one Session, and a Session has a slot
\* of its own or none: close, drop, reset, reopen and failed opens neither lose
\* a descriptor nor leave one to be closed twice (mod.rs, Session::close).
SessionsOwnDescriptors ==
  /\ DescriptorsOwned
  /\ \A c \in Client : fd[c] # NoFd => c \in alive

\* A method returns unless another client, or a window this client has mapped,
\* holds the device: a connection that keeps resetting ends it too.
MethodReturns ==
  \A c \in Client :
    call[c].at # "idle"
      ~> \/ call[c].at = "idle"
         \/ \E f \in File : f # FileOf(c) /\ Holds(f)
==============================================================================
