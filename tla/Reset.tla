-------------------------------- MODULE Reset --------------------------------
(***************************************************************************)
(* tt_reset and tt_reset_with (src/src/dev/reset.c), running among clients *)
(* that open, use, close and reopen sessions (module Session).             *)
(*                                                                         *)
(* Time is counted in polling intervals (POLL_INTERVAL_US).  Tick lets one *)
(* pass for every sleeper, every deadline and the device's firmware;       *)
(* between two ticks a thread may run any number of steps or none, so      *)
(* every delay of the scheduler is covered.                                *)
(***************************************************************************)
EXTENDS Session

CONSTANTS
  Timeout,   \* RESET_TIMEOUT_MS, in intervals
  Delay,     \* POST_RESET_DELAY_MS, in intervals
  FwTime     \* from the marker clearing to firmware publishing telemetry

\* The delay outlasts the firmware: 500 ms against about 350 (reset.c:129-134).
ASSUME ResetAssumption ==
  /\ Timeout \in Nat /\ Timeout > 0
  /\ Delay \in Nat
  /\ FwTime \in Nat /\ FwTime <= Delay

VARIABLES
  rpc,       \* where the client is in tt_reset
  rfd,       \* its local fd
  rres,      \* what it will return once fd is closed
  gone,      \* its device_disappeared
  elapsed,   \* elapsed_ms(&start), capped at Timeout
  timer,     \* what is left of its sleep
  marker,    \* PCI command register bit 6: set by ASIC_RESET, cleared when done
  fwLeft     \* time until firmware publishes telemetry, once the marker is clear

procVars == <<rpc, rfd, rres, gone, elapsed, timer>>
devVars == <<marker, fwLeft>>
resetVars == <<sessionVars, procVars, devVars>>

\* The points at which tt_reset holds a descriptor.
Holding == {"info", "asic", "poll", "sleep", "delay", "post", "close"}

ResetTypeOK ==
  /\ SessionTypeOK
  /\ rpc \in [Client -> {"idle", "open"} \cup Holding]
  /\ rfd \in [Client -> Fd \cup {NoFd}]
  /\ rres \in [Client -> Codes]
  /\ gone \in [Client -> BOOLEAN]
  /\ elapsed \in [Client -> 0..Timeout]
  /\ timer \in [Client -> Nat]
  /\ marker \in BOOLEAN
  /\ fwLeft \in 0..FwTime

ResetInit ==
  /\ SessionInit
  /\ rpc = [c \in Client |-> "idle"]
  /\ rfd = [c \in Client |-> NoFd]
  /\ rres = [c \in Client |-> "OK"]
  /\ gone = [c \in Client |-> FALSE]
  /\ elapsed = [c \in Client |-> 0]
  /\ timer = [c \in Client |-> 0]
  /\ marker = FALSE
  /\ fwLeft = 0

------------------------------------------------------------------------------
(* Entry.                                                                   *)

Goto(c, l) == rpc' = [rpc EXCEPT ![c] = l]

\* The rest of the call closes fd and returns r.
Finish(c, r) ==
  /\ Goto(c, "close")
  /\ rres' = [rres EXCEPT ![c] = r]

CanCall(c) ==
  /\ pc[c] = "idle"
  /\ rpc[c] = "idle"

\* tt_reset(&dev).
ResetStart(c) ==
  /\ CanCall(c)
  /\ Return(c, "tt_reset", "OK")
  /\ Goto(c, "open")
  /\ UNCHANGED <<kmdVars, fd, flags, req, pc, rfd, rres, gone, elapsed,
                 timer, devVars>>

\* Mutant: a close that fails leaves the session as tt_close does.
ResetWithKeeps(c) ==
  /\ CanCall(c)
  /\ fd[c] # NoFd
  /\ \E r \in Codes :
       /\ tt_close(c, r)
       /\ Return(c, "tt_reset_with", r)
       /\ IF r = "OK" THEN Goto(c, "open") ELSE UNCHANGED rpc
  /\ UNCHANGED <<flags, req, pc, rfd, rres, gone, elapsed, timer, devVars>>

\* tt_reset_with(&sess) closes the session first.  The session is consumed
\* whatever close(2) says, but its failure ends the call.
ResetWith(c) ==
  /\ CanCall(c)
  /\ fd' = [fd EXCEPT ![c] = NoFd]
  /\ \/ /\ fd[c] = NoFd
        /\ Return(c, "tt_reset_with", "ENOTCONN")
        /\ UNCHANGED <<kmdVars, rpc>>
     \/ /\ fd[c] # NoFd
        /\ \E r \in Codes :
             /\ CloseCall(c, r)
             /\ Return(c, "tt_reset_with", r)
             /\ IF r = "OK" THEN Goto(c, "open") ELSE UNCHANGED rpc
  /\ UNCHANGED <<flags, req, pc, rfd, rres, gone, elapsed, timer, devVars>>

------------------------------------------------------------------------------
(* The reset sequence.                                                      *)

\* Mutant: the acquisition is shared.
ResetFlagsShared == {"NONBLOCK"}

ResetFlags == {"EXCL", "NONBLOCK"}

AcquireOk(c) ==
  /\ rpc[c] = "open"
  /\ \E d \in Fd :
       /\ OpenGrants(Home[c], ResetFlags, d)
       /\ rfd' = [rfd EXCEPT ![c] = d]
  /\ Goto(c, "info")
  /\ UNCHANGED <<sessVars, rres, gone, elapsed, timer, devVars>>

AcquireFail(c) ==
  /\ rpc[c] = "open"
  /\ \E e \in OpenFailures(Home[c], ResetFlags) : Return(c, op[c], OpenErrno(e))
  /\ Goto(c, "idle")
  /\ UNCHANGED <<kmdVars, fd, flags, req, pc, rfd, rres, gone, elapsed, timer,
                 devVars>>

\* Mutant: the error path of tt_dev_info returns without closing fd.
InfoLeaks(c) ==
  /\ rpc[c] = "info"
  /\ LET r == tt_fail_io(Io(rfd[c]))
     IN  \/ r = "OK" /\ Goto(c, "asic") /\ UNCHANGED <<rfd, sessVars>>
         \/ /\ r # "OK" /\ Goto(c, "idle") /\ Return(c, op[c], r)
            /\ rfd' = [rfd EXCEPT ![c] = NoFd]
            /\ UNCHANGED <<fd, flags, req, pc>>
  /\ UNCHANGED <<kmdVars, rres, gone, elapsed, timer, devVars>>

Info(c) ==
  /\ rpc[c] = "info"
  /\ LET r == tt_fail_io(Io(rfd[c]))
     IN  \/ r = "OK" /\ Goto(c, "asic") /\ UNCHANGED rres
         \/ r # "OK" /\ Finish(c, r)
  /\ UNCHANGED <<sessionVars, rfd, gone, elapsed, timer, devVars>>

\* The outcomes of RESET_DEVICE other than success: a severed descriptor, a
\* refusal (EBUSY while an export is live), a soft failure.
IoctlFailures(c) ==
  IF Io(rfd[c]) # "OK" THEN {tt_fail_io(Io(rfd[c]))} ELSE {"EBUSY", "EIO"}

\* RESET_DEVICE(ASIC_RESET): severs every description but the issuing one.
AsicReset(c) ==
  /\ rpc[c] = "asic"
  /\ Io(rfd[c]) = "OK"
  /\ Sever({fdtab[rfd[c]]})
  /\ marker' = TRUE
  /\ fwLeft' = FwTime
  /\ Goto(c, "poll")
  /\ gone' = [gone EXCEPT ![c] = FALSE]
  /\ elapsed' = [elapsed EXCEPT ![c] = 0]
  /\ UNCHANGED <<present, excl, fdtab, vma, sessVars, rfd, rres, timer>>

\* What one look at sysfs shows.  The config file needs a descriptor of its
\* own; when there is none the reset counts as incomplete.
LooksComplete(c) ==
  /\ present
  /\ \/ gone[c]
     \/ FreeFds(Home[c]) # {} /\ ~marker

Sleep(c, n) == timer' = [timer EXCEPT ![c] = n]

PollComplete(c) ==
  /\ rpc[c] = "poll"
  /\ elapsed[c] < Timeout
  /\ LooksComplete(c)
  /\ Goto(c, "delay")
  /\ Sleep(c, Delay)
  /\ UNCHANGED <<sessionVars, rfd, rres, gone, elapsed, devVars>>

\* Mutant: the clock is read anew in each iteration.
PollAgainRestarts(c) ==
  /\ rpc[c] = "poll"
  /\ elapsed[c] < Timeout
  /\ ~LooksComplete(c)
  /\ gone' = [gone EXCEPT ![c] = @ \/ ~present]
  /\ elapsed' = [elapsed EXCEPT ![c] = 0]
  /\ Goto(c, "sleep")
  /\ Sleep(c, 1)
  /\ UNCHANGED <<sessionVars, rfd, rres, devVars>>

PollAgain(c) ==
  /\ rpc[c] = "poll"
  /\ elapsed[c] < Timeout
  /\ ~LooksComplete(c)
  /\ gone' = [gone EXCEPT ![c] = @ \/ ~present]
  /\ Goto(c, "sleep")
  /\ Sleep(c, 1)
  /\ UNCHANGED <<sessionVars, rfd, rres, elapsed, devVars>>

PollTimeout(c) ==
  /\ rpc[c] = "poll"
  /\ elapsed[c] >= Timeout
  /\ Finish(c, "ETIMEDOUT")
  /\ UNCHANGED <<sessionVars, rfd, gone, elapsed, timer, devVars>>

\* usleep returns when its time is up, or early on a signal.
Wake(c) ==
  /\ rpc[c] = "sleep"
  /\ timer[c] = 0 \/ Signals
  /\ Goto(c, "poll")
  /\ Sleep(c, 0)
  /\ UNCHANGED <<sessionVars, rfd, rres, gone, elapsed, devVars>>

\* Mutant: a signal cuts the delay short.
DelayOverEarly(c) ==
  /\ rpc[c] = "delay"
  /\ timer[c] = 0 \/ Signals
  /\ Goto(c, "post")
  /\ UNCHANGED <<sessionVars, rfd, rres, gone, elapsed, timer, devVars>>

\* The delay is resumed after a signal, so it always lasts.
DelayOver(c) ==
  /\ rpc[c] = "delay"
  /\ timer[c] = 0
  /\ Goto(c, "post")
  /\ UNCHANGED <<sessionVars, rfd, rres, gone, elapsed, timer, devVars>>

\* The driver's probe for telemetry, made once by POST_RESET, succeeds.
Published == ~marker /\ fwLeft = 0

\* RESET_DEVICE(POST_RESET).
PostReset(c) ==
  /\ rpc[c] = "post"
  /\ Io(rfd[c]) = "OK"
  /\ Finish(c, "OK")
  /\ UNCHANGED <<sessionVars, rfd, gone, elapsed, timer, devVars>>

IoctlFail(c) ==
  /\ rpc[c] \in {"asic", "post"}
  /\ \E r \in IoctlFailures(c) : Finish(c, r)
  /\ UNCHANGED <<sessionVars, rfd, gone, elapsed, timer, devVars>>

\* close(fd) on every way out; its failure matters only after success.
CloseAndReturn(c) ==
  /\ rpc[c] = "close"
  /\ Release(rfd[c])
  /\ \/ Return(c, op[c], rres[c])
     \/ /\ CloseFails
        /\ st[fdtab[rfd[c]]] # "live"
        /\ rres[c] = "OK"
        /\ Return(c, op[c], "EIO")
  /\ Goto(c, "idle")
  /\ rfd' = [rfd EXCEPT ![c] = NoFd]
  /\ rres' = [rres EXCEPT ![c] = "OK"]
  /\ gone' = [gone EXCEPT ![c] = FALSE]
  /\ elapsed' = [elapsed EXCEPT ![c] = 0]
  /\ UNCHANGED <<fd, flags, req, pc, timer, devVars>>

ResetStep(c) ==
  \/ AcquireOk(c) \/ AcquireFail(c) \/ Info(c) \/ AsicReset(c)
  \/ PollComplete(c) \/ PollAgain(c) \/ PollTimeout(c) \/ Wake(c)
  \/ DelayOver(c) \/ PostReset(c) \/ IoctlFail(c) \/ CloseAndReturn(c)

------------------------------------------------------------------------------
(* The surroundings.                                                        *)

\* The device completes its reset and starts its firmware.
DeviceDone ==
  /\ present
  /\ marker
  /\ marker' = FALSE
  /\ UNCHANGED <<sessionVars, procVars, fwLeft>>

Tick ==
  /\ fwLeft > 0 \/ \E c \in Client : rpc[c] \in {"poll", "sleep", "delay"}
  /\ fwLeft' = IF fwLeft > 0 /\ ~marker THEN fwLeft - 1 ELSE fwLeft
  /\ elapsed' = [c \in Client |->
                   IF rpc[c] \in {"poll", "sleep"} /\ elapsed[c] < Timeout
                   THEN elapsed[c] + 1 ELSE elapsed[c]]
  /\ timer' = [c \in Client |-> IF timer[c] > 0 THEN timer[c] - 1 ELSE 0]
  /\ UNCHANGED <<sessionVars, rpc, rfd, rres, gone, marker>>

\* Another party resets the device without the fence, from start to finish;
\* its firmware starts over.
DevOobReset ==
  /\ OobReset
  /\ marker' = FALSE
  /\ fwLeft' = FwTime
  /\ UNCHANGED <<sessVars, procVars>>

DevRemove == Remove /\ UNCHANGED <<sessVars, procVars, devVars>>

\* A device that comes back is a new instance, probed afresh.
DevReprobe ==
  /\ Reprobe
  /\ marker' = FALSE
  /\ fwLeft' = 0
  /\ UNCHANGED <<sessVars, procVars>>

\* A process may be killed inside tt_reset.
ResetExit(p) ==
  LET Wipe(f, v) == [c \in Client |-> IF Home[c] = p THEN v ELSE f[c]]
  IN  /\ ProcessExit(p)
      /\ rpc' = Wipe(rpc, "idle")
      /\ rfd' = Wipe(rfd, NoFd)
      /\ rres' = Wipe(rres, "OK")
      /\ gone' = Wipe(gone, FALSE)
      /\ elapsed' = Wipe(elapsed, 0)
      /\ timer' = Wipe(timer, 0)
      /\ UNCHANGED devVars

ResetNext ==
  \/ \E c \in Client :
       \/ rpc[c] = "idle" /\ LifecycleStep(c) /\ UNCHANGED <<procVars, devVars>>
       \/ ResetStart(c)
       \/ ResetWith(c)
       \/ ResetStep(c)
  \/ \E p \in Proc : ResetExit(p)
  \/ DeviceDone \/ Tick
  \/ DevOobReset \/ DevRemove \/ DevReprobe

ResetSpec == ResetInit /\ [][ResetNext]_resetVars

\* A running thread is scheduled and time passes.  Nothing is assumed of the
\* device, which may never complete its reset.
FairResetSpec ==
  /\ ResetSpec
  /\ \A c \in Client : WF_resetVars(ResetStep(c))
  /\ WF_resetVars(Tick)

------------------------------------------------------------------------------
(* Properties.                                                              *)

\* From acquisition to the return of tt_reset no other description of the
\* device is open, unless the reset's own has lost its instance: the sequence
\* runs on one descriptor with no window (DESIGN.md, "Reset Semantics").
Fenced ==
  \A c \in Client : rpc[c] \in Holding =>
    LET f == fdtab[rfd[c]]
    IN  /\ f # NoFile
        /\ Holds(f) => excl[f] /\ \A g \in File \ {f} : ~Holds(g)

\* The ASIC reset of tt_reset severs no session: only resets by others do
\* ("a reset never destroys another client's session", reset.c).
SeversNobody ==
  [][(\E c \in Client : rpc[c] = "asic" /\ rpc'[c] = "poll")
     => \A f \in File : st[f] = "live" => st'[f] # "stale"]_resetVars

\* A post-reset that succeeds finds the reset complete and the firmware's
\* telemetry published, so the driver is never left without it.
PostFindsTelemetry ==
  [][\A c \in Client :
       rpc[c] = "post" /\ rpc'[c] = "close" /\ rres'[c] = "OK"
       => Published]_resetVars

\* Every slot in use belongs to exactly one session or one reset in progress:
\* no exit of tt_reset leaks its descriptor, uses one it has closed, or closes
\* one that is another's.
ResetDescriptorsOwned ==
  /\ \A c \in Client : rpc[c] \in Holding <=> rfd[c] # NoFd
  /\ \A c \in Client : \A s \in {fd[c], rfd[c]} \ {NoFd} :
       fdtab[s] # NoFile /\ ProcOf[s] = Home[c]
  /\ \A c, d \in Client :
       /\ fd[c] # NoFd => fd[c] # rfd[d]
       /\ fd[c] # NoFd /\ fd[c] = fd[d] => c = d
       /\ rfd[c] # NoFd /\ rfd[c] = rfd[d] => c = d
  /\ \A s \in Fd : fdtab[s] # NoFile =>
       /\ st[fdtab[s]] # "free"
       /\ \E c \in Client : s \in {fd[c], rfd[c]}

\* tt_reset_with consumes the session on all paths (reset.c:160).
SessionConsumed ==
  \A c \in Client :
    op[c] = "tt_reset_with" => fd[c] = NoFd

\* tt_reset returns, whatever the device, the driver and other clients do.
ResetReturns ==
  \A c \in Client : rpc[c] # "idle" ~> rpc[c] = "idle"
==============================================================================
