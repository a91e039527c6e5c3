--------------------------------- MODULE Smc ---------------------------------
(***************************************************************************)
(* SMC messages (src/src/dev/smc.c): tt_smc_post, tt_smc_poll, tt_smc_wait,*)
(* tt_smc_drop and tt_smc_call, over sessions that open, close, reopen and *)
(* are severed (module Session).                                           *)
(*                                                                         *)
(* The driver keeps one message per file description and feeds one         *)
(* controller (vendor/tt-kmd/ioctl.h, SMC_MSG).  Payloads are abstracted   *)
(* to a name; a reply is named by the message it answers.  Time is counted *)
(* in sleeps of tt_smc_wait (POLL_INTERVAL_US).                            *)
(***************************************************************************)
EXTENDS Session

CONSTANTS
  Req,           \* requests
  NoReq,
  Budget,        \* the timeout of a wait, in intervals
  SpinPolls,     \* SPIN_POLLS
  DriverErrors   \* errnos of failed exchanges

ASSUME SmcAssumption ==
  /\ NoReq \notin Req
  /\ Budget \in Nat
  /\ SpinPolls \in Nat
  /\ DriverErrors \subseteq {"EIO", "ETIMEDOUT"}

VARIABLES
  phase,     \* what became of the description's message, "none" if there is none
  msg,       \* that message
  reply,     \* the message the received reply answers
  ctlReq,    \* the message the controller is running ...
  ctlFile,   \* ... and whose it is, NoFile once abandoned
  spc,       \* where the client is in tt_smc_wait or tt_smc_call
  inCall,    \* it is in tt_smc_call
  err,       \* the error tt_smc_call will return after dropping
  waited,    \* elapsed_ms(&start), capped at Budget
  spins,     \* polls made, capped at SpinPolls
  asleep,    \* its usleep is not over
  rsp        \* the last reply it retrieved

driverVars == <<phase, msg, reply, ctlReq, ctlFile>>
waitVars == <<spc, inCall, err, waited, spins, asleep>>
smcVars == <<sessionVars, driverVars, waitVars, rsp>>

MaybeReq == Req \cup {NoReq}

SmcTypeOK ==
  /\ SessionTypeOK
  /\ phase \in [File -> {"none", "queued", "running", "ready"} \cup DriverErrors]
  /\ msg \in [File -> MaybeReq]
  /\ reply \in [File -> MaybeReq]
  /\ ctlReq \in MaybeReq
  /\ ctlFile \in File \cup {NoFile}
  /\ spc \in [Client -> {"idle", "poll", "check", "sleep", "drop"}]
  /\ inCall \in [Client -> BOOLEAN]
  /\ err \in [Client -> Codes]
  /\ waited \in [Client -> 0..Budget]
  /\ spins \in [Client -> 0..SpinPolls]
  /\ asleep \in [Client -> BOOLEAN]
  /\ rsp \in [Client -> MaybeReq]

SmcInit ==
  /\ SessionInit
  /\ phase = [f \in File |-> "none"]
  /\ msg = [f \in File |-> NoReq]
  /\ reply = [f \in File |-> NoReq]
  /\ ctlReq = NoReq
  /\ ctlFile = NoFile
  /\ spc = [c \in Client |-> "idle"]
  /\ inCall = [c \in Client |-> FALSE]
  /\ err = [c \in Client |-> "OK"]
  /\ waited = [c \in Client |-> 0]
  /\ spins = [c \in Client |-> 0]
  /\ asleep = [c \in Client |-> FALSE]
  /\ rsp = [c \in Client |-> NoReq]

------------------------------------------------------------------------------
(* The driver's side of one ioctl on client c's session.                    *)

\* The client's description, where its descriptor is in order.
SlotOf(c) == fdtab[fd[c]]

Clear(f) ==
  /\ phase' = [phase EXCEPT ![f] = "none"]
  /\ msg' = [msg EXCEPT ![f] = NoReq]
  /\ reply' = [reply EXCEPT ![f] = NoReq]

\* What POST of q answers, and does.
Post(c, q, r) ==
  \/ /\ SessionIo(c) # "OK"
     /\ r = SessionIo(c)
     /\ UNCHANGED driverVars
  \/ /\ SessionIo(c) = "OK"
     /\ phase[SlotOf(c)] # "none"
     /\ r = "EBUSY"
     /\ UNCHANGED driverVars
  \/ /\ SessionIo(c) = "OK"
     /\ phase[SlotOf(c)] = "none"
     /\ \/ r = "ENOTSUP" /\ UNCHANGED driverVars
        \/ /\ r = "OK"
           /\ phase' = [phase EXCEPT ![SlotOf(c)] = "queued"]
           /\ msg' = [msg EXCEPT ![SlotOf(c)] = q]
           /\ UNCHANGED <<reply, ctlReq, ctlFile>>

\* Mutant: the reply is copied out before the result is looked at.
tt_smc_pollEarly(c, r) ==
  /\ SessionIo(c) = "OK"
  /\ LET f == SlotOf(c)
     IN  /\ rsp' = [rsp EXCEPT ![c] = reply[f]]
         /\ \/ phase[f] \in {"queued", "running"} /\ r = "EAGAIN" /\ UNCHANGED driverVars
            \/ phase[f] = "ready" /\ r = "OK" /\ Clear(f) /\ UNCHANGED <<ctlReq, ctlFile>>

\* tt_smc_poll: what POLL answers, and does.
tt_smc_poll(c, r) ==
  \/ /\ SessionIo(c) # "OK"
     /\ r = SessionIo(c)
     /\ UNCHANGED <<driverVars, rsp>>
  \/ /\ SessionIo(c) = "OK"
     /\ LET f == SlotOf(c)
        IN  \/ phase[f] = "none" /\ r = "ESRCH" /\ UNCHANGED <<driverVars, rsp>>
            \/ /\ phase[f] \in {"queued", "running"}
               /\ r = "EAGAIN"
               /\ UNCHANGED <<driverVars, rsp>>
            \/ /\ phase[f] \in DriverErrors
               /\ r = phase[f]
               /\ Clear(f)
               /\ UNCHANGED <<ctlReq, ctlFile, rsp>>
            \/ /\ phase[f] = "ready"
               /\ r = "OK"
               /\ rsp' = [rsp EXCEPT ![c] = reply[f]]
               /\ Clear(f)
               /\ UNCHANGED <<ctlReq, ctlFile>>

\* tt_smc_drop: a message that reached the controller goes on running.
tt_smc_drop(c, r) ==
  /\ r = SessionIo(c)
  /\ IF r = "OK"
     THEN /\ Clear(SlotOf(c))
          /\ ctlFile' = IF ctlFile = SlotOf(c) THEN NoFile ELSE ctlFile
          /\ UNCHANGED ctlReq
     ELSE UNCHANGED driverVars

------------------------------------------------------------------------------
(* The library's operations.                                                *)

CanCall(c) == pc[c] = "idle" /\ spc[c] = "idle"

Goto(c, l) == spc' = [spc EXCEPT ![c] = l]

\* A call that is one ioctl returns r.
Reports(c, o, r) ==
  /\ Return(c, o, r)
  /\ UNCHANGED <<kmdVars, fd, flags, req, pc>>

SmcPost(c, q) ==
  /\ CanCall(c)
  /\ \E r \in Codes : Post(c, q, r) /\ Reports(c, "tt_smc_post", r)
  /\ UNCHANGED <<waitVars, rsp>>

SmcPoll(c) ==
  /\ CanCall(c)
  /\ \E r \in Codes : tt_smc_poll(c, r) /\ Reports(c, "tt_smc_poll", r)
  /\ UNCHANGED waitVars

SmcDrop(c) ==
  /\ CanCall(c)
  /\ \E r \in Codes : tt_smc_drop(c, r) /\ Reports(c, "tt_smc_drop", r)
  /\ UNCHANGED <<waitVars, rsp>>

\* The wait starts: the clock is read and the polls begin.
EnterWait(c, call) ==
  /\ Goto(c, "poll")
  /\ inCall' = [inCall EXCEPT ![c] = call]
  /\ UNCHANGED <<err, waited, spins, asleep>>

\* tt_smc_wait, up to its first poll.
SmcWait(c) ==
  /\ CanCall(c)
  /\ \/ /\ fd[c] = NoFd
        /\ Reports(c, "tt_smc_wait", "ENOTCONN")
        /\ UNCHANGED waitVars
     \/ /\ fd[c] # NoFd
        /\ Reports(c, "tt_smc_wait", "OK")
        /\ EnterWait(c, FALSE)
  /\ UNCHANGED <<driverVars, rsp>>

\* tt_smc_call, up to the first poll of its wait: a failed post ends it.
SmcCall(c, q) ==
  /\ CanCall(c)
  /\ \E r \in Codes :
       /\ Post(c, q, r)
       /\ Reports(c, "tt_smc_call", r)
       /\ IF r = "OK" THEN EnterWait(c, TRUE) ELSE UNCHANGED waitVars
  /\ UNCHANGED rsp

\* Mutant: tt_smc_call does not drop.
LeaveWaitNoDrop(c, r) ==
  /\ waited' = [waited EXCEPT ![c] = 0]
  /\ spins' = [spins EXCEPT ![c] = 0]
  /\ asleep' = [asleep EXCEPT ![c] = FALSE]
  /\ Goto(c, "idle")
  /\ inCall' = [inCall EXCEPT ![c] = FALSE]
  /\ Return(c, op[c], r)
  /\ UNCHANGED <<err, fd, flags, req, pc>>
\* The wait is over, and with it the call unless there is a message to drop.
LeaveWait(c, r) ==
  /\ waited' = [waited EXCEPT ![c] = 0]
  /\ spins' = [spins EXCEPT ![c] = 0]
  /\ asleep' = [asleep EXCEPT ![c] = FALSE]
  /\ IF inCall[c] /\ r # "OK"
     THEN /\ Goto(c, "drop")
          /\ err' = [err EXCEPT ![c] = r]
          /\ UNCHANGED <<inCall, sessVars>>
     ELSE /\ Goto(c, "idle")
          /\ inCall' = [inCall EXCEPT ![c] = FALSE]
          /\ Return(c, op[c], r)
          /\ UNCHANGED <<err, fd, flags, req, pc>>

WaitPoll(c) ==
  /\ spc[c] = "poll"
  /\ \E r \in Codes :
       /\ tt_smc_poll(c, r)
       /\ IF r = "EAGAIN"
          THEN /\ Goto(c, "check")
               /\ UNCHANGED <<inCall, err, waited, spins, asleep, sessVars>>
          ELSE LeaveWait(c, r)
  /\ UNCHANGED kmdVars

\* Mutant: the clock is read anew before each poll.
WaitCheckRestarts(c) ==
  /\ spc[c] = "check"
  /\ Goto(c, "poll")
  /\ waited' = [waited EXCEPT ![c] = 0]
  /\ UNCHANGED <<inCall, err, spins, asleep, sessionVars, driverVars, rsp>>

\* Only after an EAGAIN: is the budget spent, and if not, is a sleep due?
WaitCheck(c) ==
  /\ spc[c] = "check"
  /\ IF waited[c] >= Budget
     THEN LeaveWait(c, "ETIMEDOUT")
     ELSE /\ IF spins[c] >= SpinPolls
             THEN Goto(c, "sleep") /\ UNCHANGED spins
             ELSE Goto(c, "poll") /\ spins' = [spins EXCEPT ![c] = @ + 1]
          /\ asleep' = [asleep EXCEPT ![c] = spins[c] >= SpinPolls]
          /\ UNCHANGED <<inCall, err, waited, sessVars>>
  /\ UNCHANGED <<kmdVars, driverVars, rsp>>

WaitWake(c) ==
  /\ spc[c] = "sleep"
  /\ ~asleep[c] \/ Signals
  /\ Goto(c, "poll")
  /\ asleep' = [asleep EXCEPT ![c] = FALSE]
  /\ UNCHANGED <<sessionVars, driverVars, inCall, err, waited, spins, rsp>>

\* tt_smc_call drops the message and returns the wait's error.
CallDrop(c) ==
  /\ spc[c] = "drop"
  /\ \E r \in Codes : tt_smc_drop(c, r)
  /\ Goto(c, "idle")
  /\ inCall' = [inCall EXCEPT ![c] = FALSE]
  /\ Reports(c, op[c], err[c])
  /\ err' = [err EXCEPT ![c] = "OK"]
  /\ UNCHANGED <<waited, spins, asleep, rsp>>

SmcOp(c) ==
  \/ \E q \in Req : SmcPost(c, q) \/ SmcCall(c, q)
  \/ SmcPoll(c) \/ SmcWait(c) \/ SmcDrop(c)

WaitStep(c) == WaitPoll(c) \/ WaitCheck(c) \/ WaitWake(c) \/ CallDrop(c)

------------------------------------------------------------------------------
(* The driver's and the controller's own steps.                             *)

\* The controller takes the next message.
Dispatch(f) ==
  /\ ctlReq = NoReq
  /\ phase[f] = "queued"
  /\ st[f] = "live"
  /\ phase' = [phase EXCEPT ![f] = "running"]
  /\ ctlReq' = msg[f]
  /\ ctlFile' = f
  /\ UNCHANGED <<sessionVars, msg, reply, waitVars, rsp>>

\* It answers; the reply to an abandoned message is discarded.
Answer ==
  /\ ctlReq # NoReq
  /\ IF ctlFile = NoFile THEN UNCHANGED <<phase, reply>>
     ELSE /\ phase' = [phase EXCEPT ![ctlFile] = "ready"]
          /\ reply' = [reply EXCEPT ![ctlFile] = ctlReq]
  /\ ctlReq' = NoReq
  /\ ctlFile' = NoFile
  /\ UNCHANGED <<sessionVars, msg, waitVars, rsp>>

\* The driver gives up on a message; a late reply to it is discarded.
FailExchange(f) ==
  /\ phase[f] \in {"queued", "running"}
  /\ \E e \in DriverErrors : phase' = [phase EXCEPT ![f] = e]
  /\ ctlFile' = IF ctlFile = f THEN NoFile ELSE ctlFile
  /\ UNCHANGED <<sessionVars, msg, reply, ctlReq, waitVars, rsp>>

SmcTick ==
  /\ \E c \in Client : spc[c] \in {"poll", "check", "sleep"}
  /\ waited' = [c \in Client |->
                  IF spc[c] \in {"poll", "check", "sleep"} /\ waited[c] < Budget
                  THEN waited[c] + 1 ELSE waited[c]]
  /\ asleep' = [c \in Client |-> FALSE]
  /\ UNCHANGED <<sessionVars, driverVars, spc, inCall, err, spins, rsp>>

\* A message ends with its description; the controller goes on running it.
Abandon ==
  LET left == {f \in File : st'[f] = "free"}
      Wipe(g, v) == [f \in File |-> IF f \in left THEN v ELSE g[f]]
  IN  /\ phase' = Wipe(phase, "none")
      /\ msg' = Wipe(msg, NoReq)
      /\ reply' = Wipe(reply, NoReq)
      /\ ctlFile' = IF ctlFile \in left THEN NoFile ELSE ctlFile
      /\ UNCHANGED ctlReq

\* A reset or a removal takes the controller's message with it.
SmcOutside ==
  /\ SessionEnv
  /\ ctlReq' = NoReq
  /\ ctlFile' = NoFile
  /\ phase' = [f \in File |-> IF phase[f] = "running" THEN "queued" ELSE phase[f]]
  /\ UNCHANGED <<msg, reply, waitVars, rsp>>

SmcExit(p) ==
  LET Wipe(g, v) == [c \in Client |-> IF Home[c] = p THEN v ELSE g[c]]
  IN  /\ ProcessExit(p)
      /\ Abandon
      /\ spc' = Wipe(spc, "idle")
      /\ inCall' = Wipe(inCall, FALSE)
      /\ err' = Wipe(err, "OK")
      /\ waited' = Wipe(waited, 0)
      /\ spins' = Wipe(spins, 0)
      /\ asleep' = Wipe(asleep, FALSE)
      /\ UNCHANGED rsp

SmcNext ==
  \/ \E c \in Client :
       \/ spc[c] = "idle" /\ LifecycleStep(c) /\ Abandon /\ UNCHANGED <<waitVars, rsp>>
       \/ SmcOp(c)
       \/ WaitStep(c)
  \/ \E f \in File : Dispatch(f) \/ FailExchange(f)
  \/ Answer \/ SmcTick \/ SmcOutside
  \/ \E p \in Proc : SmcExit(p)

SmcSpec == SmcInit /\ [][SmcNext]_smcVars

\* A running thread is scheduled and time passes; nothing is assumed of the
\* driver and the controller, which may never answer.
FairSmcSpec ==
  /\ SmcSpec
  /\ \A c \in Client : WF_smcVars(WaitStep(c))
  /\ WF_smcVars(SmcTick)

------------------------------------------------------------------------------
(* Properties.                                                              *)

\* The message outstanding on a session.
Outstanding(c) == IF FileOf(c) \in File THEN msg[FileOf(c)] ELSE NoReq

\* Every session is a mailbox: a post goes into an empty box, and a reply that
\* is retrieved answers the message in the box, across drops, timeouts, late
\* replies, reopened sessions and other clients' messages.
Box == INSTANCE Mailbox WITH box <- [c \in Client |-> Outstanding(c)]
IsMailbox == Box!Spec

\* After tt_smc_call the session is free to post again (ttdal.h, tt_smc_call),
\* unless the call was refused because an earlier message is outstanding.
CallLeavesFree ==
  \A c \in Client :
    /\ op[c] = "tt_smc_call" /\ spc[c] = "idle" /\ ret[c] # "EBUSY"
    /\ FileOf(c) \in File /\ st[FileOf(c)] = "live"
    => phase[FileOf(c)] = "none"

\* tt_smc_wait and tt_smc_call return even if the controller never answers.
WaitReturns ==
  \A c \in Client : spc[c] # "idle" ~> spc[c] = "idle"
==============================================================================
