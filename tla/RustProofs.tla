------------------------------- MODULE RustProofs -------------------------------
(***************************************************************************)
(* Theorems about Rust, for any number of clients, handles and reopen      *)
(* attempts: what perform may return and why it gives up, what a method    *)
(* was granted, which session owns which descriptor, what a Window         *)
(* reaches, and types.  RustSessionsOwnDescriptors assumes, as for the     *)
(* library's own sessions, that close(2) does not fail: tt_reopen discards *)
(* that. RustGivesUpForCause assumes that no signal interrupts open(2) and *)
(* that every process has slots enough, RustTypeCorrect that there is a    *)
(* handle; the others assume nothing.                                      *)
(***************************************************************************)
EXTENDS Rust, SessionProofs

------------------------------------------------------------------------------
(* What perform returns.                                                    *)

\* The method in progress goes with where it is, and an operation that was
\* reached by a reopen has an open session.
Placed(c) ==
  /\ call[c].at \in {"idle", "open", "op", "reopen", "reopening"}
  /\ call[c].at = "idle" => call[c].m = "none"
  /\ call[c].at = "open" => call[c].m = "open"
  /\ call[c].at = "op" => /\ call[c].m \in Performed
                          /\ call[c].tries = 0 \/ fd[c] # NoFd
  /\ call[c].at \in {"reopen", "reopening"} => call[c].m \in Performed \cup {"reopen"}

\* What a step changes are functions on the clients.
Framed ==
  /\ call = [c \in Client |-> call[c]]
  /\ fd = [c \in Client |-> fd[c]]
  /\ ret = [c \in Client |-> ret[c]]

CallInv == Framed /\ \A c \in Client : Placed(c)

\* What NeverLost and FailedReopenSurfaces say of client c in a step.
Honest(c) ==
  /\ opts[c].persist /\ call[c].m \in Performed /\ call'[c].at = "idle"
       => ~IsLost(ret'[c])
  /\ call[c].at = "op" /\ call'[c].at = "idle" /\ ret'[c] = "ENOTCONN"
       => call[c].tries = 0

\* A step made by client c: f is its frame after it.
MadeBy(c, f) ==
  /\ call' = [call EXCEPT ![c] = f]
  /\ fd' = fd \/ \E x : fd' = [fd EXCEPT ![c] = x]
  /\ ret' = ret \/ \E x : ret' = [ret EXCEPT ![c] = x]

LEMMA MadeByKeeps ==
  ASSUME CallInv, NEW c \in Client, NEW f, MadeBy(c, f),
         call'[c] = f => Placed(c)' /\ Honest(c)
  PROVE  CallInv' /\ \A d \in Client : Honest(d)
  <1>1. call'[c] = f
    BY DEF MadeBy, CallInv, Framed
  <1>2. Framed'
    <2>1. call' = [d \in Client |-> call'[d]]
      BY DEF MadeBy, CallInv, Framed
    <2>2. fd' = [d \in Client |-> fd'[d]]
      BY DEF MadeBy, CallInv, Framed
    <2>3. ret' = [d \in Client |-> ret'[d]]
      BY DEF MadeBy, CallInv, Framed
    <2> QED
      BY <2>1, <2>2, <2>3 DEF Framed
  <1>3. ASSUME NEW d \in Client \ {c}
        PROVE  Placed(d)' /\ Honest(d)
    <2>1. call'[d] = call[d]
      BY DEF MadeBy, CallInv, Framed
    <2>2. fd'[d] = fd[d]
      BY DEF MadeBy, CallInv, Framed
    <2>3. Placed(d)
      BY DEF CallInv
    <2> QED
      BY <2>1, <2>2, <2>3 DEF Placed, Honest, Performed
  <1> QED
    BY <1>1, <1>2, <1>3 DEF CallInv

\* A method that is one step, or the start of one.
LEMMA StartKeeps ==
  ASSUME CallInv, NEW c \in Client, call[c].at = "idle", NEW f,
         f \in {Idle} \/ (\E arg : f = Frame("open", "open", 0, arg))
         \/ (\E m \in Performed : \E arg : f = Frame("op", m, 0, arg))
         \/ (\E arg : f = Frame("reopen", "reopen", 0, arg)),
         MadeBy(c, f)
  PROVE  CallInv' /\ \A d \in Client : Honest(d)
  <1>1. f.at \in {"idle", "open", "op", "reopen"} /\ f.tries = 0
    BY DEF Frame, Idle
  <1>2. /\ (f.at = "idle" => f.m = "none") /\ (f.at = "open" => f.m = "open")
        /\ (f.at = "op" => f.m \in Performed) /\ (f.at = "reopen" => f.m = "reopen")
    BY DEF Frame, Idle
  <1>3. call'[c] = f => Placed(c)'
    BY <1>1, <1>2 DEF Placed
  <1>4. Honest(c)
    BY DEF CallInv, Placed, Honest, Performed
  <1> QED
    BY <1>3, <1>4, MadeByKeeps

\* A step that leaves the calls alone.
LEMMA StillKeeps ==
  ASSUME CallInv, UNCHANGED <<call, fd, ret>>
  PROVE  CallInv' /\ \A d \in Client : Honest(d)
  BY DEF CallInv, Framed, Placed, Honest, Performed

\* What an operation under perform can report.
LEMMA RunReports ==
  ASSUME NEW c \in Client, NEW r \in Codes, Run(c, r), call[c].m \in Performed, fd[c] # NoFd
  PROVE  r # "ENOTCONN"
  <1>1. tt_fail_io(Io(fd[c])) # "ENOTCONN"
    BY DEF tt_fail_io, Io
  <1>2. \A e : IoCall(fd[c], e) => e # "ENOTCONN"
    BY <1>1 DEF IoCall
  <1>3. CASE InfoOp(c, r)
    BY <1>2, <1>3 DEF InfoOp
  <1>4. CASE TelemetryOp(c, r)
    BY <1>2, <1>4 DEF TelemetryOp
  <1>5. CASE VersionOp(c, r)
    BY <1>5 DEF VersionOp
  <1>6. CASE PowerOp(c, r)
    BY <1>1, <1>6 DEF PowerOp, tt_power
  <1>7. CASE AllocOp(c, r)
    <2>1. PICK t \in Tlbs : tt_tlb_alloc(fd[c], t, r)
      BY <1>7 DEF AllocOp
    <2> QED
      BY <1>2, <2>1 DEF tt_tlb_alloc
  <1> QED
    BY <1>3, <1>4, <1>5, <1>6, <1>7 DEF Run, Performed

\* open(2) inside a method.
LEMMA OpenedBy ==
  ASSUME CallInv, NEW c \in Client, OpenOk(c) \/ OpenFail(c)
  PROVE  /\ fd' = fd \/ \E x : fd' = [fd EXCEPT ![c] = x]
         /\ ret'[c] = "OK" => fd'[c] # NoFd
         /\ ret'[c] \in {"OK", "EAGAIN", "ENODEV"}
  <1>1. CASE OpenOk(c)
    <2>1. PICK d \in Fd : fd' = [fd EXCEPT ![c] = d]
      BY <1>1 DEF OpenOk
    <2>2. ret'[c] = "OK"
      BY <1>1 DEF OpenOk, Return, CallInv, Framed
    <2>3. fd'[c] = d
      BY <2>1 DEF CallInv, Framed
    <2> QED
      BY <2>1, <2>2, <2>3, SessionAssumption
  <1>2. CASE OpenFail(c)
    <2>1. PICK e : Return(c, op[c], OpenErrno(e))
      BY <1>2 DEF OpenFail
    <2>2. ret'[c] = OpenErrno(e)
      BY <2>1 DEF Return, CallInv, Framed
    <2>3. fd' = fd
      BY <1>2 DEF OpenFail
    <2> QED
      BY <2>2, <2>3 DEF OpenErrno
  <1> QED
    BY <1>1, <1>2

LEMMA PerformOpKeeps ==
  ASSUME CallInv, NEW c \in Client, PerformOp(c)
  PROVE  CallInv' /\ \A d \in Client : Honest(d)
  <1>1. PICK r \in Codes : Run(c, r) /\ PerformedOp(c, r)
    BY DEF PerformOp
  <1>2. call[c].at = "op" /\ fd' = fd /\ Placed(c)
    BY DEF PerformOp, CallInv
  <1>3. CASE Finish(c, r) /\ ~(opts[c].persist /\ IsLost(r))
    <2>1. MadeBy(c, Idle) /\ ret'[c] = r
      BY <1>2, <1>3 DEF Finish, MadeBy, CallInv, Framed
    <2>2. r = "ENOTCONN" => call[c].tries = 0
      BY <1>1, <1>2, RunReports DEF Placed
    <2>3. call'[c] = Idle => Placed(c)' /\ Honest(c)
      BY <1>3, <2>1, <2>2 DEF Placed, Honest, Idle, Frame
    <2> QED
      BY <2>1, <2>3, MadeByKeeps
  <1>4. CASE Reconnect(c)
    <2>0. call[c].m \in Performed
      BY <1>2 DEF Placed
    <2> DEFINE f == Frame("reopen", call[c].m, call[c].tries, call[c].arg)
    <2>1. MadeBy(c, f)
      BY <1>2, <1>4 DEF Reconnect, Goto, MadeBy
    <2>2. call'[c] = f => Placed(c)' /\ Honest(c)
      BY <2>0 DEF Placed, Honest, Frame
    <2> HIDE DEF f
    <2> QED
      BY <2>1, <2>2, MadeByKeeps
  <1>5. CASE Finish(c, "ENODEV")
    <2>1. MadeBy(c, Idle) /\ ret'[c] = "ENODEV"
      BY <1>2, <1>5 DEF Finish, MadeBy, CallInv, Framed
    <2>2. call'[c] = Idle => Placed(c)' /\ Honest(c)
      BY <2>1 DEF Placed, Honest, Idle, Frame, IsLost
    <2> QED
      BY <2>1, <2>2, MadeByKeeps
  <1> QED
    BY <1>1, <1>3, <1>4, <1>5 DEF PerformedOp

LEMMA ReopenKeeps ==
  ASSUME CallInv, NEW c \in Client, ReopenStart(c) \/ ReopenReturn(c) \/ OpenReturn(c)
  PROVE  CallInv' /\ \A d \in Client : Honest(d)
  <1>1. CASE ReopenStart(c)
    <2>0. call[c].m \in Performed \cup {"reopen"}
      BY <1>1 DEF ReopenStart, Placed, CallInv
    <2> DEFINE f == Frame("reopening", call[c].m, call[c].tries, call[c].arg)
    <2>1. MadeBy(c, f)
      BY <1>1 DEF ReopenStart, Reopen, tt_close, Return, Goto, MadeBy
    <2>2. call'[c] = f => Placed(c)' /\ Honest(c)
      BY <2>0 DEF Placed, Honest, Frame
    <2> HIDE DEF f
    <2> QED
      BY <2>1, <2>2, MadeByKeeps
  <1>2. CASE ReopenReturn(c) /\ Finish(c, ret'[c])
    <2>1. ret'[c] \in {"OK", "EAGAIN", "ENODEV"} /\ MadeBy(c, Idle) /\ call[c].at = "reopening"
      BY <1>2, OpenedBy DEF ReopenReturn, Reopened, Finish, MadeBy
    <2>2. call'[c] = Idle => Placed(c)' /\ Honest(c)
      BY <2>1 DEF Placed, Honest, Idle, Frame, IsLost
    <2> QED
      BY <2>1, <2>2, MadeByKeeps
  <1>3. CASE ReopenReturn(c) /\ Retry(c) /\ ret'[c] = "OK" /\ call[c].m # "reopen"
    <2>0. call[c].m \in Performed
      BY <1>3 DEF ReopenReturn, Reopened, Placed, CallInv
    <2> DEFINE f == Frame("op", call[c].m, call[c].tries + 1, call[c].arg)
    <2>1. fd'[c] # NoFd /\ (fd' = fd \/ \E x : fd' = [fd EXCEPT ![c] = x])
      BY <1>3, OpenedBy DEF ReopenReturn, Reopened
    <2>2. \E x : ret' = [ret EXCEPT ![c] = x]
      BY <1>3 DEF ReopenReturn, Reopened, OpenOk, OpenFail, Return
    <2>3. MadeBy(c, f)
      BY <1>3, <2>1, <2>2 DEF Retry, MadeBy
    <2>4. call'[c] = f => Placed(c)' /\ Honest(c)
      BY <2>0, <2>1 DEF Placed, Honest, Frame
    <2> HIDE DEF f
    <2> QED
      BY <2>3, <2>4, MadeByKeeps
  <1>4. CASE OpenReturn(c)
    <2>1. /\ fd' = fd \/ \E x : fd' = [fd EXCEPT ![c] = x]
          /\ ret'[c] \in {"OK", "EAGAIN", "ENODEV"}
      BY <1>4, OpenedBy DEF OpenReturn
    <2>2. MadeBy(c, Idle) /\ call[c].at = "open"
      BY <1>4, <2>1 DEF OpenReturn, Finish, MadeBy
    <2>3. call'[c] = Idle => Placed(c)' /\ Honest(c)
      BY <2>1, <2>2 DEF Placed, Honest, Idle, Frame, IsLost
    <2> QED
      BY <2>2, <2>3, MadeByKeeps
  <1> QED
    BY <1>1, <1>2, <1>3, <1>4 DEF ReopenReturn

LEMMA ClientStepKeeps ==
  ASSUME CallInv, NEW c \in Client, ClientStep(c)
  PROVE  CallInv' /\ \A d \in Client : Honest(d)
  <1>1. CASE OpenCall(c)
    <2>1. MadeBy(c, Frame("open", "open", 0, NoArg)) /\ call[c].at = "idle"
      BY <1>1 DEF OpenCall, Can, Open, Return, MadeBy
    <2> QED
      BY <2>1, StartKeeps
  <1>2. CASE CloseSession(c) \/ ResetSession(c)
    <2>1. MadeBy(c, Idle) /\ call[c].at = "idle"
      BY <1>2 DEF CloseSession, ResetSession, Can, Consume, Finish, MadeBy
    <2> QED
      BY <2>1, StartKeeps
  <1>3. CASE ResetDevice(c)
    <2>1. MadeBy(c, Idle) /\ call[c].at = "idle"
      BY <1>3 DEF ResetDevice, Finish, MadeBy
    <2> QED
      BY <2>1, StartKeeps
  <1>4. CASE ReopenCall(c)
    <2>1. MadeBy(c, Frame("reopen", "reopen", 0, NoArg)) /\ call[c].at = "idle"
      BY <1>4 DEF ReopenCall, Can, MadeBy, sessionVars, sessVars
    <2> QED
      BY <2>1, StartKeeps
  <1>5. ASSUME NEW m \in Performed, NEW arg, Begin(c, m, arg)
        PROVE  CallInv' /\ \A d \in Client : Honest(d)
    <2>1. MadeBy(c, Frame("op", m, 0, arg)) /\ call[c].at = "idle"
      BY <1>5 DEF Begin, Can, Return, MadeBy
    <2> QED
      BY <2>1, StartKeeps
  <1>6. ASSUME NEW h \in Handle, Bind(c, h) \/ Free(c, h)
        PROVE  CallInv' /\ \A d \in Client : Honest(d)
    <2>1. MadeBy(c, Idle) /\ call[c].at = "idle"
      BY <1>6 DEF Bind, Free, Can, Finish, MadeBy
    <2> QED
      BY <2>1, StartKeeps
  <1>7. ASSUME NEW h \in Handle, DropWindow(c, h)
        PROVE  CallInv' /\ \A d \in Client : Honest(d)
    BY <1>7, StillKeeps DEF DropWindow, sessionVars, sessVars
  <1> QED
    BY <1>1, <1>2, <1>3, <1>4, <1>5, <1>6, <1>7 DEF ClientStep, Power, Alloc, Inspect, Performed

LEMMA RustSteps ==
  ASSUME CallInv, [RustNext]_allVars
  PROVE  CallInv' /\ \A d \in Client : Honest(d)
  <1>1. ASSUME NEW c \in Client, CallStep(c)
        PROVE  CallInv' /\ \A d \in Client : Honest(d)
    BY <1>1, PerformOpKeeps, ReopenKeeps DEF CallStep
  <1>2. CASE Outside
    BY <1>2, StillKeeps DEF Outside, SessionEnv, sessVars
  <1>3. CASE UNCHANGED allVars
    BY <1>3, StillKeeps DEF allVars, rustVars, sessionVars, sessVars
  <1> QED
    BY <1>1, <1>2, <1>3, ClientStepKeeps DEF RustNext

LEMMA CallInvInductive == RustSpec => []CallInv
  <1>1. RustInit => CallInv
    BY DEF RustInit, CallsInit, SessionInit, CallInv, Framed, Placed, Idle, Frame
  <1>2. CallInv /\ [RustNext]_allVars => CallInv'
    BY RustSteps
  <1> QED
    BY <1>1, <1>2, PTL DEF RustSpec

\* On a persistent session no operation under perform reports the connection
\* lost, whatever RETRIES is and whatever resets and removals happen.
THEOREM RustNeverLost == RustSpec => NeverLost
  <1> DEFINE A == \A c \in Client :
                    opts[c].persist /\ call[c].m \in Performed /\ call'[c].at = "idle"
                    => ~IsLost(ret'[c])
  <1>1. CallInv /\ [RustNext]_allVars => [A]_allVars
    BY RustSteps DEF Honest
  <1> QED
    BY <1>1, CallInvInductive, PTL DEF RustSpec, NeverLost

\* A method reports ENOTCONN only of a session that was closed when it began.
THEOREM RustFailedReopenSurfaces == RustSpec => FailedReopenSurfaces
  <1> DEFINE A == \A c \in Client :
                    call[c].at = "op" /\ call'[c].at = "idle" /\ ret'[c] = "ENOTCONN"
                    => call[c].tries = 0
  <1>1. CallInv /\ [RustNext]_allVars => [A]_allVars
    BY RustSteps DEF Honest
  <1> QED
    BY <1>1, CallInvInductive, PTL DEF RustSpec, FailedReopenSurfaces

------------------------------------------------------------------------------
(* Which session owns which descriptor.                                     *)

\* A client without a Session has no descriptor, and one in the middle of a
\* method other than open has a Session.
AliveOf(c) ==
  /\ fd[c] # NoFd => c \in alive
  /\ call[c].at \in {"op", "reopen", "reopening"} => c \in alive

OwnInv == CallInv /\ SessionInv /\ \A c \in Client : AliveOf(c)

LEMMA FinishReports ==
  ASSUME SessionInv, NEW c \in Client, NEW r \in Codes, Finish(c, r)
  PROVE  ret' \in [Client -> Codes]
  BY DEF Finish, SessionInv, SessionTypeOK

\* The end of a Session: its descriptor is closed and forgotten.
LEMMA ConsumeKeeps ==
  ASSUME ~CloseFails, SessionInv, NEW c \in Client, NEW r \in Codes, Consume(c, r),
         ret' \in [Client -> Codes]
  PROVE  SessionInv'
  <1>1. /\ CloseCall(c, r) /\ fd' = [fd EXCEPT ![c] = NoFd]
        /\ flags' = [flags EXCEPT ![c] = {}] /\ req' = [req EXCEPT ![c] = {}]
        /\ UNCHANGED <<pc, op>>
    BY DEF Consume
  <1>2. r = "OK"
    BY <1>1 DEF CloseCall, SessionInv, SessionTypeOK, DescriptorsOwned, FileOf
  <1>3. \A d \in Client \ {c} : flags'[d] = flags[d]
    BY <1>1 DEF SessionInv, SessionTypeOK
  <1>4. DescriptorsOwned' /\ SlotsDistinct' /\ FlagsRecorded' /\ Arbitrated'
    BY <1>1, <1>2, <1>3, CloseKeeps
  <1>5. SessionTypeOK'
    BY <1>1, CloseCallTypes DEF SessionInv, SessionTypeOK
  <1>6. OpeningIsClosed'
    BY <1>1 DEF SessionInv, SessionTypeOK, OpeningIsClosed
  <1> QED
    BY <1>4, <1>5, <1>6 DEF SessionInv

\* The calls of module Calls.
LEMMA RunKeeps ==
  ASSUME SessionInv, NEW c \in Client, NEW r \in Codes, Run(c, r),
         call[c].m \in Performed, Reported(c)
  PROVE  SessionInv'
  <1>1. CASE InfoOp(c, r)
    BY <1>1, ReportedKeeps DEF InfoOp, IoCall, callVars
  <1>2. CASE TelemetryOp(c, r)
    BY <1>2, ReportedKeeps DEF TelemetryOp, IoCall, callVars
  <1>3. CASE VersionOp(c, r)
    BY <1>3, ReportedKeeps DEF VersionOp, callVars
  <1>4. CASE PowerOp(c, r)
    BY <1>4, ReportedKeeps DEF PowerOp, tt_power
  <1>5. CASE AllocOp(c, r)
    <2>1. PICK t \in Tlbs : tt_tlb_alloc(fd[c], t, r)
      BY <1>5 DEF AllocOp
    <2>2. UNCHANGED kmdVars
      BY <2>1 DEF tt_tlb_alloc, IoCall, callVars
    <2> QED
      BY <2>2, ReportedKeeps
  <1> QED
    BY <1>1, <1>2, <1>3, <1>4, <1>5 DEF Run, Performed

LEMMA HandleKeeps ==
  ASSUME SessionInv, NEW c \in Client, NEW h \in Handle, Bind(c, h) \/ Free(c, h)
  PROVE  SessionInv'
  <1>1. fd[c] # NoFd => fdtab[fd[c]] \in File \cup {NoFile}
    BY DEF SessionInv, SessionTypeOK, KmdTypeOK
  <1>2. vma \in [Addr -> File \cup {NoFile}]
    BY DEF SessionInv, SessionTypeOK, KmdTypeOK
  <1>3. CASE Bind(c, h)
    <2>1. PICK t \in Tlbs, r \in Codes :
            tt_tlb_bind(fd[c], Home[c], tlb[h], t, r) /\ Finish(c, r)
      BY <1>3 DEF Bind
    <2>2. Reported(c)
      BY <1>3, <2>1, FinishReports DEF Bind, Reported, SessionInv, SessionTypeOK
    <2>3. CASE UNCHANGED callVars
      BY <2>2, <2>3, ReportedKeeps DEF callVars
    <2>4. ASSUME NEW a, fd[c] # NoFd, Remap(fd[c], tlb[h], a)
          PROVE  SessionInv'
      <3> DEFINE maps == [b \in Addr |-> IF b = a THEN fdtab[fd[c]]
                                         ELSE IF b = tlb[h].ptr THEN NoFile ELSE vma[b]]
      <3>1. Mapped(maps)
        BY <1>1, <1>2, <2>4 DEF Remap, Mapped
      <3> HIDE DEF maps
      <3> QED
        BY <2>2, <3>1, MappedKeeps
    <2> QED
      BY <2>1, <2>3, <2>4 DEF tt_tlb_bind
  <1>4. CASE Free(c, h)
    <2>1. PICK r \in Codes : tt_tlb_free(fd[c], tlb[h], r) /\ Finish(c, r)
      BY <1>4 DEF Free
    <2>2. Reported(c)
      BY <1>4, <2>1, FinishReports DEF Free, Reported, SessionInv, SessionTypeOK
    <2> DEFINE maps == [b \in Addr |-> IF b = tlb[h].ptr THEN NoFile ELSE vma[b]]
    <2>3. Mapped(maps)
      BY <1>2, <2>1 DEF tt_tlb_free, Mapped
    <2> HIDE DEF maps
    <2> QED
      BY <2>2, <2>3, MappedKeeps
  <1> QED
    BY <1>3, <1>4

LEMMA ClientStepOwns ==
  ASSUME ~CloseFails, OwnInv, NEW c \in Client, ClientStep(c)
  PROVE  SessionInv' /\ \A d \in Client : AliveOf(d)'
  <1>1. CallInv' /\ Framed /\ SessionInv
    BY ClientStepKeeps DEF OwnInv, CallInv
  <1>2. CASE OpenCall(c)
    <2>1. PICK o \in Options[c] : Open(c, Flags(o))
      BY <1>2 DEF OpenCall
    <2>2. Flags(o) \in SUBSET OpenFlags
      BY DEF Flags, OpenFlags
    <2>3. SessionTypeOK'
      BY <1>1, <2>1, <2>2 DEF Open, Return, SessionInv, SessionTypeOK, KmdTypeOK, kmdVars, Ops, Codes
    <2>4. Quiet /\ OpeningIsClosed'
      BY <1>1, <2>1 DEF Open, Quiet, kmdVars, Holds, OpeningIsClosed, SessionInv, SessionTypeOK
    <2>5. SessionInv'
      BY <1>1, <2>3, <2>4, QuietKeeps DEF SessionInv, SessionTypeOK
    <2>6. \A d \in Client : AliveOf(d)'
      BY <1>1, <1>2, <2>1 DEF OpenCall, Open, AliveOf, OwnInv, Framed, Frame
    <2> QED
      BY <2>5, <2>6
  <1>3. CASE CloseSession(c) \/ ResetSession(c)
    <2>1. PICK r \in Codes : Consume(c, r)
      BY <1>3 DEF CloseSession, ResetSession
    <2>2. PICK e \in Codes : Finish(c, e)
      BY <1>3 DEF CloseSession, ResetSession, ResetResults, Codes
    <2>3. SessionInv'
      BY <1>1, <2>1, <2>2, ConsumeKeeps, FinishReports
    <2>4. \A d \in Client : AliveOf(d)'
      BY <1>1, <2>1, <2>2 DEF Consume, Finish, AliveOf, OwnInv, Framed, Idle, Frame
    <2> QED
      BY <2>3, <2>4
  <1>4. CASE ResetDevice(c)
    <2>1. PICK r \in Codes : tt_reset(Home[c], r) /\ Finish(c, r)
      BY <1>4 DEF ResetDevice
    <2>2. Reported(c)
      BY <1>1, <1>4, <2>1, FinishReports DEF ResetDevice, Reported, SessionInv, SessionTypeOK
    <2>3. SessionInv'
      BY <1>1, <2>1, <2>2, ReportedKeeps DEF tt_reset, callVars
    <2>4. \A d \in Client : AliveOf(d)'
      BY <1>1, <1>4, <2>1 DEF ResetDevice, Finish, AliveOf, OwnInv, Framed, Idle, Frame
    <2> QED
      BY <2>3, <2>4
  <1>5. CASE ReopenCall(c)
    <2>1. Reported(c) /\ UNCHANGED kmdVars
      BY <1>1, <1>5 DEF ReopenCall, Reported, sessionVars, sessVars, SessionInv, SessionTypeOK
    <2>2. SessionInv'
      BY <1>1, <2>1, ReportedKeeps
    <2>3. \A d \in Client : AliveOf(d)'
      BY <1>1, <1>5 DEF ReopenCall, Can, sessionVars, sessVars, AliveOf, OwnInv, Framed, Frame
    <2> QED
      BY <2>2, <2>3
  <1>6. ASSUME NEW m \in Performed, NEW arg, Begin(c, m, arg)
        PROVE  SessionInv' /\ \A d \in Client : AliveOf(d)'
    <2>1. Reported(c) /\ UNCHANGED kmdVars
      BY <1>1, <1>6 DEF Begin, Return, Reported, SessionInv, SessionTypeOK, Ops, Codes
    <2>2. SessionInv'
      BY <1>1, <2>1, ReportedKeeps
    <2>3. \A d \in Client : AliveOf(d)'
      BY <1>1, <1>6 DEF Begin, Can, Performed, AliveOf, OwnInv, Framed, Frame
    <2> QED
      BY <2>2, <2>3
  <1>7. ASSUME NEW h \in Handle, Bind(c, h) \/ Free(c, h)
        PROVE  SessionInv' /\ \A d \in Client : AliveOf(d)'
    <2>1. SessionInv'
      BY <1>1, <1>7, HandleKeeps
    <2>2. fd' = fd /\ alive' = alive /\ call' = [call EXCEPT ![c] = Idle]
      BY <1>7 DEF Bind, Free, Finish
    <2>3. \A d \in Client : AliveOf(d)'
      BY <1>1, <2>2 DEF AliveOf, OwnInv, Framed, Idle, Frame
    <2> QED
      BY <2>1, <2>3
  <1>8. ASSUME NEW h \in Handle, DropWindow(c, h)
        PROVE  SessionInv' /\ \A d \in Client : AliveOf(d)'
    <2>1. Reported(c) /\ UNCHANGED kmdVars
      BY <1>1, <1>8 DEF DropWindow, Reported, sessionVars, sessVars, SessionInv, SessionTypeOK
    <2>2. SessionInv'
      BY <1>1, <2>1, ReportedKeeps
    <2>3. \A d \in Client : AliveOf(d)'
      BY <1>8 DEF DropWindow, sessionVars, sessVars, AliveOf, OwnInv
    <2> QED
      BY <2>2, <2>3
  <1> QED
    BY <1>2, <1>3, <1>4, <1>5, <1>6, <1>7, <1>8 DEF ClientStep, Power, Alloc, Inspect, Performed

LEMMA CallStepOwns ==
  ASSUME ~CloseFails, OwnInv, NEW c \in Client, CallStep(c)
  PROVE  SessionInv' /\ \A d \in Client : AliveOf(d)'
  <1>1. CallInv /\ Framed /\ SessionInv /\ AliveOf(c)
    BY DEF OwnInv, CallInv
  <1>2. CASE PerformOp(c)
    <2>1. PICK r \in Codes : Run(c, r) /\ PerformedOp(c, r)
      BY <1>2 DEF PerformOp
    <2>2. /\ UNCHANGED <<fd, flags, req, pc, op, alive>> /\ call[c].at = "op"
          /\ call[c].m \in Performed
      BY <1>1, <1>2 DEF PerformOp, CallInv, Placed
    <2>3. /\ ret' \in [Client -> Codes]
          /\ \A d \in Client \ {c} : call'[d] = call[d]
      BY <1>1, <2>1 DEF PerformedOp, Finish, Reconnect, Goto, SessionInv, SessionTypeOK, Codes, Framed
    <2>4. Reported(c)
      BY <1>1, <2>2, <2>3 DEF Reported, SessionInv, SessionTypeOK
    <2>5. SessionInv'
      BY <1>1, <2>1, <2>2, <2>4, RunKeeps
    <2>6. \A d \in Client : AliveOf(d)'
      BY <1>1, <2>2, <2>3 DEF AliveOf, OwnInv
    <2> QED
      BY <2>5, <2>6
  <1>3. CASE ReopenStart(c)
    <2>1. Reopen(c) /\ alive' = alive /\ call[c].at = "reopen"
      BY <1>3 DEF ReopenStart
    <2>2. SessionInv'
      BY <1>1, <2>1, LifecycleKeeps DEF LifecycleStep
    <2>3. \A d \in Client \ {c} : fd'[d] = fd[d] /\ call'[d] = call[d]
      BY <1>1, <1>3 DEF ReopenStart, Reopen, tt_close, Goto, Framed
    <2>4. \A d \in Client : AliveOf(d)'
      BY <1>1, <2>1, <2>3 DEF AliveOf, OwnInv
    <2> QED
      BY <2>2, <2>4
  <1>4. CASE ReopenReturn(c)
    <2>1. (OpenOk(c) \/ OpenFail(c)) /\ alive' = alive /\ call[c].at = "reopening"
      BY <1>4 DEF ReopenReturn, Reopened
    <2>2. SessionInv'
      BY <1>1, <2>1, LifecycleKeeps DEF LifecycleStep
    <2>3. \A d \in Client \ {c} : fd'[d] = fd[d] /\ call'[d] = call[d]
      BY <1>1, <1>4, <2>1 DEF ReopenReturn, OpenOk, OpenFail, Finish, Retry, Framed
    <2>4. \A d \in Client : AliveOf(d)'
      BY <1>1, <2>1, <2>3 DEF AliveOf, OwnInv
    <2> QED
      BY <2>2, <2>4
  <1>5. CASE OpenReturn(c)
    <2>1. /\ OpenOk(c) \/ OpenFail(c)
          /\ alive' = IF ret'[c] = "OK" THEN alive \cup {c} ELSE alive
          /\ call[c].at = "open" /\ call' = [call EXCEPT ![c] = Idle]
      BY <1>5 DEF OpenReturn, Finish
    <2>2. SessionInv'
      BY <1>1, <2>1, LifecycleKeeps DEF LifecycleStep
    <2>3. \A d \in Client \ {c} : fd'[d] = fd[d] /\ call'[d] = call[d]
      BY <1>1, <2>1 DEF OpenOk, OpenFail, Framed
    <2>4. fd'[c] # NoFd => c \in alive'
      BY <1>1, <2>1 DEF OpenOk, OpenFail, Return, Framed, AliveOf
    <2>5. call'[c].at = "idle"
      BY <1>1, <2>1 DEF Framed, Idle, Frame
    <2>6. \A d \in Client : AliveOf(d)'
      BY <2>1, <2>3, <2>4, <2>5 DEF AliveOf, OwnInv
    <2> QED
      BY <2>2, <2>6
  <1> QED
    BY <1>2, <1>3, <1>4, <1>5 DEF CallStep

LEMMA OwnInvInductive ==
  ASSUME ~CloseFails
  PROVE  RustSpec => []OwnInv
  <1>1. RustInit => OwnInv
    <2> SUFFICES ASSUME RustInit
                 PROVE  OwnInv
      OBVIOUS
    <2>1. CallInv
      BY DEF RustInit, CallsInit, SessionInit, CallInv, Framed, Placed, Idle, Frame
    <2>2. SessionInv
      BY DEF RustInit, CallsInit, SessionInit, KmdInit, SessionInv, SessionTypeOK, KmdTypeOK,
             Status, Ops, Codes, DescriptorsOwned, FileOf, OpeningIsClosed, SlotsDistinct,
             FlagsRecorded, Arbitrated, Holds
    <2>3. \A c \in Client : AliveOf(c)
      BY DEF RustInit, CallsInit, SessionInit, AliveOf, Idle, Frame
    <2> QED
      BY <2>1, <2>2, <2>3 DEF OwnInv
  <1>2. OwnInv /\ [RustNext]_allVars => OwnInv'
    <2> SUFFICES ASSUME OwnInv, [RustNext]_allVars
                 PROVE  SessionInv' /\ \A c \in Client : AliveOf(c)'
      BY RustSteps DEF OwnInv
    <2>1. CASE Outside
      <3>1. SessionInv'
        BY <2>1, EnvKeeps DEF Outside, OwnInv
      <3> QED
        BY <2>1, <3>1 DEF Outside, SessionEnv, sessVars, AliveOf, OwnInv
    <2>2. CASE UNCHANGED allVars
      <3>1. UNCHANGED <<kmdVars, fd, flags, req, pc, op, ret, alive, call>>
        BY <2>2 DEF allVars, rustVars, sessionVars, sessVars
      <3>2. op' \in [Client -> Ops] /\ ret' \in [Client -> Codes]
        BY <3>1 DEF OwnInv, SessionInv, SessionTypeOK
      <3>3. SessionInv'
        BY <3>1, <3>2, ReportsKeeps DEF OwnInv
      <3> QED
        BY <3>1, <3>3 DEF AliveOf, OwnInv
    <2> QED
      BY <2>1, <2>2, ClientStepOwns, CallStepOwns DEF RustNext
  <1> QED
    BY <1>1, <1>2, PTL DEF RustSpec

\* Closing, dropping, resetting and reopening Sessions neither loses a descriptor
\* nor leaves one to two Sessions or to none.
THEOREM RustSessionsOwnDescriptors ==
  ASSUME ~CloseFails
  PROVE  RustSpec => []SessionsOwnDescriptors
  <1>1. OwnInv => SessionsOwnDescriptors
    BY DEF OwnInv, SessionInv, AliveOf, SessionsOwnDescriptors
  <1> QED
    BY <1>1, OwnInvInductive, PTL

------------------------------------------------------------------------------
(* What a Window reaches.                                                   *)

\* A handle that points somewhere points at a mapping of its window, no two at the
\* same address, and a handle with a Window in use points somewhere.
Reach ==
  /\ vma = [a \in Addr |-> vma[a]] /\ shows = [a \in Addr |-> shows[a]]
  /\ tlb \in [Handle -> Tlbs]
  /\ windows \subseteq owned /\ owned \subseteq Handle
  /\ \A h \in Handle : tlb[h].ptr # NoAddr =>
       vma[tlb[h].ptr] # NoFile /\ shows[tlb[h].ptr] = tlb[h].id
  /\ \A g, h \in Handle : tlb[g].ptr # NoAddr /\ tlb[g].ptr = tlb[h].ptr => g = h
  /\ \A h \in windows : tlb[h].ptr # NoAddr

\* An allocation in progress is for a handle of the caller's that is not in use.
Fresh(c) ==
  call[c].m = "alloc" => /\ call[c].arg.h \in Handle \ owned
                         /\ Owner[call[c].arg.h] = c

ReachInv == CallInv /\ Reach /\ \A c \in Client : Fresh(c)

\* A step that changes no mapping and no handle.
LEMMA ReachStays ==
  ASSUME Reach, UNCHANGED <<vma, shows, tlb, owned>>, windows' \subseteq windows
  PROVE  Reach'
  BY DEF Reach

\* A step that gives a handle that has no Window in use a new value t, and maps and
\* unmaps no more than that takes.
LEMMA ReachMoves ==
  ASSUME Reach, NEW h \in Handle, h \notin windows, NEW t \in Tlbs,
         tlb' = [tlb EXCEPT ![h] = t],
         vma' = [a \in Addr |-> vma'[a]], shows' = [a \in Addr |-> shows'[a]],
         \A a \in Addr \ {tlb[h].ptr, t.ptr} : vma'[a] = vma[a] /\ shows'[a] = shows[a],
         t.ptr # NoAddr => vma[t.ptr] = NoFile /\ vma'[t.ptr] # NoFile /\ shows'[t.ptr] = t.id,
         windows' \subseteq windows \cup {h}, h \in windows' => t.ptr # NoAddr,
         windows' \subseteq owned', owned' \subseteq Handle
  PROVE  Reach'
  <1> USE WindowsAssumption
  <1>1. tlb'[h] = t /\ tlb' \in [Handle -> Tlbs] /\ \A g \in Handle \ {h} : tlb'[g] = tlb[g]
    BY DEF Reach
  <1>2. ASSUME NEW g \in Handle \ {h}, tlb[g].ptr # NoAddr
        PROVE  /\ vma'[tlb[g].ptr] # NoFile /\ shows'[tlb[g].ptr] = tlb[g].id
               /\ tlb[g].ptr # t.ptr
    <2>1. /\ tlb[g].ptr \in Addr /\ vma[tlb[g].ptr] # NoFile /\ shows[tlb[g].ptr] = tlb[g].id
          /\ tlb[g].ptr # tlb[h].ptr
      BY <1>2 DEF Reach, Tlbs
    <2>2. tlb[g].ptr # t.ptr
      BY <1>2, <2>1
    <2> QED
      BY <2>1, <2>2
  <1>3. \A g \in Handle : tlb'[g].ptr # NoAddr =>
          vma'[tlb'[g].ptr] # NoFile /\ shows'[tlb'[g].ptr] = tlb'[g].id
    BY <1>1, <1>2
  <1>4. \A g, k \in Handle : tlb'[g].ptr # NoAddr /\ tlb'[g].ptr = tlb'[k].ptr => g = k
    BY <1>1, <1>2 DEF Reach
  <1>5. \A g \in windows' : tlb'[g].ptr # NoAddr
    BY <1>1 DEF Reach
  <1> QED
    BY <1>1, <1>3, <1>4, <1>5 DEF Reach

\* The calls on a session change no mapping.
LEMMA SessionMaps ==
  ASSUME NEW c \in Client,
         \/ \E r : CloseCall(c, r)
         \/ Reopen(c) \/ OpenOk(c) \/ OpenFail(c) \/ SessionEnv
  PROVE  vma' = vma
  <1>1. ASSUME NEW r, CloseCall(c, r)
        PROVE  vma' = vma
    BY <1>1 DEF CloseCall, Release, Retain, kmdVars
  <1>2. CASE Reopen(c)
    BY <1>1, <1>2 DEF Reopen, tt_close
  <1>3. CASE OpenOk(c)
    BY <1>3 DEF OpenOk, OpenGrants, Grant
  <1>4. CASE OpenFail(c) \/ SessionEnv
    BY <1>4 DEF OpenFail, SessionEnv, OobReset, Remove, Reprobe, kmdVars
  <1> QED
    BY <1>1, <1>2, <1>3, <1>4

LEMMA BindReaches ==
  ASSUME Reach, NEW c \in Client, NEW h \in Handle, Bind(c, h)
  PROVE  Reach'
  <1> USE WindowsAssumption
  <1>1. PICK t \in Tlbs, r \in Codes :
          /\ tt_tlb_bind(fd[c], Home[c], tlb[h], t, r)
          /\ tlb' = [tlb EXCEPT ![h] = t]
          /\ windows' = IF r = "OK" THEN windows \cup {h} ELSE windows
    BY DEF Bind
  <1>2. h \in owned /\ h \notin windows /\ owned' = owned /\ tlb[h] \in Tlbs
    BY DEF Bind, Reach
  <1>3. CASE fd[c] = NoFd
    <2>1. UNCHANGED <<vma, shows>> /\ t = tlb[h] /\ r # "OK"
      BY <1>1, <1>3 DEF tt_tlb_bind, callVars, kmdVars, windowVars
    <2>2. tlb' = tlb
      BY <1>1, <2>1 DEF Reach
    <2> QED
      BY <1>1, <1>2, <2>1, <2>2, ReachStays
  <1>4. ASSUME NEW a, Remap(fd[c], tlb[h], a)
        PROVE  /\ vma' = [b \in Addr |-> vma'[b]] /\ shows' = [b \in Addr |-> shows'[b]]
               /\ \A b \in Addr \ {tlb[h].ptr, a} : vma'[b] = vma[b] /\ shows'[b] = shows[b]
               /\ a \in Addr => vma'[a] = fdtab[fd[c]] /\ shows'[a] = tlb[h].id
    BY <1>4 DEF Remap, Retain
  <1>5. CASE fd[c] # NoFd /\ r # "OK"
    <2>1. Remap(fd[c], tlb[h], NoAddr) /\ t = [tlb[h] EXCEPT !.ptr = NoAddr]
      BY <1>1, <1>5 DEF tt_tlb_bind
    <2>2. t.ptr = NoAddr
      BY <1>2, <2>1 DEF Tlbs
    <2>3. /\ vma' = [b \in Addr |-> vma'[b]] /\ shows' = [b \in Addr |-> shows'[b]]
          /\ \A b \in Addr \ {tlb[h].ptr, t.ptr} : vma'[b] = vma[b] /\ shows'[b] = shows[b]
      BY <1>4, <2>1, <2>2
    <2>4. /\ windows' \subseteq windows \cup {h} /\ h \notin windows'
          /\ windows' \subseteq owned' /\ owned' \subseteq Handle
      BY <1>1, <1>2, <1>5 DEF Reach
    <2> QED
      BY <1>1, <1>2, <2>2, <2>3, <2>4, ReachMoves
  <1>6. CASE fd[c] # NoFd /\ r = "OK"
    <2>1. NamedIo(fd[c], tlb[h].id) = "OK"
      BY <1>1, <1>6 DEF tt_tlb_bind
    <2>2. PICK a \in FreeAddrs(Home[c]) :
            t = [tlb[h] EXCEPT !.ptr = a] /\ Remap(fd[c], tlb[h], a)
      BY <1>1, <1>6, <2>1 DEF tt_tlb_bind
    <2>3. t.ptr = a /\ t.id = tlb[h].id /\ a \in Addr /\ vma[a] = NoFile
      BY <1>2, <2>2 DEF Tlbs, FreeAddrs
    <2>4. fdtab[fd[c]] # NoFile
      BY <2>1 DEF NamedIo, tt_fail_io, Io
    <2>5. /\ vma' = [b \in Addr |-> vma'[b]] /\ shows' = [b \in Addr |-> shows'[b]]
          /\ \A b \in Addr \ {tlb[h].ptr, t.ptr} : vma'[b] = vma[b] /\ shows'[b] = shows[b]
          /\ vma[t.ptr] = NoFile /\ vma'[t.ptr] # NoFile /\ shows'[t.ptr] = t.id
          /\ t.ptr # NoAddr
      BY <1>4, <2>2, <2>3, <2>4
    <2>6. /\ windows' \subseteq windows \cup {h}
          /\ windows' \subseteq owned' /\ owned' \subseteq Handle
      BY <1>1, <1>2 DEF Reach
    <2> QED
      BY <1>1, <1>2, <2>5, <2>6, ReachMoves
  <1> QED
    BY <1>3, <1>5, <1>6

LEMMA FreeReaches ==
  ASSUME Reach, NEW c \in Client, NEW h \in Handle, Free(c, h)
  PROVE  Reach'
  <1>1. /\ vma' = [b \in Addr |-> IF b = tlb[h].ptr THEN NoFile ELSE vma[b]]
        /\ shows' = [b \in Addr |-> IF b = tlb[h].ptr THEN NoWindow ELSE shows[b]]
        /\ tlb' = [tlb EXCEPT ![h] = Unused]
        /\ owned' = owned \ {h} /\ windows' = windows /\ h \notin windows
    BY DEF Free, tt_tlb_free, Retain
  <1>2. Unused \in Tlbs /\ Unused.ptr = NoAddr
    BY DEF Unused, Tlbs
  <1> QED
    BY <1>1, <1>2, ReachMoves DEF Reach

\* A step of client c, which allocates for itself only.
LEMMA FreshKeeps ==
  ASSUME NEW c \in Client, \A d \in Client : Fresh(d),
         \A d \in Client \ {c} : call'[d] = call[d],
         Fresh(c)', \A h \in owned' \ owned : Owner[h] = c
  PROVE  \A d \in Client : Fresh(d)'
  BY DEF Fresh

\* A frame that keeps the method and what it was given.
LEMMA FreshFrame ==
  ASSUME Framed, NEW c \in Client, Fresh(c), owned' = owned, NEW at, NEW tries,
         call' = [call EXCEPT ![c] = Frame(at, call[c].m, tries, call[c].arg)]
  PROVE  Fresh(c)' /\ \A d \in Client \ {c} : call'[d] = call[d]
  <1>1. call'[c].m = call[c].m /\ call'[c].arg = call[c].arg
    BY DEF Framed, Frame
  <1> QED
    BY <1>1 DEF Fresh, Framed

LEMMA FreshFinish ==
  ASSUME Framed, NEW c \in Client, NEW r, Finish(c, r)
  PROVE  Fresh(c)' /\ \A d \in Client \ {c} : call'[d] = call[d]
  <1>1. call'[c].m = "none"
    BY DEF Framed, Finish, Idle, Frame
  <1> QED
    BY <1>1 DEF Fresh, Framed, Finish

LEMMA ClientStepReaches ==
  ASSUME ReachInv, NEW c \in Client, ClientStep(c)
  PROVE  Reach' /\ \A d \in Client : Fresh(d)'
  <1>1. Framed /\ Reach /\ \A d \in Client : Fresh(d)
    BY DEF ReachInv, CallInv
  <1>2. ASSUME vma' = vma, UNCHANGED <<shows, handleVars>>
        PROVE  Reach'
    BY <1>1, <1>2, ReachStays DEF handleVars
  <1>3. CASE OpenCall(c) \/ ReopenCall(c)
    <2>1. vma' = vma /\ UNCHANGED <<shows, handleVars>>
      BY <1>3 DEF OpenCall, ReopenCall, Open, kmdVars, windowVars, sessionVars
    <2>2. PICK at \in {"open", "reopen"} : call' = [call EXCEPT ![c] = Frame(at, at, 0, NoArg)]
      BY <1>3 DEF OpenCall, ReopenCall
    <2>3. call'[c].m # "alloc" /\ \A d \in Client \ {c} : call'[d] = call[d]
      BY <1>1, <2>2 DEF Frame, Framed
    <2>4. Fresh(c)'
      BY <2>3 DEF Fresh
    <2> QED
      BY <1>1, <1>2, <2>1, <2>3, <2>4, FreshKeeps DEF handleVars
  <1>4. CASE CloseSession(c) \/ ResetSession(c) \/ ResetDevice(c)
    <2>1. vma' = vma /\ UNCHANGED <<shows, handleVars>>
      BY <1>4, SessionMaps DEF CloseSession, ResetSession, Consume, ResetDevice, tt_reset,
                               callVars, kmdVars, windowVars
    <2>2. \E r : Finish(c, r)
      BY <1>4 DEF CloseSession, ResetSession, ResetDevice
    <2> QED
      BY <1>1, <1>2, <2>1, <2>2, FreshFinish, FreshKeeps DEF handleVars
  <1>5. ASSUME NEW m, NEW arg, Begin(c, m, arg),
               m = "alloc" => arg.h \in Handle \ owned /\ Owner[arg.h] = c
        PROVE  Reach' /\ \A d \in Client : Fresh(d)'
    <2>1. vma' = vma /\ UNCHANGED <<shows, handleVars>>
      BY <1>5 DEF Begin, kmdVars, windowVars
    <2>2. call'[c].m = m /\ call'[c].arg = arg /\ \A d \in Client \ {c} : call'[d] = call[d]
      BY <1>1, <1>5 DEF Begin, Frame, Framed
    <2>3. Fresh(c)'
      BY <1>5, <2>1, <2>2 DEF Fresh, handleVars
    <2> QED
      BY <1>1, <1>2, <2>1, <2>2, <2>3, FreshKeeps DEF handleVars
  <1>6. CASE Power(c) \/ Inspect(c)
    BY <1>5, <1>6 DEF Power, Inspect
  <1>7. CASE Alloc(c)
    <2>1. PICK h \in Handle \ owned : Owner[h] = c /\ Begin(c, "alloc", [NoArg EXCEPT !.h = h])
      BY <1>7 DEF Alloc
    <2> DEFINE arg == [NoArg EXCEPT !.h = h]
    <2>2. arg.h = h
      BY DEF NoArg
    <2> HIDE DEF arg
    <2>3. Begin(c, "alloc", arg)
      BY <2>1 DEF arg
    <2> QED
      BY <1>5, <2>1, <2>2, <2>3
  <1>8. ASSUME NEW h \in Handle, Bind(c, h) \/ Free(c, h)
        PROVE  Reach' /\ \A d \in Client : Fresh(d)'
    <2>1. PICK r : Finish(c, r)
      BY <1>8 DEF Bind, Free
    <2>2. owned' \subseteq owned
      BY <1>8 DEF Bind, Free
    <2> QED
      BY <1>1, <1>8, <2>1, <2>2, FreshFinish, FreshKeeps, BindReaches, FreeReaches
  <1>9. ASSUME NEW h \in Handle, DropWindow(c, h)
        PROVE  Reach' /\ \A d \in Client : Fresh(d)'
    <2>1. UNCHANGED <<vma, shows, tlb, owned, call>> /\ windows' \subseteq windows
      BY <1>9 DEF DropWindow, sessionVars, kmdVars, windowVars
    <2> QED
      BY <1>1, <2>1, ReachStays DEF Fresh
  <1> QED
    BY <1>3, <1>4, <1>6, <1>7, <1>8, <1>9 DEF ClientStep

\* An operation maps nothing; an allocation gives a handle not in use a window.
LEMMA RunReaches ==
  ASSUME Reach, NEW c \in Client, NEW r \in Codes, Run(c, r), call[c].m \in Performed, Fresh(c)
  PROVE  /\ Reach'
         /\ IF r = "OK" THEN \A h \in owned' \ owned : Owner[h] = c ELSE owned' = owned
  <1> USE DEF callVars, kmdVars, windowVars
  <1>1. CASE InfoOp(c, r) \/ TelemetryOp(c, r) \/ VersionOp(c, r) \/ PowerOp(c, r)
    <2>1. UNCHANGED <<vma, shows, tlb, owned, windows>>
      BY <1>1 DEF InfoOp, TelemetryOp, VersionOp, PowerOp, tt_power, IoCall, handleVars
    <2> QED
      BY <2>1, ReachStays
  <1>2. CASE AllocOp(c, r) /\ call[c].m = "alloc"
    <2> DEFINE h == call[c].arg.h
    <2>1. PICK t \in Tlbs : tt_tlb_alloc(fd[c], t, r) /\ tlb' = [tlb EXCEPT ![h] = t]
      BY <1>2 DEF AllocOp
    <2>2. t.ptr = NoAddr /\ UNCHANGED <<vma, shows>>
      BY <2>1 DEF tt_tlb_alloc, IoCall, Unused
    <2>3. h \in Handle /\ h \notin owned /\ h \notin windows /\ Owner[h] = c
      BY <1>2 DEF Fresh, Reach
    <2>4. windows' = windows /\ owned' = IF r = "OK" THEN owned \cup {h} ELSE owned
      BY <1>2 DEF AllocOp
    <2> HIDE DEF h
    <2>5. /\ vma' = [a \in Addr |-> vma'[a]] /\ shows' = [a \in Addr |-> shows'[a]]
          /\ windows' \subseteq owned' /\ owned' \subseteq Handle
      BY <2>2, <2>3, <2>4 DEF Reach
    <2>6. Reach'
      BY <2>1, <2>2, <2>3, <2>4, <2>5, ReachMoves
    <2> QED
      BY <2>3, <2>4, <2>6
  <1> QED
    BY <1>1, <1>2 DEF Run, Performed

LEMMA CallStepReaches ==
  ASSUME ReachInv, NEW c \in Client, CallStep(c)
  PROVE  Reach' /\ \A d \in Client : Fresh(d)'
  <1>1. Framed /\ Reach /\ Placed(c) /\ \A d \in Client : Fresh(d)
    BY DEF ReachInv, CallInv
  <1>2. CASE OpenReturn(c) \/ ReopenStart(c) \/ ReopenReturn(c)
    <2>1. vma' = vma /\ UNCHANGED <<shows, tlb, owned, windows>>
      BY <1>2, SessionMaps DEF OpenReturn, ReopenStart, ReopenReturn, Reopened, handleVars
    <2>2. \/ \E r : Finish(c, r)
          \/ Goto(c, "reopening")
          \/ Retry(c)
      BY <1>2 DEF OpenReturn, ReopenStart, ReopenReturn
    <2>3. Fresh(c)' /\ \A d \in Client \ {c} : call'[d] = call[d]
      BY <1>1, <2>1, <2>2, FreshFinish, FreshFrame DEF Goto, Retry
    <2> QED
      BY <1>1, <2>1, <2>3, ReachStays, FreshKeeps
  <1>3. CASE PerformOp(c)
    <2>1. PICK r \in Codes : Run(c, r) /\ PerformedOp(c, r)
      BY <1>3 DEF PerformOp
    <2>2. call[c].m \in Performed
      BY <1>1, <1>3 DEF PerformOp, Placed
    <2>3. /\ Reach'
          /\ IF r = "OK" THEN \A h \in owned' \ owned : Owner[h] = c ELSE owned' = owned
      BY <1>1, <2>1, <2>2, RunReaches
    <2>4. (\E e : Finish(c, e)) \/ (r # "OK" /\ Goto(c, "reopen"))
      BY <2>1 DEF PerformedOp, Reconnect, IsLost
    <2>5. Fresh(c)' /\ \A d \in Client \ {c} : call'[d] = call[d]
      BY <1>1, <2>3, <2>4, FreshFinish, FreshFrame DEF Goto
    <2> QED
      BY <1>1, <2>3, <2>5, FreshKeeps
  <1> QED
    BY <1>2, <1>3 DEF CallStep

LEMMA ReachInvInductive == RustSpec => []ReachInv
  <1>1. RustInit => ReachInv
    <2> SUFFICES ASSUME RustInit
                 PROVE  ReachInv
      OBVIOUS
    <2>1. CallInv
      BY DEF RustInit, CallsInit, SessionInit, CallInv, Framed, Placed, Idle, Frame
    <2>2. Reach
      BY DEF RustInit, CallsInit, SessionInit, KmdInit, WindowsInit, Reach, Tlbs, Unused
    <2>3. \A c \in Client : Fresh(c)
      BY DEF RustInit, Fresh, Idle, Frame
    <2> QED
      BY <2>1, <2>2, <2>3 DEF ReachInv
  <1>2. ReachInv /\ [RustNext]_allVars => ReachInv'
    <2> SUFFICES ASSUME ReachInv, [RustNext]_allVars
                 PROVE  Reach' /\ \A c \in Client : Fresh(c)'
      BY RustSteps DEF ReachInv
    <2>1. CASE Outside \/ UNCHANGED allVars
      <3>1. UNCHANGED <<vma, shows, tlb, owned, windows, call>>
        BY <2>1 DEF Outside, SessionEnv, OobReset, Remove, Reprobe, handleVars,
                    allVars, rustVars, sessionVars, kmdVars, windowVars
      <3> QED
        BY <3>1, ReachStays DEF ReachInv, Fresh
    <2> QED
      BY <2>1, ClientStepReaches, CallStepReaches DEF RustNext
  <1> QED
    BY <1>1, <1>2, PTL DEF RustSpec

\* Whatever reopens, resets and removals happen under it, a Window reaches the
\* window of its own Tlb (tlb.rs, Window), for any number of clients and handles.
THEOREM RustWindowsReach == RustSpec => []WindowsReachTheirTlb
  <1>1. ReachInv => WindowsReachTheirTlb
    BY DEF ReachInv, Reach, WindowsReachTheirTlb, Accessed
  <1> QED
    BY <1>1, ReachInvInductive, PTL

------------------------------------------------------------------------------
(* Why a method gives up, and on what it was granted what it returns.       *)
(* Nothing is assumed of close(2) here.                                     *)

\* The session layer, as in SessionProofs.
LEMMA HandleSlots ==
  ASSUME SessionTypeOK, NEW c \in Client, NEW h \in Handle, Bind(c, h) \/ Free(c, h)
  PROVE  SessionTypeOK' /\ SlotStep(c)
  <1>1. UNCHANGED <<fd, flags, req, pc, op>> /\ ret' \in [Client -> Codes]
    BY DEF Bind, Free, Finish, SessionTypeOK
  <1>2. fdtab \in [Fd -> File \cup {NoFile}] /\ vma \in [Addr -> File \cup {NoFile}]
    BY DEF SessionTypeOK, KmdTypeOK
  <1>3. ASSUME NEW maps \in [Addr -> File \cup {NoFile}], Retain(fdtab, maps)
        PROVE  SessionTypeOK' /\ SlotStep(c)
    <2>1. KmdTypeOK' /\ SlotStep(c)
      BY <1>1, <1>2, <1>3, RetainTypes, MappedSlots DEF SessionTypeOK
    <2> QED
      BY <1>1, <2>1 DEF SessionTypeOK
  <1>4. CASE Bind(c, h)
    <2>1. PICK t \in Tlbs, r \in Codes : tt_tlb_bind(fd[c], Home[c], tlb[h], t, r)
      BY <1>4 DEF Bind
    <2>2. CASE UNCHANGED callVars
      BY <1>1, <2>2, StillSlots DEF callVars, kmdVars, SessionTypeOK, KmdTypeOK
    <2>3. ASSUME NEW a, fd[c] # NoFd, Remap(fd[c], tlb[h], a)
          PROVE  SessionTypeOK' /\ SlotStep(c)
      <3> DEFINE maps == [b \in Addr |-> IF b = a THEN fdtab[fd[c]]
                                         ELSE IF b = tlb[h].ptr THEN NoFile ELSE vma[b]]
      <3>1. fdtab[fd[c]] \in File \cup {NoFile}
        BY <2>3 DEF SessionTypeOK, KmdTypeOK
      <3>2. Retain(fdtab, maps) /\ maps \in [Addr -> File \cup {NoFile}]
        BY <1>2, <2>3, <3>1 DEF Remap
      <3> HIDE DEF maps
      <3> QED
        BY <1>3, <3>2
    <2> QED
      BY <2>1, <2>2, <2>3 DEF tt_tlb_bind
  <1>5. CASE Free(c, h)
    <2> DEFINE maps == [b \in Addr |-> IF b = tlb[h].ptr THEN NoFile ELSE vma[b]]
    <2>1. Retain(fdtab, maps) /\ maps \in [Addr -> File \cup {NoFile}]
      BY <1>2, <1>5 DEF Free, tt_tlb_free
    <2> HIDE DEF maps
    <2> QED
      BY <1>3, <2>1
  <1> QED
    BY <1>4, <1>5

\* A step that leaves the kernel's tables and the descriptors alone.
LEMMA ReportedSlots ==
  ASSUME SessionTypeOK, NEW c \in Client, Reported(c), UNCHANGED kmdVars
  PROVE  SessionTypeOK' /\ SlotStep(c)
  <1>1. SlotStep(c)
    BY StillSlots DEF Reported, kmdVars
  <1> QED
    BY <1>1 DEF Reported, SessionTypeOK, KmdTypeOK, kmdVars

LEMMA ClientStepSlots ==
  ASSUME SessionTypeOK, NEW c \in Client, ClientStep(c)
  PROVE  SessionTypeOK' /\ SlotStep(c)
  <1>1. ASSUME NEW r \in Codes, Finish(c, r)
        PROVE  ret' \in [Client -> Codes]
    BY <1>1 DEF Finish, SessionTypeOK
  <1>2. CASE OpenCall(c)
    <2>1. PICK o \in Options[c] : Open(c, Flags(o))
      BY <1>2 DEF OpenCall
    <2>2. Flags(o) \in SUBSET OpenFlags
      BY DEF Flags, OpenFlags
    <2>3. SlotStep(c)
      BY <2>1, OpenSlots
    <2> QED
      BY <2>1, <2>2, <2>3 DEF Open, Return, SessionTypeOK, KmdTypeOK, kmdVars, Ops, Codes
  <1>3. CASE CloseSession(c) \/ ResetSession(c)
    <2>1. PICK r \in Codes : Consume(c, r)
      BY <1>3 DEF CloseSession, ResetSession
    <2>2. PICK e \in Codes : Finish(c, e)
      BY <1>3 DEF CloseSession, ResetSession, ResetResults, Codes
    <2>3. /\ KmdTypeOK'
          /\ \A s \in Fd : fdtab'[s] # NoFile => /\ fdtab'[s] = fdtab[s] /\ fd[c] # s
                                                 /\ st'[fdtab[s]] = st[fdtab[s]]
      BY <2>1, CloseSlots, CloseCallTypes DEF Consume
    <2>4. /\ fd' = [fd EXCEPT ![c] = NoFd] /\ flags' = [flags EXCEPT ![c] = {}]
          /\ req' = [req EXCEPT ![c] = {}] /\ UNCHANGED <<pc, op>>
      BY <2>1 DEF Consume
    <2>5. SlotStep(c)
      BY <2>3, <2>4 DEF SlotStep, SessionTypeOK
    <2> QED
      BY <1>1, <2>2, <2>3, <2>4, <2>5 DEF SessionTypeOK
  <1>4. CASE ResetDevice(c)
    <2>1. PICK r \in Codes : tt_reset(Home[c], r) /\ Finish(c, r)
      BY <1>4 DEF ResetDevice
    <2>2. Reported(c) /\ UNCHANGED kmdVars
      BY <1>1, <1>4, <2>1 DEF ResetDevice, Reported, tt_reset, callVars, SessionTypeOK
    <2> QED
      BY <2>2, ReportedSlots
  <1>5. CASE ReopenCall(c)
    <2>1. Reported(c) /\ UNCHANGED kmdVars
      BY <1>5 DEF ReopenCall, Reported, sessionVars, sessVars, SessionTypeOK
    <2> QED
      BY <2>1, ReportedSlots
  <1>6. ASSUME NEW m, NEW arg, Begin(c, m, arg)
        PROVE  SessionTypeOK' /\ SlotStep(c)
    <2>1. Reported(c) /\ UNCHANGED kmdVars
      BY <1>6 DEF Begin, Return, Reported, SessionTypeOK, Ops, Codes
    <2> QED
      BY <2>1, ReportedSlots
  <1>7. ASSUME NEW h \in Handle, DropWindow(c, h)
        PROVE  SessionTypeOK' /\ SlotStep(c)
    <2>1. Reported(c) /\ UNCHANGED kmdVars
      BY <1>7 DEF DropWindow, Reported, sessionVars, sessVars, SessionTypeOK
    <2> QED
      BY <2>1, ReportedSlots
  <1> QED
    BY <1>2, <1>3, <1>4, <1>5, <1>6, <1>7, HandleSlots DEF ClientStep, Power, Alloc, Inspect

\* An operation under perform leaves the kernel's tables alone.
LEMMA RunStill ==
  ASSUME NEW c \in Client, NEW r \in Codes, Run(c, r), call[c].m \in Performed
  PROVE  UNCHANGED kmdVars
  <1> USE DEF callVars
  <1>1. CASE InfoOp(c, r) \/ TelemetryOp(c, r) \/ VersionOp(c, r) \/ PowerOp(c, r)
    BY <1>1 DEF InfoOp, TelemetryOp, VersionOp, PowerOp, tt_power, IoCall
  <1>2. CASE AllocOp(c, r)
    BY <1>2 DEF AllocOp, tt_tlb_alloc, IoCall
  <1> QED
    BY <1>1, <1>2 DEF Run, Performed

LEMMA CallStepSlots ==
  ASSUME SessionTypeOK, NEW c \in Client, Placed(c), CallStep(c)
  PROVE  SessionTypeOK' /\ SlotStep(c)
  <1>1. CASE PerformOp(c)
    <2>1. PICK r \in Codes : Run(c, r) /\ PerformedOp(c, r)
      BY <1>1 DEF PerformOp
    <2>2. UNCHANGED kmdVars
      BY <1>1, <2>1, RunStill DEF PerformOp, Placed
    <2>3. Reported(c)
      BY <1>1, <2>1 DEF PerformOp, PerformedOp, Finish, Reconnect, Reported, SessionTypeOK, Codes
    <2> QED
      BY <2>2, <2>3, ReportedSlots
  <1>2. CASE OpenReturn(c) \/ ReopenStart(c) \/ ReopenReturn(c)
    <2>1. LifecycleStep(c)
      BY <1>2 DEF OpenReturn, ReopenStart, ReopenReturn, Reopened, LifecycleStep
    <2> QED
      BY <2>1, LifecycleTypes, LifecycleSlots
  <1> QED
    BY <1>1, <1>2 DEF CallStep

\* Client c's descriptor was severed, or its device removed.
Severed(c) == fd[c] # NoFd /\ Io(fd[c]) = "ENODEV"

\* Each reopen of a method in progress but the first has a reset or removal of its
\* own during the method: the descriptor it replaced was live when the one before
\* had opened it.
Caused(c) ==
  /\ call[c].tries \in 0 .. RETRIES
  /\ severings[c] \in 0 .. RETRIES
  /\ call[c].at = "op" =>
       /\ call[c].tries <= severings[c] + 1
       /\ call[c].tries > 0 /\ Severed(c) => call[c].tries <= severings[c]
  /\ call[c].at \in {"reopen", "reopening"} =>
       /\ call[c].tries <= severings[c]
       /\ call[c].m # "reopen" => call[c].tries < RETRIES

CauseInv ==
  /\ SessionTypeOK /\ SlotsHeld /\ CallInv
  /\ severings = [c \in Client |-> severings[c]]
  /\ \A c \in Client : Caused(c)

\* What an operation under perform reports of the descriptor.
LEMMA RunBlames ==
  ASSUME NEW c \in Client, NEW r \in Codes, Run(c, r), call[c].m \in Performed
  PROVE  r # "ENODEV" /\ (IsLost(r) => Severed(c))
  <1> DEFINE io == tt_fail_io(Io(fd[c]))
             Blames(e) == e # "ENODEV" /\ (IsLost(e) => Severed(c))
  <1>1. io # "ENODEV" /\ (io = "ECONNRESET" => Io(fd[c]) = "ENODEV")
    BY DEF tt_fail_io, Io
  <1>2. Blames(IF fd[c] = NoFd THEN "ENOTCONN" ELSE io)
    BY <1>1 DEF IsLost, Severed
  <1>3. \A e : IoCall(fd[c], e) => Blames(e)
    BY <1>2 DEF IoCall
  <1> SUFFICES Blames(r)
    OBVIOUS
  <1>4. CASE InfoOp(c, r)
    BY <1>3, <1>4 DEF InfoOp
  <1>5. CASE TelemetryOp(c, r)
    <2>1. PICK e \in Codes : IoCall(fd[c], e) /\ r \in IF e = "OK" THEN {"OK", "EIO"} ELSE {e}
      BY <1>5 DEF TelemetryOp
    <2>2. Blames(e) /\ r \in {e, "OK", "EIO"}
      BY <1>3, <2>1
    <2> QED
      BY <2>2 DEF IsLost
  <1>6. CASE VersionOp(c, r)
    BY <1>6 DEF VersionOp, IsLost
  <1>7. CASE PowerOp(c, r)
    BY <1>2, <1>7 DEF PowerOp, tt_power
  <1>8. CASE AllocOp(c, r)
    <2>1. PICK t \in Tlbs : tt_tlb_alloc(fd[c], t, r)
      BY <1>8 DEF AllocOp
    <2>2. IoCall(fd[c], r) \/ r \in {"ENOMEM", "OK"}
      BY <2>1 DEF tt_tlb_alloc
    <2> QED
      BY <1>3, <2>2 DEF IsLost
  <1> QED
    BY <1>4, <1>5, <1>6, <1>7, <1>8 DEF Run, Performed

\* A step that leaves client d's method alone and worsens no slot.
LEMMA CausedStays ==
  ASSUME NEW d \in Client, Caused(d), SessionTypeOK, fd'[d] = fd[d], call'[d] = call[d],
         severings'[d] = severings[d], \A s \in Fd : Io(s)' = "ENODEV" => Io(s) = "ENODEV"
  PROVE  Caused(d)'
  <1>1. Severed(d)' => Severed(d)
    BY DEF Severed, SessionTypeOK, Io
  <1> QED
    BY <1>1 DEF Caused

\* A method that starts or ends.
LEMMA CausedFresh ==
  ASSUME NEW c \in Client, Caused(c), call'[c].tries = 0, severings'[c] \in {0, severings[c]},
         call'[c].at \in {"reopen", "reopening"} => call'[c].m = "reopen"
  PROVE  Caused(c)'
  BY RustAssumption DEF Caused

\* A step of client c: what is left to show is what it does to c's own method.
LEMMA CauseStep ==
  ASSUME CauseInv, NEW c \in Client, SessionTypeOK', CallInv', SlotStep(c),
         \A d \in Client \ {c} : call'[d] = call[d],
         severings' \in {severings, [severings EXCEPT ![c] = 0]}, Caused(c)'
  PROVE  CauseInv'
  <1>1. SlotsHeld' /\ \A s \in Fd : Io(s)' = "ENODEV" => Io(s) = "ENODEV"
    BY SlotStepKeeps DEF CauseInv
  <1>2. ASSUME NEW d \in Client \ {c}
        PROVE  Caused(d)'
    <2>1. fd'[d] = fd[d] /\ call'[d] = call[d] /\ severings'[d] = severings[d]
      BY DEF SlotStep, CauseInv
    <2> QED
      BY <1>1, <2>1, CausedStays DEF CauseInv
  <1>3. severings' = [d \in Client |-> severings'[d]]
    BY DEF CauseInv
  <1> QED
    BY <1>1, <1>2, <1>3 DEF CauseInv

LEMMA ClientStepCauses ==
  ASSUME CauseInv, NEW c \in Client, ClientStep(c)
  PROVE  CauseInv'
  <1>1. /\ SessionTypeOK' /\ SlotStep(c) /\ CallInv' /\ Framed /\ Caused(c)
        /\ severings = [d \in Client |-> severings[d]]
    BY ClientStepSlots, ClientStepKeeps DEF CauseInv, CallInv
  <1>2. ASSUME NEW f, call' = [call EXCEPT ![c] = f], f.tries = 0,
               f.at = "reopen" => f.m = "reopen", f.at # "reopening",
               severings' \in {severings, [severings EXCEPT ![c] = 0]}
        PROVE  CauseInv'
    <2>1. call'[c] = f /\ \A d \in Client \ {c} : call'[d] = call[d]
      BY <1>1, <1>2 DEF Framed
    <2>2. severings'[c] \in {0, severings[c]}
      BY <1>1, <1>2
    <2>3. Caused(c)'
      BY <1>1, <1>2, <2>1, <2>2, CausedFresh
    <2> QED
      BY <1>1, <1>2, <2>1, <2>3, CauseStep
  <1>3. ASSUME NEW e, Finish(c, e)
        PROVE  CauseInv'
    <2>1. Idle.tries = 0 /\ Idle.at = "idle"
      BY DEF Idle, Frame
    <2>2. /\ call' = [call EXCEPT ![c] = Idle]
          /\ severings' \in {severings, [severings EXCEPT ![c] = 0]}
      BY <1>3 DEF Finish
    <2> QED
      BY <1>2, <2>1, <2>2
  <1>4. CASE OpenCall(c) \/ ReopenCall(c)
    <2>1. PICK at \in {"open", "reopen"} : call' = [call EXCEPT ![c] = Frame(at, at, 0, NoArg)]
      BY <1>4 DEF OpenCall, ReopenCall
    <2> DEFINE f == Frame(at, at, 0, NoArg)
    <2>2. f.tries = 0 /\ f.at # "reopening" /\ (f.at = "reopen" => f.m = "reopen")
      BY DEF Frame
    <2>3. call' = [call EXCEPT ![c] = f] /\ severings' = severings
      BY <1>4, <2>1 DEF OpenCall, ReopenCall
    <2> HIDE DEF f
    <2> QED
      BY <1>2, <2>2, <2>3
  <1>5. CASE CloseSession(c) \/ ResetSession(c) \/ ResetDevice(c)
    BY <1>3, <1>5 DEF CloseSession, ResetSession, ResetDevice
  <1>6. ASSUME NEW m, NEW arg, Begin(c, m, arg)
        PROVE  CauseInv'
    <2> DEFINE f == Frame("op", m, 0, arg)
    <2>1. f.tries = 0 /\ f.at = "op"
      BY DEF Frame
    <2>2. call' = [call EXCEPT ![c] = f] /\ severings' = severings
      BY <1>6 DEF Begin
    <2> HIDE DEF f
    <2> QED
      BY <1>2, <2>1, <2>2
  <1>7. ASSUME NEW h \in Handle, Bind(c, h) \/ Free(c, h)
        PROVE  CauseInv'
    BY <1>3, <1>7 DEF Bind, Free
  <1>8. ASSUME NEW h \in Handle, DropWindow(c, h)
        PROVE  CauseInv'
    <2>1. UNCHANGED <<call, fd, severings, fdtab, st>>
      BY <1>8 DEF DropWindow, sessionVars, sessVars, kmdVars
    <2>2. Caused(c)'
      BY <1>1, <2>1 DEF Caused, Severed, Io
    <2> QED
      BY <1>1, <2>1, <2>2, CauseStep
  <1> QED
    BY <1>4, <1>5, <1>6, <1>7, <1>8 DEF ClientStep, Power, Alloc, Inspect

LEMMA CallStepCauses ==
  ASSUME CauseInv, NEW c \in Client, CallStep(c)
  PROVE  CauseInv'
  <1>1. /\ SessionTypeOK' /\ SlotStep(c) /\ CallInv' /\ Framed /\ Caused(c) /\ Placed(c)
        /\ severings = [d \in Client |-> severings[d]]
    BY CallStepSlots, PerformOpKeeps, ReopenKeeps DEF CauseInv, CallInv, CallStep
  <1>2. ASSUME NEW e, Finish(c, e)
        PROVE  CauseInv'
    <2>1. call'[c] = Idle /\ \A d \in Client \ {c} : call'[d] = call[d]
      BY <1>1, <1>2 DEF Framed, Finish
    <2>2. severings'[c] \in {0, severings[c]} /\ severings' = [severings EXCEPT ![c] = 0]
      BY <1>1, <1>2 DEF Finish
    <2>3. Caused(c)'
      BY <1>1, <2>1, <2>2, CausedFresh DEF Idle, Frame
    <2> QED
      BY <1>1, <2>1, <2>2, <2>3, CauseStep
  <1>3. ASSUME NEW at, NEW tries,
               call' = [call EXCEPT ![c] = Frame(at, call[c].m, tries, call[c].arg)],
               severings' = severings,
               call'[c] = Frame(at, call[c].m, tries, call[c].arg) => Caused(c)'
        PROVE  CauseInv'
    <2>1. /\ call'[c] = Frame(at, call[c].m, tries, call[c].arg)
          /\ \A d \in Client \ {c} : call'[d] = call[d]
      BY <1>1, <1>3 DEF Framed
    <2> QED
      BY <1>1, <1>3, <2>1, CauseStep
  <1>4. CASE PerformOp(c)
    <2>1. PICK r \in Codes : Run(c, r) /\ PerformedOp(c, r)
      BY <1>4 DEF PerformOp
    <2>2. (\E e : Finish(c, e)) \/ (IsLost(r) /\ call[c].tries < RETRIES /\ Goto(c, "reopen"))
      BY <2>1 DEF PerformedOp, Reconnect
    <2>3. IsLost(r) => Severed(c)
      BY <1>1, <1>4, <2>1, RunBlames DEF PerformOp, Placed
    <2>4. CASE IsLost(r) /\ call[c].tries < RETRIES /\ Goto(c, "reopen")
      <3>1. call[c].tries <= severings[c]
        BY <1>1, <1>4, <2>3, <2>4 DEF PerformOp, Caused
      <3>2. call'[c] = Frame("reopen", call[c].m, call[c].tries, call[c].arg) => Caused(c)'
        BY <1>1, <2>4, <3>1 DEF Goto, Caused, Frame
      <3> QED
        BY <1>3, <2>4, <3>2 DEF Goto
    <2> QED
      BY <1>2, <2>2, <2>4
  <1>5. CASE ReopenStart(c)
    <2>1. call[c].at = "reopen" /\ Goto(c, "reopening")
      BY <1>5 DEF ReopenStart
    <2>2. call'[c] = Frame("reopening", call[c].m, call[c].tries, call[c].arg) => Caused(c)'
      BY <1>1, <2>1 DEF Goto, Caused, Frame
    <2> QED
      BY <1>3, <2>1, <2>2 DEF Goto
  <1>6. CASE ReopenReturn(c) /\ Retry(c) /\ ret'[c] = "OK" /\ call[c].m # "reopen"
    <2>1. call[c].at = "reopening" /\ OpenOk(c)
      <3>1. call[c].at = "reopening" /\ (OpenOk(c) \/ OpenFail(c))
        BY <1>6 DEF ReopenReturn, Reopened
      <3>2. OpenFail(c) => ret'[c] # "OK"
        BY <1>1 DEF OpenFail, Return, OpenErrno, Framed
      <3> QED
        BY <1>6, <3>1, <3>2
    <2>2. ~Severed(c)'
      <3>1. PICK d \in Fd : OpenGrants(Home[c], req[c], d) /\ fd' = [fd EXCEPT ![c] = d]
        BY <2>1 DEF OpenOk
      <3>2. PICK f \in File : /\ st' = [st EXCEPT ![f] = "live"]
                              /\ fdtab' = [fdtab EXCEPT ![d] = f]
        BY <3>1 DEF OpenGrants, Grant
      <3> QED
        BY <1>1, <3>1, <3>2, KmdAssumption DEF Severed, Io, CauseInv, SessionTypeOK, KmdTypeOK
    <2>3. call'[c] = Frame("op", call[c].m, call[c].tries + 1, call[c].arg) => Caused(c)'
      BY <1>1, <1>6, <2>1, <2>2, RustAssumption DEF Retry, Caused, Frame
    <2> QED
      BY <1>3, <1>6, <2>3 DEF Retry
  <1> QED
    BY <1>2, <1>4, <1>5, <1>6 DEF CallStep, OpenReturn, ReopenReturn

\* A reset or a removal counts for every method in progress.
LEMMA OutsideCauses ==
  ASSUME CauseInv, Outside
  PROVE  CauseInv'
  <1>1. /\ UNCHANGED <<fdtab, fd, flags, req, pc, op, ret, call>>
        /\ present \/ st' = st
    BY DEF Outside, SessionEnv, OobReset, Remove, Reprobe, sessVars
  <1>2. SessionTypeOK'
    BY EnvTypes DEF Outside, SessionEnv, sessVars, CauseInv, SessionTypeOK
  <1>3. SlotsHeld' /\ CallInv'
    BY <1>1, StillKeeps DEF SlotsHeld, CauseInv
  <1>4. severings' = [c \in Client |->
          IF call[c].at \in {"op", "reopen", "reopening"} /\ present /\ severings[c] < RETRIES
          THEN severings[c] + 1 ELSE severings[c]]
    BY DEF Outside
  <1>5. ASSUME NEW c \in Client
        PROVE  Caused(c)'
    <2>1. Caused(c) /\ call'[c] = call[c] /\ fd'[c] = fd[c]
      BY <1>1 DEF CauseInv
    <2>2. severings'[c] = IF call[c].at \in {"op", "reopen", "reopening"} /\ present
                             /\ severings[c] < RETRIES
                          THEN severings[c] + 1 ELSE severings[c]
      BY <1>4
    <2>3. CASE present
      BY <2>1, <2>2, <2>3, RustAssumption DEF Caused
    <2>4. CASE ~present
      <3>1. Severed(c)' <=> Severed(c)
        BY <1>1, <2>4 DEF Severed, Io
      <3>2. severings'[c] = severings[c]
        BY <2>2, <2>4
      <3> QED
        BY <2>1, <3>1, <3>2 DEF Caused
    <2> QED
      BY <2>3, <2>4
  <1> QED
    BY <1>2, <1>3, <1>4, <1>5 DEF CauseInv

LEMMA CauseInvInductive == RustSpec => []CauseInv
  <1>1. RustInit => CauseInv
    <2> SUFFICES ASSUME RustInit
                 PROVE  CauseInv
      OBVIOUS
    <2>1. CallInv
      BY DEF RustInit, CallsInit, SessionInit, CallInv, Framed, Placed, Idle, Frame
    <2>2. SessionTypeOK /\ SlotsHeld
      BY SessionInvInit DEF RustInit, CallsInit, SessionInv, SessionInit, KmdInit, SlotsHeld
    <2>3. ASSUME NEW c \in Client
          PROVE  Caused(c)
      <3>1. call[c] = Idle /\ severings[c] = 0
        BY DEF RustInit
      <3> QED
        BY <3>1, RustAssumption DEF Caused, Idle, Frame
    <2>4. severings = [c \in Client |-> severings[c]]
      BY DEF RustInit
    <2> QED
      BY <2>1, <2>2, <2>3, <2>4 DEF CauseInv
  <1>2. CauseInv /\ [RustNext]_allVars => CauseInv'
    <2> SUFFICES ASSUME CauseInv, [RustNext]_allVars
                 PROVE  CauseInv'
      OBVIOUS
    <2>1. CASE UNCHANGED allVars
      <3>1. UNCHANGED <<present, st, excl, fdtab, vma, fd, flags, req, pc, op, ret, call, severings>>
        BY <2>1 DEF allVars, rustVars, sessionVars, sessVars, kmdVars
      <3>2. SessionTypeOK' /\ SlotsHeld' /\ CallInv'
        BY <3>1, StillKeeps DEF CauseInv, SessionTypeOK, KmdTypeOK, SlotsHeld
      <3>3. \A c \in Client : Caused(c)'
        BY <3>1 DEF CauseInv, Caused, Severed, Io
      <3> QED
        BY <3>1, <3>2, <3>3 DEF CauseInv
    <2> QED
      BY <2>1, ClientStepCauses, CallStepCauses, OutsideCauses DEF RustNext
  <1> QED
    BY <1>1, <1>2, PTL DEF RustSpec

\* A method ends by a step of its own.
LEMMA EndsItself ==
  ASSUME CallInv, NEW c \in Client, call[c].at # "idle", call'[c].at = "idle", RustNext
  PROVE  \/ PerformOp(c)
         \/ OpenReturn(c) /\ call[c].m = "open"
         \/ ReopenReturn(c) /\ (call[c].m = "reopen" \/ ret'[c] # "OK")
  <1>1. Framed /\ Placed(c)
    BY DEF CallInv
  <1>2. ASSUME NEW d \in Client, ClientStep(d)
        PROVE  FALSE
    <2>1. call[d].at = "idle" \/ UNCHANGED call
      BY <1>2 DEF ClientStep, OpenCall, CloseSession, ResetSession, ResetDevice, ReopenCall,
                  Power, Alloc, Inspect, Begin, Bind, Free, DropWindow, Can
    <2>2. call' = call \/ \E f : call' = [call EXCEPT ![d] = f]
      BY <1>2 DEF ClientStep, OpenCall, CloseSession, ResetSession, ResetDevice, ReopenCall,
                  Power, Alloc, Inspect, Begin, Bind, Free, DropWindow, Finish
    <2> QED
      BY <1>1, <2>1, <2>2 DEF Framed
  <1>3. ASSUME NEW d \in Client \ {c}, CallStep(d)
        PROVE  FALSE
    <2>1. \E f : call' = [call EXCEPT ![d] = f]
      BY <1>3 DEF CallStep, OpenReturn, PerformOp, PerformedOp, Reconnect, ReopenStart,
                  ReopenReturn, Finish, Goto, Retry
    <2> QED
      BY <1>1, <2>1 DEF Framed
  <1>4. ~ReopenStart(c) /\ ~Outside
    BY <1>1 DEF ReopenStart, Goto, Frame, Framed, Outside
  <1>5. CASE OpenReturn(c)
    BY <1>1, <1>5 DEF OpenReturn, Placed
  <1>6. CASE ReopenReturn(c)
    <2>1. ~Retry(c)
      BY <1>1 DEF Retry, Frame, Framed
    <2> QED
      BY <1>6, <2>1 DEF ReopenReturn
  <1> QED
    BY <1>2, <1>3, <1>4, <1>5, <1>6 DEF RustNext, CallStep

\* Where no signal interrupts open(2) and no process runs out of slots, a method
\* reports ENODEV only of a device that is gone, or that was reset RETRIES times
\* while the method ran, whether or not close(2) fails.
THEOREM RustGivesUpForCause ==
  ASSUME ~Signals, EnoughSlots
  PROVE  RustSpec => GivesUpForCause
  <1> DEFINE A == \A c \in Client :
                    /\ call[c].at \in {"op", "reopening"} /\ call'[c].at = "idle"
                    /\ ret'[c] = "ENODEV"
                    => ~present \/ severings[c] >= RETRIES
  <1>1. CauseInv /\ [RustNext]_allVars => [A]_allVars
    <2> SUFFICES ASSUME CauseInv, RustNext, NEW c \in Client,
                        call[c].at \in {"op", "reopening"}, call'[c].at = "idle",
                        ret'[c] = "ENODEV"
                 PROVE  ~present \/ severings[c] >= RETRIES
      OBVIOUS
    <2>1. Framed /\ Placed(c) /\ Caused(c) /\ SessionTypeOK /\ SlotsHeld
      BY DEF CauseInv, CallInv
    <2>2. PerformOp(c) \/ ReopenReturn(c)
      BY EndsItself DEF OpenReturn, CauseInv
    <2>3. CASE PerformOp(c)
      <3>1. PICK r \in Codes : Run(c, r) /\ PerformedOp(c, r)
        BY <2>3 DEF PerformOp
      <3>2. r # "ENODEV" /\ (IsLost(r) => Severed(c))
        BY <2>1, <2>3, <3>1, RunBlames DEF PerformOp, Placed
      <3>3. ~Reconnect(c)
        BY <2>1 DEF Reconnect, Goto, Frame, Framed
      <3>4. ~Finish(c, r)
        BY <2>1, <3>2 DEF Finish, Framed
      <3>5. IsLost(r) /\ ~(call[c].tries < RETRIES)
        BY <3>1, <3>3, <3>4 DEF PerformedOp
      <3> QED
        BY <2>1, <2>3, <3>2, <3>5, RustAssumption DEF PerformOp, Caused
    <2>4. CASE ReopenReturn(c)
      <3>1. OpenOk(c) \/ OpenFail(c)
        BY <2>4 DEF ReopenReturn, Reopened
      <3>2. ~OpenOk(c)
        BY <2>1 DEF OpenOk, Return, Framed
      <3> QED
        BY <2>1, <3>1, <3>2, NoDeviceIsGone
    <2> QED
      BY <2>2, <2>3, <2>4
  <1> QED
    BY <1>1, CauseInvInductive, PTL DEF RustSpec, GivesUpForCause

\* The driver's own tables are functions on its windows and descriptions.
Kept ==
  /\ holder = [w \in Window |-> holder[w]]
  /\ power = [f \in File |-> power[f]]

LEMMA SettleKeeps ==
  ASSUME Settle
  PROVE  Kept'
  BY DEF Settle, Reclaim, Kept

LEMMA HandleKept ==
  ASSUME Kept, NEW c \in Client, NEW h \in Handle, Bind(c, h) \/ Free(c, h)
  PROVE  Kept'
  <1>1. CASE Bind(c, h)
    <2>1. UNCHANGED callVars \/ Settle
      BY <1>1 DEF Bind, tt_tlb_bind, Remap
    <2> QED
      BY <2>1, SettleKeeps DEF callVars, windowVars, Kept
  <1>2. CASE Free(c, h)
    BY <1>2 DEF Free, tt_tlb_free, Kept
  <1> QED
    BY <1>1, <1>2

LEMMA RunKept ==
  ASSUME Kept, NEW c \in Client, NEW r \in Codes, Run(c, r), call[c].m \in Performed
  PROVE  Kept'
  <1> USE DEF callVars, windowVars
  <1>1. CASE InfoOp(c, r) \/ TelemetryOp(c, r) \/ VersionOp(c, r)
    BY <1>1 DEF InfoOp, TelemetryOp, VersionOp, IoCall, Kept
  <1>2. CASE PowerOp(c, r)
    BY <1>2 DEF PowerOp, tt_power, Kept
  <1>3. CASE AllocOp(c, r)
    BY <1>3 DEF AllocOp, tt_tlb_alloc, IoCall, Kept
  <1> QED
    BY <1>1, <1>2, <1>3 DEF Run, Performed

LEMMA KeptSteps ==
  ASSUME CallInv, Kept, [RustNext]_allVars
  PROVE  Kept'
  <1>1. ASSUME NEW c \in Client, ClientStep(c)
        PROVE  Kept'
    <2>1. CASE CloseSession(c) \/ ResetSession(c)
      BY <2>1, SettleKeeps DEF CloseSession, ResetSession, Consume
    <2>2. CASE OpenCall(c) \/ ResetDevice(c) \/ ReopenCall(c) \/ Power(c) \/ Alloc(c) \/ Inspect(c)
      <3>1. UNCHANGED <<holder, power>>
        BY <2>2 DEF OpenCall, ResetDevice, tt_reset, callVars, windowVars, ReopenCall, Power, Alloc,
                    Inspect, Begin
      <3> QED
        BY <3>1 DEF Kept
    <2>3. ASSUME NEW h \in Handle, Bind(c, h) \/ DropWindow(c, h) \/ Free(c, h)
          PROVE  Kept'
      BY <2>3, HandleKept DEF DropWindow, windowVars, Kept
    <2> QED
      BY <1>1, <2>1, <2>2, <2>3 DEF ClientStep
  <1>2. ASSUME NEW c \in Client, CallStep(c)
        PROVE  Kept'
    <2>1. CASE PerformOp(c)
      BY <2>1, RunKept DEF PerformOp, CallInv, Placed
    <2> QED
      BY <1>2, <2>1, SettleKeeps DEF CallStep, OpenReturn, ReopenStart, ReopenReturn, Reopened
  <1>3. CASE Outside
    BY <1>3, SettleKeeps DEF Outside
  <1>4. CASE UNCHANGED allVars
    BY <1>4 DEF allVars, windowVars, Kept
  <1> QED
    BY <1>1, <1>2, <1>3, <1>4 DEF RustNext

\* What a method was granted is granted to the descriptor its session has when it
\* returns, however often it was reopened on the way, for any number of clients
\* and handles and whether or not close(2) fails.
THEOREM RustGrantedOnCurrent == RustSpec => GrantedOnCurrent
  <1> DEFINE A == \A c \in Client :
                    call[c].at # "idle" /\ call'[c].at = "idle" /\ ret'[c] = "OK" =>
                      LET arg == call[c].arg
                      IN  /\ call[c].m = "power" => power'[FileOf(c)'] = arg.feats
                          /\ call[c].m = "alloc" => holder'[tlb'[arg.h].id] = FileOf(c)'
  <1>1. RustInit => Kept
    BY DEF RustInit, CallsInit, WindowsInit, Kept
  <1>2. CallInv /\ Kept /\ [RustNext]_allVars => Kept'
    BY KeptSteps
  <1>3. ReachInv /\ CauseInv /\ Kept /\ [RustNext]_allVars => [A]_allVars
    <2> SUFFICES ASSUME ReachInv, CauseInv, Kept, RustNext, NEW c \in Client,
                        call[c].at # "idle", call'[c].at = "idle", ret'[c] = "OK",
                        call[c].m \in {"power", "alloc"}
                 PROVE  /\ call[c].m = "power" => power'[FileOf(c)'] = call[c].arg.feats
                        /\ call[c].m = "alloc" => holder'[tlb'[call[c].arg.h].id] = FileOf(c)'
      OBVIOUS
    <2>1. Framed /\ Reach /\ Fresh(c) /\ SessionTypeOK
      BY DEF ReachInv, CauseInv, CallInv
    <2>2. PerformOp(c)
      BY EndsItself DEF ReachInv
    <2>3. PICK r \in Codes : Run(c, r) /\ PerformedOp(c, r)
      BY <2>2 DEF PerformOp
    <2>4. r = "OK"
      <3>1. ~Reconnect(c) /\ ~Finish(c, "ENODEV")
        BY <2>1 DEF Reconnect, Goto, Finish, Frame, Framed
      <3> QED
        BY <2>1, <2>3, <3>1 DEF PerformedOp, Finish, Framed
    <2>5. fd' = fd
      BY <2>2 DEF PerformOp
    <2>6. CASE call[c].m = "power"
      <3>1. tt_power(fd[c], call[c].arg.feats, "OK")
        BY <2>3, <2>4, <2>6 DEF Run, PowerOp
      <3>2. fd[c] # NoFd /\ Io(fd[c]) = "OK"
        BY <3>1 DEF tt_power, tt_fail_io
      <3>3. fd[c] \in Fd /\ fdtab[fd[c]] \in File
        BY <2>1, <3>2 DEF Io, SessionTypeOK, KmdTypeOK
      <3>4. power' = [power EXCEPT ![fdtab[fd[c]]] = call[c].arg.feats] /\ fdtab' = fdtab
        BY <3>1 DEF tt_power, kmdVars
      <3>5. FileOf(c)' = fdtab[fd[c]]
        BY <2>5, <3>2, <3>4 DEF FileOf
      <3> QED
        BY <2>6, <3>3, <3>4, <3>5 DEF Kept
    <2>7. CASE call[c].m = "alloc"
      <3> DEFINE h == call[c].arg.h
      <3>1. h \in Handle
        BY <2>1, <2>7 DEF Fresh
      <3>2. PICK t \in Tlbs : tt_tlb_alloc(fd[c], t, "OK") /\ tlb' = [tlb EXCEPT ![h] = t]
        BY <2>3, <2>4, <2>7 DEF Run, AllocOp
      <3>3. tlb'[h] = t
        BY <2>1, <3>1, <3>2 DEF Reach
      <3>4. PICK w \in Window : /\ holder' = [holder EXCEPT ![w] = fdtab[fd[c]]]
                                /\ t = [id |-> w, ptr |-> NoAddr]
        BY <3>2 DEF tt_tlb_alloc
      <3>5. fd[c] # NoFd /\ fdtab' = fdtab
        BY <3>2 DEF tt_tlb_alloc, kmdVars
      <3>6. FileOf(c)' = fdtab[fd[c]]
        BY <2>5, <3>5 DEF FileOf
      <3> QED
        BY <2>7, <3>3, <3>4, <3>6 DEF Kept
    <2> QED
      BY <2>6, <2>7
  <1> QED
    BY <1>1, <1>2, <1>3, CallInvInductive, ReachInvInductive, CauseInvInductive, PTL
       DEF RustSpec, GrantedOnCurrent

------------------------------------------------------------------------------
(* Types.  The proofs above carry those of the sessions, the handles and    *)
(* the counters; what is left is what was granted and what was asked for.   *)

GivenTypes ==
  /\ holder \in [Window -> File \cup {NoFile}]
  /\ shows \in [Addr -> Window \cup {NoWindow}]
  /\ power \in [File -> SUBSET PowerFlag]

Args == [h: Handle, feats: SUBSET PowerFlag]

AskTypes ==
  /\ alive \subseteq Client
  /\ opts \in [Client -> [excl: BOOLEAN, nonblock: BOOLEAN, persist: BOOLEAN]]
  /\ \A c \in Client :
       /\ call[c] = Frame(call[c].at, call[c].m, call[c].tries, call[c].arg)
       /\ call[c].arg \in Args

LEMMA SettleTypes ==
  ASSUME GivenTypes, Settle, UNCHANGED shows
  PROVE  GivenTypes'
  BY DEF Settle, Reclaim, GivenTypes

LEMMA HandleTypes ==
  ASSUME GivenTypes, tlb \in [Handle -> Tlbs], NEW c \in Client, NEW h \in Handle,
         Bind(c, h) \/ Free(c, h)
  PROVE  GivenTypes'
  <1>1. tlb[h].id \in Window \cup {NoWindow}
    BY DEF Tlbs
  <1>2. CASE Bind(c, h)
    <2>1. UNCHANGED callVars \/ \E a : Remap(fd[c], tlb[h], a)
      BY <1>2 DEF Bind, tt_tlb_bind
    <2>2. CASE UNCHANGED callVars
      BY <2>2 DEF callVars, windowVars, GivenTypes
    <2>3. ASSUME NEW a, Remap(fd[c], tlb[h], a)
          PROVE  GivenTypes'
      BY <1>1, <2>3 DEF Remap, Settle, Reclaim, GivenTypes
    <2> QED
      BY <2>1, <2>2, <2>3
  <1>3. CASE Free(c, h)
    BY <1>3 DEF Free, tt_tlb_free, GivenTypes
  <1> QED
    BY <1>2, <1>3

LEMMA RunTypes ==
  ASSUME GivenTypes, AskTypes, SessionTypeOK, NEW c \in Client, NEW r \in Codes, Run(c, r),
         call[c].m \in Performed
  PROVE  GivenTypes'
  <1> USE DEF callVars, windowVars
  <1>1. CASE InfoOp(c, r) \/ TelemetryOp(c, r) \/ VersionOp(c, r)
    BY <1>1 DEF InfoOp, TelemetryOp, VersionOp, IoCall, GivenTypes
  <1>2. CASE PowerOp(c, r)
    <2>1. call[c].arg.feats \in SUBSET PowerFlag
      BY DEF AskTypes, Args
    <2> QED
      BY <1>2, <2>1 DEF PowerOp, tt_power, GivenTypes
  <1>3. CASE AllocOp(c, r)
    <2>1. PICK t \in Tlbs : tt_tlb_alloc(fd[c], t, r)
      BY <1>3 DEF AllocOp
    <2>2. CASE IoCall(fd[c], r) \/ IoCall(fd[c], "OK")
      BY <2>2 DEF IoCall, GivenTypes
    <2>3. CASE ~(IoCall(fd[c], r) \/ IoCall(fd[c], "OK"))
      <3>1. /\ fd[c] # NoFd /\ Io(fd[c]) = "OK" /\ UNCHANGED <<shows, power>>
            /\ \E w \in Window : holder' = [holder EXCEPT ![w] = fdtab[fd[c]]]
        BY <2>1, <2>3 DEF tt_tlb_alloc
      <3>2. fdtab[fd[c]] \in File
        BY <3>1 DEF Io, SessionTypeOK, KmdTypeOK
      <3> QED
        BY <3>1, <3>2 DEF GivenTypes
    <2> QED
      BY <2>2, <2>3
  <1> QED
    BY <1>1, <1>2, <1>3 DEF Run, Performed

LEMMA GivenTypesKeep ==
  ASSUME CallInv, SessionTypeOK, tlb \in [Handle -> Tlbs], GivenTypes, AskTypes,
         [RustNext]_allVars
  PROVE  GivenTypes'
  <1>1. ASSUME NEW c \in Client, ClientStep(c)
        PROVE  GivenTypes'
    <2>1. CASE CloseSession(c) \/ ResetSession(c)
      BY <2>1, SettleTypes DEF CloseSession, ResetSession, Consume
    <2>2. CASE OpenCall(c) \/ ResetDevice(c) \/ ReopenCall(c) \/ Power(c) \/ Alloc(c) \/ Inspect(c)
      <3>1. UNCHANGED <<holder, shows, power>>
        BY <2>2 DEF OpenCall, ResetDevice, tt_reset, callVars, windowVars, ReopenCall, Power, Alloc,
                    Inspect, Begin
      <3> QED
        BY <3>1 DEF GivenTypes
    <2>3. ASSUME NEW h \in Handle, Bind(c, h) \/ DropWindow(c, h) \/ Free(c, h)
          PROVE  GivenTypes'
      BY <2>3, HandleTypes DEF DropWindow, windowVars, GivenTypes
    <2> QED
      BY <1>1, <2>1, <2>2, <2>3 DEF ClientStep
  <1>2. ASSUME NEW c \in Client, CallStep(c)
        PROVE  GivenTypes'
    <2>1. CASE PerformOp(c)
      BY <2>1, RunTypes DEF PerformOp, CallInv, Placed
    <2> QED
      BY <1>2, <2>1, SettleTypes DEF CallStep, OpenReturn, ReopenStart, ReopenReturn, Reopened
  <1>3. CASE Outside
    BY <1>3, SettleTypes DEF Outside
  <1>4. CASE UNCHANGED allVars
    BY <1>4 DEF allVars, windowVars, GivenTypes
  <1> QED
    BY <1>1, <1>2, <1>3, <1>4 DEF RustNext

\* A step that puts a frame of client c's in place of its last.
LEMMA AskMoves ==
  ASSUME Framed, AskTypes, NEW c \in Client, NEW at, NEW m, NEW tries, NEW arg \in Args,
         call' = [call EXCEPT ![c] = Frame(at, m, tries, arg)],
         alive' \subseteq alive \cup {c},
         \/ opts' = opts
         \/ \E o \in [excl: BOOLEAN, nonblock: BOOLEAN, persist: BOOLEAN] :
              opts' = [opts EXCEPT ![c] = o]
  PROVE  AskTypes'
  <1>1. /\ alive' \subseteq Client
        /\ opts' \in [Client -> [excl: BOOLEAN, nonblock: BOOLEAN, persist: BOOLEAN]]
    BY DEF AskTypes
  <1>2. ASSUME NEW d \in Client
        PROVE  /\ call'[d] = Frame(call'[d].at, call'[d].m, call'[d].tries, call'[d].arg)
               /\ call'[d].arg \in Args
    <2>1. call'[d] = IF d = c THEN Frame(at, m, tries, arg) ELSE call[d]
      BY DEF Framed
    <2> QED
      BY <2>1 DEF AskTypes, Frame
  <1> QED
    BY <1>1, <1>2 DEF AskTypes

LEMMA AskStays ==
  ASSUME AskTypes, UNCHANGED <<call, alive, opts>>
  PROVE  AskTypes'
  BY DEF AskTypes

LEMMA AskTypesKeep ==
  ASSUME Handle # {}, CallInv, AskTypes, [RustNext]_allVars
  PROVE  AskTypes'
  <1> DEFINE Opts == [excl: BOOLEAN, nonblock: BOOLEAN, persist: BOOLEAN]
  <1>1. NoArg \in Args /\ Blank \in Opts
    BY DEF NoArg, Args, Blank
  <1>2. Framed /\ \A c \in Client : call[c].arg \in Args
    BY DEF CallInv, AskTypes
  <1>3. ASSUME NEW c \in Client, NEW r, Finish(c, r), alive' \subseteq alive \cup {c},
               opts' = opts \/ opts' = [opts EXCEPT ![c] = Blank]
        PROVE  AskTypes'
    <2>1. call' = [call EXCEPT ![c] = Frame("idle", "none", 0, NoArg)]
      BY <1>3 DEF Finish, Idle
    <2> QED
      BY <1>1, <1>2, <1>3, <2>1, AskMoves
  <1>4. ASSUME NEW c \in Client, NEW at, Goto(c, at), UNCHANGED <<alive, opts>>
        PROVE  AskTypes'
    <2>1. call' = [call EXCEPT ![c] = Frame(at, call[c].m, call[c].tries, call[c].arg)]
      BY <1>2, <1>4 DEF Goto, Framed
    <2> QED
      BY <1>2, <1>4, <2>1, AskMoves
  <1>5. ASSUME NEW c \in Client, NEW m, NEW arg \in Args, Begin(c, m, arg)
        PROVE  AskTypes'
    BY <1>2, <1>5, AskMoves DEF Begin
  <1>6. ASSUME NEW c \in Client, ClientStep(c)
        PROVE  AskTypes'
    <2>1. CASE OpenCall(c)
      <3>1. PICK o \in Options[c] : opts' = [opts EXCEPT ![c] = o]
        BY <2>1 DEF OpenCall
      <3>2. o \in Opts
        BY RustAssumption
      <3> QED
        BY <1>1, <1>2, <2>1, <3>1, <3>2, AskMoves DEF OpenCall
    <2>2. CASE CloseSession(c) \/ ResetSession(c)
      <3>1. /\ \E r : Finish(c, r)
            /\ alive' \subseteq alive /\ opts' = [opts EXCEPT ![c] = Blank]
        BY <2>2 DEF CloseSession, ResetSession, Consume
      <3> QED
        BY <1>3, <3>1
    <2>3. CASE ResetDevice(c)
      BY <1>3, <2>3 DEF ResetDevice
    <2>4. CASE ReopenCall(c)
      BY <1>1, <1>2, <2>4, AskMoves DEF ReopenCall
    <2>5. CASE Power(c) \/ Inspect(c)
      <3>1. \E m, arg : arg \in Args /\ Begin(c, m, arg)
        BY <1>1, <2>5 DEF Power, Inspect, NoArg, Args
      <3> QED
        BY <1>5, <3>1
    <2>6. CASE Alloc(c)
      <3>1. \E m, arg : arg \in Args /\ Begin(c, m, arg)
        BY <1>1, <2>6 DEF Alloc, NoArg, Args
      <3> QED
        BY <1>5, <3>1
    <2>7. ASSUME NEW h \in Handle, Bind(c, h) \/ DropWindow(c, h) \/ Free(c, h)
          PROVE  AskTypes'
      BY <1>3, <2>7, AskStays DEF Bind, DropWindow, Free
    <2> QED
      BY <1>6, <2>1, <2>2, <2>3, <2>4, <2>5, <2>6, <2>7 DEF ClientStep
  <1>7. ASSUME NEW c \in Client, CallStep(c)
        PROVE  AskTypes'
    <2>1. CASE OpenReturn(c)
      BY <1>3, <2>1 DEF OpenReturn
    <2>2. CASE PerformOp(c)
      BY <1>3, <1>4, <2>2 DEF PerformOp, PerformedOp, Reconnect
    <2>3. CASE ReopenStart(c)
      BY <1>4, <2>3 DEF ReopenStart
    <2>4. CASE ReopenReturn(c)
      <3>1. UNCHANGED <<alive, opts>> /\ (Retry(c) \/ Finish(c, ret'[c]))
        BY <2>4 DEF ReopenReturn, Reopened
      <3>2. CASE Retry(c)
        <4>1. call' = [call EXCEPT ![c] = Frame("op", call[c].m, call[c].tries + 1, call[c].arg)]
          BY <1>2, <3>2 DEF Retry, Framed
        <4> QED
          BY <1>2, <3>1, <4>1, AskMoves
      <3> QED
        BY <1>3, <3>1, <3>2
    <2> QED
      BY <1>7, <2>1, <2>2, <2>3, <2>4 DEF CallStep
  <1>8. CASE Outside \/ UNCHANGED allVars
    BY <1>8, AskStays DEF Outside, allVars, rustVars
  <1> QED
    BY <1>6, <1>7, <1>8 DEF RustNext

\* Where there is a handle at all, every reachable state of the sessions, the
\* handles and the methods in progress is well typed, and no method reopens its
\* session more than RETRIES times, whether or not close(2) fails.
THEOREM RustTypeCorrect ==
  ASSUME Handle # {}
  PROVE  RustSpec => []RustTypeOK
  <1>1. RustInit => GivenTypes /\ AskTypes
    <2> SUFFICES ASSUME RustInit
                 PROVE  GivenTypes /\ AskTypes
      OBVIOUS
    <2>1. GivenTypes
      BY DEF RustInit, CallsInit, WindowsInit, GivenTypes
    <2>2. NoArg \in Args
      BY DEF NoArg, Args
    <2> QED
      BY <2>1, <2>2 DEF RustInit, Idle, Frame, Blank, AskTypes
  <1>2. ReachInv /\ CauseInv /\ GivenTypes /\ AskTypes /\ [RustNext]_allVars
        => GivenTypes' /\ AskTypes'
    BY GivenTypesKeep, AskTypesKeep DEF ReachInv, Reach, CauseInv
  <1>3. ReachInv /\ CauseInv /\ GivenTypes /\ AskTypes => RustTypeOK
    <2> SUFFICES ASSUME ReachInv, CauseInv, GivenTypes, AskTypes
                 PROVE  RustTypeOK
      OBVIOUS
    <2>1. CallsTypeOK
      BY DEF CallsTypeOK, WindowsTypeOK, CauseInv, GivenTypes
    <2>2. severings \in [Client -> 0 .. RETRIES]
      BY DEF CauseInv, Caused
    <2>3. ASSUME NEW c \in Client
          PROVE  call[c] \in [at: {"idle", "open", "op", "reopen", "reopening"},
                              m: Methods, tries: 0 .. RETRIES, arg: Args]
      <3>1. Placed(c) /\ call[c].tries \in 0 .. RETRIES
        BY DEF CauseInv, CallInv, Caused
      <3>2. call[c].m \in Methods
        BY <3>1 DEF Placed, Methods, Performed
      <3>3. call[c] = Frame(call[c].at, call[c].m, call[c].tries, call[c].arg)
            /\ call[c].arg \in Args
        BY DEF AskTypes
      <3>4. call[c] = [at |-> call[c].at, m |-> call[c].m, tries |-> call[c].tries,
                       arg |-> call[c].arg]
        BY ONLY <3>3 DEF Frame
      <3>5. call[c].at \in {"idle", "open", "op", "reopen", "reopening"}
        BY <3>1 DEF Placed
      <3> QED
        BY ONLY <3>1, <3>2, <3>3, <3>4, <3>5
    <2> QED
      BY <2>1, <2>2, <2>3 DEF ReachInv, Reach, AskTypes, CauseInv, CallInv, Framed, Args, RustTypeOK
  <1> QED
    BY <1>1, <1>2, <1>3, ReachInvInductive, CauseInvInductive, PTL DEF RustSpec
================================================================================
