------------------------------- MODULE Session -------------------------------
(***************************************************************************)
(* Session lifecycle: tt_open, tt_close, tt_reopen and, for every          *)
(* operation that is one ioctl on an open session, tt_dev_info             *)
(* (src/src/dev/mod.c, src/src/err.h).                                     *)
(*                                                                         *)
(* A client is a thread that owns one tt_session_t and runs one API call   *)
(* at a time.  Clients of one process share its descriptor slots.  A step  *)
(* is the code up to and including one system call; null arguments, which  *)
(* only return EINVAL, are left out.                                       *)
(***************************************************************************)
EXTENDS Kmd

CONSTANTS
  Client,
  Home,        \* the process a client runs in
  NoFd,        \* the session's descriptor is -1
  CloseFails,  \* close(2) of a severed descriptor may report an error
  Signals,     \* a blocked open(2) may be interrupted (EINTR)
  Modes        \* the flag sets the clients pass to tt_open

ASSUME SessionAssumption ==
  /\ NoFd \notin Fd
  /\ \A c \in Client : Home[c] \in Proc
  /\ CloseFails \in BOOLEAN
  /\ Signals \in BOOLEAN
  /\ Modes \subseteq SUBSET {"EXCL", "NONBLOCK"}

VARIABLES
  fd,      \* sess->fd
  flags,   \* sess->flags
  req,     \* flags of the tt_open in progress
  pc,      \* "idle", or "opening" when about to issue or blocked in open(2)
  op,      \* the client's latest API call ...
  ret      \* ... and its result once complete, OK or an errno (OK before)

sessVars == <<fd, flags, req, pc, op, ret>>
sessionVars == <<kmdVars, sessVars>>

OpenFlags == {"EXCL", "NONBLOCK"}
Ops == {"none", "tt_open", "tt_close", "tt_reopen", "tt_dev_info",
        "tt_reset", "tt_reset_with", "tt_smc_call", "tt_smc_post",
        "tt_smc_poll", "tt_smc_wait", "tt_smc_drop",
        "tt_tlb_alloc", "tt_tlb_bind", "tt_tlb_free"}
Codes == {"OK", "ENOTCONN", "ENODEV", "EAGAIN", "EBADF", "EIO", "EBUSY",
          "ECONNRESET", "ETIMEDOUT", "ESRCH", "ENOTSUP", "EINVAL", "ENOMEM", "ENOENT"}

SessionTypeOK ==
  /\ KmdTypeOK
  /\ fd \in [Client -> Fd \cup {NoFd}]
  /\ flags \in [Client -> SUBSET OpenFlags]
  /\ req \in [Client -> SUBSET OpenFlags]
  /\ pc \in [Client -> {"idle", "opening"}]
  /\ op \in [Client -> Ops]
  /\ ret \in [Client -> Codes]

SessionInit ==
  /\ KmdInit
  /\ fd = [c \in Client |-> NoFd]
  /\ flags = [c \in Client |-> {}]
  /\ req = [c \in Client |-> {}]
  /\ pc = [c \in Client |-> "idle"]
  /\ op = [c \in Client |-> "none"]
  /\ ret = [c \in Client |-> "OK"]

------------------------------------------------------------------------------
(* Helpers.                                                                 *)

\* A failed session operation: ENODEV is reported as ECONNRESET.
tt_fail_io(e) == IF e = "ENODEV" THEN "ECONNRESET" ELSE e

\* An operation that is one ioctl: its result on client c's session.
SessionIo(c) == IF fd[c] = NoFd THEN "ENOTCONN" ELSE tt_fail_io(Io(fd[c]))

\* Client c's latest call is o, with result r.
Return(c, o, r) ==
  /\ op' = [op EXCEPT ![c] = o]
  /\ ret' = [ret EXCEPT ![c] = r]

\* Mutant: every failure is collapsed.
OpenErrnoFlat(e) == "ENODEV"

\* The errno tt_open reports for a failed open(2).
OpenErrno(e) == IF e = "EAGAIN" THEN "EAGAIN" ELSE "ENODEV"

\* The ways open(2) with flags fl fails now, in a process p.
OpenFailures(p, fl) ==
  { e \in {"ENOENT", "EMFILE", "EAGAIN", "EINTR"} :
      CASE e = "ENOENT" -> ~present
        [] e = "EMFILE" -> FreeFds(p) = {}
        [] e = "EAGAIN" -> present /\ ~CanOpen("EXCL" \in fl) /\ "NONBLOCK" \in fl
        [] e = "EINTR"  -> present /\ ~CanOpen("EXCL" \in fl) /\ Signals }

\* Mutant: TT_OPEN_EXCL is not passed on as O_EXCL.
OpenGrantsShared(p, fl, d) ==
  present /\ CanOpen(FALSE) /\ d \in FreeFds(p) /\ Grant(d, FALSE)

\* open(2) with flags fl succeeds in process p and returns slot d.
OpenGrants(p, fl, d) ==
  /\ present
  /\ CanOpen("EXCL" \in fl)
  /\ d \in FreeFds(p)
  /\ Grant(d, "EXCL" \in fl)

\* close(2) inside tt_close on c's session, with result r.  An open descriptor
\* is released even when close(2) fails.
CloseCall(c, r) ==
  \/ /\ fd[c] = NoFd
     /\ r = "OK"
     /\ UNCHANGED kmdVars
  \/ /\ fd[c] # NoFd
     /\ fdtab[fd[c]] = NoFile
     /\ r = "EBADF"
     /\ UNCHANGED kmdVars
  \/ /\ fd[c] # NoFd
     /\ fdtab[fd[c]] # NoFile
     /\ Release(fd[c])
     /\ \/ r = "OK"
        \/ CloseFails /\ st[fdtab[fd[c]]] # "live" /\ r = "EIO"

\* Mutant: sess->fd is not cleared.
tt_closeStale(c, r) == CloseCall(c, r) /\ fd' = fd

\* tt_close: sess->fd is cleared only when close(2) succeeds.
tt_close(c, r) ==
  /\ CloseCall(c, r)
  /\ fd' = IF r = "OK" THEN [fd EXCEPT ![c] = NoFd] ELSE fd

------------------------------------------------------------------------------
(* The operations.                                                          *)

\* tt_open on a closed session, up to open(2).
Open(c, fl) ==
  /\ pc[c] = "idle"
  /\ fd[c] = NoFd
  /\ req' = [req EXCEPT ![c] = fl]
  /\ pc' = [pc EXCEPT ![c] = "opening"]
  /\ Return(c, "tt_open", "OK")
  /\ UNCHANGED <<kmdVars, fd, flags>>

\* Mutant: tt_reopen opens the new descriptor over the old one.
ReopenOver(c) ==
  /\ pc[c] = "idle"
  /\ req' = [req EXCEPT ![c] = flags[c]]
  /\ pc' = [pc EXCEPT ![c] = "opening"]
  /\ Return(c, "tt_reopen", "OK")
  /\ UNCHANGED <<kmdVars, fd, flags>>

\* tt_reopen, up to open(2): the result of the close is discarded.
Reopen(c) ==
  /\ pc[c] = "idle"
  /\ \E r \in Codes : tt_close(c, r)
  /\ req' = [req EXCEPT ![c] = flags[c]]
  /\ pc' = [pc EXCEPT ![c] = "opening"]
  /\ Return(c, "tt_reopen", "OK")
  /\ UNCHANGED flags

\* open(2) and the rest of tt_open: the session is written only on success.
OpenOk(c) ==
  /\ pc[c] = "opening"
  /\ \E d \in Fd :
       /\ OpenGrants(Home[c], req[c], d)
       /\ fd' = [fd EXCEPT ![c] = d]
  /\ flags' = [flags EXCEPT ![c] = req[c]]
  /\ pc' = [pc EXCEPT ![c] = "idle"]
  /\ Return(c, op[c], "OK")
  /\ UNCHANGED req

OpenFail(c) ==
  /\ pc[c] = "opening"
  /\ \E e \in OpenFailures(Home[c], req[c]) : Return(c, op[c], OpenErrno(e))
  /\ pc' = [pc EXCEPT ![c] = "idle"]
  /\ UNCHANGED <<kmdVars, fd, flags, req>>

Close(c) ==
  /\ pc[c] = "idle"
  /\ \E r \in Codes : tt_close(c, r) /\ Return(c, "tt_close", r)
  /\ UNCHANGED <<flags, req, pc>>

DevInfo(c) ==
  /\ pc[c] = "idle"
  /\ Return(c, "tt_dev_info", SessionIo(c))
  /\ UNCHANGED <<kmdVars, fd, flags, req, pc>>

LifecycleStep(c) ==
  \/ \E fl \in Modes : Open(c, fl)
  \/ Reopen(c)
  \/ OpenOk(c)
  \/ OpenFail(c)
  \/ Close(c)

\* The sessions of a process end with it.
ProcessExit(p) ==
  LET gone == {c \in Client : Home[c] = p}
      Wipe(f, v) == [c \in Client |-> IF c \in gone THEN v ELSE f[c]]
  IN  /\ Exit(p)
      /\ fd' = Wipe(fd, NoFd)
      /\ flags' = Wipe(flags, {})
      /\ req' = Wipe(req, {})
      /\ pc' = Wipe(pc, "idle")
      /\ op' = Wipe(op, "none")
      /\ ret' = Wipe(ret, "OK")

SessionEnv ==
  /\ OobReset \/ Remove \/ Reprobe
  /\ UNCHANGED sessVars

SessionNext ==
  \/ \E c \in Client : LifecycleStep(c) \/ DevInfo(c)
  \/ \E p \in Proc : ProcessExit(p)
  \/ SessionEnv

SessionSpec == SessionInit /\ [][SessionNext]_sessionVars

\* open(2) returns when it can: a blocked caller is woken and a runnable
\* thread is scheduled.  Nothing obliges a client to make another call.
SessionFairness ==
  \A c \in Client : WF_sessionVars(OpenOk(c) \/ OpenFail(c))

FairSessionSpec == SessionSpec /\ SessionFairness

------------------------------------------------------------------------------
(* Properties.                                                              *)

\* What a session's descriptor refers to.
FileOf(c) == IF fd[c] = NoFd THEN NoFile ELSE fdtab[fd[c]]

\* Every session that thinks it is open has a descriptor of its own, and
\* every descriptor of the device belongs to a session: closing, reopening and
\* failing never leave two sessions on one slot, a session on a slot that was
\* freed, or a slot nobody will close (tt_close's `sess->fd = -1`).
DescriptorsOwned ==
  /\ \A c \in Client : fd[c] # NoFd => FileOf(c) # NoFile /\ ProcOf[fd[c]] = Home[c]
  /\ \A c, d \in Client : fd[c] # NoFd /\ fd[c] = fd[d] => c = d
  /\ \A s \in Fd : fdtab[s] # NoFile => \E c \in Client : fd[c] = s

\* While a session opened with TT_OPEN_EXCL is open, no other session is open
\* on the same device instance (tt_open_flag_t, ttdal.h), severed or not.
ExclusiveSession ==
  \A c, d \in Client :
    /\ c # d
    /\ FileOf(c) # NoFile /\ FileOf(d) # NoFile
    /\ Holds(FileOf(c)) /\ Holds(FileOf(d))
    => "EXCL" \notin flags[c]

\* A reopen that reports ENODEV found no device (QUIRKS.md, "Reset versus
\* removal"): tt_reopen tells a removal from a reset.
ReopenVerdict ==
  [][\A c \in Client :
       /\ op[c] = "tt_reopen" /\ pc[c] = "opening" /\ pc'[c] = "idle"
       /\ op'[c] = "tt_reopen" /\ ret'[c] = "ENODEV"
       => ~present]_sessionVars

\* A tt_reopen returns unless another client holds the device: the session's own
\* stale descriptor never stands in the way, even of an exclusive blocking open.
ReopenReturns ==
  \A c \in Client :
    op[c] = "tt_reopen" /\ pc[c] = "opening"
      ~> \/ pc[c] = "idle"
         \/ \E d \in Client \ {c} : FileOf(d) # NoFile /\ Holds(FileOf(d))
==============================================================================
