------------------------------- MODULE SmcProofs -------------------------------
(***************************************************************************)
(* Theorems about Smc and Queue, for any number of clients, processes,     *)
(* requests, polls and handles: every session is a mailbox, a call leaves  *)
(* its session free, a handle takes the reply to its own message only, and *)
(* no message is left behind.  As for sessions, close(2) is assumed not to *)
(* fail.                                                                   *)
(*                                                                         *)
(* The invariant BoxInv adds to SessionInv how the driver's slots, the     *)
(* controller and the descriptions go together; SmcInv adds what a call    *)
(* leaves, and QueueInv whose message the one on a session is.             *)
(***************************************************************************)
EXTENDS Queue, SessionProofs

------------------------------------------------------------------------------
(* The invariant.                                                           *)

\* The driver's slots: a message is there until its slot is cleared, a reply is
\* to it, the controller runs the message of the slot it knows, and a description
\* that is free has none.
DriverInv ==
  /\ \A f \in File : phase[f] = "none" <=> msg[f] = NoReq
  /\ \A f \in File : phase[f] = "ready" => reply[f] = msg[f]
  /\ \A f \in File : st[f] = "free" => phase[f] = "none"
  /\ ctlFile # NoFile => phase[ctlFile] = "running" /\ msg[ctlFile] = ctlReq

\* A wait in progress is that of a call or of tt_smc_wait; only a call drops.
WaitOf(c) ==
  /\ spc[c] # "idle" =>
       pc[c] = "idle" /\ op[c] = IF inCall[c] THEN "tt_smc_call" ELSE "tt_smc_wait"
  /\ spc[c] = "drop" => inCall[c]

\* What CallLeavesFree says of one client.
LeavesFree(c) ==
  /\ op[c] = "tt_smc_call" /\ spc[c] = "idle" /\ ret[c] # "EBUSY"
  /\ FileOf(c) \in File /\ st[FileOf(c)] = "live"
  => phase[FileOf(c)] = "none"

\* How the slots, the controller, the descriptions and the waits go together.
BoxInv ==
  /\ SmcTypeOK /\ SessionInv /\ DriverInv
  /\ \A c \in Client : WaitOf(c)

SmcInv == BoxInv /\ \A c \in Client : LeavesFree(c)

\* What every step does, whoever makes it: BoxInv holds again, and a call that left its
\* session free still does.
Kept == BoxInv' /\ \A c \in Client : LeavesFree(c) => LeavesFree(c)'

------------------------------------------------------------------------------
(* The parts of a step.                                                     *)

\* The driver's slots alone are well typed.
SlotsTypeOK ==
  /\ phase \in [File -> {"none", "queued", "running", "ready"} \cup DriverErrors]
  /\ msg \in [File -> MaybeReq]
  /\ reply \in [File -> MaybeReq]
  /\ ctlReq \in MaybeReq
  /\ ctlFile \in File \cup {NoFile}

WaitTypeOK ==
  /\ spc \in [Client -> {"idle", "poll", "check", "sleep", "drop"}]
  /\ inCall \in [Client -> BOOLEAN]
  /\ err \in [Client -> Codes]
  /\ waited \in [Client -> 0..Budget]
  /\ spins \in [Client -> 0..SpinPolls]
  /\ asleep \in [Client -> BOOLEAN]

LEMMA TypesSplit ==
  SmcTypeOK <=> SessionTypeOK /\ SlotsTypeOK /\ WaitTypeOK /\ rsp \in [Client -> MaybeReq]
  BY DEF SmcTypeOK, SlotsTypeOK, WaitTypeOK

\* Where an ioctl succeeds, the client's descriptor refers to a live description
\* no other client's does.
LEMMA SlotIsOwn ==
  ASSUME SessionInv, NEW c \in Client, FileOf(c) \in File
  PROVE  /\ fd[c] # NoFd /\ SlotOf(c) = FileOf(c)
         /\ \A d \in Client \ {c} : FileOf(d) # FileOf(c)
  <1>1. fd[c] # NoFd
    BY KmdAssumption DEF FileOf
  <1>2. fd[c] \in Fd
    BY <1>1 DEF SessionInv, SessionTypeOK
  <1>3. ASSUME NEW d \in Client \ {c}
        PROVE  FileOf(d) # FileOf(c)
    <2>1. CASE fd[d] = NoFd
      BY <2>1, KmdAssumption DEF FileOf
    <2>2. CASE fd[d] # NoFd
      <3>1. fd[d] \in Fd /\ fd[d] # fd[c]
        BY <1>1, <2>2 DEF SessionInv, SessionTypeOK, DescriptorsOwned
      <3> QED
        BY <1>1, <1>2, <2>2, <3>1, KmdAssumption DEF FileOf, SessionInv, SlotsDistinct
    <2> QED
      BY <2>1, <2>2
  <1> QED
    BY <1>1, <1>3 DEF FileOf, SlotOf

LEMMA IoIsLive ==
  ASSUME SessionInv, NEW c \in Client
  PROVE  /\ SessionIo(c) = "OK" <=> FileOf(c) \in File /\ st[FileOf(c)] = "live"
         /\ FileOf(c) \in File \cup {NoFile}
         /\ SessionIo(c) \in {"OK", "ENOTCONN", "EBADF", "ECONNRESET"}
  <1>1. fd[c] # NoFd => fd[c] \in Fd /\ fdtab[fd[c]] \in File
    BY DEF SessionInv, SessionTypeOK, KmdTypeOK, DescriptorsOwned, FileOf
  <1> QED
    BY <1>1, KmdAssumption DEF SessionIo, Io, tt_fail_io, FileOf

------------------------------------------------------------------------------
(* What the steps do to the mailbox.                                        *)

Mail == [c \in Client |-> Outstanding(c)]

\* A step of the mailbox, or none.
MailStep == Box!Next \/ (Mail' = Mail /\ rsp' = rsp)

LEMMA MailStays ==
  ASSUME \A c \in Client : Outstanding(c)' = Outstanding(c), rsp' = rsp
  PROVE  MailStep
  BY DEF MailStep, Mail

LEMMA MailPosted ==
  ASSUME NEW c \in Client, NEW q \in Req, Outstanding(c) = NoReq, Outstanding(c)' = q,
         \A d \in Client \ {c} : Outstanding(d)' = Outstanding(d), rsp' = rsp
  PROVE  MailStep
  <1>1. Mail' = [Mail EXCEPT ![c] = q] /\ Mail[c] = NoReq
    BY DEF Mail
  <1>2. Box!Post(c)
    BY <1>1 DEF Box!Post, Mail
  <1> QED
    BY <1>2 DEF MailStep, Box!Next

LEMMA MailRetrieved ==
  ASSUME NEW c \in Client, Outstanding(c) # NoReq, Outstanding(c)' = NoReq,
         \A d \in Client \ {c} : Outstanding(d)' = Outstanding(d),
         rsp' = [rsp EXCEPT ![c] = Outstanding(c)]
  PROVE  MailStep
  <1>1. \A d \in Client : Mail[d] = Outstanding(d) /\ Mail'[d] = Outstanding(d)'
    BY DEF Mail
  <1>2. DOMAIN Mail = Client /\ Mail' = [d \in Client |-> IF d = c THEN NoReq ELSE Mail[d]]
    BY DEF Mail
  <1>3. Mail' = [Mail EXCEPT ![c] = NoReq]
    BY <1>2
  <1>4. Box!Retrieve(c)
    BY <1>1, <1>3 DEF Box!Retrieve, Mail
  <1> QED
    BY <1>4 DEF MailStep, Box!Next

LEMMA MailGivenUp ==
  ASSUME NEW S \in SUBSET Client,
         \A c \in Client : Outstanding(c)' = IF c \in S THEN NoReq ELSE Outstanding(c),
         rsp' = rsp
  PROVE  MailStep
  <1>1. Mail' = [c \in Client |-> IF c \in S THEN NoReq ELSE Mail[c]]
    BY DEF Mail
  <1>2. Box!GiveUp(S)
    BY <1>1 DEF Box!GiveUp, Mail
  <1> QED
    BY <1>2 DEF MailStep, Box!Next

------------------------------------------------------------------------------
(* What one ioctl does to the driver's slots.                               *)

LEMMA PostDoes ==
  ASSUME BoxInv, NEW c \in Client, NEW q \in Req, NEW r, Post(c, q, r), UNCHANGED st
  PROVE  /\ SlotsTypeOK' /\ DriverInv'
         /\ \A f \in File \ {FileOf(c)} : phase'[f] = phase[f] /\ msg'[f] = msg[f]
         /\ r = "OK" => Outstanding(c) = NoReq /\ FileOf(c) \in File /\ msg'[FileOf(c)] = q
         /\ r # "OK" => msg' = msg /\ phase' = phase
         /\ r \notin {"OK", "EBUSY"} /\ FileOf(c) \in File /\ st[FileOf(c)] = "live"
              => phase'[FileOf(c)] = "none"
  <1> DEFINE f == FileOf(c)
  <1>1. SlotsTypeOK /\ DriverInv /\ SessionInv
    BY TypesSplit DEF BoxInv
  <1>2. SessionIo(c) = "OK" => f \in File /\ st[f] = "live" /\ SlotOf(c) = f
    BY <1>1, IoIsLive, SlotIsOwn
  <1>3. SessionIo(c) # "OK" => ~(f \in File /\ st[f] = "live")
    BY <1>1, IoIsLive
  <1>4. CASE UNCHANGED driverVars
    <2>1. SlotsTypeOK' /\ DriverInv' /\ msg' = msg /\ phase' = phase
      BY <1>1, <1>4 DEF driverVars, SlotsTypeOK, DriverInv
    <2>2. r = "OK" => FALSE
      BY <1>4, <1>1, <1>2, SmcAssumption DEF Post, driverVars, SlotsTypeOK
    <2> QED
      BY <1>2, <1>3, <2>1, <2>2 DEF Post
  <1>5. CASE /\ SessionIo(c) = "OK" /\ phase[SlotOf(c)] = "none" /\ r = "OK"
             /\ phase' = [phase EXCEPT ![SlotOf(c)] = "queued"]
             /\ msg' = [msg EXCEPT ![SlotOf(c)] = q]
             /\ UNCHANGED <<reply, ctlReq, ctlFile>>
    <2> HIDE DEF f
    <2>1. /\ f \in File /\ st[f] = "live" /\ phase[f] = "none" /\ msg[f] = NoReq
          /\ phase' = [phase EXCEPT ![f] = "queued"] /\ msg' = [msg EXCEPT ![f] = q]
      BY <1>1, <1>2, <1>5 DEF DriverInv
    <2>2. SlotsTypeOK'
      BY <1>1, <1>5, <2>1 DEF SlotsTypeOK, MaybeReq
    <2>3. /\ phase'[f] = "queued" /\ msg'[f] = q /\ q # NoReq
          /\ \A g \in File \ {f} : phase'[g] = phase[g] /\ msg'[g] = msg[g]
      BY <1>1, <2>1, SmcAssumption DEF SlotsTypeOK
    <2>4. DriverInv'
      BY <1>1, <1>5, <2>1, <2>3 DEF DriverInv, SlotsTypeOK
    <2>5. Outstanding(c) = NoReq
      BY <2>1 DEF Outstanding, f
    <2> QED
      BY <1>5, <2>1, <2>2, <2>3, <2>4, <2>5 DEF f
  <1> QED
    BY <1>4, <1>5 DEF Post

\* A slot is cleared, and the controller loses track of the message.
LEMMA ClearDoes ==
  ASSUME SlotsTypeOK, DriverInv, UNCHANGED st, NEW f \in File, Clear(f), UNCHANGED ctlReq,
         ctlFile' = IF ctlFile = f THEN NoFile ELSE ctlFile
  PROVE  /\ SlotsTypeOK' /\ DriverInv'
         /\ phase'[f] = "none" /\ msg'[f] = NoReq
         /\ \A g \in File \ {f} : phase'[g] = phase[g] /\ msg'[g] = msg[g]
  <1>1. SlotsTypeOK'
    BY DEF SlotsTypeOK, Clear, MaybeReq
  <1>2. /\ phase'[f] = "none" /\ msg'[f] = NoReq
        /\ \A g \in File \ {f} : phase'[g] = phase[g] /\ msg'[g] = msg[g] /\ reply'[g] = reply[g]
    BY DEF SlotsTypeOK, Clear
  <1>3. DriverInv'
    BY <1>2 DEF DriverInv, SlotsTypeOK
  <1> QED
    BY <1>1, <1>2, <1>3

LEMMA PollDoes ==
  ASSUME BoxInv, NEW c \in Client, NEW r, tt_smc_poll(c, r), UNCHANGED st
  PROVE  /\ SlotsTypeOK' /\ DriverInv' /\ rsp' \in [Client -> MaybeReq]
         /\ \A f \in File \ {FileOf(c)} : phase'[f] = phase[f] /\ msg'[f] = msg[f]
         /\ r = "OK" => /\ FileOf(c) \in File /\ phase'[FileOf(c)] = "none"
                        /\ Outstanding(c) # NoReq /\ msg'[FileOf(c)] = NoReq
                        /\ rsp' = [rsp EXCEPT ![c] = Outstanding(c)]
         /\ r # "OK" => /\ rsp' = rsp
                        /\ \/ msg' = msg /\ phase' = phase
                           \/ /\ FileOf(c) \in File /\ msg'[FileOf(c)] = NoReq
                              /\ phase'[FileOf(c)] = "none"
  <1> DEFINE f == FileOf(c)
  <1>1. SlotsTypeOK /\ DriverInv /\ SessionInv /\ rsp \in [Client -> MaybeReq]
    BY TypesSplit DEF BoxInv
  <1>2. SessionIo(c) = "OK" => f \in File /\ SlotOf(c) = f
    BY <1>1, IoIsLive, SlotIsOwn
  <1> HIDE DEF f
  <1>3. CASE UNCHANGED <<driverVars, rsp>> /\ r # "OK"
    <2>1. SlotsTypeOK' /\ DriverInv' /\ msg' = msg /\ phase' = phase /\ rsp' = rsp
      BY <1>1, <1>3 DEF driverVars, SlotsTypeOK, DriverInv
    <2> QED
      BY <1>1, <1>3, <2>1
  <1>4. CASE /\ SessionIo(c) = "OK" /\ phase[SlotOf(c)] \in DriverErrors
             /\ r = phase[SlotOf(c)] /\ Clear(SlotOf(c)) /\ UNCHANGED <<ctlReq, ctlFile, rsp>>
    <2>1. f \in File /\ r # "OK" /\ phase[f] # "running" /\ Clear(f)
      BY <1>2, <1>4, SmcAssumption
    <2>2. ctlFile' = IF ctlFile = f THEN NoFile ELSE ctlFile
      BY <1>1, <1>4, <2>1 DEF DriverInv
    <2>3. /\ SlotsTypeOK' /\ DriverInv' /\ phase'[f] = "none" /\ msg'[f] = NoReq
          /\ \A g \in File \ {f} : phase'[g] = phase[g] /\ msg'[g] = msg[g]
      BY <1>1, <1>4, <2>1, <2>2, ClearDoes
    <2> QED
      BY <1>1, <1>4, <2>1, <2>3 DEF f
  <1>5. CASE /\ SessionIo(c) = "OK" /\ phase[SlotOf(c)] = "ready" /\ r = "OK"
             /\ rsp' = [rsp EXCEPT ![c] = reply[SlotOf(c)]]
             /\ Clear(SlotOf(c)) /\ UNCHANGED <<ctlReq, ctlFile>>
    <2>1. /\ f \in File /\ phase[f] = "ready" /\ Clear(f) /\ reply[f] = msg[f] /\ msg[f] # NoReq
          /\ rsp' = [rsp EXCEPT ![c] = msg[f]]
      BY <1>1, <1>2, <1>5 DEF DriverInv
    <2>2. ctlFile' = IF ctlFile = f THEN NoFile ELSE ctlFile
      BY <1>1, <1>5, <2>1 DEF DriverInv
    <2>3. /\ SlotsTypeOK' /\ DriverInv' /\ phase'[f] = "none" /\ msg'[f] = NoReq
          /\ \A g \in File \ {f} : phase'[g] = phase[g] /\ msg'[g] = msg[g]
      BY <1>1, <1>5, <2>1, <2>2, ClearDoes
    <2>4. Outstanding(c) = msg[f]
      BY <2>1 DEF Outstanding, f
    <2>5. rsp' \in [Client -> MaybeReq]
      BY <1>1, <2>1 DEF SlotsTypeOK
    <2> QED
      BY <1>5, <2>1, <2>3, <2>4, <2>5 DEF f
  <1> QED
    BY <1>3, <1>4, <1>5 DEF tt_smc_poll

LEMMA DropDoes ==
  ASSUME BoxInv, NEW c \in Client, NEW r, tt_smc_drop(c, r), UNCHANGED st
  PROVE  /\ SlotsTypeOK' /\ DriverInv'
         /\ \A f \in File \ {FileOf(c)} : phase'[f] = phase[f] /\ msg'[f] = msg[f]
         /\ \/ msg' = msg /\ phase' = phase
            \/ FileOf(c) \in File /\ msg'[FileOf(c)] = NoReq
         /\ FileOf(c) \in File /\ st[FileOf(c)] = "live" => phase'[FileOf(c)] = "none"
  <1> DEFINE f == FileOf(c)
  <1>1. SlotsTypeOK /\ DriverInv /\ SessionInv
    BY TypesSplit DEF BoxInv
  <1>2. SessionIo(c) = "OK" <=> f \in File /\ st[f] = "live"
    BY <1>1, IoIsLive
  <1>3. f \in File => SlotOf(c) = f
    BY <1>1, SlotIsOwn
  <1> HIDE DEF f
  <1>4. CASE SessionIo(c) = "OK"
    <2>1. /\ f \in File /\ Clear(f) /\ UNCHANGED ctlReq
          /\ ctlFile' = IF ctlFile = f THEN NoFile ELSE ctlFile
      BY <1>2, <1>3, <1>4 DEF tt_smc_drop
    <2>2. /\ SlotsTypeOK' /\ DriverInv' /\ phase'[f] = "none" /\ msg'[f] = NoReq
          /\ \A g \in File \ {f} : phase'[g] = phase[g] /\ msg'[g] = msg[g]
      BY <1>1, <2>1, ClearDoes
    <2> QED
      BY <2>1, <2>2 DEF f
  <1>5. CASE SessionIo(c) # "OK"
    <2>1. UNCHANGED driverVars
      BY <1>5 DEF tt_smc_drop
    <2>2. SlotsTypeOK' /\ DriverInv' /\ msg' = msg /\ phase' = phase
      BY <1>1, <2>1 DEF driverVars, SlotsTypeOK, DriverInv
    <2> QED
      BY <1>2, <1>5, <2>2 DEF f
  <1> QED
    BY <1>4, <1>5

------------------------------------------------------------------------------
(* What a client's call does to the invariant and to the mailbox.           *)

\* A step of c's that leaves the session layer alone but for op and ret.
CallFrame(c) ==
  /\ UNCHANGED <<kmdVars, fd, flags, req, pc>>
  /\ op' \in [Client -> Ops] /\ ret' \in [Client -> Codes]
  /\ \A d \in Client \ {c} : /\ op'[d] = op[d] /\ ret'[d] = ret[d]
                             /\ spc'[d] = spc[d] /\ inCall'[d] = inCall[d]
  /\ WaitTypeOK'

LEMMA CallKeeps ==
  ASSUME BoxInv, NEW c \in Client, CallFrame(c),
         SlotsTypeOK', rsp' \in [Client -> MaybeReq], DriverInv',
         \A f \in File \ {FileOf(c)} : phase'[f] = phase[f],
         WaitOf(c)', LeavesFree(c)'
  PROVE  Kept
  <1>1. SessionInv' /\ \A d \in Client : FileOf(d)' = FileOf(d)
    BY ReportsKeeps DEF BoxInv, CallFrame
  <1>2. SmcTypeOK'
    BY <1>1, TypesSplit DEF SessionInv, CallFrame, SmcTypeOK, SlotsTypeOK, WaitTypeOK
  <1>3. ASSUME NEW d \in Client \ {c}
        PROVE  WaitOf(d)' /\ (LeavesFree(d) => LeavesFree(d)')
    <2>1. WaitOf(d)'
      BY DEF BoxInv, WaitOf, CallFrame
    <2>2. FileOf(d) \in File => FileOf(c) # FileOf(d)
      BY SlotIsOwn DEF BoxInv
    <2>3. LeavesFree(d) => LeavesFree(d)'
      BY <1>1, <2>2 DEF BoxInv, LeavesFree, CallFrame, kmdVars
    <2> QED
      BY <2>1, <2>3
  <1> QED
    BY <1>1, <1>2, <1>3 DEF BoxInv, Kept

\* The other boxes stay as they are.
LEMMA OtherBoxes ==
  ASSUME BoxInv, NEW c \in Client, CallFrame(c),
         \A f \in File \ {FileOf(c)} : msg'[f] = msg[f]
  PROVE  /\ \A d \in Client \ {c} : Outstanding(d)' = Outstanding(d)
         /\ FileOf(c)' = FileOf(c)
         /\ FileOf(c) \in File => Outstanding(c)' = msg'[FileOf(c)]
         /\ msg' = msg => Outstanding(c)' = Outstanding(c)
  <1>1. \A d \in Client : FileOf(d)' = FileOf(d)
    BY ReportsKeeps DEF BoxInv, CallFrame
  <1>2. \A d \in Client \ {c} : FileOf(d) \in File => FileOf(c) # FileOf(d)
    BY SlotIsOwn DEF BoxInv
  <1> QED
    BY <1>1, <1>2 DEF Outstanding

\* A call that is one ioctl, or fails before its wait: a frame and its report.
LEMMA ReportFrame ==
  ASSUME BoxInv, NEW c \in Client, NEW o \in Ops, NEW r \in Codes, Reports(c, o, r),
         UNCHANGED waitVars
  PROVE  /\ CallFrame(c) /\ UNCHANGED st
         /\ op'[c] = o /\ ret'[c] = r
         /\ spc'[c] = spc[c] /\ inCall'[c] = inCall[c]
  <1>1. /\ op' = [op EXCEPT ![c] = o] /\ ret' = [ret EXCEPT ![c] = r]
        /\ UNCHANGED <<kmdVars, fd, flags, req, pc>>
    BY DEF Reports, Return
  <1>2. op \in [Client -> Ops] /\ ret \in [Client -> Codes] /\ WaitTypeOK
    BY TypesSplit DEF BoxInv, SessionTypeOK
  <1>3. WaitTypeOK' /\ spc' = spc /\ inCall' = inCall
    BY <1>2 DEF waitVars, WaitTypeOK
  <1> QED
    BY <1>1, <1>2, <1>3 DEF CallFrame, kmdVars

LEMMA SmcPostSteps ==
  ASSUME BoxInv, NEW c \in Client, NEW q \in Req, SmcPost(c, q)
  PROVE  Kept /\ MailStep
  <1>1. PICK r \in Codes : Post(c, q, r) /\ Reports(c, "tt_smc_post", r)
    BY DEF SmcPost
  <1>2. UNCHANGED waitVars /\ rsp' = rsp /\ spc[c] = "idle"
    BY DEF SmcPost, CanCall
  <1>3. /\ CallFrame(c) /\ UNCHANGED st
        /\ op'[c] = "tt_smc_post" /\ spc'[c] = "idle"
    BY <1>1, <1>2, ReportFrame DEF Ops
  <1>4. /\ SlotsTypeOK' /\ DriverInv'
        /\ \A f \in File \ {FileOf(c)} : phase'[f] = phase[f] /\ msg'[f] = msg[f]
        /\ r = "OK" => Outstanding(c) = NoReq /\ FileOf(c) \in File /\ msg'[FileOf(c)] = q
        /\ r # "OK" => msg' = msg
    BY <1>1, <1>3, PostDoes
  <1>5. WaitOf(c)' /\ LeavesFree(c)'
    BY <1>3 DEF WaitOf, LeavesFree
  <1>6. rsp' \in [Client -> MaybeReq]
    BY <1>2 DEF BoxInv, SmcTypeOK
  <1>7. Kept
    BY <1>3, <1>4, <1>5, <1>6, CallKeeps
  <1>8. /\ \A d \in Client \ {c} : Outstanding(d)' = Outstanding(d)
        /\ FileOf(c) \in File => Outstanding(c)' = msg'[FileOf(c)]
        /\ msg' = msg => Outstanding(c)' = Outstanding(c)
    BY <1>3, <1>4, OtherBoxes
  <1>9. CASE r = "OK"
    BY <1>2, <1>4, <1>7, <1>8, <1>9, MailPosted
  <1>10. CASE r # "OK"
    BY <1>2, <1>4, <1>7, <1>8, <1>10, MailStays
  <1> QED
    BY <1>9, <1>10

\* What a poll means for the mailbox, whatever the client makes of its result.
LEMMA PollIsMail ==
  ASSUME BoxInv, NEW c \in Client, NEW r, tt_smc_poll(c, r), CallFrame(c)
  PROVE  MailStep
  <1>1. UNCHANGED st
    BY DEF CallFrame, kmdVars
  <1>2. /\ \A f \in File \ {FileOf(c)} : phase'[f] = phase[f] /\ msg'[f] = msg[f]
        /\ r = "OK" => /\ FileOf(c) \in File
                       /\ Outstanding(c) # NoReq /\ msg'[FileOf(c)] = NoReq
                       /\ rsp' = [rsp EXCEPT ![c] = Outstanding(c)]
        /\ r # "OK" => /\ rsp' = rsp
                       /\ \/ msg' = msg
                          \/ FileOf(c) \in File /\ msg'[FileOf(c)] = NoReq
    BY <1>1, PollDoes
  <1>3. /\ \A d \in Client \ {c} : Outstanding(d)' = Outstanding(d)
        /\ FileOf(c) \in File => Outstanding(c)' = msg'[FileOf(c)]
        /\ msg' = msg => Outstanding(c)' = Outstanding(c)
    BY <1>2, OtherBoxes
  <1>4. CASE r = "OK"
    BY <1>2, <1>3, <1>4, MailRetrieved
  <1>5. CASE r # "OK" /\ msg' = msg
    BY <1>2, <1>3, <1>5, MailStays
  <1>6. CASE r # "OK" /\ FileOf(c) \in File /\ msg'[FileOf(c)] = NoReq
    <2>1. \A d \in Client : Outstanding(d)' = IF d \in {c} THEN NoReq ELSE Outstanding(d)
      BY <1>3, <1>6
    <2> QED
      BY <1>2, <1>6, <2>1, MailGivenUp
  <1> QED
    BY <1>2, <1>4, <1>5, <1>6

\* So for a drop.
LEMMA DropIsMail ==
  ASSUME BoxInv, NEW c \in Client, NEW r, tt_smc_drop(c, r), CallFrame(c), rsp' = rsp
  PROVE  MailStep
  <1>1. UNCHANGED st
    BY DEF CallFrame, kmdVars
  <1>2. /\ \A f \in File \ {FileOf(c)} : phase'[f] = phase[f] /\ msg'[f] = msg[f]
        /\ \/ msg' = msg
           \/ FileOf(c) \in File /\ msg'[FileOf(c)] = NoReq
    BY <1>1, DropDoes
  <1>3. /\ \A d \in Client \ {c} : Outstanding(d)' = Outstanding(d)
        /\ FileOf(c) \in File => Outstanding(c)' = msg'[FileOf(c)]
        /\ msg' = msg => Outstanding(c)' = Outstanding(c)
    BY <1>2, OtherBoxes
  <1>4. CASE msg' = msg
    BY <1>3, <1>4, MailStays
  <1>5. CASE FileOf(c) \in File /\ msg'[FileOf(c)] = NoReq
    <2>1. \A d \in Client : Outstanding(d)' = IF d \in {c} THEN NoReq ELSE Outstanding(d)
      BY <1>3, <1>5
    <2> QED
      BY <2>1, MailGivenUp
  <1> QED
    BY <1>2, <1>4, <1>5

LEMMA SmcPollSteps ==
  ASSUME BoxInv, NEW c \in Client, SmcPoll(c)
  PROVE  Kept /\ MailStep
  <1>1. PICK r \in Codes : tt_smc_poll(c, r) /\ Reports(c, "tt_smc_poll", r)
    BY DEF SmcPoll
  <1>2. UNCHANGED waitVars /\ spc[c] = "idle"
    BY DEF SmcPoll, CanCall
  <1>3. /\ CallFrame(c) /\ UNCHANGED st
        /\ op'[c] = "tt_smc_poll" /\ spc'[c] = "idle"
    BY <1>1, <1>2, ReportFrame DEF Ops
  <1>4. /\ SlotsTypeOK' /\ DriverInv' /\ rsp' \in [Client -> MaybeReq]
        /\ \A f \in File \ {FileOf(c)} : phase'[f] = phase[f]
    BY <1>1, <1>3, PollDoes
  <1>5. WaitOf(c)' /\ LeavesFree(c)'
    BY <1>3 DEF WaitOf, LeavesFree
  <1>6. Kept
    BY <1>3, <1>4, <1>5, CallKeeps
  <1> QED
    BY <1>1, <1>3, <1>6, PollIsMail

LEMMA SmcDropSteps ==
  ASSUME BoxInv, NEW c \in Client, SmcDrop(c)
  PROVE  Kept /\ MailStep
  <1>1. PICK r \in Codes : tt_smc_drop(c, r) /\ Reports(c, "tt_smc_drop", r)
    BY DEF SmcDrop
  <1>2. UNCHANGED waitVars /\ rsp' = rsp /\ spc[c] = "idle"
    BY DEF SmcDrop, CanCall
  <1>3. /\ CallFrame(c) /\ UNCHANGED st
        /\ op'[c] = "tt_smc_drop" /\ spc'[c] = "idle"
    BY <1>1, <1>2, ReportFrame DEF Ops
  <1>4. /\ SlotsTypeOK' /\ DriverInv' /\ rsp' \in [Client -> MaybeReq]
        /\ \A f \in File \ {FileOf(c)} : phase'[f] = phase[f]
    BY <1>1, <1>2, <1>3, DropDoes DEF BoxInv, SmcTypeOK
  <1>5. WaitOf(c)' /\ LeavesFree(c)'
    BY <1>3 DEF WaitOf, LeavesFree
  <1>6. Kept
    BY <1>3, <1>4, <1>5, CallKeeps
  <1> QED
    BY <1>1, <1>2, <1>3, <1>6, DropIsMail

\* A step that leaves the driver alone.
LEMMA DriverStays ==
  ASSUME BoxInv, UNCHANGED driverVars, UNCHANGED st
  PROVE  SlotsTypeOK' /\ DriverInv' /\ phase' = phase /\ msg' = msg
  <1>1. SlotsTypeOK /\ DriverInv
    BY TypesSplit DEF BoxInv
  <1> QED
    BY <1>1 DEF driverVars, SlotsTypeOK, DriverInv

\* A client enters a wait.
LEMMA EnterFrame ==
  ASSUME BoxInv, NEW c \in Client, NEW o \in Ops, NEW r \in Codes, NEW call \in BOOLEAN,
         Reports(c, o, r), EnterWait(c, call), CanCall(c),
         o = IF call THEN "tt_smc_call" ELSE "tt_smc_wait"
  PROVE  CallFrame(c) /\ UNCHANGED st /\ WaitOf(c)' /\ LeavesFree(c)'
  <1>1. /\ op' = [op EXCEPT ![c] = o] /\ ret' = [ret EXCEPT ![c] = r]
        /\ UNCHANGED <<kmdVars, fd, flags, req, pc>>
    BY DEF Reports, Return
  <1>2. op \in [Client -> Ops] /\ ret \in [Client -> Codes] /\ WaitTypeOK
    BY TypesSplit DEF BoxInv, SessionTypeOK
  <1>3. /\ spc' = [spc EXCEPT ![c] = "poll"] /\ inCall' = [inCall EXCEPT ![c] = call]
        /\ UNCHANGED <<err, waited, spins, asleep>> /\ pc[c] = "idle"
    BY DEF EnterWait, Goto, CanCall
  <1>4. WaitTypeOK'
    BY <1>2, <1>3 DEF WaitTypeOK
  <1>5. spc'[c] = "poll" /\ inCall'[c] = call /\ op'[c] = o /\ pc'[c] = "idle"
    BY <1>1, <1>2, <1>3 DEF WaitTypeOK
  <1>6. WaitOf(c)' /\ LeavesFree(c)'
    BY <1>5 DEF WaitOf, LeavesFree
  <1>7. \A d \in Client \ {c} : /\ op'[d] = op[d] /\ ret'[d] = ret[d]
                                /\ spc'[d] = spc[d] /\ inCall'[d] = inCall[d]
    BY <1>1, <1>2, <1>3 DEF WaitTypeOK
  <1> QED
    BY <1>1, <1>2, <1>4, <1>6, <1>7 DEF CallFrame, kmdVars

LEMMA SmcWaitSteps ==
  ASSUME BoxInv, NEW c \in Client, SmcWait(c)
  PROVE  Kept /\ MailStep
  <1>1. UNCHANGED driverVars /\ rsp' = rsp /\ CanCall(c)
    BY DEF SmcWait
  <1>2. CallFrame(c) /\ UNCHANGED st /\ WaitOf(c)' /\ LeavesFree(c)'
    <2>1. CASE Reports(c, "tt_smc_wait", "ENOTCONN") /\ UNCHANGED waitVars
      <3>1. /\ CallFrame(c) /\ UNCHANGED st
            /\ op'[c] = "tt_smc_wait" /\ spc'[c] = spc[c]
        BY <2>1, ReportFrame DEF Ops, Codes
      <3> QED
        BY <1>1, <3>1 DEF WaitOf, LeavesFree, CanCall
    <2>2. CASE Reports(c, "tt_smc_wait", "OK") /\ EnterWait(c, FALSE)
      BY <1>1, <2>2, EnterFrame DEF Ops, Codes
    <2> QED
      BY <2>1, <2>2 DEF SmcWait
  <1>3. SlotsTypeOK' /\ DriverInv' /\ phase' = phase /\ msg' = msg
    BY <1>1, <1>2, DriverStays
  <1>4. rsp' \in [Client -> MaybeReq]
    BY <1>1 DEF BoxInv, SmcTypeOK
  <1>5. Kept
    BY <1>2, <1>3, <1>4, CallKeeps
  <1>6. \A d \in Client : Outstanding(d)' = Outstanding(d)
    BY <1>2, <1>3, OtherBoxes
  <1> QED
    BY <1>1, <1>5, <1>6, MailStays

LEMMA SmcCallSteps ==
  ASSUME BoxInv, NEW c \in Client, NEW q \in Req, SmcCall(c, q)
  PROVE  Kept /\ MailStep
  <1>1. PICK r \in Codes : /\ Post(c, q, r)
                           /\ Reports(c, "tt_smc_call", r)
                           /\ IF r = "OK" THEN EnterWait(c, TRUE) ELSE UNCHANGED waitVars
    BY DEF SmcCall
  <1>2. rsp' = rsp /\ CanCall(c)
    BY DEF SmcCall
  <1>3. UNCHANGED kmdVars /\ UNCHANGED st
    BY <1>1 DEF Reports, kmdVars
  <1>4. /\ SlotsTypeOK' /\ DriverInv'
        /\ \A f \in File \ {FileOf(c)} : phase'[f] = phase[f] /\ msg'[f] = msg[f]
        /\ r = "OK" => Outstanding(c) = NoReq /\ FileOf(c) \in File /\ msg'[FileOf(c)] = q
        /\ r # "OK" => msg' = msg
        /\ r \notin {"OK", "EBUSY"} /\ FileOf(c) \in File /\ st[FileOf(c)] = "live"
             => phase'[FileOf(c)] = "none"
    BY <1>1, <1>3, PostDoes
  <1>5. CallFrame(c) /\ WaitOf(c)' /\ LeavesFree(c)'
    <2>1. CASE r = "OK"
      <3>1. EnterWait(c, TRUE) /\ Reports(c, "tt_smc_call", r)
        BY <1>1, <2>1
      <3> QED
        BY <1>2, <3>1, EnterFrame DEF Ops
    <2>2. CASE r # "OK"
      <3>1. /\ CallFrame(c)
            /\ op'[c] = "tt_smc_call" /\ spc'[c] = spc[c] /\ ret'[c] = r
        BY <1>1, <2>2, ReportFrame DEF Ops
      <3>2. WaitOf(c)'
        BY <1>2, <3>1 DEF WaitOf, CanCall
      <3>3. FileOf(c)' = FileOf(c)
        BY <1>4, <3>1, OtherBoxes
      <3>4. LeavesFree(c)'
        BY <1>3, <1>4, <2>2, <3>1, <3>3 DEF LeavesFree
      <3> QED
        BY <3>1, <3>2, <3>4
    <2> QED
      BY <2>1, <2>2
  <1>6. rsp' \in [Client -> MaybeReq]
    BY <1>2 DEF BoxInv, SmcTypeOK
  <1>7. Kept
    BY <1>4, <1>5, <1>6, CallKeeps
  <1>8. /\ \A d \in Client \ {c} : Outstanding(d)' = Outstanding(d)
        /\ FileOf(c) \in File => Outstanding(c)' = msg'[FileOf(c)]
        /\ msg' = msg => Outstanding(c)' = Outstanding(c)
    BY <1>4, <1>5, OtherBoxes
  <1>9. CASE r = "OK"
    BY <1>2, <1>4, <1>7, <1>8, <1>9, MailPosted
  <1>10. CASE r # "OK"
    BY <1>2, <1>4, <1>7, <1>8, <1>10, MailStays
  <1> QED
    BY <1>9, <1>10

\* A wait ends; where it ends a call, its poll emptied the slot.
LEMMA LeaveFrame ==
  ASSUME BoxInv, NEW c \in Client, NEW r \in Codes, LeaveWait(c, r), spc[c] # "idle",
         UNCHANGED kmdVars,
         r = "OK" => FileOf(c) \in File /\ phase'[FileOf(c)] = "none"
  PROVE  CallFrame(c) /\ WaitOf(c)' /\ LeavesFree(c)'
  <1>1. op \in [Client -> Ops] /\ ret \in [Client -> Codes] /\ WaitTypeOK
    BY TypesSplit DEF BoxInv, SessionTypeOK
  <1>2. WaitOf(c)
    BY DEF BoxInv
  <1>3. CASE inCall[c] /\ r # "OK"
    <2>1. /\ spc' = [spc EXCEPT ![c] = "drop"] /\ err' = [err EXCEPT ![c] = r]
          /\ waited' = [waited EXCEPT ![c] = 0] /\ spins' = [spins EXCEPT ![c] = 0]
          /\ asleep' = [asleep EXCEPT ![c] = FALSE] /\ UNCHANGED <<inCall, sessVars>>
      BY <1>3 DEF LeaveWait, Goto
    <2>2. WaitTypeOK'
      BY <1>1, <2>1, SmcAssumption DEF WaitTypeOK
    <2>3. spc'[c] = "drop" /\ inCall'[c] /\ op'[c] = op[c] /\ pc'[c] = pc[c]
      BY <1>1, <1>3, <2>1 DEF WaitTypeOK, sessVars
    <2>4. WaitOf(c)' /\ LeavesFree(c)'
      BY <1>2, <1>3, <2>3 DEF WaitOf, LeavesFree
    <2> QED
      BY <1>1, <2>1, <2>2, <2>4 DEF CallFrame, sessVars, WaitTypeOK
  <1>4. CASE ~(inCall[c] /\ r # "OK")
    <2>1. /\ spc' = [spc EXCEPT ![c] = "idle"] /\ inCall' = [inCall EXCEPT ![c] = FALSE]
          /\ waited' = [waited EXCEPT ![c] = 0] /\ spins' = [spins EXCEPT ![c] = 0]
          /\ asleep' = [asleep EXCEPT ![c] = FALSE] /\ UNCHANGED <<err, fd, flags, req, pc>>
          /\ op' = [op EXCEPT ![c] = op[c]] /\ ret' = [ret EXCEPT ![c] = r]
      BY <1>4 DEF LeaveWait, Goto, Return
    <2>2. WaitTypeOK'
      BY <1>1, <2>1, SmcAssumption DEF WaitTypeOK
    <2>3. spc'[c] = "idle" /\ op'[c] = op[c]
      BY <1>1, <2>1 DEF WaitTypeOK
    <2>4. FileOf(c)' = FileOf(c)
      BY <2>1 DEF FileOf, kmdVars
    <2>5. WaitOf(c)' /\ LeavesFree(c)'
      BY <1>2, <1>4, <2>3, <2>4 DEF WaitOf, LeavesFree
    <2>6. op' \in [Client -> Ops] /\ ret' \in [Client -> Codes]
      BY <1>1, <2>1
    <2> QED
      BY <1>1, <2>1, <2>2, <2>5, <2>6 DEF CallFrame, WaitTypeOK
  <1> QED
    BY <1>3, <1>4

\* A wait goes on.
LEMMA StayFrame ==
  ASSUME BoxInv, NEW c \in Client, UNCHANGED <<kmdVars, sessVars, inCall, err>>,
         spc[c] # "idle", spc[c] # "drop", NEW l \in {"poll", "check", "sleep"}, Goto(c, l),
         waited' = waited, spins' \in [Client -> 0..SpinPolls], asleep' \in [Client -> BOOLEAN]
  PROVE  CallFrame(c) /\ WaitOf(c)' /\ LeavesFree(c)'
  <1>1. op \in [Client -> Ops] /\ ret \in [Client -> Codes] /\ WaitTypeOK
    BY TypesSplit DEF BoxInv, SessionTypeOK
  <1>2. spc' = [spc EXCEPT ![c] = l] /\ spc'[c] = l
    BY <1>1 DEF Goto, WaitTypeOK
  <1>3. WaitTypeOK'
    BY <1>1, <1>2 DEF WaitTypeOK
  <1>4. WaitOf(c)' /\ LeavesFree(c)'
    BY <1>2 DEF BoxInv, WaitOf, LeavesFree, sessVars
  <1> QED
    BY <1>1, <1>2, <1>3, <1>4 DEF CallFrame, sessVars, WaitTypeOK

LEMMA WaitPollSteps ==
  ASSUME BoxInv, NEW c \in Client, WaitPoll(c)
  PROVE  Kept /\ MailStep
  <1>1. PICK r \in Codes :
          /\ tt_smc_poll(c, r)
          /\ IF r = "EAGAIN"
             THEN /\ Goto(c, "check")
                  /\ UNCHANGED <<inCall, err, waited, spins, asleep, sessVars>>
             ELSE LeaveWait(c, r)
    BY DEF WaitPoll
  <1>2. UNCHANGED kmdVars /\ UNCHANGED st /\ spc[c] = "poll"
    BY DEF WaitPoll, kmdVars
  <1>3. /\ SlotsTypeOK' /\ DriverInv' /\ rsp' \in [Client -> MaybeReq]
        /\ \A f \in File \ {FileOf(c)} : phase'[f] = phase[f]
        /\ r = "OK" => FileOf(c) \in File /\ phase'[FileOf(c)] = "none"
    BY <1>1, <1>2, PollDoes
  <1>4. CallFrame(c) /\ WaitOf(c)' /\ LeavesFree(c)'
    <2>1. CASE r = "EAGAIN"
      <3>1. /\ Goto(c, "check") /\ UNCHANGED <<kmdVars, sessVars, inCall, err>>
            /\ waited' = waited /\ spins' = spins /\ asleep' = asleep
        BY <1>1, <1>2, <2>1
      <3>2. spins' \in [Client -> 0..SpinPolls] /\ asleep' \in [Client -> BOOLEAN]
        BY <3>1 DEF BoxInv, SmcTypeOK
      <3> QED
        BY <1>2, <3>1, <3>2, StayFrame
    <2>2. CASE r # "EAGAIN"
      BY <1>1, <1>2, <1>3, <2>2, LeaveFrame
    <2> QED
      BY <2>1, <2>2
  <1>5. Kept
    BY <1>3, <1>4, CallKeeps
  <1> QED
    BY <1>1, <1>4, <1>5, PollIsMail

\* A step of a wait that does not reach the driver.
LEMMA WaitOnSteps ==
  ASSUME BoxInv, NEW c \in Client, UNCHANGED <<kmdVars, driverVars, rsp>>,
         CallFrame(c), WaitOf(c)', LeavesFree(c)'
  PROVE  Kept /\ MailStep
  <1>1. SlotsTypeOK' /\ DriverInv' /\ phase' = phase /\ msg' = msg
    BY DriverStays DEF kmdVars
  <1>2. rsp' \in [Client -> MaybeReq]
    BY DEF BoxInv, SmcTypeOK
  <1>3. Kept
    BY <1>1, <1>2, CallKeeps
  <1>4. \A d \in Client : Outstanding(d)' = Outstanding(d)
    BY <1>1, OtherBoxes
  <1> QED
    BY <1>3, <1>4, MailStays

LEMMA WaitCheckSteps ==
  ASSUME BoxInv, NEW c \in Client, WaitCheck(c)
  PROVE  Kept /\ MailStep
  <1>1. UNCHANGED <<kmdVars, driverVars, rsp>> /\ spc[c] = "check"
    BY DEF WaitCheck
  <1>2. CASE waited[c] >= Budget
    <2>1. LeaveWait(c, "ETIMEDOUT")
      BY <1>2 DEF WaitCheck
    <2>2. CallFrame(c) /\ WaitOf(c)' /\ LeavesFree(c)'
      BY <1>1, <2>1, LeaveFrame DEF Codes
    <2> QED
      BY <1>1, <2>2, WaitOnSteps
  <1>3. CASE ~(waited[c] >= Budget)
    <2>1. /\ asleep' = [asleep EXCEPT ![c] = spins[c] >= SpinPolls]
          /\ UNCHANGED <<inCall, err, waited, sessVars>>
          /\ \/ spins[c] >= SpinPolls /\ Goto(c, "sleep") /\ UNCHANGED spins
             \/ /\ ~(spins[c] >= SpinPolls)
                /\ Goto(c, "poll") /\ spins' = [spins EXCEPT ![c] = spins[c] + 1]
      BY <1>3 DEF WaitCheck
    <2>2. WaitTypeOK
      BY TypesSplit DEF BoxInv
    <2> DEFINE late == spins[c] >= SpinPolls
    <2>3. late \in BOOLEAN /\ asleep' = [asleep EXCEPT ![c] = late]
      BY <2>1
    <2>4. PICK l \in {"poll", "sleep"} : Goto(c, l)
      BY <2>1
    <2>5. spins' \in [Client -> 0..SpinPolls]
      BY <2>1, <2>2, SmcAssumption DEF WaitTypeOK
    <2> HIDE DEF late
    <2>6. asleep' \in [Client -> BOOLEAN]
      BY <2>2, <2>3 DEF WaitTypeOK
    <2>7. CallFrame(c) /\ WaitOf(c)' /\ LeavesFree(c)'
      BY <1>1, <2>1, <2>4, <2>5, <2>6, StayFrame
    <2> QED
      BY <1>1, <2>7, WaitOnSteps
  <1> QED
    BY <1>2, <1>3

LEMMA WaitWakeSteps ==
  ASSUME BoxInv, NEW c \in Client, WaitWake(c)
  PROVE  Kept /\ MailStep
  <1>1. /\ UNCHANGED <<kmdVars, driverVars, rsp>> /\ spc[c] = "sleep"
        /\ UNCHANGED <<sessVars, inCall, err>> /\ waited' = waited /\ spins' = spins
        /\ Goto(c, "poll") /\ asleep' = [asleep EXCEPT ![c] = FALSE]
    BY DEF WaitWake, sessionVars
  <1>2. spins' \in [Client -> 0..SpinPolls] /\ asleep' \in [Client -> BOOLEAN]
    BY <1>1 DEF BoxInv, SmcTypeOK
  <1>3. CallFrame(c) /\ WaitOf(c)' /\ LeavesFree(c)'
    BY <1>1, <1>2, StayFrame
  <1> QED
    BY <1>1, <1>3, WaitOnSteps

LEMMA CallDropSteps ==
  ASSUME BoxInv, NEW c \in Client, CallDrop(c)
  PROVE  Kept /\ MailStep
  <1>1. PICK r \in Codes : tt_smc_drop(c, r)
    BY DEF CallDrop
  <1>2. /\ spc[c] = "drop" /\ spc' = [spc EXCEPT ![c] = "idle"]
        /\ inCall' = [inCall EXCEPT ![c] = FALSE] /\ err' = [err EXCEPT ![c] = "OK"]
        /\ UNCHANGED <<waited, spins, asleep, rsp>>
        /\ op' = [op EXCEPT ![c] = op[c]] /\ ret' = [ret EXCEPT ![c] = err[c]]
        /\ UNCHANGED <<kmdVars, fd, flags, req, pc>>
    BY DEF CallDrop, Goto, Reports, Return
  <1>3. op \in [Client -> Ops] /\ ret \in [Client -> Codes] /\ WaitTypeOK
    BY TypesSplit DEF BoxInv, SessionTypeOK
  <1>4. WaitTypeOK' /\ spc'[c] = "idle" /\ UNCHANGED st
    BY <1>2, <1>3 DEF WaitTypeOK, Codes, kmdVars
  <1>5. op' \in [Client -> Ops] /\ ret' \in [Client -> Codes]
    BY <1>2, <1>3 DEF WaitTypeOK
  <1>6. CallFrame(c)
    BY <1>2, <1>3, <1>4, <1>5 DEF CallFrame, WaitTypeOK
  <1>7. /\ SlotsTypeOK' /\ DriverInv' /\ rsp' \in [Client -> MaybeReq]
        /\ \A f \in File \ {FileOf(c)} : phase'[f] = phase[f] /\ msg'[f] = msg[f]
        /\ FileOf(c) \in File /\ st[FileOf(c)] = "live" => phase'[FileOf(c)] = "none"
    BY <1>1, <1>2, <1>4, DropDoes DEF BoxInv, SmcTypeOK
  <1>8. FileOf(c)' = FileOf(c)
    BY <1>6, <1>7, OtherBoxes
  <1>9. WaitOf(c)' /\ LeavesFree(c)'
    BY <1>4, <1>7, <1>8 DEF WaitOf, LeavesFree
  <1>10. Kept
    BY <1>6, <1>7, <1>9, CallKeeps
  <1> QED
    BY <1>1, <1>2, <1>6, <1>10, DropIsMail

------------------------------------------------------------------------------
(* The steps of the driver, the controller, the clock and the environment.  *)

\* A step that touches no session, keeps the messages and fills no empty slot.
LEMMA OutsideSteps ==
  ASSUME BoxInv, SessionInv', SlotsTypeOK', DriverInv', WaitTypeOK',
         UNCHANGED <<spc, inCall, op, ret, pc, msg, rsp>>,
         \A c \in Client : FileOf(c)' = FileOf(c),
         \A f \in File : /\ phase[f] = "none" => phase'[f] = "none"
                         /\ st'[f] = "live" => st[f] = "live"
  PROVE  Kept /\ MailStep
  <1>1. SmcTypeOK'
    BY DEF SessionInv, BoxInv, SmcTypeOK, SlotsTypeOK, WaitTypeOK
  <1>2. ASSUME NEW c \in Client
        PROVE  WaitOf(c)' /\ (LeavesFree(c) => LeavesFree(c)')
    <2>1. WaitOf(c)
      BY DEF BoxInv
    <2> QED
      BY <2>1 DEF WaitOf, LeavesFree
  <1>3. Kept
    BY <1>1, <1>2 DEF BoxInv, Kept
  <1>4. \A c \in Client : Outstanding(c)' = Outstanding(c)
    BY DEF Outstanding
  <1> QED
    BY <1>3, <1>4, MailStays

LEMMA SessionStays ==
  ASSUME BoxInv, UNCHANGED sessionVars
  PROVE  /\ SessionInv' /\ UNCHANGED <<op, ret, pc, st>>
         /\ \A c \in Client : FileOf(c)' = FileOf(c)
  <1>1. UNCHANGED <<kmdVars, fd, flags, req, pc>> /\ op' = op /\ ret' = ret /\ st' = st
    BY DEF sessionVars, sessVars, kmdVars
  <1>2. op' \in [Client -> Ops] /\ ret' \in [Client -> Codes]
    BY <1>1 DEF BoxInv, SmcTypeOK, SessionTypeOK
  <1> QED
    BY <1>1, <1>2, ReportsKeeps DEF BoxInv

LEMMA WaitStays ==
  ASSUME BoxInv, UNCHANGED waitVars
  PROVE  WaitTypeOK' /\ UNCHANGED <<spc, inCall>>
  <1>1. WaitTypeOK
    BY TypesSplit DEF BoxInv
  <1> QED
    BY <1>1 DEF WaitTypeOK, waitVars

LEMMA DispatchSteps ==
  ASSUME BoxInv, NEW f \in File, Dispatch(f)
  PROVE  Kept /\ MailStep
  <1>1. /\ phase[f] = "queued" /\ phase' = [phase EXCEPT ![f] = "running"]
        /\ ctlReq' = msg[f] /\ ctlFile' = f
        /\ UNCHANGED <<sessionVars, msg, reply, waitVars, rsp>>
    BY DEF Dispatch
  <1>2. SlotsTypeOK /\ DriverInv
    BY TypesSplit DEF BoxInv
  <1>3. /\ phase'[f] = "running"
        /\ \A g \in File \ {f} : phase'[g] = phase[g]
    BY <1>1, <1>2 DEF SlotsTypeOK
  <1>4. SlotsTypeOK'
    BY <1>1, <1>2 DEF SlotsTypeOK
  <1>5. SessionInv' /\ st' = st /\ UNCHANGED <<op, ret, pc>> /\ \A c \in Client : FileOf(c)' = FileOf(c)
    BY <1>1, SessionStays
  <1>6. DriverInv'
    BY <1>1, <1>2, <1>3, <1>5 DEF DriverInv
  <1>7. WaitTypeOK' /\ UNCHANGED <<spc, inCall>>
    BY <1>1, WaitStays
  <1> QED
    BY <1>1, <1>3, <1>4, <1>5, <1>6, <1>7, OutsideSteps

LEMMA AnswerSteps ==
  ASSUME BoxInv, Answer
  PROVE  Kept /\ MailStep
  <1>1. UNCHANGED <<sessionVars, msg, waitVars, rsp>> /\ ctlReq' = NoReq /\ ctlFile' = NoFile
    BY DEF Answer
  <1>2. SlotsTypeOK /\ DriverInv
    BY TypesSplit DEF BoxInv
  <1>3. /\ phase' \in [File -> {"none", "queued", "running", "ready"} \cup DriverErrors]
        /\ reply' \in [File -> MaybeReq]
        /\ \A g \in File : \/ phase'[g] = phase[g] /\ reply'[g] = reply[g]
                           \/ /\ phase[g] = "running" /\ phase'[g] = "ready"
                              /\ reply'[g] = msg[g]
    <2>1. CASE ctlFile = NoFile
      BY <1>2, <2>1 DEF Answer, SlotsTypeOK
    <2>2. CASE ctlFile # NoFile
      <3>1. /\ phase' = [phase EXCEPT ![ctlFile] = "ready"]
            /\ reply' = [reply EXCEPT ![ctlFile] = ctlReq]
            /\ phase[ctlFile] = "running" /\ msg[ctlFile] = ctlReq
        BY <1>2, <2>2 DEF Answer, DriverInv
      <3> QED
        BY <1>2, <3>1 DEF SlotsTypeOK
    <2> QED
      BY <2>1, <2>2
  <1>4. SlotsTypeOK'
    BY <1>1, <1>2, <1>3 DEF SlotsTypeOK, MaybeReq
  <1>5. SessionInv' /\ st' = st /\ UNCHANGED <<op, ret, pc>> /\ \A c \in Client : FileOf(c)' = FileOf(c)
    BY <1>1, SessionStays
  <1>6. DriverInv'
    BY <1>1, <1>2, <1>3, <1>5 DEF DriverInv
  <1>7. WaitTypeOK' /\ UNCHANGED <<spc, inCall>>
    BY <1>1, WaitStays
  <1> QED
    BY <1>1, <1>3, <1>4, <1>5, <1>6, <1>7, OutsideSteps

LEMMA FailExchangeSteps ==
  ASSUME BoxInv, NEW f \in File, FailExchange(f)
  PROVE  Kept /\ MailStep
  <1>1. PICK e \in DriverErrors : phase' = [phase EXCEPT ![f] = e]
    BY DEF FailExchange
  <1>2. /\ phase[f] \in {"queued", "running"}
        /\ ctlFile' = IF ctlFile = f THEN NoFile ELSE ctlFile
        /\ UNCHANGED <<sessionVars, msg, reply, ctlReq, waitVars, rsp>>
    BY DEF FailExchange
  <1>3. SlotsTypeOK /\ DriverInv
    BY TypesSplit DEF BoxInv
  <1>4. /\ phase'[f] = e /\ e \notin {"none", "ready", "running"}
        /\ \A g \in File \ {f} : phase'[g] = phase[g]
    BY <1>1, <1>3, SmcAssumption DEF SlotsTypeOK
  <1>5. SlotsTypeOK'
    BY <1>1, <1>2, <1>3 DEF SlotsTypeOK
  <1>6. SessionInv' /\ st' = st /\ UNCHANGED <<op, ret, pc>> /\ \A c \in Client : FileOf(c)' = FileOf(c)
    BY <1>2, SessionStays
  <1>7. DriverInv'
    BY <1>2, <1>3, <1>4, <1>6 DEF DriverInv, SlotsTypeOK
  <1>8. WaitTypeOK' /\ UNCHANGED <<spc, inCall>>
    BY <1>2, WaitStays
  <1> QED
    BY <1>2, <1>4, <1>5, <1>6, <1>7, <1>8, OutsideSteps

LEMMA SmcTickSteps ==
  ASSUME BoxInv, SmcTick
  PROVE  Kept /\ MailStep
  <1>1. UNCHANGED <<sessionVars, driverVars, spc, inCall, err, spins, rsp>>
    BY DEF SmcTick
  <1>2. WaitTypeOK
    BY TypesSplit DEF BoxInv
  <1>3. waited' \in [Client -> 0..Budget]
    BY <1>2, SmcAssumption DEF SmcTick, WaitTypeOK
  <1>4. asleep' \in [Client -> BOOLEAN]
    BY DEF SmcTick
  <1>5. WaitTypeOK'
    BY <1>1, <1>2, <1>3, <1>4 DEF WaitTypeOK
  <1>6. SessionInv' /\ st' = st /\ UNCHANGED <<op, ret, pc>> /\ \A c \in Client : FileOf(c)' = FileOf(c)
    BY <1>1, SessionStays
  <1>7. SlotsTypeOK' /\ DriverInv' /\ phase' = phase /\ msg' = msg
    BY <1>1, <1>6, DriverStays
  <1> QED
    BY <1>1, <1>5, <1>6, <1>7, OutsideSteps

LEMMA SmcOutsideSteps ==
  ASSUME BoxInv, SmcOutside
  PROVE  Kept /\ MailStep
  <1>1. /\ ctlReq' = NoReq /\ ctlFile' = NoFile /\ SessionEnv
        /\ phase' = [f \in File |-> IF phase[f] = "running" THEN "queued" ELSE phase[f]]
        /\ UNCHANGED <<msg, reply, waitVars, rsp>>
    BY DEF SmcOutside
  <1>2. SlotsTypeOK /\ DriverInv
    BY TypesSplit DEF BoxInv
  <1>3. SlotsTypeOK'
    BY <1>1, <1>2 DEF SlotsTypeOK, MaybeReq
  <1>4. /\ SessionInv' /\ \A c \in Client : FileOf(c)' = FileOf(c)
        /\ \A f \in File : /\ st'[f] = "free" <=> st[f] = "free"
                           /\ st'[f] = "live" => st[f] = "live"
    BY <1>1, EnvKeeps DEF BoxInv
  <1>5. \A f \in File : IF phase[f] = "running" THEN phase'[f] = "queued" ELSE phase'[f] = phase[f]
    BY <1>1
  <1>6. DriverInv'
    BY <1>1, <1>2, <1>4, <1>5 DEF DriverInv
  <1>7. WaitTypeOK' /\ UNCHANGED <<spc, inCall>>
    BY <1>1, WaitStays
  <1>8. UNCHANGED <<op, ret, pc>>
    BY <1>1 DEF SessionEnv, sessVars
  <1> QED
    BY <1>1, <1>3, <1>4, <1>5, <1>6, <1>7, <1>8, OutsideSteps

------------------------------------------------------------------------------
(* Sessions that come and go.                                               *)

LEMMA AbandonDoes ==
  ASSUME SlotsTypeOK, DriverInv, Abandon
  PROVE  /\ SlotsTypeOK' /\ DriverInv'
         /\ \A f \in File : IF st'[f] = "free" THEN phase'[f] = "none" /\ msg'[f] = NoReq
                            ELSE phase'[f] = phase[f] /\ msg'[f] = msg[f]
  <1> DEFINE left == {f \in File : st'[f] = "free"}
  <1>1. /\ phase' = [f \in File |-> IF f \in left THEN "none" ELSE phase[f]]
        /\ msg' = [f \in File |-> IF f \in left THEN NoReq ELSE msg[f]]
        /\ reply' = [f \in File |-> IF f \in left THEN NoReq ELSE reply[f]]
        /\ ctlFile' = IF ctlFile \in left THEN NoFile ELSE ctlFile
        /\ ctlReq' = ctlReq
    BY DEF Abandon
  <1>2. \A f \in File : f \in left <=> st'[f] = "free"
    OBVIOUS
  <1> HIDE DEF left
  <1>3. SlotsTypeOK'
    BY <1>1 DEF SlotsTypeOK, MaybeReq
  <1>4. \A f \in File : IF f \in left
                        THEN phase'[f] = "none" /\ msg'[f] = NoReq /\ reply'[f] = NoReq
                        ELSE phase'[f] = phase[f] /\ msg'[f] = msg[f] /\ reply'[f] = reply[f]
    BY <1>1
  <1>5. DriverInv'
    BY <1>1, <1>2, <1>4 DEF DriverInv, SlotsTypeOK
  <1> QED
    BY <1>2, <1>3, <1>4, <1>5

\* What a session refers to is what it did, nothing, or, if it was closed, a
\* description that was free.
Moves(c) ==
  \/ FileOf(c)' = FileOf(c)
  \/ FileOf(c)' = NoFile
  \/ FileOf(c) = NoFile /\ FileOf(c)' \in File /\ st[FileOf(c)'] = "free"

\* A step that only opens, closes or ends sessions.
LEMMA MovesSteps ==
  ASSUME BoxInv, SessionInv', Abandon, WaitTypeOK', rsp' = rsp,
         \A c \in Client : Moves(c),
         \A f \in File : st'[f] = "live" => st[f] \in {"live", "free"},
         \A c \in Client : WaitOf(c)',
         \A c \in Client : \/ op'[c] = op[c] /\ ret'[c] = ret[c] /\ spc'[c] = spc[c]
                           \/ FileOf(c)' # FileOf(c)
                           \/ FileOf(c)' = NoFile
  PROVE  Kept /\ MailStep
  <1>1. SlotsTypeOK /\ DriverInv /\ SessionInv
    BY TypesSplit DEF BoxInv
  <1>2. /\ SlotsTypeOK' /\ DriverInv'
        /\ \A f \in File : IF st'[f] = "free" THEN phase'[f] = "none" /\ msg'[f] = NoReq
                           ELSE phase'[f] = phase[f] /\ msg'[f] = msg[f]
    BY <1>1, AbandonDoes
  <1>3. SmcTypeOK'
    BY <1>2 DEF SessionInv, BoxInv, SmcTypeOK, SlotsTypeOK, WaitTypeOK
  <1>4. \A c \in Client : /\ FileOf(c) \in File => st[FileOf(c)] # "free"
                          /\ FileOf(c)' \in File => st'[FileOf(c)'] # "free"
    <2>1. \A c \in Client : FileOf(c) \in File => fd[c] \in Fd /\ FileOf(c) = fdtab[fd[c]]
      BY <1>1, KmdAssumption DEF FileOf, SessionInv, SessionTypeOK
    <2>2. \A c \in Client : FileOf(c)' \in File => fd'[c] \in Fd /\ FileOf(c)' = fdtab'[fd'[c]]
      BY KmdAssumption DEF FileOf, SessionInv, SessionTypeOK
    <2> QED
      BY <1>1, <2>1, <2>2, KmdAssumption DEF SessionInv, SlotsDistinct
  <1>5. ASSUME NEW c \in Client, LeavesFree(c)
        PROVE  LeavesFree(c)'
    <2>1. SUFFICES ASSUME op'[c] = "tt_smc_call", spc'[c] = "idle", ret'[c] # "EBUSY",
                          FileOf(c)' \in File, st'[FileOf(c)'] = "live"
                   PROVE  phase'[FileOf(c)'] = "none"
      BY DEF LeavesFree
    <2>2. CASE FileOf(c)' = FileOf(c)
      <3>1. op[c] = "tt_smc_call" /\ spc[c] = "idle" /\ ret[c] # "EBUSY"
        BY <2>1, <2>2, KmdAssumption
      <3>2. st[FileOf(c)] = "live"
        BY <1>4, <2>1, <2>2
      <3> QED
        BY <1>2, <1>5, <2>1, <2>2, <3>1, <3>2 DEF LeavesFree
    <2>3. CASE FileOf(c)' # FileOf(c)
      <3>1. st[FileOf(c)'] = "free"
        BY <2>1, <2>3, KmdAssumption DEF Moves
      <3> QED
        BY <1>1, <1>2, <2>1, <3>1 DEF DriverInv
    <2> QED
      BY <2>2, <2>3
  <1>6. Kept
    BY <1>2, <1>3, <1>5 DEF BoxInv, Kept
  <1> DEFINE S == {c \in Client : FileOf(c)' # FileOf(c)}
  <1>7. ASSUME NEW c \in Client
        PROVE  Outstanding(c)' = IF c \in S THEN NoReq ELSE Outstanding(c)
    <2>1. CASE FileOf(c)' = FileOf(c)
      BY <1>2, <1>4, <2>1 DEF Outstanding
    <2>2. CASE FileOf(c)' # FileOf(c) /\ FileOf(c)' = NoFile
      BY <2>2, KmdAssumption DEF Outstanding
    <2>3. CASE FileOf(c)' # FileOf(c) /\ FileOf(c)' # NoFile
      <3>1. FileOf(c)' \in File /\ st[FileOf(c)'] = "free"
        BY <2>3 DEF Moves
      <3>2. msg'[FileOf(c)'] = NoReq
        BY <1>1, <1>2, <3>1 DEF DriverInv
      <3> QED
        BY <2>3, <3>1, <3>2 DEF Outstanding
    <2> QED
      BY <2>1, <2>2, <2>3
  <1>8. S \in SUBSET Client
    OBVIOUS
  <1> HIDE DEF S
  <1> QED
    BY <1>6, <1>7, <1>8, MailGivenUp

\* tt_close takes one session's description away and moves no other's.
LEMMA CloseMoves ==
  ASSUME ~CloseFails, SessionInv, NEW c \in Client, NEW r \in Codes,
         tt_close(c, r), flags' = flags
  PROVE  /\ FileOf(c)' = NoFile
         /\ \A d \in Client \ {c} : FileOf(d)' = FileOf(d)
         /\ \A f \in File : st'[f] = st[f] \/ st'[f] = "free"
  <1>1. fd' = [fd EXCEPT ![c] = NoFd]
    BY CloseKeeps DEF tt_close
  <1>2. /\ fd'[c] = NoFd
        /\ \A d \in Client \ {c} : fd'[d] = fd[d]
    BY <1>1 DEF SessionInv, SessionTypeOK
  <1>3. FileOf(c)' = NoFile
    BY <1>2 DEF FileOf
  <1>4. CASE UNCHANGED kmdVars
    BY <1>2, <1>3, <1>4 DEF FileOf, kmdVars
  <1>5. CASE fd[c] # NoFd /\ Release(fd[c])
    <2>1. /\ fdtab' = [fdtab EXCEPT ![fd[c]] = NoFile]
          /\ \A f \in File : st'[f] = st[f] \/ st'[f] = "free"
      BY <1>5 DEF Release, Retain
    <2>2. ASSUME NEW d \in Client \ {c}
          PROVE  FileOf(d)' = FileOf(d)
      <3>1. fd[d] # NoFd => fd[d] \in Fd /\ fd[d] # fd[c]
        BY <1>5 DEF SessionInv, SessionTypeOK, DescriptorsOwned
      <3>2. fd[d] # NoFd => fdtab'[fd[d]] = fdtab[fd[d]]
        BY <2>1, <3>1 DEF SessionInv, SessionTypeOK, KmdTypeOK
      <3> QED
        BY <1>2, <3>2 DEF FileOf
    <2> QED
      BY <1>3, <2>1, <2>2
  <1> QED
    BY <1>4, <1>5 DEF tt_close, CloseCall

\* A lifecycle step of c's moves no other session, and leaves c's closed or on a
\* description that was free.
LEMMA LifecycleMoves ==
  ASSUME ~CloseFails, SessionInv, NEW c \in Client, LifecycleStep(c)
  PROVE  /\ Moves(c)
         /\ FileOf(c)' # FileOf(c) \/ FileOf(c)' = NoFile
         /\ \A d \in Client \ {c} : /\ FileOf(d)' = FileOf(d) /\ pc'[d] = pc[d]
                                    /\ op'[d] = op[d] /\ ret'[d] = ret[d]
         /\ \A f \in File : st'[f] = "live" => st[f] \in {"live", "free"}
  <1>1. SessionTypeOK /\ KmdTypeOK
    BY DEF SessionInv, SessionTypeOK
  <1>2. CASE \E fl \in Modes : Open(c, fl)
    <2>1. /\ fd[c] = NoFd /\ UNCHANGED <<kmdVars, fd>>
          /\ \A d \in Client \ {c} : pc'[d] = pc[d] /\ op'[d] = op[d] /\ ret'[d] = ret[d]
      BY <1>1, <1>2 DEF Open, Return, SessionTypeOK
    <2>2. FileOf(c)' = NoFile
      BY <2>1 DEF FileOf
    <2> QED
      BY <2>1, <2>2 DEF FileOf, kmdVars, Moves
  <1>3. CASE Reopen(c)
    <2>1. PICK r \in Codes : tt_close(c, r)
      BY <1>3 DEF Reopen
    <2>2. /\ flags' = flags
          /\ \A d \in Client \ {c} : pc'[d] = pc[d] /\ op'[d] = op[d] /\ ret'[d] = ret[d]
      BY <1>1, <1>3 DEF Reopen, Return, SessionTypeOK
    <2> QED
      BY <2>1, <2>2, CloseMoves DEF Moves
  <1>4. CASE OpenOk(c)
    <2>1. PICK d \in Fd : OpenGrants(Home[c], req[c], d) /\ fd' = [fd EXCEPT ![c] = d]
      BY <1>4 DEF OpenOk
    <2>2. PICK f \in File : /\ st[f] = "free" /\ st' = [st EXCEPT ![f] = "live"]
                            /\ fdtab' = [fdtab EXCEPT ![d] = f] /\ fdtab[d] = NoFile
      BY <2>1, GrantTables, SessionAssumption, KmdAssumption DEF SessionInv, SessionTypeOK
    <2>3. /\ fd[c] = NoFd /\ fd'[c] = d /\ fdtab'[d] = f
          /\ \A b \in Client \ {c} : /\ fd'[b] = fd[b] /\ pc'[b] = pc[b]
                                     /\ op'[b] = op[b] /\ ret'[b] = ret[b]
      BY <1>1, <1>4, <2>1, <2>2 DEF OpenOk, Return, SessionTypeOK, KmdTypeOK, SessionInv, OpeningIsClosed
    <2>4. FileOf(c) = NoFile /\ FileOf(c)' = f
      BY <2>3, SessionAssumption DEF FileOf
    <2>5. ASSUME NEW b \in Client \ {c}
          PROVE  FileOf(b)' = FileOf(b)
      <3>1. fd[b] # NoFd => fd[b] \in Fd /\ fd[b] # d
        BY <2>2 DEF SessionInv, SessionTypeOK, DescriptorsOwned, FileOf
      <3> QED
        BY <1>1, <2>2, <2>3, <3>1 DEF FileOf, KmdTypeOK
    <2>6. \A g \in File : st'[g] = "live" => st[g] \in {"live", "free"}
      BY <1>1, <2>2 DEF KmdTypeOK
    <2> QED
      BY <2>2, <2>3, <2>4, <2>5, <2>6, KmdAssumption DEF Moves
  <1>5. CASE OpenFail(c)
    <2>1. /\ fd[c] = NoFd /\ UNCHANGED <<kmdVars, fd>>
          /\ \A d \in Client \ {c} : pc'[d] = pc[d] /\ op'[d] = op[d] /\ ret'[d] = ret[d]
      BY <1>1, <1>5 DEF OpenFail, Return, SessionTypeOK, SessionInv, OpeningIsClosed
    <2>2. FileOf(c)' = NoFile
      BY <2>1 DEF FileOf
    <2> QED
      BY <2>1, <2>2 DEF FileOf, kmdVars, Moves
  <1>6. CASE Close(c)
    <2>1. PICK r \in Codes : tt_close(c, r) /\ Return(c, "tt_close", r)
      BY <1>6 DEF Close
    <2>2. /\ flags' = flags
          /\ \A d \in Client \ {c} : pc'[d] = pc[d] /\ op'[d] = op[d] /\ ret'[d] = ret[d]
      BY <1>1, <1>6, <2>1 DEF Close, Return, SessionTypeOK
    <2> QED
      BY <2>1, <2>2, CloseMoves DEF Moves
  <1> QED
    BY <1>2, <1>3, <1>4, <1>5, <1>6 DEF LifecycleStep

LEMMA LifecycleSteps ==
  ASSUME ~CloseFails, BoxInv, NEW c \in Client, spc[c] = "idle", LifecycleStep(c),
         Abandon, UNCHANGED <<waitVars, rsp>>
  PROVE  Kept /\ MailStep
  <1>1. SessionInv'
    BY LifecycleKeeps DEF BoxInv
  <1>2. WaitTypeOK' /\ UNCHANGED <<spc, inCall>>
    BY WaitStays
  <1>3. /\ Moves(c)
        /\ FileOf(c)' # FileOf(c) \/ FileOf(c)' = NoFile
        /\ \A d \in Client \ {c} : /\ FileOf(d)' = FileOf(d) /\ pc'[d] = pc[d]
                                   /\ op'[d] = op[d] /\ ret'[d] = ret[d]
        /\ \A f \in File : st'[f] = "live" => st[f] \in {"live", "free"}
    BY LifecycleMoves DEF BoxInv
  <1>4. \A d \in Client : Moves(d)
    BY <1>3 DEF Moves
  <1>5. \A d \in Client : WaitOf(d)'
    <2>1. WaitOf(c)'
      BY <1>2 DEF WaitOf
    <2>2. \A d \in Client \ {c} : WaitOf(d)'
      BY <1>2, <1>3 DEF WaitOf, BoxInv
    <2> QED
      BY <2>1, <2>2
  <1>6. \A d \in Client : \/ op'[d] = op[d] /\ ret'[d] = ret[d] /\ spc'[d] = spc[d]
                          \/ FileOf(d)' # FileOf(d)
                          \/ FileOf(d)' = NoFile
    BY <1>2, <1>3
  <1> QED
    BY <1>1, <1>2, <1>3, <1>4, <1>5, <1>6, MovesSteps

LEMMA SmcExitSteps ==
  ASSUME BoxInv, NEW p \in Proc, SmcExit(p)
  PROVE  Kept /\ MailStep
  <1>1. ProcessExit(p) /\ Abandon /\ rsp' = rsp
    BY DEF SmcExit
  <1>2. SessionInv'
    <2>1. SessionTypeOK'
      BY <1>1, ProcessExitTypes DEF BoxInv, SessionInv
    <2>2. OpeningIsClosed'
      BY <1>1 DEF ProcessExit, OpeningIsClosed, BoxInv, SessionInv
    <2> QED
      BY <1>1, <2>1, <2>2, ExitKeeps DEF BoxInv, SessionInv
  <1>3. WaitTypeOK'
    <2>1. WaitTypeOK
      BY TypesSplit DEF BoxInv
    <2>2. 0 \in 0..Budget /\ 0 \in 0..SpinPolls /\ "OK" \in Codes
      BY SmcAssumption DEF Codes
    <2>3. /\ spc' \in [Client -> {"idle", "poll", "check", "sleep", "drop"}]
          /\ err' \in [Client -> Codes]
      BY <2>1, <2>2 DEF SmcExit, WaitTypeOK
    <2>4. waited' \in [Client -> 0..Budget] /\ spins' \in [Client -> 0..SpinPolls]
      BY <2>1, <2>2 DEF SmcExit, WaitTypeOK
    <2>5. inCall' \in [Client -> BOOLEAN]
      BY <2>1, Zenon DEF SmcExit, WaitTypeOK
    <2>6. asleep' \in [Client -> BOOLEAN]
      BY <2>1, Zenon DEF SmcExit, WaitTypeOK
    <2> QED
      BY <2>3, <2>4, <2>5, <2>6 DEF WaitTypeOK
  <1>4. \A c \in Client :
          IF Home[c] = p THEN fd'[c] = NoFd /\ spc'[c] = "idle"
          ELSE /\ fd'[c] = fd[c] /\ pc'[c] = pc[c] /\ op'[c] = op[c] /\ ret'[c] = ret[c]
               /\ spc'[c] = spc[c] /\ inCall'[c] = inCall[c]
    BY <1>1 DEF ProcessExit, SmcExit
  <1>5. /\ \A d \in Fd : fdtab'[d] = IF ProcOf[d] = p THEN NoFile ELSE fdtab[d]
        /\ \A f \in File : st'[f] = st[f] \/ st'[f] = "free"
    BY <1>1 DEF ProcessExit, Exit, Retain
  <1>6. \A c \in Client : IF Home[c] = p THEN FileOf(c)' = NoFile ELSE FileOf(c)' = FileOf(c)
    <2>1. \A c \in Client : fd[c] # NoFd => fd[c] \in Fd /\ ProcOf[fd[c]] = Home[c]
      BY DEF BoxInv, SessionInv, SessionTypeOK, DescriptorsOwned
    <2> QED
      BY <1>4, <1>5, <2>1 DEF FileOf
  <1>7. \A c \in Client : WaitOf(c)'
    BY <1>4 DEF BoxInv, WaitOf
  <1>8. \A c \in Client : Moves(c)
    BY <1>6 DEF Moves
  <1> QED
    BY <1>1, <1>2, <1>3, <1>4, <1>5, <1>6, <1>7, <1>8, MovesSteps

------------------------------------------------------------------------------
(* The theorems.                                                            *)

LEMMA SmcStartsWell == SmcInit => SmcInv /\ Box!Init
  <1> SUFFICES ASSUME SmcInit
               PROVE  SmcInv /\ Box!Init
    OBVIOUS
  <1>1. SessionInv
    <2>1. SessionTypeOK
      BY DEF SmcInit, SessionInit, KmdInit, SessionTypeOK, KmdTypeOK, Status, Ops, Codes
    <2> QED
      BY <2>1 DEF SmcInit, SessionInit, KmdInit, SessionInv, DescriptorsOwned, FileOf,
                  OpeningIsClosed, SlotsDistinct, FlagsRecorded, Arbitrated, Holds
  <1>2. SmcTypeOK
    BY <1>1, SmcAssumption DEF SmcInit, SessionInv, SmcTypeOK, MaybeReq, Codes
  <1>3. DriverInv
    BY DEF SmcInit, DriverInv
  <1>4. \A c \in Client : WaitOf(c) /\ LeavesFree(c)
    BY KmdAssumption DEF SmcInit, SessionInit, WaitOf, LeavesFree
  <1>5. \A c \in Client : Outstanding(c) = NoReq
    BY DEF SmcInit, Outstanding
  <1> QED
    BY <1>1, <1>2, <1>3, <1>4, <1>5 DEF SmcInv, BoxInv, Box!Init, SmcInit

LEMMA SmcSteps ==
  ASSUME ~CloseFails, BoxInv, [SmcNext]_smcVars
  PROVE  Kept /\ MailStep
  <1>1. ASSUME NEW c \in Client, spc[c] = "idle", LifecycleStep(c), Abandon,
               UNCHANGED <<waitVars, rsp>>
        PROVE  Kept /\ MailStep
    BY <1>1, LifecycleSteps
  <1>2. ASSUME NEW c \in Client, SmcOp(c)
        PROVE  Kept /\ MailStep
    BY <1>2, SmcPostSteps, SmcCallSteps, SmcPollSteps, SmcWaitSteps, SmcDropSteps DEF SmcOp
  <1>3. ASSUME NEW c \in Client, WaitStep(c)
        PROVE  Kept /\ MailStep
    BY <1>3, WaitPollSteps, WaitCheckSteps, WaitWakeSteps, CallDropSteps DEF WaitStep
  <1>4. ASSUME NEW f \in File, Dispatch(f) \/ FailExchange(f)
        PROVE  Kept /\ MailStep
    BY <1>4, DispatchSteps, FailExchangeSteps
  <1>5. CASE Answer \/ SmcTick \/ SmcOutside
    BY <1>5, AnswerSteps, SmcTickSteps, SmcOutsideSteps
  <1>6. ASSUME NEW p \in Proc, SmcExit(p)
        PROVE  Kept /\ MailStep
    BY <1>6, SmcExitSteps
  <1>7. CASE UNCHANGED smcVars
    <2>1. UNCHANGED <<sessionVars, driverVars, waitVars, rsp>>
      BY <1>7 DEF smcVars
    <2>2. SessionInv' /\ st' = st /\ UNCHANGED <<op, ret, pc>> /\ \A c \in Client : FileOf(c)' = FileOf(c)
      BY <2>1, SessionStays
    <2>3. SlotsTypeOK' /\ DriverInv' /\ phase' = phase /\ msg' = msg
      BY <2>1, <2>2, DriverStays
    <2>4. WaitTypeOK' /\ UNCHANGED <<spc, inCall>>
      BY <2>1, WaitStays
    <2> QED
      BY <2>1, <2>2, <2>3, <2>4, OutsideSteps
  <1> QED
    BY <1>1, <1>2, <1>3, <1>4, <1>5, <1>6, <1>7 DEF SmcNext

LEMMA SmcInvInductive ==
  ASSUME ~CloseFails
  PROVE  SmcSpec => []SmcInv
  <1>1. SmcInit => SmcInv
    BY SmcStartsWell
  <1>2. SmcInv /\ [SmcNext]_smcVars => SmcInv'
    BY SmcSteps DEF SmcInv, Kept
  <1> QED
    BY <1>1, <1>2, PTL DEF SmcSpec

\* Every state of the message layer is well typed.
THEOREM SmcTypeCorrect ==
  ASSUME ~CloseFails
  PROVE  SmcSpec => []SmcTypeOK
  <1>1. SmcInv => SmcTypeOK
    BY DEF SmcInv, BoxInv
  <1> QED
    BY <1>1, SmcInvInductive, PTL

\* However tt_smc_call ends, with a reply, a failed exchange, a timeout or a lost
\* device, its session may post again, unless it was refused for being busy.
THEOREM SmcCallLeavesFree ==
  ASSUME ~CloseFails
  PROVE  SmcSpec => []CallLeavesFree
  <1>1. SmcInv => CallLeavesFree
    BY DEF SmcInv, LeavesFree, CallLeavesFree
  <1> QED
    BY <1>1, SmcInvInductive, PTL

\* Posting, polling, waiting, dropping and calling implement the mailbox ttdal.h
\* describes: every reply a client is handed answers the message it has out.
THEOREM SmcIsMailbox ==
  ASSUME ~CloseFails
  PROVE  SmcSpec => IsMailbox
  <1>1. SmcInit => Box!Init
    BY SmcStartsWell
  <1>2. SmcInv /\ [SmcNext]_smcVars => [Box!Next]_(Box!mailVars)
    <2> SUFFICES ASSUME SmcInv, [SmcNext]_smcVars
                 PROVE  Box!Next \/ UNCHANGED Box!mailVars
      OBVIOUS
    <2>1. MailStep
      BY SmcSteps DEF SmcInv
    <2> QED
      BY <2>1 DEF MailStep, Mail, Box!mailVars
  <1> QED
    BY <1>1, <1>2, SmcInvInductive, PTL DEF SmcSpec, IsMailbox, Box!Spec

------------------------------------------------------------------------------
(* The handles of the bindings (module Queue): who a message belongs to.    *)

\* Client c's session refers to a description that is not severed.
Live(c) == FileOf(c) \in File /\ st[FileOf(c)] = "live"

\* A call in progress is a wait with a message, of a Rust session without handles; a
\* Python session waits in calls only; and what is to be dropped is that of a failed call.
CallOf(c) ==
  /\ called[c] # NoReq <=> spc[c] # "idle" /\ inCall[c]
  /\ c \in Rust /\ called[c] # NoReq => Handles(c) = {}
  /\ c \notin Rust /\ spc[c] # "idle" => inCall[c]
  /\ spc[c] = "drop" => err[c] # "OK"

\* Until a handle strays, the message on a live session is that of its one pending
\* handle, or that of the call in progress.
Owned(c) ==
  ~strayed[c] =>
    /\ \A g, h \in Pending(c) : g = h
    /\ called[c] # NoReq /\ spc[c] # "drop" => Pending(c) = {}
    /\ Live(c) =>
         /\ c \notin Rust /\ Pending(c) # {} => phase[FileOf(c)] # "none"
         /\ called[c] # NoReq /\ spc[c] # "drop" => phase[FileOf(c)] # "none"
         /\ phase[FileOf(c)] # "none" =>
              \/ \E h \in Pending(c) : asked[h] = msg[FileOf(c)]
              \/ Pending(c) = {} /\ called[c] = msg[FileOf(c)]

HandlesTypeOK ==
  /\ sess \in [Handle -> Client \cup {NoClient}]
  /\ asked \in [Handle -> MaybeReq]
  /\ done \in [Handle -> BOOLEAN]
  /\ called \in [Client -> MaybeReq]
  /\ strayed \in [Client -> BOOLEAN]
  /\ \A h \in Handle : sess[h] \in Rust => \A g \in Handle : sess[g] = sess[h] => g = h

QueueInv ==
  /\ BoxInv /\ HandlesTypeOK
  /\ \A c \in Client : CallOf(c) /\ Owned(c)

\* What OwnMessages says of a step and one client.
Answers(c) ==
  /\ \A h \in Handles(c) :
       /\ done'[h] # done[h] \/ sess'[h] # c
       /\ ~strayed'[c] /\ Emptied(c)
       => Outstanding(c) = asked[h]
  /\ called[c] # NoReq /\ called'[c] = NoReq /\ ret'[c] = "OK" /\ ~strayed[c]
     => rsp'[c] = called[c]

Good(c) == CallOf(c)' /\ Owned(c)' /\ Answers(c)
QueueStep == QueueInv' /\ \A c \in Client : Answers(c)

\* What client d's messages depend on stays: its box, its handles, its call.
SameBox(d) ==
  /\ FileOf(d)' = FileOf(d)
  /\ FileOf(d) \in File /\ st'[FileOf(d)] = "live" =>
       /\ st[FileOf(d)] = "live" /\ msg'[FileOf(d)] = msg[FileOf(d)]
       /\ phase'[FileOf(d)] = "none" <=> phase[FileOf(d)] = "none"

SameHandles(d) ==
  \A h \in Handle : /\ sess'[h] = d <=> sess[h] = d
                    /\ sess[h] = d => done'[h] = done[h] /\ asked'[h] = asked[h]

SameCall(d) ==
  /\ called'[d] = called[d] /\ strayed'[d] = strayed[d]
  /\ spc'[d] = spc[d] /\ inCall'[d] = inCall[d] /\ err'[d] = err[d]

LEMMA SameHandlesSets ==
  ASSUME NEW d \in Client, SameHandles(d)
  PROVE  Handles(d)' = Handles(d) /\ Pending(d)' = Pending(d)
  BY DEF SameHandles, Handles, Pending

LEMMA OwnedSame ==
  ASSUME NEW d \in Client, Owned(d), SameBox(d), SameHandles(d),
         called'[d] = called[d], strayed[d] => strayed'[d],
         called[d] # NoReq /\ spc'[d] # "drop" => spc[d] # "drop"
  PROVE  Owned(d)'
  <1>1. Pending(d)' = Pending(d) /\ \A h \in Pending(d) : asked'[h] = asked[h]
    BY SameHandlesSets DEF SameHandles, Pending, Handles
  <1>2. Live(d)' => /\ Live(d) /\ FileOf(d)' = FileOf(d)
                    /\ msg'[FileOf(d)'] = msg[FileOf(d)]
                    /\ phase'[FileOf(d)'] = "none" <=> phase[FileOf(d)] = "none"
    BY DEF Live, SameBox
  <1> QED
    BY <1>1, <1>2 DEF Owned

LEMMA SameGood ==
  ASSUME NEW d \in Client, CallOf(d), Owned(d), SameBox(d), SameHandles(d), SameCall(d)
  PROVE  Good(d)
  <1>1. Owned(d)'
    BY OwnedSame DEF SameCall
  <1>2. CallOf(d)'
    BY SameHandlesSets DEF CallOf, SameCall
  <1>3. Answers(d)
    BY DEF Answers, SameHandles, SameCall, Handles
  <1> QED
    BY <1>1, <1>2, <1>3 DEF Good

\* A step on client c's session and handles alone.
Elsewhere(c) ==
  /\ UNCHANGED <<kmdVars, fd>>
  /\ \A f \in File \ {FileOf(c)} : phase'[f] = phase[f] /\ msg'[f] = msg[f]
  /\ \A d \in Client \ {c} : SameHandles(d) /\ SameCall(d)

LEMMA StepOf ==
  ASSUME QueueInv, NEW c \in Client, BoxInv', HandlesTypeOK', Elsewhere(c), Good(c)
  PROVE  QueueStep
  <1>1. ASSUME NEW d \in Client \ {c}
        PROVE  Good(d)
    <2>1. FileOf(d)' = FileOf(d) /\ st' = st
      BY DEF Elsewhere, kmdVars, FileOf
    <2>2. FileOf(d) \in File => FileOf(d) # FileOf(c)
      BY SlotIsOwn DEF QueueInv, BoxInv
    <2>3. SameBox(d)
      BY <2>1, <2>2 DEF SameBox, Elsewhere
    <2> QED
      BY <2>3, SameGood DEF QueueInv, Elsewhere
  <1> QED
    BY <1>1 DEF QueueStep, QueueInv, Good

------------------------------------------------------------------------------
(* What one ioctl does, as the handles see it.                              *)

\* A message in the box of a live session.
LEMMA BoxOf ==
  ASSUME BoxInv, NEW c \in Client
  PROVE  /\ SessionIo(c) = "OK" <=> Live(c)
         /\ Live(c) => SlotOf(c) = FileOf(c)
         /\ SessionIo(c) \notin {"EAGAIN", "EBUSY", "ESRCH"}
         /\ FileOf(c) \in File => /\ Outstanding(c) = msg[FileOf(c)]
                                  /\ phase[FileOf(c)] = "none" <=> msg[FileOf(c)] = NoReq
         /\ FileOf(c) \notin File => Outstanding(c) = NoReq
  BY IoIsLive, SlotIsOwn DEF BoxInv, DriverInv, Live, Outstanding

LEMMA PostBox ==
  ASSUME BoxInv, NEW c \in Client, NEW q \in Req, NEW r, Post(c, q, r), r = "OK"
  PROVE  /\ Live(c) /\ phase[FileOf(c)] = "none"
         /\ phase'[FileOf(c)] = "queued" /\ msg'[FileOf(c)] = q
  <1>1. /\ SessionIo(c) = "OK" /\ phase[SlotOf(c)] = "none"
        /\ phase' = [phase EXCEPT ![SlotOf(c)] = "queued"]
        /\ msg' = [msg EXCEPT ![SlotOf(c)] = q]
    BY DEF Post
  <1>2. Live(c) /\ SlotOf(c) = FileOf(c) /\ FileOf(c) \in File
    BY <1>1, BoxOf DEF Live
  <1> QED
    BY <1>1, <1>2 DEF BoxInv, SmcTypeOK

LEMMA PollBox ==
  ASSUME BoxInv, NEW c \in Client, NEW r, tt_smc_poll(c, r)
  PROVE  /\ r \in {"OK", "EAGAIN"} => Live(c)
         /\ r = "EAGAIN" => phase[FileOf(c)] # "none" /\ UNCHANGED <<driverVars, rsp>>
         /\ Live(c) /\ r # "EAGAIN" => phase'[FileOf(c)] = "none"
         /\ ~Live(c) => UNCHANGED <<driverVars, rsp>>
  <1>1. CASE SessionIo(c) # "OK"
    BY <1>1, BoxOf DEF tt_smc_poll
  <1>2. CASE SessionIo(c) = "OK"
    <2>1. Live(c) /\ SlotOf(c) = FileOf(c) /\ FileOf(c) \in File
      BY <1>2, BoxOf DEF Live
    <2>2. Clear(FileOf(c)) => phase'[FileOf(c)] = "none"
      BY <2>1 DEF Clear, BoxInv, SmcTypeOK
    <2> QED
      BY <1>2, <2>1, <2>2, SmcAssumption DEF tt_smc_poll, driverVars
  <1> QED
    BY <1>1, <1>2

LEMMA DropBox ==
  ASSUME BoxInv, NEW c \in Client, NEW r, tt_smc_drop(c, r)
  PROVE  /\ Live(c) => phase'[FileOf(c)] = "none"
         /\ ~Live(c) => UNCHANGED driverVars
  <1>1. Live(c) => Clear(FileOf(c)) /\ FileOf(c) \in File
    BY BoxOf DEF tt_smc_drop, Live
  <1>2. ~Live(c) => UNCHANGED driverVars
    BY BoxOf DEF tt_smc_drop
  <1> QED
    BY <1>1, <1>2 DEF Clear, BoxInv, SmcTypeOK

\* A step that only changes the slots, and what a reply was.
LEMMA SlotsOnly ==
  ASSUME BoxInv, UNCHANGED <<sessionVars, waitVars>>, SlotsTypeOK', DriverInv',
         rsp' \in [Client -> MaybeReq]
  PROVE  BoxInv'
  <1>1. SessionInv' /\ UNCHANGED <<op, ret, pc, st>>
    BY SessionStays
  <1>2. WaitTypeOK' /\ UNCHANGED <<spc, inCall>>
    BY WaitStays
  <1>3. SmcTypeOK'
    BY <1>1, <1>2, TypesSplit DEF SessionInv, SmcTypeOK, SlotsTypeOK, WaitTypeOK
  <1>4. \A c \in Client : WaitOf(c)'
    BY <1>1, <1>2 DEF BoxInv, WaitOf
  <1> QED
    BY <1>1, <1>3, <1>4 DEF BoxInv

------------------------------------------------------------------------------
(* The handles' own steps.                                                  *)

\* What SameCall says of every client where only the handles of one change.
LEMMA WaitsAlone ==
  ASSUME UNCHANGED <<waitVars, called>>, NEW d \in Client, strayed'[d] = strayed[d]
  PROVE  SameCall(d)
  BY DEF SameCall, waitVars

\* Session.post and Session::post.
LEMMA PostSteps ==
  ASSUME QueueInv, NEW c \in Client, NEW q \in Req, NEW r, Post(c, q, r),
         UNCHANGED <<handleSame, rsp, strayed>>, c \in Rust => Free(c),
         IF r = "OK" THEN \E h \in Handle : Made(h, c, q) ELSE UNCHANGED <<sess, asked, done>>
  PROVE  QueueStep
  <1>1. /\ BoxInv /\ HandlesTypeOK /\ CallOf(c) /\ Owned(c)
        /\ UNCHANGED <<sessionVars, waitVars, called, strayed, rsp, kmdVars, fd, st>>
    BY DEF QueueInv, handleSame, sessionVars, sessVars, kmdVars
  <1>2. /\ SlotsTypeOK' /\ DriverInv'
        /\ \A f \in File \ {FileOf(c)} : phase'[f] = phase[f] /\ msg'[f] = msg[f]
        /\ r # "OK" => msg' = msg /\ phase' = phase
    BY <1>1, PostDoes
  <1>3. BoxInv'
    BY <1>1, <1>2, SlotsOnly DEF BoxInv, SmcTypeOK
  <1>4. FileOf(c)' = FileOf(c)
    BY <1>1 DEF FileOf, kmdVars
  <1>5. CASE r # "OK"
    <2>1. \A d \in Client : SameHandles(d) /\ SameCall(d)
      BY <1>1, <1>5, WaitsAlone DEF SameHandles
    <2>2. HandlesTypeOK'
      BY <1>1, <1>5 DEF HandlesTypeOK
    <2>3. SameBox(c)
      BY <1>1, <1>2, <1>4, <1>5 DEF SameBox
    <2>4. Good(c)
      BY <1>1, <2>1, <2>3, SameGood
    <2> QED
      BY <1>1, <1>2, <1>3, <2>1, <2>2, <2>4, StepOf DEF Elsewhere
  <1>6. CASE r = "OK"
    <2>1. PICK h \in Handle : Made(h, c, q)
      BY <1>6
    <2>2. /\ sess[h] = NoClient /\ sess' = [sess EXCEPT ![h] = c]
          /\ asked' = [asked EXCEPT ![h] = q] /\ done' = [done EXCEPT ![h] = FALSE]
      BY <2>1 DEF Made
    <2>3. /\ sess'[h] = c /\ asked'[h] = q /\ done'[h] = FALSE
          /\ \A g \in Handle \ {h} : sess'[g] = sess[g] /\ asked'[g] = asked[g] /\ done'[g] = done[g]
      BY <1>1, <2>2 DEF HandlesTypeOK
    <2>4. c \in Rust => Handles(c) = {} /\ called[c] = NoReq
      BY <1>1 DEF Free, CanCall, CallOf
    <2>5. HandlesTypeOK'
      BY <1>1, <2>2, <2>3, <2>4, QueueAssumption DEF HandlesTypeOK, MaybeReq, Handles
    <2>6. \A d \in Client \ {c} : SameHandles(d) /\ SameCall(d)
      <3>1. \A d \in Client \ {c} : SameCall(d)
        BY <1>1, WaitsAlone
      <3>2. \A d \in Client \ {c} : SameHandles(d)
        BY <2>2, <2>3, QueueAssumption DEF SameHandles
      <3> QED
        BY <3>1, <3>2
    <2>7. /\ Live(c) /\ phase[FileOf(c)] = "none"
          /\ phase'[FileOf(c)] = "queued" /\ msg'[FileOf(c)] = q
      BY <1>1, <1>6, PostBox
    <2>8. Owned(c)'
      <3> SUFFICES ASSUME ~strayed'[c]
                   PROVE  Owned(c)'
        BY DEF Owned
      <3>1. Pending(c) = {} /\ (called[c] # NoReq => spc[c] = "drop")
        BY <1>1, <2>4, <2>7 DEF Owned, Pending
      <3>2. Pending(c)' = {h}
        BY <2>3, <3>1 DEF Pending, Handles
      <3>3. called' = called /\ spc' = spc
        BY <1>1 DEF waitVars
      <3> QED
        BY <1>4, <2>3, <2>7, <3>1, <3>2, <3>3 DEF Owned
    <2>9. CallOf(c)'
      BY <1>1, <2>4 DEF CallOf, waitVars
    <2>10. Answers(c)
      <3>1. \A g \in Handles(c) : g # h
        BY <2>2, QueueAssumption DEF Handles
      <3> QED
        BY <1>1, <2>3, <3>1 DEF Answers, Handles
    <2> QED
      BY <1>1, <1>2, <1>3, <2>5, <2>6, <2>8, <2>9, <2>10, StepOf DEF Elsewhere, Good
  <1> QED
    BY <1>5, <1>6

\* The handle h of session c looks for its reply, and is done or not afterwards.
LEMMA TrySteps ==
  ASSUME QueueInv, NEW h \in Handle, NEW c \in Client, sess[h] = c, NEW r, tt_smc_poll(c, r),
         UNCHANGED <<handleSame, sess, asked>>, c \in Rust => spc[c] = "idle",
         done' \in [Handle -> BOOLEAN], \A g \in Handle \ {h} : done'[g] = done[g],
         r # "EAGAIN" => done'[h], r = "EAGAIN" /\ ~done[h] => ~done'[h],
         strayed' \in [Client -> BOOLEAN], \A d \in Client \ {c} : strayed'[d] = strayed[d],
         ~strayed'[c] => ~strayed[c] /\ (done[h] => c \in Rust)
  PROVE  QueueStep
  <1>1. /\ BoxInv /\ HandlesTypeOK /\ CallOf(c) /\ Owned(c)
        /\ UNCHANGED <<sessionVars, waitVars, called, kmdVars, fd, st>>
        /\ called' = called /\ spc' = spc
    BY DEF QueueInv, handleSame, sessionVars, sessVars, kmdVars, waitVars
  <1>2. /\ SlotsTypeOK' /\ DriverInv' /\ rsp' \in [Client -> MaybeReq]
        /\ \A f \in File \ {FileOf(c)} : phase'[f] = phase[f] /\ msg'[f] = msg[f]
    BY <1>1, PollDoes
  <1>3. BoxInv'
    BY <1>1, <1>2, SlotsOnly
  <1>4. FileOf(c)' = FileOf(c) /\ (Live(c)' <=> Live(c))
    BY <1>1 DEF FileOf, Live, kmdVars
  <1>5. HandlesTypeOK'
    BY <1>1 DEF HandlesTypeOK
  <1>6. sess' = sess /\ asked' = asked
    OBVIOUS
  <1>7. \A d \in Client \ {c} : SameHandles(d) /\ SameCall(d)
    BY <1>1, <1>6, WaitsAlone DEF SameHandles
  <1>8. /\ r = "EAGAIN" => Live(c) /\ phase[FileOf(c)] # "none" /\ UNCHANGED <<driverVars, rsp>>
        /\ Live(c) /\ r # "EAGAIN" => phase'[FileOf(c)] = "none"
        /\ ~Live(c) => UNCHANGED <<driverVars, rsp>>
    BY <1>1, PollBox
  <1>9. Handles(c)' = Handles(c) /\ h \in Handles(c)
    BY <1>6 DEF Handles
  <1>10. c \in Rust => called[c] = NoReq /\ Handles(c) = {h}
    BY <1>1, <1>9 DEF CallOf, HandlesTypeOK, Handles
  <1>11. CallOf(c)'
    BY <1>1, <1>9 DEF CallOf, waitVars
  <1>12. ASSUME ~strayed[c], done[h], c \in Rust, Live(c)
         PROVE  phase[FileOf(c)] = "none"
    <2>1. Pending(c) = {}
      BY <1>10, <1>12 DEF Pending
    <2>2. FileOf(c) \in File /\ (phase[FileOf(c)] # "none" => msg[FileOf(c)] # NoReq)
      BY <1>1, <1>12, BoxOf DEF Live
    <2> QED
      BY <1>1, <1>10, <1>12, <2>1, <2>2 DEF Owned
  <1>13. Owned(c)'
    <2> SUFFICES ASSUME ~strayed'[c]
                 PROVE  Owned(c)'
      BY DEF Owned
    <2>1. ~strayed[c] /\ (done[h] => c \in Rust)
      OBVIOUS
    <2>2. CASE r = "EAGAIN"
      <3>1. ~done[h] /\ ~done'[h]
        BY <1>8, <1>12, <2>1, <2>2
      <3>2. Pending(c)' = Pending(c) /\ UNCHANGED driverVars
        <4>1. \A g \in Handle : done'[g] <=> done[g]
          BY <3>1
        <4> QED
          BY <1>8, <1>9, <2>2, <4>1 DEF Pending, Handles
      <3> QED
        BY <1>1, <1>4, <1>6, <2>1, <3>2 DEF Owned, driverVars
    <2>3. CASE r # "EAGAIN"
      <3>1. Pending(c)' = Pending(c) \ {h}
        <4>1. done'[h] /\ \A g \in Handle \ {h} : done'[g] <=> done[g]
          BY <2>3
        <4> QED
          BY <1>9, <4>1 DEF Pending, Handles
      <3>2. Live(c) => phase'[FileOf(c)] = "none"
        BY <1>8, <2>3
      <3>3. c \notin Rust => Pending(c) = {h}
        BY <1>1, <1>9, <2>1 DEF Owned, Pending
      <3>4. c \notin Rust => Pending(c)' = {} /\ (called[c] # NoReq => spc[c] = "drop")
        BY <1>1, <2>1, <3>1, <3>3 DEF Owned
      <3>5. \A g, k \in Pending(c)' : g = k
        BY <1>1, <2>1, <3>1 DEF Owned
      <3> QED
        BY <1>1, <1>4, <1>10, <3>2, <3>4, <3>5 DEF Owned
    <2> QED
      BY <2>2, <2>3
  <1>14. Answers(c)
    <2>1. ASSUME done'[h] # done[h], ~strayed'[c], Emptied(c)
          PROVE  Outstanding(c) = asked[h]
      <3>1. /\ FileOf(c) \in File /\ Outstanding(c) = msg[FileOf(c)]
            /\ phase[FileOf(c)] # "none" /\ msg'[FileOf(c)] # msg[FileOf(c)]
        <4>1. Outstanding(c)' = IF FileOf(c) \in File THEN msg'[FileOf(c)] ELSE NoReq
          BY <1>4 DEF Outstanding
        <4> QED
          BY <1>1, <2>1, <4>1, BoxOf DEF Emptied
      <3>2. Live(c) /\ r # "EAGAIN"
        BY <1>8, <3>1 DEF driverVars
      <3>3. ~done[h] /\ h \in Pending(c)
        BY <1>6, <1>9, <2>1, <3>2 DEF Pending, HandlesTypeOK
      <3> QED
        BY <1>1, <2>1, <3>1, <3>2, <3>3 DEF Owned
    <2> QED
      BY <1>1, <1>6, <2>1 DEF Answers, Handles
  <1> QED
    BY <1>1, <1>2, <1>3, <1>5, <1>7, <1>11, <1>13, <1>14, StepOf DEF Elsewhere, Good

\* The handle h of session c gives its message up: it is gone, or done, and drops what it
\* has pending unless the session is being opened anew.
LEMMA GiveUpSteps ==
  ASSUME QueueInv, NEW h \in Handle, NEW c \in Client, sess[h] = c,
         UNCHANGED <<handleSame, rsp, strayed>>,
         \/ Gone(h)
         \/ done' = [done EXCEPT ![h] = TRUE] /\ UNCHANGED <<sess, asked>>,
         \/ UNCHANGED driverVars /\ (done[h] \/ pc[c] # "idle")
         \/ ~done[h] /\ \E r : tt_smc_drop(c, r)
  PROVE  QueueStep
  <1>1. /\ BoxInv /\ HandlesTypeOK /\ CallOf(c) /\ Owned(c)
        /\ UNCHANGED <<sessionVars, waitVars, called, kmdVars, fd, st>>
        /\ called' = called /\ spc' = spc /\ strayed' = strayed
    BY DEF QueueInv, handleSame, sessionVars, sessVars, kmdVars, waitVars
  <1>2. /\ SlotsTypeOK' /\ DriverInv'
        /\ \A f \in File \ {FileOf(c)} : phase'[f] = phase[f] /\ msg'[f] = msg[f]
    BY <1>1, DriverStays, DropDoes
  <1>3. BoxInv'
    BY <1>1, <1>2, SlotsOnly DEF BoxInv, SmcTypeOK
  <1>4. FileOf(c)' = FileOf(c) /\ (Live(c)' <=> Live(c))
    BY <1>1 DEF FileOf, Live, kmdVars
  <1>5. /\ \A g \in Handle \ {h} : sess'[g] = sess[g] /\ asked'[g] = asked[g] /\ done'[g] = done[g]
        /\ sess'[h] = NoClient \/ (sess'[h] = c /\ done'[h])
    <2>1. CASE Gone(h)
      <3>1. \A g \in Handle \ {h} : sess'[g] = sess[g] /\ asked'[g] = asked[g]
        BY <1>1, <2>1 DEF HandlesTypeOK, Gone
      <3>2. \A g \in Handle \ {h} : done'[g] = done[g]
        BY <1>1, <2>1 DEF HandlesTypeOK, Gone
      <3>3. sess'[h] = NoClient
        BY <1>1, <2>1 DEF HandlesTypeOK, Gone
      <3> QED
        BY <3>1, <3>2, <3>3
    <2>2. CASE done' = [done EXCEPT ![h] = TRUE] /\ UNCHANGED <<sess, asked>>
      <3>1. done'[h] /\ \A g \in Handle \ {h} : done'[g] = done[g]
        BY <1>1, <2>2 DEF HandlesTypeOK
      <3> QED
        BY <2>2, <3>1
    <2> QED
      BY <2>1, <2>2
  <1>6. HandlesTypeOK'
    <2>1. /\ sess' \in [Handle -> Client \cup {NoClient}]
          /\ asked' \in [Handle -> MaybeReq] /\ done' \in [Handle -> BOOLEAN]
      BY <1>1 DEF HandlesTypeOK, Gone, MaybeReq
    <2> QED
      BY <1>1, <1>5, <2>1, QueueAssumption DEF HandlesTypeOK
  <1>7. \A d \in Client \ {c} : SameHandles(d) /\ SameCall(d)
    <2>1. \A d \in Client \ {c} : SameCall(d)
      BY <1>1, WaitsAlone
    <2> QED
      BY <1>5, <2>1, QueueAssumption DEF SameHandles
  <1>8. Pending(c)' = Pending(c) \ {h} /\ Handles(c)' \subseteq Handles(c)
    BY <1>5, QueueAssumption DEF Pending, Handles
  <1>9. CallOf(c)'
    BY <1>1, <1>8 DEF CallOf, waitVars
  <1>10. \A g \in Pending(c)' : g \in Pending(c) /\ asked'[g] = asked[g]
    BY <1>5, <1>8 DEF Pending, Handles
  <1>11. CASE UNCHANGED driverVars /\ (done[h] \/ pc[c] # "idle")
    <2>1. done[h] \/ ~Live(c)
      BY <1>1, <1>11, KmdAssumption
         DEF BoxInv, SessionInv, SessionTypeOK, OpeningIsClosed, Live, FileOf
    <2>2. done[h] => Pending(c)' = Pending(c)
      BY <1>8 DEF Pending
    <2>3. Owned(c)'
      BY <1>1, <1>4, <1>8, <1>10, <1>11, <2>1, <2>2 DEF Owned, driverVars
    <2>4. ~Emptied(c)
      BY <1>4, <1>11 DEF Emptied, Outstanding, driverVars
    <2>5. Answers(c)
      BY <1>1, <2>4 DEF Answers
    <2> QED
      BY <1>1, <1>2, <1>3, <1>6, <1>7, <1>9, <2>3, <2>5, StepOf DEF Elsewhere, Good
  <1>12. CASE ~done[h] /\ \E r : tt_smc_drop(c, r)
    <2>1. /\ Live(c) => phase'[FileOf(c)] = "none"
          /\ ~Live(c) => UNCHANGED driverVars
      BY <1>1, <1>12, DropBox
    <2>2. h \in Pending(c)
      BY <1>12 DEF Pending, Handles
    <2>3. Owned(c)'
      <3> SUFFICES ASSUME ~strayed[c]
                   PROVE  Owned(c)'
        BY <1>1 DEF Owned
      <3>1. Pending(c) = {h} /\ Pending(c)' = {}
        BY <1>1, <1>8, <2>2 DEF Owned
      <3>2. called[c] # NoReq => spc[c] = "drop"
        BY <1>1, <2>2 DEF Owned
      <3> QED
        BY <1>1, <1>4, <2>1, <3>1, <3>2 DEF Owned
    <2>4. ASSUME ~strayed[c], Emptied(c)
          PROVE  Outstanding(c) = asked[h]
      <3>1. /\ FileOf(c) \in File /\ Outstanding(c) = msg[FileOf(c)]
            /\ phase[FileOf(c)] # "none" /\ msg'[FileOf(c)] # msg[FileOf(c)]
        <4>1. Outstanding(c)' = IF FileOf(c) \in File THEN msg'[FileOf(c)] ELSE NoReq
          BY <1>4 DEF Outstanding
        <4> QED
          BY <1>1, <2>4, <4>1, BoxOf DEF Emptied
      <3>2. Live(c)
        BY <2>1, <3>1 DEF driverVars
      <3> QED
        BY <1>1, <2>2, <2>4, <3>1, <3>2 DEF Owned
    <2>5. Answers(c)
      BY <1>1, <1>5, <2>4 DEF Answers, Handles
    <2> QED
      BY <1>1, <1>2, <1>3, <1>6, <1>7, <1>9, <2>3, <2>5, StepOf DEF Elsewhere, Good
  <1> QED
    BY <1>11, <1>12

LEMMA PostIsStep ==
  ASSUME QueueInv, NEW c \in Client, NEW q \in Req, RsPost(c, q) \/ PyPost(c, q)
  PROVE  QueueStep
  <1>1. PICK r \in Codes :
          /\ Post(c, q, r)
          /\ IF r = "OK" THEN \E h \in Handle : Made(h, c, q) ELSE UNCHANGED <<sess, asked, done>>
    BY DEF RsPost, PyPost
  <1>2. UNCHANGED <<handleSame, rsp, strayed>> /\ (c \in Rust => Free(c))
    BY DEF RsPost, PyPost, Shared
  <1> QED
    BY <1>1, <1>2, PostSteps

LEMMA TryIsStep ==
  ASSUME QueueInv, NEW h \in Handle, RsTryWait(h) \/ PyPoll(h)
  PROVE  QueueStep
  <1>1. HandlesTypeOK
    BY DEF QueueInv
  <1>2. PICK c \in Client : c = sess[h]
    BY <1>1, QueueAssumption DEF RsTryWait, PyPoll, HandlesTypeOK
  <1>3. CASE RsTryWait(h)
    <2>1. PICK r \in Codes : tt_smc_poll(c, r) /\ done' = [done EXCEPT ![h] = (r # "EAGAIN")]
      BY <1>2, <1>3 DEF RsTryWait, Settle
    <2>2. /\ c \in Rust /\ spc[c] = "idle"
          /\ UNCHANGED <<handleSame, sess, asked>> /\ strayed' = strayed
      BY <1>2, <1>3 DEF RsTryWait
    <2>3. strayed' \in [Client -> BOOLEAN] /\ \A d \in Client : strayed'[d] = strayed[d]
      BY <1>1, <2>2 DEF HandlesTypeOK
    <2>4. /\ done' \in [Handle -> BOOLEAN]
          /\ \A g \in Handle \ {h} : done'[g] = done[g]
          /\ done'[h] <=> r # "EAGAIN"
      BY <1>1, <2>1 DEF HandlesTypeOK
    <2> QED
      BY <1>2, <2>1, <2>2, <2>3, <2>4, TrySteps
  <1>4. CASE PyPoll(h)
    <2>1. PICK r \in Codes :
            tt_smc_poll(c, r) /\ done' = [done EXCEPT ![h] = done[h] \/ r # "EAGAIN"]
      BY <1>2, <1>4 DEF PyPoll
    <2>2. /\ c \notin Rust /\ UNCHANGED <<handleSame, sess, asked>>
          /\ strayed' = [strayed EXCEPT ![c] = strayed[c] \/ done[h]]
      BY <1>2, <1>4 DEF PyPoll, Shared
    <2>3. strayed' \in [Client -> BOOLEAN]
      BY <1>1, <2>2 DEF HandlesTypeOK
    <2>4. \A d \in Client \ {c} : strayed'[d] = strayed[d]
      BY <1>1, <2>2 DEF HandlesTypeOK
    <2>5. ~strayed'[c] => ~strayed[c] /\ ~done[h]
      BY <1>1, <2>2 DEF HandlesTypeOK
    <2>6. /\ done' \in [Handle -> BOOLEAN]
          /\ \A g \in Handle \ {h} : done'[g] = done[g]
          /\ r # "EAGAIN" => done'[h]
          /\ r = "EAGAIN" /\ ~done[h] => ~done'[h]
      BY <1>1, <2>1 DEF HandlesTypeOK
    <2> QED
      BY <1>2, <2>1, <2>2, <2>3, <2>4, <2>5, <2>6, TrySteps
  <1> QED
    BY <1>3, <1>4

LEMMA GiveUpIsStep ==
  ASSUME QueueInv, NEW h \in Handle, RsDrop(h) \/ PyDrop(h) \/ PyCollect(h)
  PROVE  QueueStep
  <1>1. HandlesTypeOK
    BY DEF QueueInv
  <1>2. PICK c \in Client : c = sess[h]
    BY <1>1, QueueAssumption DEF RsDrop, PyDrop, PyCollect, HandlesTypeOK
  <1>3. UNCHANGED <<handleSame, rsp, strayed>>
    BY DEF RsDrop, PyDrop, PyCollect
  <1>4. \/ Gone(h)
        \/ done' = [done EXCEPT ![h] = TRUE] /\ UNCHANGED <<sess, asked>>
    BY DEF RsDrop, PyDrop, PyCollect
  <1>5. \/ UNCHANGED driverVars /\ (done[h] \/ pc[c] # "idle")
        \/ ~done[h] /\ \E r : tt_smc_drop(c, r)
    <2>1. CASE RsDrop(h)
      <3>1. IF done[h] THEN UNCHANGED driverVars ELSE \E r \in Codes : tt_smc_drop(sess[h], r)
        BY <2>1 DEF RsDrop
      <3> QED
        BY <1>2, <3>1
    <2>2. CASE PyDrop(h) \/ PyCollect(h)
      <3>1. c \notin Rust /\ Discard(h)
        BY <1>2, <2>2 DEF PyDrop, PyCollect
      <3>2. CASE done[h] \/ ~Shared(c)
        BY <1>2, <3>1, <3>2 DEF Discard, Shared
      <3>3. CASE ~done[h] /\ Shared(c)
        BY <1>2, <3>1, <3>3 DEF Discard
      <3> QED
        BY <3>2, <3>3
    <2> QED
      BY <2>1, <2>2
  <1> QED
    BY <1>2, <1>3, <1>4, <1>5, GiveUpSteps

\* Session.call and Session::call, up to the first poll.
LEMMA CallIsStep ==
  ASSUME QueueInv, NEW c \in Client, NEW q \in Req, RsCall(c, q) \/ PyCall(c, q)
  PROVE  QueueStep
  <1>1. /\ BoxInv /\ HandlesTypeOK /\ CallOf(c) /\ Owned(c)
        /\ SmcCall(c, q) /\ spc[c] = "idle"
    BY DEF QueueInv, RsCall, PyCall, SmcCall, CanCall
  <1>2. /\ c \in Rust => Handles(c) = {}
        /\ called' = [called EXCEPT ![c] = IF spc'[c] = "idle" THEN NoReq ELSE q]
        /\ sess' = sess /\ asked' = asked /\ done' = done /\ strayed' = strayed
    BY DEF RsCall, PyCall, Free, Exclusively, Shared
  <1>3. called[c] = NoReq
    BY <1>1 DEF CallOf
  <1>4. BoxInv'
    BY <1>1, SmcCallSteps DEF Kept
  <1>5. PICK r \in Codes : /\ Post(c, q, r) /\ Reports(c, "tt_smc_call", r)
                           /\ IF r = "OK" THEN EnterWait(c, TRUE) ELSE UNCHANGED waitVars
    BY <1>1 DEF SmcCall
  <1>6. UNCHANGED <<kmdVars, fd>> /\ st' = st /\ FileOf(c)' = FileOf(c)
    BY <1>5 DEF Reports, kmdVars, FileOf
  <1>7. /\ \A f \in File \ {FileOf(c)} : phase'[f] = phase[f] /\ msg'[f] = msg[f]
        /\ r # "OK" => msg' = msg /\ phase' = phase
    BY <1>1, <1>5, <1>6, PostDoes
  <1>8. HandlesTypeOK'
    BY <1>1, <1>2 DEF HandlesTypeOK, MaybeReq
  <1>9. \A d \in Client : SameHandles(d)
    BY <1>2 DEF SameHandles
  <1>10. Answers(c)
    BY <1>2, <1>3 DEF Answers, Handles
  <1>11. CASE r # "OK"
    <2>1. UNCHANGED waitVars
      BY <1>5, <1>11
    <2>2. spc' = spc /\ called' = called
      BY <1>1, <1>2, <1>3, <2>1 DEF waitVars, HandlesTypeOK
    <2>3. \A d \in Client : SameCall(d)
      BY <1>2, <2>1, <2>2, WaitsAlone
    <2>4. SameBox(c)
      BY <1>6, <1>7, <1>11 DEF SameBox
    <2>5. Good(c)
      BY <1>1, <1>9, <2>3, <2>4, SameGood
    <2> QED
      BY <1>4, <1>6, <1>7, <1>8, <1>9, <2>3, <2>5, StepOf DEF Elsewhere
  <1>12. CASE r = "OK"
    <2>1. /\ spc' = [spc EXCEPT ![c] = "poll"] /\ inCall' = [inCall EXCEPT ![c] = TRUE]
          /\ err' = err
      BY <1>5, <1>12 DEF EnterWait, Goto
    <2>2. spc'[c] = "poll" /\ inCall'[c] /\ called'[c] = q /\ q # NoReq
      BY <1>1, <1>2, <2>1, SmcAssumption DEF BoxInv, SmcTypeOK, HandlesTypeOK
    <2>3. \A d \in Client \ {c} : SameCall(d)
      <3>1. \A d \in Client \ {c} : spc'[d] = spc[d] /\ called'[d] = called[d]
        BY <1>1, <1>2, <2>1 DEF BoxInv, SmcTypeOK, HandlesTypeOK
      <3>2. \A d \in Client \ {c} : inCall'[d] = inCall[d]
        BY <1>1, <2>1 DEF BoxInv, SmcTypeOK
      <3> QED
        BY <1>2, <2>1, <3>1, <3>2 DEF SameCall
    <2>4. /\ Live(c) /\ phase[FileOf(c)] = "none"
          /\ phase'[FileOf(c)] = "queued" /\ msg'[FileOf(c)] = q
      BY <1>1, <1>5, <1>12, PostBox
    <2>5. Handles(c)' = Handles(c) /\ Pending(c)' = Pending(c)
      BY <1>2 DEF Handles, Pending
    <2>6. ~strayed[c] => Pending(c) = {}
      BY <1>1, <1>2, <2>4 DEF Owned, Pending
    <2>7. Owned(c)'
      BY <1>2, <1>6, <2>2, <2>4, <2>5, <2>6 DEF Owned
    <2>8. CallOf(c)'
      BY <1>2, <2>2, <2>5 DEF CallOf
    <2> QED
      BY <1>4, <1>6, <1>7, <1>8, <1>9, <1>10, <2>3, <2>7, <2>8, StepOf DEF Elsewhere, Good
  <1> QED
    BY <1>11, <1>12

\* Queued::wait, up to the first poll.
LEMMA WaitIsStep ==
  ASSUME QueueInv, NEW h \in Handle, RsWait(h)
  PROVE  QueueStep
  <1>1. HandlesTypeOK /\ BoxInv
    BY DEF QueueInv
  <1>2. PICK c \in Client : c = sess[h]
    BY <1>1, QueueAssumption DEF RsWait
  <1>3. CallOf(c) /\ Owned(c)
    BY DEF QueueInv
  <1>4. /\ SmcWait(c) /\ c \in Rust /\ spc[c] = "idle" /\ UNCHANGED driverVars
        /\ sess' = sess /\ asked' = asked /\ called' = called /\ strayed' = strayed
        /\ IF spc'[c] = "idle" THEN done' = [done EXCEPT ![h] = (ret'[c] # "ETIMEDOUT")]
                               ELSE done' = done
    BY <1>2 DEF RsWait, Settle, SmcWait, CanCall
  <1>5. BoxInv'
    BY <1>4, <1>1, SmcWaitSteps DEF Kept
  <1>6. called[c] = NoReq
    BY <1>3, <1>4 DEF CallOf
  <1>7. UNCHANGED <<kmdVars, fd>> /\ st' = st /\ FileOf(c)' = FileOf(c) /\ phase' = phase /\ msg' = msg
    BY <1>4 DEF SmcWait, Reports, kmdVars, FileOf, driverVars
  <1>8. Handles(c)' = Handles(c) /\ h \in Handles(c)
    BY <1>2, <1>4 DEF Handles
  <1>9. \A g \in Handles(c) : g = h
    BY <1>1, <1>2, <1>4 DEF HandlesTypeOK, Handles
  <1>10. /\ spc' \in [Client -> {"idle", "poll", "check", "sleep", "drop"}]
         /\ err' = err
         /\ \A d \in Client \ {c} : spc'[d] = spc[d] /\ inCall'[d] = inCall[d]
    <2>1. \/ UNCHANGED waitVars
          \/ EnterWait(c, FALSE)
      BY <1>4 DEF SmcWait
    <2>2. CASE UNCHANGED waitVars
      BY <1>1, <2>2 DEF BoxInv, SmcTypeOK, waitVars
    <2>3. CASE EnterWait(c, FALSE)
      <3>1. /\ spc' = [spc EXCEPT ![c] = "poll"] /\ inCall' = [inCall EXCEPT ![c] = FALSE]
            /\ err' = err
        BY <2>3 DEF EnterWait, Goto
      <3>2. \A d \in Client \ {c} : inCall'[d] = inCall[d]
        BY <1>1, <3>1 DEF BoxInv, SmcTypeOK
      <3> QED
        BY <1>1, <3>1, <3>2 DEF BoxInv, SmcTypeOK
    <2> QED
      BY <2>1, <2>2, <2>3
  <1>11. \A d \in Client \ {c} : SameCall(d)
    BY <1>4, <1>10 DEF SameCall
  <1>12. \A g \in Handle \ {h} : done'[g] = done[g]
    BY <1>1, <1>4 DEF HandlesTypeOK
  <1>13. \A d \in Client \ {c} : SameHandles(d)
    BY <1>2, <1>4, <1>12 DEF SameHandles
  <1>14. HandlesTypeOK'
    <2>1. done' \in [Handle -> BOOLEAN]
      BY <1>1, <1>4 DEF HandlesTypeOK
    <2> QED
      BY <1>1, <1>4, <2>1 DEF HandlesTypeOK
  <1>15. CallOf(c)' /\ (fd[c] = NoFd => done'[h])
    <2>1. CASE fd[c] = NoFd
      <3>1. Reports(c, "tt_smc_wait", "ENOTCONN") /\ UNCHANGED waitVars
        BY <1>4, <2>1 DEF SmcWait
      <3>2. spc'[c] = "idle" /\ ret'[c] = "ENOTCONN"
        BY <1>1, <1>4, <3>1 DEF Reports, Return, waitVars, BoxInv, SmcTypeOK, SessionTypeOK
      <3>3. done'[h]
        BY <1>1, <1>4, <3>2 DEF HandlesTypeOK
      <3> QED
        BY <1>4, <1>6, <3>2, <3>3 DEF CallOf
    <2>2. CASE fd[c] # NoFd
      <3>1. EnterWait(c, FALSE)
        BY <1>4, <2>2 DEF SmcWait
      <3>2. spc'[c] = "poll" /\ ~inCall'[c]
        BY <1>1, <3>1 DEF EnterWait, Goto, BoxInv, SmcTypeOK
      <3> QED
        BY <1>4, <1>6, <2>2, <3>2 DEF CallOf
    <2> QED
      BY <2>1, <2>2
  <1>16. Owned(c)'
    <2>1. CASE fd[c] = NoFd
      <3>1. ~Live(c)' /\ called'[c] = NoReq
        BY <1>4, <1>6, <1>7, <2>1, KmdAssumption DEF Live, FileOf
      <3>2. Pending(c)' = {}
        BY <1>8, <1>9, <1>15, <2>1 DEF Pending
      <3> QED
        BY <3>1, <3>2 DEF Owned
    <2>2. CASE fd[c] # NoFd
      <3>1. EnterWait(c, FALSE)
        BY <1>4, <2>2 DEF SmcWait
      <3>2. spc'[c] = "poll"
        BY <1>1, <3>1 DEF EnterWait, Goto, BoxInv, SmcTypeOK
      <3>3. Pending(c)' = Pending(c) /\ asked' = asked
        BY <1>4, <1>8, <3>2 DEF Pending
      <3>4. Live(c)' <=> Live(c)
        BY <1>7 DEF Live
      <3> QED
        BY <1>3, <1>4, <1>6, <1>7, <3>3, <3>4 DEF Owned
    <2> QED
      BY <2>1, <2>2
  <1>17. Answers(c)
    <2>1. ~Emptied(c)
      BY <1>7 DEF Emptied, Outstanding
    <2> QED
      BY <1>6, <2>1 DEF Answers
  <1> QED
    BY <1>1, <1>5, <1>7, <1>11, <1>13, <1>14, <1>15, <1>16, <1>17, StepOf DEF Elsewhere, Good

------------------------------------------------------------------------------
(* Sessions that come and go under their handles.                           *)

LEMMA InUse ==
  ASSUME BoxInv, NEW c \in Client
  PROVE  FileOf(c) \in File => st[FileOf(c)] # "free"
  <1>1. SessionInv
    BY DEF BoxInv
  <1>2. FileOf(c) \in File => fd[c] \in Fd /\ FileOf(c) = fdtab[fd[c]]
    BY <1>1, KmdAssumption DEF FileOf, SessionInv, SessionTypeOK
  <1> QED
    BY <1>1, <1>2, KmdAssumption DEF SessionInv, SlotsDistinct

LEMMA LifecycleIsStep ==
  ASSUME ~CloseFails, QueueInv, NEW c \in Client, Lifecycle(c)
  PROVE  QueueStep
  <1>1. /\ BoxInv /\ HandlesTypeOK /\ CallOf(c) /\ Owned(c)
        /\ spc[c] = "idle" /\ LifecycleStep(c) /\ Abandon
        /\ strayed' = [strayed EXCEPT ![c] = strayed[c] \/ Pending(c) # {}]
        /\ UNCHANGED <<waitVars, rsp, sess, asked, done, called>>
        /\ sess' = sess /\ asked' = asked /\ done' = done /\ called' = called
    BY DEF QueueInv, Lifecycle
  <1>2. BoxInv'
    BY <1>1, LifecycleSteps DEF Kept
  <1>3. /\ Moves(c)
        /\ FileOf(c)' # FileOf(c) \/ FileOf(c)' = NoFile
        /\ \A d \in Client \ {c} : FileOf(d)' = FileOf(d)
        /\ \A f \in File : st'[f] = "live" => st[f] \in {"live", "free"}
    BY <1>1, LifecycleMoves DEF BoxInv
  <1>4. SlotsTypeOK /\ DriverInv
    BY <1>1, TypesSplit DEF BoxInv
  <1>5. \A f \in File : IF st'[f] = "free" THEN phase'[f] = "none" /\ msg'[f] = NoReq
                        ELSE phase'[f] = phase[f] /\ msg'[f] = msg[f]
    BY <1>1, <1>4, AbandonDoes
  <1>6. HandlesTypeOK'
    BY <1>1 DEF HandlesTypeOK
  <1>7. UNCHANGED <<spc, inCall, err>> /\ called[c] = NoReq
    BY <1>1 DEF waitVars, CallOf
  <1>8. ASSUME NEW d \in Client \ {c}
        PROVE  Good(d)
    <2>1. SameBox(d)
      BY <1>1, <1>3, <1>5, InUse DEF SameBox
    <2>2. SameHandles(d)
      BY <1>1 DEF SameHandles
    <2>3. strayed'[d] = strayed[d]
      BY <1>1 DEF HandlesTypeOK
    <2>4. SameCall(d)
      BY <1>1, <2>3, WaitsAlone
    <2> QED
      BY <2>1, <2>2, <2>4, SameGood DEF QueueInv
  <1>9. Good(c)
    <2>1. Handles(c)' = Handles(c) /\ Pending(c)' = Pending(c)
      BY <1>1 DEF Handles, Pending
    <2>2. CallOf(c)'
      BY <1>1, <1>7, <2>1 DEF CallOf
    <2>3. Live(c)' => phase'[FileOf(c)'] = "none"
      <3> SUFFICES ASSUME Live(c)'
                   PROVE  phase'[FileOf(c)'] = "none"
        OBVIOUS
      <3>1. FileOf(c)' \in File /\ st'[FileOf(c)'] = "live"
        BY DEF Live
      <3>2. st[FileOf(c)'] = "free"
        BY <1>3, <3>1, KmdAssumption DEF Moves
      <3> QED
        BY <1>4, <1>5, <3>1, <3>2 DEF DriverInv
    <2>4. ~strayed'[c] => Pending(c) = {}
      BY <1>1 DEF HandlesTypeOK
    <2>5. Owned(c)'
      BY <1>1, <1>7, <2>1, <2>3, <2>4 DEF Owned
    <2>6. Answers(c)
      BY <1>1, <1>7 DEF Answers, Handles
    <2> QED
      BY <2>2, <2>5, <2>6 DEF Good
  <1> QED
    BY <1>2, <1>6, <1>8, <1>9 DEF QueueStep, QueueInv, Good

------------------------------------------------------------------------------
(* Waits and calls that go on.                                              *)

LEMMA LeaveOthers ==
  ASSUME BoxInv, NEW c \in Client, NEW r, LeaveWait(c, r)
  PROVE  /\ fd' = fd
         /\ \A d \in Client \ {c} : /\ spc'[d] = spc[d] /\ inCall'[d] = inCall[d]
                                    /\ err'[d] = err[d]
         /\ IF inCall[c] /\ r # "OK"
            THEN spc'[c] = "drop" /\ inCall'[c] /\ (r \in Codes => err'[c] = r)
            ELSE spc'[c] = "idle" /\ ~inCall'[c] /\ ret'[c] = r
  <1>1. WaitTypeOK /\ op \in [Client -> Ops] /\ ret \in [Client -> Codes]
    BY TypesSplit DEF BoxInv, SessionTypeOK
  <1>2. CASE inCall[c] /\ r # "OK"
    <2>1. /\ spc' = [spc EXCEPT ![c] = "drop"] /\ err' = [err EXCEPT ![c] = r]
          /\ inCall' = inCall /\ fd' = fd
      BY <1>2 DEF LeaveWait, Goto, sessVars
    <2> QED
      BY <1>1, <1>2, <2>1 DEF WaitTypeOK
  <1>3. CASE ~(inCall[c] /\ r # "OK")
    <2>1. /\ spc' = [spc EXCEPT ![c] = "idle"] /\ inCall' = [inCall EXCEPT ![c] = FALSE]
          /\ err' = err /\ fd' = fd /\ ret' = [ret EXCEPT ![c] = r]
      BY <1>3 DEF LeaveWait, Goto, Return
    <2>2. /\ \A d \in Client \ {c} : inCall'[d] = inCall[d]
          /\ ~inCall'[c]
      BY <1>1, <2>1 DEF WaitTypeOK
    <2> QED
      BY <1>1, <1>3, <2>1, <2>2 DEF WaitTypeOK
  <1> QED
    BY <1>2, <1>3

\* How far a step of a wait reaches.
LEMMA WaitFrame ==
  ASSUME BoxInv, NEW c \in Client, WaitStep(c)
  PROVE  /\ BoxInv' /\ UNCHANGED <<kmdVars, fd>> /\ spc[c] # "idle"
         /\ \A f \in File \ {FileOf(c)} : phase'[f] = phase[f] /\ msg'[f] = msg[f]
         /\ \A d \in Client \ {c} : /\ spc'[d] = spc[d] /\ inCall'[d] = inCall[d]
                                    /\ err'[d] = err[d]
  <1>1. BoxInv'
    BY WaitPollSteps, WaitCheckSteps, WaitWakeSteps, CallDropSteps DEF WaitStep, Kept
  <1>2. spc \in [Client -> {"idle", "poll", "check", "sleep", "drop"}] /\ err \in [Client -> Codes]
    BY DEF BoxInv, SmcTypeOK
  <1>3. CASE WaitPoll(c)
    <2>1. PICK r \in Codes :
            /\ tt_smc_poll(c, r)
            /\ IF r = "EAGAIN"
               THEN /\ Goto(c, "check")
                    /\ UNCHANGED <<inCall, err, waited, spins, asleep, sessVars>>
               ELSE LeaveWait(c, r)
      BY <1>3 DEF WaitPoll
    <2>2. UNCHANGED kmdVars /\ UNCHANGED st /\ spc[c] = "poll"
      BY <1>3 DEF WaitPoll, kmdVars
    <2>3. \A f \in File \ {FileOf(c)} : phase'[f] = phase[f] /\ msg'[f] = msg[f]
      BY <2>1, <2>2, PollDoes
    <2>4. /\ fd' = fd
          /\ \A d \in Client \ {c} : /\ spc'[d] = spc[d] /\ inCall'[d] = inCall[d]
                                     /\ err'[d] = err[d]
      <3>1. CASE r = "EAGAIN"
        BY <1>2, <2>1, <3>1 DEF Goto, sessVars
      <3>2. CASE r # "EAGAIN"
        BY <2>1, <3>2, LeaveOthers
      <3> QED
        BY <3>1, <3>2
    <2> QED
      BY <1>1, <2>2, <2>3, <2>4
  <1>4. CASE WaitCheck(c)
    <2>1. UNCHANGED <<kmdVars, driverVars>> /\ spc[c] = "check"
      BY <1>4 DEF WaitCheck
    <2>2. /\ fd' = fd
          /\ \A d \in Client \ {c} : /\ spc'[d] = spc[d] /\ inCall'[d] = inCall[d]
                                     /\ err'[d] = err[d]
      <3>1. CASE waited[c] >= Budget
        BY <1>4, <3>1, LeaveOthers DEF WaitCheck
      <3>2. CASE ~(waited[c] >= Budget)
        <4>1. /\ inCall' = inCall /\ err' = err /\ fd' = fd
              /\ Goto(c, "sleep") \/ Goto(c, "poll")
          BY <1>4, <3>2 DEF WaitCheck, sessVars
        <4> QED
          BY <1>2, <4>1 DEF Goto
      <3> QED
        BY <3>1, <3>2
    <2> QED
      BY <1>1, <2>1, <2>2 DEF driverVars
  <1>5. CASE WaitWake(c)
    BY <1>1, <1>2, <1>5 DEF WaitWake, Goto, sessionVars, sessVars, driverVars
  <1>6. CASE CallDrop(c)
    <2>1. PICK r \in Codes : tt_smc_drop(c, r)
      BY <1>6 DEF CallDrop
    <2>2. /\ UNCHANGED <<kmdVars, fd>> /\ UNCHANGED st /\ spc[c] = "drop"
          /\ spc' = [spc EXCEPT ![c] = "idle"] /\ err' = [err EXCEPT ![c] = "OK"]
          /\ inCall' = [inCall EXCEPT ![c] = FALSE]
      BY <1>6 DEF CallDrop, Goto, Reports, kmdVars
    <2>3. \A f \in File \ {FileOf(c)} : phase'[f] = phase[f] /\ msg'[f] = msg[f]
      BY <2>1, <2>2, DropDoes
    <2>4. \A d \in Client \ {c} : inCall'[d] = inCall[d]
      BY <2>2 DEF BoxInv, SmcTypeOK
    <2> QED
      BY <1>1, <1>2, <2>2, <2>3, <2>4
  <1> QED
    BY <1>3, <1>4, <1>5, <1>6 DEF WaitStep

\* Of a wait's step, what concerns the handles and the other clients.
LEMMA WaitingFrame ==
  ASSUME QueueInv, NEW c \in Client, Waiting(c)
  PROVE  /\ BoxInv' /\ HandlesTypeOK' /\ Elsewhere(c) /\ spc[c] # "idle"
         /\ sess' = sess /\ asked' = asked /\ Handles(c)' = Handles(c)
         /\ called'[c] = IF spc'[c] = "idle" THEN NoReq ELSE called[c]
         /\ strayed'[c] <=> strayed[c] \/ (spc[c] = "drop" /\ Pending(c) # {})
         /\ FileOf(c)' = FileOf(c) /\ (Live(c)' <=> Live(c))
         /\ inCall[c] \/ spc'[c] # "idle" => done' = done
         /\ ~inCall[c] => c \in Rust /\ called[c] = NoReq /\ spc[c] # "drop"
         /\ inCall[c] => called[c] # NoReq
  <1>1. BoxInv /\ HandlesTypeOK /\ CallOf(c) /\ WaitStep(c)
    BY DEF QueueInv, Waiting
  <1>2. /\ sess' = sess /\ asked' = asked
        /\ called' = [called EXCEPT ![c] = IF spc'[c] = "idle" THEN NoReq ELSE called[c]]
        /\ strayed' = [strayed EXCEPT ![c] = strayed[c] \/ (spc[c] = "drop" /\ Pending(c) # {})]
    BY DEF Waiting
  <1>3. /\ BoxInv' /\ UNCHANGED <<kmdVars, fd>> /\ spc[c] # "idle"
        /\ \A f \in File \ {FileOf(c)} : phase'[f] = phase[f] /\ msg'[f] = msg[f]
        /\ \A d \in Client \ {c} : /\ spc'[d] = spc[d] /\ inCall'[d] = inCall[d]
                                   /\ err'[d] = err[d]
    BY <1>1, WaitFrame
  <1>4. /\ inCall[c] \/ spc'[c] # "idle" => done' = done
        /\ \/ done' = done
           \/ \E h \in Handles(c) : done' = [done EXCEPT ![h] = (ret'[c] # "ETIMEDOUT")]
    BY DEF Waiting, Settle
  <1>5. done' \in [Handle -> BOOLEAN] /\ \A h \in Handle : sess[h] # c => done'[h] = done[h]
    <2>1. CASE done' = done
      BY <1>1, <2>1 DEF HandlesTypeOK
    <2>2. CASE \E h \in Handles(c) : done' = [done EXCEPT ![h] = (ret'[c] # "ETIMEDOUT")]
      <3>1. PICK h \in Handles(c) : done' = [done EXCEPT ![h] = (ret'[c] # "ETIMEDOUT")]
        BY <2>2
      <3>2. h \in Handle /\ sess[h] = c
        BY DEF Handles
      <3> QED
        BY <1>1, <3>1, <3>2 DEF HandlesTypeOK
    <2> QED
      BY <1>4, <2>1, <2>2
  <1>6. HandlesTypeOK'
    <2>1. called' \in [Client -> MaybeReq]
      BY <1>1, <1>2 DEF HandlesTypeOK, MaybeReq
    <2>2. strayed' \in [Client -> BOOLEAN]
      BY <1>1, <1>2 DEF HandlesTypeOK
    <2> QED
      BY <1>1, <1>2, <1>5, <2>1, <2>2 DEF HandlesTypeOK
  <1>7. \A d \in Client \ {c} : SameHandles(d)
    BY <1>2, <1>5 DEF SameHandles
  <1>8. \A d \in Client \ {c} : called'[d] = called[d]
    BY <1>1, <1>2 DEF HandlesTypeOK
  <1>9. \A d \in Client \ {c} : strayed'[d] = strayed[d]
    BY <1>1, <1>2 DEF HandlesTypeOK
  <1>10. Elsewhere(c)
    BY <1>3, <1>7, <1>8, <1>9 DEF Elsewhere, SameCall
  <1>11. /\ called'[c] = IF spc'[c] = "idle" THEN NoReq ELSE called[c]
         /\ strayed'[c] <=> strayed[c] \/ (spc[c] = "drop" /\ Pending(c) # {})
    BY <1>1, <1>2 DEF HandlesTypeOK
  <1>12. /\ ~inCall[c] => c \in Rust /\ called[c] = NoReq /\ spc[c] # "drop"
         /\ inCall[c] => called[c] # NoReq
    BY <1>1, <1>3 DEF CallOf, BoxInv, WaitOf
  <1>13. FileOf(c)' = FileOf(c) /\ (Live(c)' <=> Live(c)) /\ Handles(c)' = Handles(c)
    BY <1>2, <1>3 DEF FileOf, Live, Handles, kmdVars
  <1> QED
    BY <1>2, <1>3, <1>4, <1>6, <1>10, <1>11, <1>12, <1>13

\* A poll that finds nothing, a sleep, or none: the wait is not over.
LEMMA StillWaiting ==
  ASSUME QueueInv, NEW c \in Client, Waiting(c), spc[c] # "drop",
         spc'[c] \in {"poll", "check", "sleep"}, inCall' = inCall, UNCHANGED driverVars
  PROVE  Good(c)
  <1>1. CallOf(c) /\ Owned(c)
    BY DEF QueueInv
  <1>2. /\ sess' = sess /\ asked' = asked /\ Handles(c)' = Handles(c) /\ spc[c] # "idle"
        /\ called'[c] = called[c] /\ done' = done /\ (strayed'[c] <=> strayed[c])
        /\ FileOf(c)' = FileOf(c) /\ (Live(c)' <=> Live(c))
    BY WaitingFrame
  <1>3. Pending(c)' = Pending(c)
    BY <1>2 DEF Pending
  <1>4. CallOf(c)'
    BY <1>1, <1>2 DEF CallOf
  <1>5. Owned(c)'
    BY <1>1, <1>2, <1>3 DEF Owned, driverVars
  <1>6. Answers(c)
    BY <1>2 DEF Answers, Handles
  <1> QED
    BY <1>4, <1>5, <1>6 DEF Good

\* The wait of a call ends in r.
LEMMA CallEnds ==
  ASSUME QueueInv, NEW c \in Client, Waiting(c), spc[c] \in {"poll", "check"}, inCall[c],
         NEW r \in Codes, LeaveWait(c, r),
         \/ tt_smc_poll(c, r) /\ r # "EAGAIN" /\ UNCHANGED st
         \/ UNCHANGED driverVars /\ r # "OK"
  PROVE  Good(c)
  <1>1. CallOf(c) /\ Owned(c) /\ BoxInv
    BY DEF QueueInv
  <1>2. /\ sess' = sess /\ asked' = asked /\ Handles(c)' = Handles(c) /\ done' = done
        /\ called'[c] = IF spc'[c] = "idle" THEN NoReq ELSE called[c]
        /\ called[c] # NoReq /\ (strayed'[c] <=> strayed[c])
        /\ FileOf(c)' = FileOf(c) /\ (Live(c)' <=> Live(c))
    BY WaitingFrame
  <1>3. IF r # "OK"
        THEN spc'[c] = "drop" /\ inCall'[c] /\ err'[c] = r
        ELSE spc'[c] = "idle" /\ ~inCall'[c] /\ ret'[c] = r
    BY <1>1, LeaveOthers
  <1>4. Pending(c)' = Pending(c) /\ (~strayed[c] => Pending(c) = {})
    BY <1>1, <1>2 DEF Pending, Owned
  <1>5. CallOf(c)'
    BY <1>1, <1>2, <1>3 DEF CallOf
  <1>6. CASE tt_smc_poll(c, r) /\ r # "EAGAIN" /\ UNCHANGED st
    <2>1. Live(c) => phase'[FileOf(c)] = "none"
      BY <1>1, <1>6, PollBox
    <2>2. Owned(c)'
      BY <1>2, <1>3, <1>4, <2>1 DEF Owned
    <2>3. ASSUME ~strayed[c], r = "OK"
          PROVE  rsp'[c] = called[c]
      <3>1. Live(c) /\ Outstanding(c) # NoReq /\ rsp' = [rsp EXCEPT ![c] = Outstanding(c)]
        BY <1>1, <1>6, <2>3, PollDoes, PollBox
      <3>2. Outstanding(c) = msg[FileOf(c)] /\ phase[FileOf(c)] # "none"
        BY <1>1, <3>1, BoxOf DEF Live
      <3>3. called[c] = msg[FileOf(c)]
        BY <1>1, <1>4, <2>3, <3>1, <3>2 DEF Owned
      <3> QED
        BY <1>1, <3>1, <3>2, <3>3 DEF BoxInv, SmcTypeOK
    <2>4. Answers(c)
      BY <1>2, <1>3, <2>3 DEF Answers, Handles
    <2> QED
      BY <1>5, <2>2, <2>4 DEF Good
  <1>7. CASE UNCHANGED driverVars /\ r # "OK"
    <2>1. Owned(c)'
      BY <1>1, <1>2, <1>3, <1>4, <1>7 DEF Owned, driverVars
    <2>2. Answers(c)
      BY <1>2, <1>3, <1>7 DEF Answers, Handles
    <2> QED
      BY <1>5, <2>1, <2>2 DEF Good
  <1> QED
    BY <1>6, <1>7

\* The wait of a handle ends in r, and settles it.
LEMMA HandleEnds ==
  ASSUME QueueInv, NEW c \in Client, Waiting(c), ~inCall[c], NEW r \in Codes, LeaveWait(c, r),
         \/ tt_smc_poll(c, r) /\ r # "EAGAIN"
         \/ UNCHANGED driverVars /\ r = "ETIMEDOUT"
  PROVE  Good(c)
  <1>1. CallOf(c) /\ Owned(c) /\ BoxInv /\ HandlesTypeOK
    BY DEF QueueInv
  <1>2. /\ sess' = sess /\ asked' = asked /\ Handles(c)' = Handles(c)
        /\ called'[c] = NoReq /\ called[c] = NoReq /\ c \in Rust
        /\ strayed'[c] <=> strayed[c]
        /\ FileOf(c)' = FileOf(c) /\ (Live(c)' <=> Live(c))
    BY WaitingFrame
  <1>3. spc'[c] = "idle" /\ ~inCall'[c] /\ ret'[c] = r
    BY <1>1, LeaveOthers
  <1>4. PICK h \in Handles(c) : done' = [done EXCEPT ![h] = (r # "ETIMEDOUT")]
    BY <1>2, <1>3 DEF Waiting, Settle
  <1>5. h \in Handle /\ Handles(c) = {h}
    BY <1>1, <1>2 DEF HandlesTypeOK, Handles
  <1>6. done'[h] <=> r # "ETIMEDOUT"
    BY <1>1, <1>4, <1>5 DEF HandlesTypeOK
  <1>7. CallOf(c)'
    BY <1>2, <1>3 DEF CallOf
  <1>8. Live(c) /\ ~strayed[c] /\ phase[FileOf(c)] # "none"
        => Pending(c) = {h} /\ asked[h] = msg[FileOf(c)]
    <2> SUFFICES ASSUME Live(c), ~strayed[c], phase[FileOf(c)] # "none"
                 PROVE  Pending(c) = {h} /\ asked[h] = msg[FileOf(c)]
      OBVIOUS
    <2>1. FileOf(c) \in File /\ msg[FileOf(c)] # NoReq
      BY <1>1, BoxOf DEF Live
    <2>2. PICK g \in Pending(c) : asked[g] = msg[FileOf(c)]
      BY <1>1, <1>2, <2>1 DEF Owned
    <2> QED
      BY <1>5, <2>2 DEF Pending
  <1>9. Pending(c)' \subseteq {h}
    BY <1>2, <1>5 DEF Pending
  <1>10. CASE tt_smc_poll(c, r) /\ r # "EAGAIN"
    <2>1. /\ Live(c) => phase'[FileOf(c)] = "none"
          /\ ~Live(c) => UNCHANGED <<driverVars, rsp>>
      BY <1>1, <1>10, PollBox
    <2>2. Owned(c)'
      BY <1>2, <1>9, <2>1 DEF Owned
    <2>3. ~strayed[c] /\ Emptied(c) => Outstanding(c) = asked[h]
      <3> SUFFICES ASSUME ~strayed[c], Emptied(c)
                   PROVE  Outstanding(c) = asked[h]
        OBVIOUS
      <3>1. /\ FileOf(c) \in File /\ Outstanding(c) = msg[FileOf(c)]
            /\ phase[FileOf(c)] # "none" /\ msg'[FileOf(c)] # msg[FileOf(c)]
        <4>1. Outstanding(c)' = IF FileOf(c) \in File THEN msg'[FileOf(c)] ELSE NoReq
          BY <1>2 DEF Outstanding
        <4> QED
          BY <1>1, <4>1, BoxOf DEF Emptied
      <3>2. Live(c)
        BY <2>1, <3>1 DEF driverVars
      <3> QED
        BY <1>8, <3>1, <3>2
    <2>4. Answers(c)
      BY <1>2, <1>5, <2>3 DEF Answers
    <2> QED
      BY <1>7, <2>2, <2>4 DEF Good
  <1>11. CASE UNCHANGED driverVars /\ r = "ETIMEDOUT"
    <2>1. Pending(c)' = {h}
      BY <1>2, <1>5, <1>6, <1>11 DEF Pending
    <2>2. Owned(c)'
      BY <1>2, <1>8, <1>11, <2>1 DEF Owned, driverVars
    <2>3. ~Emptied(c)
      BY <1>2, <1>11 DEF Emptied, Outstanding, driverVars
    <2>4. Answers(c)
      BY <1>2, <2>3 DEF Answers
    <2> QED
      BY <1>7, <2>2, <2>4 DEF Good
  <1> QED
    BY <1>10, <1>11

LEMMA WaitingIsStep ==
  ASSUME QueueInv, NEW c \in Client, Waiting(c)
  PROVE  QueueStep
  <1> SUFFICES Good(c)
    BY WaitingFrame, StepOf
  <1>1. BoxInv /\ HandlesTypeOK /\ CallOf(c) /\ Owned(c) /\ WaitStep(c)
    BY DEF QueueInv, Waiting
  <1>2. spc \in [Client -> {"idle", "poll", "check", "sleep", "drop"}] /\ err \in [Client -> Codes]
    BY <1>1 DEF BoxInv, SmcTypeOK
  <1>3. CASE WaitPoll(c)
    <2>1. PICK r \in Codes :
            /\ tt_smc_poll(c, r)
            /\ IF r = "EAGAIN"
               THEN /\ Goto(c, "check")
                    /\ UNCHANGED <<inCall, err, waited, spins, asleep, sessVars>>
               ELSE LeaveWait(c, r)
      BY <1>3 DEF WaitPoll
    <2>2. UNCHANGED st /\ spc[c] = "poll"
      BY <1>3 DEF WaitPoll, kmdVars
    <2>3. CASE r = "EAGAIN"
      <3>1. UNCHANGED driverVars
        BY <1>1, <2>1, <2>3, PollBox
      <3>2. spc'[c] = "check" /\ inCall' = inCall
        BY <1>2, <2>1, <2>3 DEF Goto
      <3> QED
        BY <2>2, <3>1, <3>2, StillWaiting
    <2>4. CASE r # "EAGAIN" /\ inCall[c]
      BY <2>1, <2>2, <2>4, CallEnds
    <2>5. CASE r # "EAGAIN" /\ ~inCall[c]
      BY <2>1, <2>5, HandleEnds
    <2> QED
      BY <2>3, <2>4, <2>5
  <1>4. CASE WaitCheck(c)
    <2>1. UNCHANGED driverVars /\ spc[c] = "check"
      BY <1>4 DEF WaitCheck
    <2>2. "ETIMEDOUT" \in Codes
      BY DEF Codes
    <2>3. CASE waited[c] >= Budget
      <3>1. LeaveWait(c, "ETIMEDOUT")
        BY <1>4, <2>3 DEF WaitCheck
      <3>2. CASE inCall[c]
        BY <2>1, <2>2, <3>1, <3>2, CallEnds
      <3>3. CASE ~inCall[c]
        BY <2>1, <2>2, <3>1, <3>3, HandleEnds
      <3> QED
        BY <3>2, <3>3
    <2>4. CASE ~(waited[c] >= Budget)
      <3>1. inCall' = inCall /\ (Goto(c, "sleep") \/ Goto(c, "poll"))
        BY <1>4, <2>4 DEF WaitCheck
      <3>2. spc'[c] \in {"poll", "check", "sleep"}
        BY <1>2, <3>1 DEF Goto
      <3> QED
        BY <2>1, <3>1, <3>2, StillWaiting
    <2> QED
      BY <2>3, <2>4
  <1>5. CASE WaitWake(c)
    <2>1. /\ UNCHANGED driverVars /\ spc[c] = "sleep" /\ inCall' = inCall
          /\ spc' = [spc EXCEPT ![c] = "poll"]
      BY <1>5 DEF WaitWake, Goto
    <2>2. spc'[c] = "poll"
      BY <1>2, <2>1
    <2> QED
      BY <2>1, <2>2, StillWaiting
  <1>6. CASE CallDrop(c)
    <2>1. PICK r \in Codes : tt_smc_drop(c, r)
      BY <1>6 DEF CallDrop
    <2>2. /\ spc[c] = "drop" /\ spc' = [spc EXCEPT ![c] = "idle"]
          /\ inCall' = [inCall EXCEPT ![c] = FALSE] /\ ret' = [ret EXCEPT ![c] = err[c]]
      BY <1>6 DEF CallDrop, Goto, Reports, Return
    <2>3. spc'[c] = "idle" /\ ~inCall'[c] /\ ret'[c] = err[c] /\ err[c] # "OK"
      BY <1>1, <1>2, <2>2 DEF CallOf, BoxInv, SmcTypeOK, SessionTypeOK
    <2>4. /\ sess' = sess /\ asked' = asked /\ Handles(c)' = Handles(c) /\ done' = done
          /\ called'[c] = NoReq
          /\ ~strayed'[c] => ~strayed[c] /\ Pending(c) = {}
          /\ FileOf(c)' = FileOf(c) /\ (Live(c)' <=> Live(c))
      BY <2>2, <2>3, WaitingFrame
    <2>5. Live(c) => phase'[FileOf(c)] = "none"
      BY <1>1, <2>1, DropBox
    <2>6. Pending(c)' = Pending(c)
      BY <2>4 DEF Pending
    <2>7. CallOf(c)'
      BY <2>3, <2>4 DEF CallOf
    <2>8. Owned(c)'
      BY <2>4, <2>5, <2>6 DEF Owned
    <2>9. Answers(c)
      BY <2>3, <2>4 DEF Answers, Handles
    <2> QED
      BY <2>7, <2>8, <2>9 DEF Good
  <1> QED
    BY <1>1, <1>3, <1>4, <1>5, <1>6 DEF WaitStep

------------------------------------------------------------------------------
(* The driver's steps, and all of them.                                     *)

\* Nobody's message comes or goes.
LEMMA OutsideBoxes ==
  ASSUME BoxInv, NEW d \in Client,
         \/ \E f \in File : Dispatch(f) \/ FailExchange(f)
         \/ Answer \/ SmcTick \/ SmcOutside \/ UNCHANGED smcVars
  PROVE  SameBox(d) /\ UNCHANGED <<spc, inCall, err>>
  <1>1. SlotsTypeOK /\ DriverInv /\ SessionInv
    BY TypesSplit DEF BoxInv
  <1>2. CASE \E f \in File : Dispatch(f)
    <2>1. PICK f \in File : Dispatch(f)
      BY <1>2
    <2>2. /\ phase[f] = "queued" /\ phase' = [phase EXCEPT ![f] = "running"] /\ msg' = msg
          /\ UNCHANGED <<sessionVars, waitVars>>
      BY <2>1 DEF Dispatch
    <2>3. \A g \in File : phase'[g] = "none" <=> phase[g] = "none"
      BY <1>1, <2>2 DEF SlotsTypeOK
    <2> QED
      BY <2>2, <2>3, SessionStays DEF SameBox, waitVars
  <1>3. CASE \E f \in File : FailExchange(f)
    <2>1. PICK f \in File, e \in DriverErrors :
            FailExchange(f) /\ phase' = [phase EXCEPT ![f] = e]
      BY <1>3 DEF FailExchange
    <2>2. /\ phase[f] \in {"queued", "running"} /\ msg' = msg
          /\ UNCHANGED <<sessionVars, waitVars>>
      BY <2>1 DEF FailExchange
    <2>3. \A g \in File : phase'[g] = "none" <=> phase[g] = "none"
      BY <1>1, <2>1, <2>2, SmcAssumption DEF SlotsTypeOK
    <2> QED
      BY <2>2, <2>3, SessionStays DEF SameBox, waitVars
  <1>4. CASE Answer
    <2>1. UNCHANGED <<sessionVars, waitVars>> /\ msg' = msg
      BY <1>4 DEF Answer
    <2>2. \A g \in File : phase'[g] = "none" <=> phase[g] = "none"
      <3>1. CASE ctlFile = NoFile
        BY <1>4, <3>1 DEF Answer
      <3>2. CASE ctlFile # NoFile
        <4>1. phase[ctlFile] = "running" /\ phase' = [phase EXCEPT ![ctlFile] = "ready"]
          BY <1>1, <1>4, <3>2 DEF Answer, DriverInv
        <4> QED
          BY <1>1, <4>1 DEF SlotsTypeOK
      <3> QED
        BY <3>1, <3>2
    <2> QED
      BY <2>1, <2>2, SessionStays DEF SameBox, waitVars
  <1>5. CASE SmcTick
    <2>1. UNCHANGED sessionVars /\ UNCHANGED driverVars /\ UNCHANGED <<spc, inCall, err>>
      BY <1>5 DEF SmcTick
    <2> QED
      BY <2>1, SessionStays DEF SameBox, driverVars
  <1>6. CASE SmcOutside
    <2>1. /\ SessionEnv /\ msg' = msg /\ UNCHANGED waitVars
          /\ phase' = [f \in File |-> IF phase[f] = "running" THEN "queued" ELSE phase[f]]
      BY <1>6 DEF SmcOutside
    <2>2. \A g \in File : phase'[g] = "none" <=> phase[g] = "none"
      BY <2>1
    <2>3. /\ FileOf(d)' = FileOf(d)
          /\ \A f \in File : st'[f] = "live" => st[f] = "live"
      BY <1>1, <2>1, EnvKeeps
    <2> QED
      BY <2>1, <2>2, <2>3 DEF SameBox, waitVars
  <1>7. CASE UNCHANGED smcVars
    <2>1. UNCHANGED sessionVars /\ UNCHANGED driverVars /\ UNCHANGED waitVars
      BY <1>7 DEF smcVars
    <2> QED
      BY <2>1, SessionStays DEF SameBox, driverVars, waitVars
  <1> QED
    BY <1>2, <1>3, <1>4, <1>5, <1>6, <1>7

LEMMA OutsideIsStep ==
  ASSUME ~CloseFails, QueueInv, QueueOutside \/ UNCHANGED allVars
  PROVE  QueueStep
  <1>1. /\ \/ \E f \in File : Dispatch(f) \/ FailExchange(f)
           \/ Answer \/ SmcTick \/ SmcOutside \/ UNCHANGED smcVars
        /\ sess' = sess /\ asked' = asked /\ done' = done /\ called' = called /\ strayed' = strayed
    BY DEF QueueOutside, allVars, queueVars
  <1>2. BoxInv'
    BY <1>1, SmcSteps DEF SmcNext, Kept, QueueInv
  <1>3. HandlesTypeOK'
    BY <1>1 DEF QueueInv, HandlesTypeOK
  <1>4. ASSUME NEW d \in Client
        PROVE  Good(d)
    <2>1. SameBox(d) /\ UNCHANGED <<spc, inCall, err>>
      BY <1>1, OutsideBoxes DEF QueueInv
    <2>2. SameHandles(d) /\ SameCall(d)
      BY <1>1, <2>1 DEF SameHandles, SameCall
    <2> QED
      BY <2>1, <2>2, SameGood DEF QueueInv
  <1> QED
    BY <1>2, <1>3, <1>4 DEF QueueStep, QueueInv, Good

LEMMA QueueSteps ==
  ASSUME ~CloseFails, QueueInv, [QueueNext]_allVars
  PROVE  QueueStep
  <1>1. ASSUME NEW c \in Client, NEW q \in Req,
               RsPost(c, q) \/ RsCall(c, q) \/ PyPost(c, q) \/ PyCall(c, q)
        PROVE  QueueStep
    BY <1>1, PostIsStep, CallIsStep
  <1>2. ASSUME NEW h \in Handle,
               \/ RsTryWait(h) \/ RsWait(h) \/ RsDrop(h)
               \/ PyPoll(h) \/ PyDrop(h) \/ PyCollect(h)
        PROVE  QueueStep
    BY <1>2, TryIsStep, WaitIsStep, GiveUpIsStep
  <1>3. ASSUME NEW c \in Client, Lifecycle(c) \/ Waiting(c)
        PROVE  QueueStep
    BY <1>3, LifecycleIsStep, WaitingIsStep
  <1>4. CASE QueueOutside \/ UNCHANGED allVars
    BY <1>4, OutsideIsStep
  <1> QED
    BY <1>1, <1>2, <1>3, <1>4 DEF QueueNext

LEMMA QueueStartsWell == QueueInit => QueueInv
  <1> SUFFICES ASSUME QueueInit
               PROVE  QueueInv
    OBVIOUS
  <1>1. BoxInv
    BY SmcStartsWell DEF QueueInit, SmcInv
  <1>2. HandlesTypeOK
    BY QueueAssumption DEF QueueInit, HandlesTypeOK, MaybeReq
  <1>3. ASSUME NEW c \in Client
        PROVE  CallOf(c) /\ Owned(c)
    <2>1. spc[c] = "idle" /\ called[c] = NoReq
      BY DEF QueueInit, SmcInit
    <2>2. ~Live(c)
      BY KmdAssumption DEF QueueInit, SmcInit, SessionInit, Live, FileOf
    <2>3. Pending(c) = {}
      BY QueueAssumption DEF QueueInit, Pending, Handles
    <2> QED
      BY <2>1, <2>2, <2>3 DEF CallOf, Owned
  <1> QED
    BY <1>1, <1>2, <1>3 DEF QueueInv

LEMMA QueueInvInductive ==
  ASSUME ~CloseFails
  PROVE  QueueSpec => []QueueInv
  <1>1. QueueInv /\ [QueueNext]_allVars => QueueInv'
    BY QueueSteps DEF QueueStep
  <1> QED
    BY <1>1, QueueStartsWell, PTL DEF QueueSpec

\* The types of the handles and of everything below them.
THEOREM QueueTypeCorrect ==
  ASSUME ~CloseFails
  PROVE  QueueSpec => []QueueTypeOK
  <1>1. QueueInv => QueueTypeOK
    BY DEF QueueInv, BoxInv, HandlesTypeOK, QueueTypeOK
  <1> QED
    BY <1>1, QueueInvInductive, PTL

\* A session whose handles are gone or done, with no call in progress, holds no message:
\* no way out of post, poll, wait, drop and call leaves one behind, unless a Python handle
\* strays.
THEOREM QueueNothingLeftBehind ==
  ASSUME ~CloseFails
  PROVE  QueueSpec => []NothingLeftBehind
  <1>1. QueueInv => NothingLeftBehind
    <2> SUFFICES ASSUME QueueInv, NEW c \in Client,
                        Pending(c) = {}, called[c] = NoReq, ~strayed[c], Live(c)
                 PROVE  phase[FileOf(c)] = "none"
      BY DEF NothingLeftBehind, Live
    <2>1. BoxInv /\ Owned(c)
      BY DEF QueueInv
    <2>2. phase[FileOf(c)] # "none" => msg[FileOf(c)] # NoReq
      BY <2>1, BoxOf DEF Live
    <2> QED
      BY <2>1, <2>2 DEF Owned
  <1> QED
    BY <1>1, QueueInvInductive, PTL

\* However many handles and threads, a handle or a call is answered with the reply to the
\* message it posted, and drops no other message, unless a Python handle strays.
THEOREM QueueOwnMessages ==
  ASSUME ~CloseFails
  PROVE  QueueSpec => OwnMessages
  <1> DEFINE A ==
        /\ \A c \in Client : \A h \in Handles(c) :
             /\ done'[h] # done[h] \/ sess'[h] # c
             /\ ~strayed'[c] /\ Emptied(c)
             => Outstanding(c) = asked[h]
        /\ \A c \in Client :
             called[c] # NoReq /\ called'[c] = NoReq /\ ret'[c] = "OK" /\ ~strayed[c]
             => rsp'[c] = called[c]
  <1>1. QueueInv /\ [QueueNext]_allVars => [A]_allVars
    <2> SUFFICES ASSUME QueueInv, [QueueNext]_allVars
                 PROVE  A
      OBVIOUS
    <2>1. \A c \in Client : Answers(c)
      BY QueueSteps DEF QueueStep
    <2> QED
      BY <2>1 DEF Answers
  <1> QED
    BY <1>1, QueueInvInductive, PTL DEF QueueSpec, OwnMessages
================================================================================
