----------------------------- MODULE ResetProofs -----------------------------
(***************************************************************************)
(* Theorems about Reset, for every number of processes, clients and        *)
(* descriptors and every duration.  Those about descriptors, the fence and *)
(* the telemetry after a reset assume that close(2) does not fail; that a  *)
(* reset consumes its session does not.                                    *)
(***************************************************************************)
EXTENDS Reset, SessionProofs

------------------------------------------------------------------------------
(* Types.                                                                   *)

\* What tt_reset and its firmware keep, apart from the session layer.
ProcTypeOK ==
  /\ rpc \in [Client -> {"idle", "open"} \cup Holding]
  /\ rfd \in [Client -> Fd \cup {NoFd}]
  /\ rres \in [Client -> Codes]
  /\ gone \in [Client -> BOOLEAN]
  /\ elapsed \in [Client -> 0..Timeout]
  /\ timer \in [Client -> Nat]
  /\ marker \in BOOLEAN
  /\ fwLeft \in 0..FwTime

LEMMA SameKmdTypes ==
  ASSUME KmdTypeOK, UNCHANGED kmdVars
  PROVE  KmdTypeOK'
BY DEF KmdTypeOK, kmdVars

LEMMA SameSessionTypes ==
  ASSUME SessionTypeOK, UNCHANGED sessionVars
  PROVE  SessionTypeOK'
BY SameKmdTypes DEF SessionTypeOK, sessionVars, sessVars

\* A call that returns in the session layer.
LEMMA ReturnTypes ==
  ASSUME SessionTypeOK, KmdTypeOK', UNCHANGED <<fd, flags, req, pc>>,
         NEW c \in Client, NEW o \in Ops, NEW r \in Codes, Return(c, o, r)
  PROVE  SessionTypeOK'
BY DEF SessionTypeOK, Return

LEMMA ResetStepTypes ==
  ASSUME ResetTypeOK, NEW c \in Client, ResetStep(c)
  PROVE  ResetTypeOK'
<1> SUFFICES SessionTypeOK' /\ ProcTypeOK'
  BY DEF ResetTypeOK, ProcTypeOK
<1> USE ResetAssumption DEF ResetTypeOK, ProcTypeOK, Goto, Holding, Sleep,
        Finish, procVars, devVars
<1>1. ASSUME AcquireOk(c)
      PROVE  SessionTypeOK' /\ ProcTypeOK'
  <2>1. PICK d \in Fd : /\ OpenGrants(Home[c], ResetFlags, d)
                        /\ rfd' = [rfd EXCEPT ![c] = d]
    BY <1>1 DEF AcquireOk
  <2>2. SessionTypeOK'
    BY <1>1, <2>1, OpenGrantsTypes DEF AcquireOk, SessionTypeOK, sessVars
  <2> QED BY <1>1, <2>1, <2>2 DEF AcquireOk
<1>2. ASSUME AcquireFail(c)
      PROVE  SessionTypeOK' /\ ProcTypeOK'
  <2>1. PICK e : Return(c, op[c], OpenErrno(e))
    BY <1>2 DEF AcquireFail
  <2>2. OpenErrno(e) \in Codes /\ op[c] \in Ops
    BY DEF OpenErrno, Codes, SessionTypeOK
  <2>3. KmdTypeOK'
    BY <1>2, SameKmdTypes DEF AcquireFail, SessionTypeOK
  <2>4. SessionTypeOK'
    BY <1>2, <2>1, <2>2, <2>3, ReturnTypes DEF AcquireFail
  <2> QED BY <1>2, <2>4 DEF AcquireFail
<1>3. ASSUME Info(c)
      PROVE  SessionTypeOK' /\ ProcTypeOK'
  <2>1. rfd[c] \in Fd => tt_fail_io(Io(rfd[c])) \in Codes
    BY CodesOfIo DEF SessionTypeOK, Codes
  <2>2. tt_fail_io(Io(rfd[c])) \in Codes
    BY <2>1 DEF tt_fail_io, Io, Codes
  <2> QED BY <1>3, <2>2, SameSessionTypes DEF Info
<1>4. ASSUME AsicReset(c)
      PROVE  SessionTypeOK' /\ ProcTypeOK'
  <2>1. KmdTypeOK'
    BY <1>4 DEF AsicReset, SessionTypeOK, KmdTypeOK, Sever, Status
  <2>2. SessionTypeOK'
    BY <1>4, <2>1 DEF AsicReset, SessionTypeOK, sessVars
  <2> QED BY <1>4, <2>2 DEF AsicReset
<1>5. ASSUME PollComplete(c)
      PROVE  SessionTypeOK' /\ ProcTypeOK'
  BY <1>5, SameSessionTypes DEF PollComplete
<1>6. ASSUME PollAgain(c)
      PROVE  SessionTypeOK' /\ ProcTypeOK'
  <2>1. gone' \in [Client -> BOOLEAN]
    <3> DEFINE b == gone[c] \/ ~present
    <3>1. b \in BOOLEAN /\ gone' = [gone EXCEPT ![c] = b]
      BY <1>6 DEF PollAgain
    <3> HIDE DEF b
    <3> QED BY <3>1
  <2> QED BY <1>6, <2>1, SameSessionTypes DEF PollAgain
<1>7. ASSUME PollTimeout(c)
      PROVE  SessionTypeOK' /\ ProcTypeOK'
  BY <1>7, SameSessionTypes DEF PollTimeout, Codes
<1>8. ASSUME Wake(c)
      PROVE  SessionTypeOK' /\ ProcTypeOK'
  BY <1>8, SameSessionTypes DEF Wake
<1>9. ASSUME DelayOver(c)
      PROVE  SessionTypeOK' /\ ProcTypeOK'
  BY <1>9, SameSessionTypes DEF DelayOver
<1>10. ASSUME PostReset(c)
       PROVE  SessionTypeOK' /\ ProcTypeOK'
  BY <1>10, SameSessionTypes DEF PostReset, Codes
<1>11. ASSUME IoctlFail(c)
       PROVE  SessionTypeOK' /\ ProcTypeOK'
  <2>1. PICK r \in IoctlFailures(c) : Finish(c, r)
    BY <1>11 DEF IoctlFail
  <2>2. r \in Codes
    BY DEF IoctlFailures, tt_fail_io, Io, Codes
  <2> QED BY <1>11, <2>1, <2>2, SameSessionTypes DEF IoctlFail
<1>12. ASSUME CloseAndReturn(c)
       PROVE  SessionTypeOK' /\ ProcTypeOK'
  <2>1. KmdTypeOK'
    BY <1>12, ReleaseTypes DEF CloseAndReturn, SessionTypeOK
  <2>2. PICK r \in Codes : Return(c, op[c], r)
    BY <1>12 DEF CloseAndReturn, Codes
  <2>3. op[c] \in Ops
    BY DEF SessionTypeOK
  <2>4. SessionTypeOK'
    BY <1>12, <2>1, <2>2, <2>3, ReturnTypes DEF CloseAndReturn
  <2> QED BY <1>12, <2>4 DEF CloseAndReturn, Codes
<1> QED BY <1>1, <1>2, <1>3, <1>4, <1>5, <1>6, <1>7, <1>8, <1>9, <1>10, <1>11,
           <1>12 DEF ResetStep

LEMMA ResetNextTypes ==
  ASSUME ResetTypeOK, [ResetNext]_resetVars
  PROVE  ResetTypeOK'
<1> SUFFICES SessionTypeOK' /\ ProcTypeOK'
  BY DEF ResetTypeOK, ProcTypeOK
<1> USE ResetAssumption DEF ResetTypeOK, ProcTypeOK, procVars, devVars
<1>1. ASSUME NEW c \in Client, LifecycleStep(c), UNCHANGED <<procVars, devVars>>
      PROVE  SessionTypeOK' /\ ProcTypeOK'
  BY <1>1, LifecycleTypes
<1>2. ASSUME NEW c \in Client, ResetStart(c)
      PROVE  SessionTypeOK' /\ ProcTypeOK'
  <2>1. KmdTypeOK'
    BY <1>2, SameKmdTypes DEF ResetStart, SessionTypeOK
  <2>2. SessionTypeOK'
    BY <1>2, <2>1, ReturnTypes DEF ResetStart, Ops, Codes
  <2> QED BY <1>2, <2>2 DEF ResetStart, Goto
<1>3. ASSUME NEW c \in Client, ResetWith(c)
      PROVE  SessionTypeOK' /\ ProcTypeOK'
  <2>1. KmdTypeOK'
    BY <1>3, SameKmdTypes, CloseCallTypes DEF ResetWith, SessionTypeOK
  <2>2. PICK r \in Codes : Return(c, "tt_reset_with", r)
    BY <1>3 DEF ResetWith, Codes
  <2>3. SessionTypeOK'
    BY <1>3, <2>1, <2>2 DEF ResetWith, Return, SessionTypeOK, Ops
  <2>4. rpc' \in [Client -> {"idle", "open"} \cup Holding]
    BY <1>3 DEF ResetWith, Goto
  <2> QED BY <1>3, <2>3, <2>4 DEF ResetWith
<1>4. ASSUME NEW c \in Client, ResetStep(c)
      PROVE  SessionTypeOK' /\ ProcTypeOK'
  BY <1>4, ResetStepTypes
<1>5. ASSUME NEW p \in Proc, ResetExit(p)
      PROVE  SessionTypeOK' /\ ProcTypeOK'
  <2>1. SessionTypeOK'
    BY <1>5, ProcessExitTypes DEF ResetExit
  <2>2. /\ rpc' \in [Client -> {"idle", "open"} \cup Holding]
        /\ rfd' \in [Client -> Fd \cup {NoFd}]
        /\ rres' \in [Client -> Codes]
    BY <1>5 DEF ResetExit, Codes
  <2>3. gone' \in [Client -> BOOLEAN]
    BY <1>5 DEF ResetExit
  <2>4. elapsed' \in [Client -> 0..Timeout] /\ timer' \in [Client -> Nat]
    BY <1>5 DEF ResetExit
  <2> QED BY <1>5, <2>1, <2>2, <2>3, <2>4 DEF ResetExit
<1>6. CASE DeviceDone
  BY <1>6, SameSessionTypes DEF DeviceDone
<1>7. CASE Tick
  <2>1. elapsed' \in [Client -> 0..Timeout] /\ timer' \in [Client -> Nat]
    BY <1>7 DEF Tick
  <2>2. fwLeft' \in 0..FwTime
    BY <1>7 DEF Tick
  <2> QED BY <1>7, <2>1, <2>2, SameSessionTypes DEF Tick
<1>8. CASE DevOobReset \/ DevRemove \/ DevReprobe
  <2>1. KmdTypeOK'
    BY <1>8, EnvTypes DEF DevOobReset, DevRemove, DevReprobe, SessionTypeOK
  <2>2. SessionTypeOK'
    BY <1>8, <2>1 DEF DevOobReset, DevRemove, DevReprobe, SessionTypeOK, sessVars
  <2>3. CASE DevOobReset
    <3>1. FwTime \in 0..FwTime
      OBVIOUS
    <3>2. marker' = FALSE /\ fwLeft' = FwTime /\ UNCHANGED procVars
      BY <2>3 DEF DevOobReset
    <3> QED BY <2>2, <3>1, <3>2
  <2>4. CASE DevRemove
    BY <2>2, <2>4 DEF DevRemove
  <2>5. CASE DevReprobe
    <3>1. 0 \in 0..FwTime
      OBVIOUS
    <3>2. marker' = FALSE /\ fwLeft' = 0 /\ UNCHANGED procVars
      BY <2>5 DEF DevReprobe
    <3> QED BY <2>2, <3>1, <3>2
  <2> QED BY <1>8, <2>3, <2>4, <2>5
<1>9. CASE UNCHANGED resetVars
  BY <1>9, SameSessionTypes DEF resetVars
<1> QED BY <1>1, <1>2, <1>3, <1>4, <1>5, <1>6, <1>7, <1>8, <1>9 DEF ResetNext

LEMMA ResetInitTypes ==
  ASSUME ResetInit
  PROVE  ResetTypeOK
<1>1. SessionTypeOK
  BY DEF ResetInit, SessionInit, KmdInit, SessionTypeOK, KmdTypeOK, Status,
         Ops, Codes
<1>2. 0 \in 0..Timeout /\ 0 \in 0..FwTime
  BY ResetAssumption
<1> QED BY <1>1, <1>2 DEF ResetInit, ResetTypeOK, Codes

\* Every state of a reset among sessions is well typed.
THEOREM ResetTypeCorrect == ResetSpec => []ResetTypeOK
<1>1. ResetInit => ResetTypeOK
  BY ResetInitTypes
<1>2. ResetTypeOK /\ [ResetNext]_resetVars => ResetTypeOK'
  BY ResetNextTypes
<1> QED BY <1>1, <1>2, PTL DEF ResetSpec

------------------------------------------------------------------------------
(* The fence.                                                               *)

\* The descriptor of a reset in progress is exclusive.
ResetExclusive == \A c \in Client : rfd[c] # NoFd => excl[fdtab[rfd[c]]]

ResetInv ==
  /\ ResetTypeOK
  /\ ResetDescriptorsOwned
  /\ OpeningIsClosed
  /\ SlotsDistinct
  /\ Arbitrated
  /\ ResetExclusive

\* What the steps below preserve together.
Tables == ResetDescriptorsOwned /\ SlotsDistinct /\ Arbitrated /\ ResetExclusive

\* A step that leaves every descriptor alone.
ResetQuiet ==
  /\ UNCHANGED <<fdtab, excl, fd, rfd>>
  /\ \A f \in File : /\ Holds(f)' => Holds(f)
                     /\ st'[f] = "free" <=> st[f] = "free"
  /\ \A c \in Client : rpc'[c] \in Holding <=> rpc[c] \in Holding

LEMMA ResetQuietKeeps ==
  ASSUME Tables, SessionTypeOK, ResetQuiet
  PROVE  Tables'
<1> USE DEF Tables
<1>1. ResetDescriptorsOwned'
  BY DEF ResetQuiet, ResetDescriptorsOwned, SessionTypeOK, KmdTypeOK
<1>2. SlotsDistinct'
  BY DEF ResetQuiet, SlotsDistinct, SessionTypeOK, KmdTypeOK
<1>3. Arbitrated'
  BY DEF ResetQuiet, Arbitrated
<1>4. ResetExclusive'
  BY DEF ResetQuiet, ResetExclusive
<1> QED BY <1>1, <1>2, <1>3, <1>4

\* The slots of D are dropped, and forgotten by whoever held them.
LEMMA DropKeeps ==
  ASSUME Tables, ResetTypeOK, NEW D \in SUBSET Fd, NEW maps,
         NEW fds \in [Fd -> File \cup {NoFile}],
         \A s \in Fd : fds[s] = IF s \in D THEN NoFile ELSE fdtab[s],
         Retain(fds, maps),
         \A c \in Client : fd'[c] = IF fd[c] \in D THEN NoFd ELSE fd[c],
         \A c \in Client : rfd'[c] = IF rfd[c] \in D THEN NoFd ELSE rfd[c],
         \A c \in Client : rpc'[c] \in Holding <=> rfd'[c] # NoFd
  PROVE  Tables'
<1> USE DEF Tables, ResetTypeOK
<1>1. /\ fdtab' = fds /\ SlotsDistinct' /\ Arbitrated'
      /\ \A s \in Fd : fds[s] # NoFile => (excl'[fds[s]] <=> excl[fds[s]])
  BY RetainTables DEF SessionTypeOK
<1>2. \A c \in Client : fd'[c] # NoFd =>
        fd'[c] = fd[c] /\ fd[c] \in Fd \ D /\ fds[fd[c]] = fdtab[fd[c]]
  BY DEF SessionTypeOK
<1>3. \A c \in Client : rfd'[c] # NoFd =>
        rfd'[c] = rfd[c] /\ rfd[c] \in Fd \ D /\ fds[rfd[c]] = fdtab[rfd[c]]
  OBVIOUS
<1>4. ResetDescriptorsOwned'
  <2>1. \A c \in Client : rpc'[c] \in Holding <=> rfd'[c] # NoFd
    OBVIOUS
  <2>2. \A c \in Client : \A s \in {fd'[c], rfd'[c]} \ {NoFd} :
          fdtab'[s] # NoFile /\ ProcOf[s] = Home[c]
    BY <1>1, <1>2, <1>3 DEF ResetDescriptorsOwned
  <2>3. \A c, d \in Client :
          /\ fd'[c] # NoFd => fd'[c] # rfd'[d]
          /\ fd'[c] # NoFd /\ fd'[c] = fd'[d] => c = d
          /\ rfd'[c] # NoFd /\ rfd'[c] = rfd'[d] => c = d
    BY <1>2, <1>3 DEF ResetDescriptorsOwned
  <2>4. \A s \in Fd : fdtab'[s] # NoFile =>
          /\ st'[fdtab'[s]] # "free"
          /\ \E c \in Client : s \in {fd'[c], rfd'[c]}
    <3> SUFFICES ASSUME NEW s \in Fd, fds[s] # NoFile
                 PROVE  \E c \in Client : s \in {fd'[c], rfd'[c]}
      BY <1>1 DEF SlotsDistinct
    <3>1. s \notin D /\ fdtab[s] # NoFile
      OBVIOUS
    <3>2. PICK c \in Client : s \in {fd[c], rfd[c]}
      BY <3>1 DEF ResetDescriptorsOwned
    <3>3. s \in {fd'[c], rfd'[c]}
      BY <3>1, <3>2
    <3> QED BY <3>3
  <2> QED BY <2>1, <2>2, <2>3, <2>4 DEF ResetDescriptorsOwned
<1>5. ResetExclusive'
  <2> SUFFICES ASSUME NEW c \in Client, rfd'[c] # NoFd
               PROVE  excl'[fdtab'[rfd'[c]]]
    BY DEF ResetExclusive
  <2>1. fdtab[rfd[c]] # NoFile
    BY <1>3 DEF ResetDescriptorsOwned
  <2> QED BY <1>1, <1>3, <2>1 DEF ResetExclusive
<1> QED BY <1>1, <1>4, <1>5

\* A free slot d goes to the session or to the reset of client c.
LEMMA GainKeeps ==
  ASSUME Tables, ResetTypeOK, NEW c \in Client, NEW fl, NEW d \in Fd,
         OpenGrants(Home[c], fl, d),
         \/ fd[c] = NoFd /\ fd' = [fd EXCEPT ![c] = d] /\ rfd' = rfd
         \/ /\ rfd[c] = NoFd /\ rfd' = [rfd EXCEPT ![c] = d] /\ fd' = fd
            /\ "EXCL" \in fl,
         \A b \in Client : rpc'[b] \in Holding <=> rfd'[b] # NoFd
  PROVE  Tables'
<1> DEFINE e == "EXCL" \in fl
<1>1. /\ ResetDescriptorsOwned /\ SlotsDistinct /\ Arbitrated /\ ResetExclusive
      /\ KmdTypeOK /\ NoFd \notin Fd /\ NoFile \notin File
      /\ fd \in [Client -> Fd \cup {NoFd}] /\ rfd \in [Client -> Fd \cup {NoFd}]
  BY SessionAssumption, KmdAssumption DEF Tables, ResetTypeOK, SessionTypeOK
<1>2. fdtab[d] = NoFile /\ ProcOf[d] = Home[c] /\ SlotsDistinct' /\ Arbitrated'
  BY <1>1, SessionAssumption, KmdAssumption, GrantTables
<1>3. PICK f \in File : /\ st[f] = "free"
                        /\ excl' = [excl EXCEPT ![f] = e]
                        /\ fdtab' = [fdtab EXCEPT ![d] = f]
                        /\ \A s \in Fd : fdtab[s] # f
  BY <1>1, SessionAssumption, KmdAssumption, GrantTables
<1>4. /\ fdtab'[d] = f /\ f # NoFile
      /\ \A s \in Fd \ {d} : fdtab'[s] = fdtab[s]
  BY <1>1, <1>3 DEF KmdTypeOK
<1>5. /\ excl'[f] <=> e
      /\ \A g \in File \ {f} : excl'[g] = excl[g]
  <2>1. e \in BOOLEAN
    OBVIOUS
  <2> HIDE DEF e
  <2> QED BY <1>1, <1>3, <2>1 DEF KmdTypeOK
<1>6. \A b \in Client : fd[b] # d /\ rfd[b] # d
  BY <1>1, <1>2 DEF ResetDescriptorsOwned
<1>7. \/ /\ \A b \in Client : fd'[b] = IF b = c THEN d ELSE fd[b]
         /\ rfd' = rfd /\ fd[c] = NoFd
      \/ /\ \A b \in Client : rfd'[b] = IF b = c THEN d ELSE rfd[b]
         /\ fd' = fd /\ rfd[c] = NoFd /\ e
  BY <1>1
<1> HIDE DEF e
<1>8. ResetDescriptorsOwned'
  <2>1. \A b \in Client : \A s \in {fd'[b], rfd'[b]} \ {NoFd} :
          fdtab'[s] # NoFile /\ ProcOf[s] = Home[b]
    <3> SUFFICES ASSUME NEW b \in Client, NEW s \in {fd'[b], rfd'[b]}, s # NoFd
                 PROVE  fdtab'[s] # NoFile /\ ProcOf[s] = Home[b]
      OBVIOUS
    <3>1. CASE s = d
      <4>1. b = c
        BY <1>6, <1>7, <3>1
      <4> QED BY <1>2, <1>4, <3>1, <4>1
    <3>2. CASE s # d
      <4>1. s \in {fd[b], rfd[b]} /\ s \in Fd \ {d}
        BY <1>1, <1>7, <3>2
      <4> QED BY <1>1, <1>4, <4>1 DEF ResetDescriptorsOwned
    <3> QED BY <3>1, <3>2
  <2>2. \A a, b \in Client :
          /\ fd'[a] # NoFd => fd'[a] # rfd'[b]
          /\ fd'[a] # NoFd /\ fd'[a] = fd'[b] => a = b
          /\ rfd'[a] # NoFd /\ rfd'[a] = rfd'[b] => a = b
    BY <1>1, <1>6, <1>7 DEF ResetDescriptorsOwned
  <2>3. \A s \in Fd : fdtab'[s] # NoFile => \E b \in Client : s \in {fd'[b], rfd'[b]}
    <3> SUFFICES ASSUME NEW s \in Fd, fdtab'[s] # NoFile
                 PROVE  \E b \in Client : s \in {fd'[b], rfd'[b]}
      OBVIOUS
    <3>1. CASE s = d
      BY <1>7, <3>1
    <3>2. CASE s # d
      <4>1. PICK b \in Client : s \in {fd[b], rfd[b]}
        BY <1>1, <1>4, <3>2 DEF ResetDescriptorsOwned
      <4>2. s \in {fd'[b], rfd'[b]}
        BY <1>1, <1>7, <4>1
      <4> QED BY <4>2
    <3> QED BY <3>1, <3>2
  <2> QED BY <1>2, <2>1, <2>2, <2>3 DEF ResetDescriptorsOwned, SlotsDistinct
<1>9. ResetExclusive'
  <2> SUFFICES ASSUME NEW b \in Client, rfd'[b] # NoFd
               PROVE  excl'[fdtab'[rfd'[b]]]
    BY DEF ResetExclusive
  <2>1. CASE rfd'[b] = rfd[b]
    <3>1. rfd[b] \in Fd \ {d} /\ fdtab[rfd[b]] # NoFile
      BY <1>1, <1>6, <2>1 DEF ResetDescriptorsOwned
    <3>2. fdtab[rfd[b]] \in File \ {f} /\ fdtab'[rfd[b]] = fdtab[rfd[b]]
      BY <1>1, <1>3, <1>4, <3>1 DEF KmdTypeOK
    <3> QED BY <1>1, <1>5, <2>1, <3>1, <3>2 DEF ResetExclusive
  <2>2. CASE rfd'[b] # rfd[b]
    BY <1>4, <1>5, <1>7, <2>2
  <2> QED BY <2>1, <2>2
<1> QED BY <1>2, <1>8, <1>9 DEF Tables

\* close(2) of a session's own descriptor succeeds where it does not fail.
LEMMA CloseCallOk ==
  ASSUME ~CloseFails, ResetDescriptorsOwned, NEW c \in Client, NEW r, CloseCall(c, r)
  PROVE  r = "OK"
BY DEF CloseCall, ResetDescriptorsOwned

\* Closing the session of client c, in tt_close or tt_reset_with.
LEMMA CloseCallKeeps ==
  ASSUME ~CloseFails, Tables, ResetTypeOK, NEW c \in Client, NEW r, CloseCall(c, r),
         fd' = [fd EXCEPT ![c] = NoFd], rfd' = rfd,
         \A b \in Client : rpc'[b] \in Holding <=> rpc[b] \in Holding
  PROVE  Tables'
<1>1. /\ ResetDescriptorsOwned /\ SessionTypeOK /\ KmdTypeOK /\ NoFd \notin Fd
      /\ fd \in [Client -> Fd \cup {NoFd}] /\ rfd \in [Client -> Fd \cup {NoFd}]
  BY SessionAssumption DEF Tables, ResetTypeOK, SessionTypeOK
<1>2. CASE fd[c] = NoFd
  <2>1. fd' = fd /\ UNCHANGED kmdVars
    BY <1>1, <1>2 DEF CloseCall
  <2>2. ResetQuiet
    BY <2>1 DEF ResetQuiet, kmdVars, Holds
  <2> QED BY <1>1, <2>2, ResetQuietKeeps
<1>3. CASE fd[c] # NoFd
  <2> DEFINE fds == [fdtab EXCEPT ![fd[c]] = NoFile]
  <2>1. fd[c] \in Fd /\ Retain(fds, vma)
    BY <1>1, <1>3 DEF CloseCall, Release, ResetDescriptorsOwned
  <2>2. /\ fds \in [Fd -> File \cup {NoFile}]
        /\ \A s \in Fd : fds[s] = IF s \in {fd[c]} THEN NoFile ELSE fdtab[s]
    BY <1>1 DEF KmdTypeOK
  <2> HIDE DEF fds
  <2>3. \A b \in Client : fd[b] \in {fd[c]} => b = c
    BY <1>3 DEF Tables, ResetDescriptorsOwned
  <2>4. \A b \in Client : fd'[b] = IF fd[b] \in {fd[c]} THEN NoFd ELSE fd[b]
    BY <1>1, <2>3
  <2>5. \A b \in Client : rfd'[b] = IF rfd[b] \in {fd[c]} THEN NoFd ELSE rfd[b]
    BY <1>1, <1>3 DEF ResetDescriptorsOwned
  <2>6. \A b \in Client : rpc'[b] \in Holding <=> rfd'[b] # NoFd
    BY <1>1 DEF ResetDescriptorsOwned
  <2>7. {fd[c]} \in SUBSET Fd
    BY <2>1
  <2> QED BY <2>1, <2>2, <2>4, <2>5, <2>6, <2>7, DropKeeps
<1> QED BY <1>2, <1>3

LEMMA LifecycleInv ==
  ASSUME ~CloseFails, ResetInv, NEW c \in Client, LifecycleStep(c), UNCHANGED procVars
  PROVE  Tables' /\ OpeningIsClosed'
<1>1. Tables /\ ResetTypeOK /\ SessionTypeOK /\ OpeningIsClosed /\ ResetDescriptorsOwned
  BY DEF ResetInv, Tables, ResetTypeOK
<1>2. rpc' = rpc /\ rfd' = rfd
  BY DEF procVars
<1>3. ASSUME NEW fl \in Modes, Open(c, fl)
      PROVE  Tables' /\ OpeningIsClosed'
  <2>1. ResetQuiet /\ OpeningIsClosed'
    BY <1>1, <1>2, <1>3 DEF Open, ResetQuiet, kmdVars, Holds, OpeningIsClosed,
                            SessionTypeOK
  <2> QED BY <1>1, <2>1, ResetQuietKeeps
<1>4. ASSUME NEW r \in Codes, tt_close(c, r)
      PROVE  Tables' /\ fd' = [fd EXCEPT ![c] = NoFd]
  <2>1. CloseCall(c, r) /\ fd' = [fd EXCEPT ![c] = NoFd]
    BY <1>1, <1>4, CloseCallOk DEF tt_close
  <2> QED BY <1>1, <1>2, <2>1, CloseCallKeeps
<1>5. ASSUME Reopen(c)
      PROVE  Tables' /\ OpeningIsClosed'
  <2>1. Tables' /\ fd' = [fd EXCEPT ![c] = NoFd]
    BY <1>4, <1>5 DEF Reopen
  <2>2. OpeningIsClosed'
    BY <1>1, <1>5, <2>1 DEF Reopen, OpeningIsClosed, SessionTypeOK
  <2> QED BY <2>1, <2>2
<1>6. ASSUME OpenOk(c)
      PROVE  Tables' /\ OpeningIsClosed'
  <2>1. PICK d \in Fd : /\ OpenGrants(Home[c], req[c], d)
                        /\ fd' = [fd EXCEPT ![c] = d]
    BY <1>6 DEF OpenOk
  <2>2. fd[c] = NoFd
    BY <1>1, <1>6 DEF OpenOk, OpeningIsClosed
  <2>3. \A b \in Client : rpc'[b] \in Holding <=> rfd'[b] # NoFd
    BY <1>1, <1>2 DEF ResetDescriptorsOwned
  <2>4. Tables'
    BY <1>1, <1>2, <2>1, <2>2, <2>3, GainKeeps
  <2>5. OpeningIsClosed'
    BY <1>1, <1>6, <2>1 DEF OpenOk, OpeningIsClosed, SessionTypeOK
  <2> QED BY <2>4, <2>5
<1>7. ASSUME OpenFail(c)
      PROVE  Tables' /\ OpeningIsClosed'
  <2>1. ResetQuiet /\ OpeningIsClosed'
    BY <1>1, <1>2, <1>7 DEF OpenFail, ResetQuiet, kmdVars, Holds, OpeningIsClosed,
                            SessionTypeOK
  <2> QED BY <1>1, <2>1, ResetQuietKeeps
<1>8. ASSUME Close(c)
      PROVE  Tables' /\ OpeningIsClosed'
  <2>1. Tables' /\ fd' = [fd EXCEPT ![c] = NoFd]
    BY <1>4, <1>8 DEF Close
  <2>2. OpeningIsClosed'
    BY <1>1, <1>8, <2>1 DEF Close, OpeningIsClosed, SessionTypeOK
  <2> QED BY <2>1, <2>2
<1> QED BY <1>3, <1>5, <1>6, <1>7, <1>8 DEF LifecycleStep

LEMMA ResetStepInv ==
  ASSUME ResetInv, NEW c \in Client, ResetStep(c)
  PROVE  Tables' /\ OpeningIsClosed'
<1>1. /\ Tables /\ ResetTypeOK /\ SessionTypeOK /\ OpeningIsClosed
      /\ ResetDescriptorsOwned /\ NoFd \notin Fd
      /\ rpc \in [Client -> {"idle", "open"} \cup Holding]
      /\ rfd \in [Client -> Fd \cup {NoFd}]
  BY SessionAssumption DEF ResetInv, Tables, ResetTypeOK
<1>2. fd' = fd /\ pc' = pc /\ OpeningIsClosed'
  BY <1>1 DEF ResetStep, AcquireOk, AcquireFail, Info, AsicReset, PollComplete,
     PollAgain, PollTimeout, Wake, DelayOver, PostReset, IoctlFail, CloseAndReturn,
     sessionVars, sessVars, OpeningIsClosed
<1>3. ASSUME AcquireOk(c)
      PROVE  Tables'
  <2>1. PICK d \in Fd : /\ OpenGrants(Home[c], ResetFlags, d)
                        /\ rfd' = [rfd EXCEPT ![c] = d]
    BY <1>3 DEF AcquireOk
  <2>2. rfd[c] = NoFd
    BY <1>1, <1>3 DEF AcquireOk, ResetDescriptorsOwned, Holding
  <2>3. rpc' = [rpc EXCEPT ![c] = "info"]
    BY <1>3 DEF AcquireOk, Goto
  <2>4. \A b \in Client : rpc'[b] \in Holding <=> rfd'[b] # NoFd
    BY <1>1, <2>1, <2>3 DEF ResetDescriptorsOwned, Holding
  <2>5. "EXCL" \in ResetFlags
    BY DEF ResetFlags
  <2> QED BY <1>1, <1>2, <2>1, <2>2, <2>4, <2>5, GainKeeps
<1>4. ASSUME AcquireFail(c)
      PROVE  ResetQuiet
  BY <1>1, <1>4 DEF AcquireFail, ResetQuiet, Goto, kmdVars, Holds, Holding
<1>5. ASSUME NEW l \in Holding, rpc[c] \in Holding, Goto(c, l),
             UNCHANGED <<sessionVars, rfd>>
      PROVE  ResetQuiet
  BY <1>1, <1>5 DEF ResetQuiet, Goto, sessionVars, kmdVars, sessVars, Holds
<1>6. CASE Info(c) \/ PollComplete(c) \/ PollAgain(c) \/ PollTimeout(c) \/ Wake(c)
           \/ DelayOver(c) \/ PostReset(c) \/ IoctlFail(c)
  <2>1. UNCHANGED <<sessionVars, rfd>> /\ rpc[c] \in Holding
    BY <1>6 DEF Info, PollComplete, PollAgain, PollTimeout, Wake, DelayOver,
                PostReset, IoctlFail, Holding
  <2>2. \E l \in Holding : Goto(c, l)
    BY <1>6 DEF Info, PollComplete, PollAgain, PollTimeout, Wake, DelayOver,
                PostReset, IoctlFail, Finish, Holding
  <2> QED BY <1>1, <1>2, <1>5, <2>1, <2>2, ResetQuietKeeps
<1>7. ASSUME AsicReset(c)
      PROVE  ResetQuiet
  <2>1. \A f \in File : /\ Holds(f)' => Holds(f)
                        /\ st'[f] = "free" <=> st[f] = "free"
    BY <1>1, <1>7 DEF AsicReset, Sever, Holds, SessionTypeOK, KmdTypeOK
  <2>2. \A b \in Client : rpc'[b] \in Holding <=> rpc[b] \in Holding
    BY <1>1, <1>7 DEF AsicReset, Goto, Holding
  <2>3. UNCHANGED <<fdtab, excl, rfd>>
    BY <1>7 DEF AsicReset
  <2> QED BY <1>2, <2>1, <2>2, <2>3 DEF ResetQuiet, Holds
<1>8. ASSUME CloseAndReturn(c)
      PROVE  Tables'
  <2> DEFINE fds == [fdtab EXCEPT ![rfd[c]] = NoFile]
  <2>1. Retain(fds, vma) /\ rfd' = [rfd EXCEPT ![c] = NoFd] /\ rpc' = [rpc EXCEPT ![c] = "idle"]
    BY <1>8 DEF CloseAndReturn, Release, Goto
  <2>2. rfd[c] \in Fd
    BY <1>1, <1>8 DEF CloseAndReturn, ResetDescriptorsOwned, Holding
  <2>3. /\ fds \in [Fd -> File \cup {NoFile}]
        /\ \A s \in Fd : fds[s] = IF s \in {rfd[c]} THEN NoFile ELSE fdtab[s]
    BY <1>1 DEF SessionTypeOK, KmdTypeOK
  <2> HIDE DEF fds
  <2>4. \A b \in Client : fd'[b] = IF fd[b] \in {rfd[c]} THEN NoFd ELSE fd[b]
    BY <1>1, <1>2, <2>2 DEF ResetDescriptorsOwned
  <2>5. \A b \in Client : rfd'[b] = IF rfd[b] \in {rfd[c]} THEN NoFd ELSE rfd[b]
    BY <1>1, <2>1, <2>2 DEF ResetDescriptorsOwned
  <2>6. \A b \in Client : rpc'[b] \in Holding <=> rfd'[b] # NoFd
    BY <1>1, <2>1 DEF ResetDescriptorsOwned, Holding
  <2>7. {rfd[c]} \in SUBSET Fd
    BY <2>2
  <2> QED BY <1>1, <2>1, <2>3, <2>4, <2>5, <2>6, <2>7, DropKeeps
<1> QED BY <1>1, <1>2, <1>3, <1>4, <1>6, <1>7, <1>8, ResetQuietKeeps DEF ResetStep

LEMMA ResetExitInv ==
  ASSUME ResetInv, NEW p \in Proc, ResetExit(p)
  PROVE  Tables' /\ OpeningIsClosed'
<1>1. /\ Tables /\ ResetTypeOK /\ SessionTypeOK /\ OpeningIsClosed
      /\ ResetDescriptorsOwned /\ KmdTypeOK /\ NoFd \notin Fd
      /\ fd \in [Client -> Fd \cup {NoFd}] /\ rfd \in [Client -> Fd \cup {NoFd}]
  BY SessionAssumption DEF ResetInv, Tables, ResetTypeOK, SessionTypeOK
<1> DEFINE fds == [d \in Fd |-> IF ProcOf[d] = p THEN NoFile ELSE fdtab[d]]
           maps == [a \in Addr |-> IF ProcOf[a] = p THEN NoFile ELSE vma[a]]
           D == {d \in Fd : ProcOf[d] = p}
<1>2. Retain(fds, maps)
  BY DEF ResetExit, ProcessExit, Exit
<1>3. /\ fds \in [Fd -> File \cup {NoFile}] /\ D \in SUBSET Fd
      /\ \A s \in Fd : fds[s] = IF s \in D THEN NoFile ELSE fdtab[s]
  BY <1>1 DEF KmdTypeOK
<1>4. \A c \in Client : /\ fd[c] \in D <=> fd[c] # NoFd /\ Home[c] = p
                        /\ rfd[c] \in D <=> rfd[c] # NoFd /\ Home[c] = p
  BY <1>1 DEF ResetDescriptorsOwned
<1>5. \A c \in Client :
        /\ fd'[c] = IF Home[c] = p THEN NoFd ELSE fd[c]
        /\ rfd'[c] = IF Home[c] = p THEN NoFd ELSE rfd[c]
        /\ rpc'[c] = IF Home[c] = p THEN "idle" ELSE rpc[c]
        /\ pc'[c] = IF Home[c] = p THEN "idle" ELSE pc[c]
  BY DEF ResetExit, ProcessExit
<1> HIDE DEF fds, maps
<1>6. /\ \A c \in Client : fd'[c] = IF fd[c] \in D THEN NoFd ELSE fd[c]
      /\ \A c \in Client : rfd'[c] = IF rfd[c] \in D THEN NoFd ELSE rfd[c]
  <2> SUFFICES ASSUME NEW c \in Client
               PROVE  /\ fd'[c] = IF fd[c] \in D THEN NoFd ELSE fd[c]
                      /\ rfd'[c] = IF rfd[c] \in D THEN NoFd ELSE rfd[c]
    OBVIOUS
  <2>1. CASE Home[c] = p
    BY <1>4, <1>5, <2>1
  <2>2. CASE Home[c] # p
    BY <1>4, <1>5, <2>2
  <2> QED BY <2>1, <2>2
<1>7. \A c \in Client : rpc'[c] \in Holding <=> rfd'[c] # NoFd
  BY <1>1, <1>5 DEF ResetDescriptorsOwned, Holding
<1>8. Tables'
  BY <1>1, <1>2, <1>3, <1>6, <1>7, DropKeeps
<1>9. OpeningIsClosed'
  BY <1>1, <1>5 DEF OpeningIsClosed
<1> QED BY <1>8, <1>9

\* Where close(2) does not fail, ResetInv holds in every state.
LEMMA ResetInvInductive ==
  ASSUME ~CloseFails
  PROVE  ResetSpec => []ResetInv
<1> SUFFICES /\ ResetInit => ResetInv
             /\ ResetInv /\ [ResetNext]_resetVars => ResetInv'
  BY PTL DEF ResetSpec
<1>1. ResetInit => Tables /\ OpeningIsClosed
  BY DEF ResetInit, SessionInit, KmdInit, Tables, ResetDescriptorsOwned, Holding,
         OpeningIsClosed, SlotsDistinct, ResetExclusive, Arbitrated, Holds
<1>2. ASSUME ResetInv, [ResetNext]_resetVars
      PROVE  Tables' /\ OpeningIsClosed'
  <2>1. /\ Tables /\ SessionTypeOK /\ OpeningIsClosed /\ ResetTypeOK
        /\ ResetDescriptorsOwned
    BY <1>2 DEF ResetInv, Tables, ResetTypeOK
  <2>2. ASSUME NEW c \in Client, LifecycleStep(c), UNCHANGED <<procVars, devVars>>
        PROVE  Tables' /\ OpeningIsClosed'
    BY <1>2, <2>2, LifecycleInv
  <2>3. ASSUME NEW c \in Client, ResetStart(c)
        PROVE  Tables' /\ OpeningIsClosed'
    <3>1. \A b \in Client : rpc'[b] \in Holding <=> rpc[b] \in Holding
      BY <2>1, <2>3 DEF ResetStart, CanCall, Goto, Holding, ResetTypeOK
    <3>2. ResetQuiet /\ OpeningIsClosed'
      BY <2>1, <2>3, <3>1 DEF ResetStart, ResetQuiet, kmdVars, Holds, OpeningIsClosed
    <3> QED BY <2>1, <3>2, ResetQuietKeeps
  <2>4. ASSUME NEW c \in Client, ResetWith(c)
        PROVE  Tables' /\ OpeningIsClosed'
    <3>1. \A b \in Client : rpc'[b] \in Holding <=> rpc[b] \in Holding
      BY <2>1, <2>4 DEF ResetWith, CanCall, Goto, Holding, ResetTypeOK
    <3>2. fd' = [fd EXCEPT ![c] = NoFd] /\ rfd' = rfd /\ pc' = pc
      BY <2>4 DEF ResetWith
    <3>3. PICK r : CloseCall(c, r)
      BY <2>4 DEF ResetWith, CloseCall
    <3>4. Tables'
      BY <2>1, <3>1, <3>2, <3>3, CloseCallKeeps
    <3>5. OpeningIsClosed'
      BY <2>1, <3>2 DEF OpeningIsClosed, SessionTypeOK
    <3> QED BY <3>4, <3>5
  <2>5. ASSUME NEW c \in Client, ResetStep(c)
        PROVE  Tables' /\ OpeningIsClosed'
    BY <1>2, <2>5, ResetStepInv
  <2>6. ASSUME NEW p \in Proc, ResetExit(p)
        PROVE  Tables' /\ OpeningIsClosed'
    BY <1>2, <2>6, ResetExitInv
  <2>7. CASE DeviceDone \/ Tick \/ UNCHANGED resetVars
    <3>1. UNCHANGED <<kmdVars, fd, rfd, rpc, pc>>
      BY <2>7 DEF DeviceDone, Tick, resetVars, sessionVars, sessVars, procVars
    <3>2. ResetQuiet /\ OpeningIsClosed'
      BY <2>1, <3>1 DEF ResetQuiet, kmdVars, Holds, OpeningIsClosed
    <3> QED BY <2>1, <3>2, ResetQuietKeeps
  <2>8. CASE DevOobReset \/ DevRemove \/ DevReprobe
    <3>1. UNCHANGED <<fdtab, excl, fd, rfd, rpc, pc>>
      BY <2>8 DEF DevOobReset, DevRemove, DevReprobe, OobReset, Remove, Reprobe,
                  sessVars, procVars
    <3>2. \A f \in File : /\ Holds(f)' => Holds(f)
                          /\ st'[f] = "free" <=> st[f] = "free"
      BY <2>1, <2>8 DEF DevOobReset, DevRemove, DevReprobe, OobReset, Sever, Remove,
                        Reprobe, Holds, SessionTypeOK, KmdTypeOK
    <3>3. ResetQuiet /\ OpeningIsClosed'
      BY <2>1, <3>1, <3>2 DEF ResetQuiet, Holds, OpeningIsClosed
    <3> QED BY <2>1, <3>3, ResetQuietKeeps
  <2> QED BY <1>2, <2>2, <2>3, <2>4, <2>5, <2>6, <2>7, <2>8 DEF ResetNext
<1>3. ResetInit => ResetTypeOK
  BY ResetInitTypes
<1>4. ResetTypeOK /\ [ResetNext]_resetVars => ResetTypeOK'
  BY ResetNextTypes
<1> QED BY <1>1, <1>2, <1>3, <1>4 DEF ResetInv, Tables

\* Every exit of tt_reset closes the descriptor it opened and no other.
THEOREM ResetOwnership ==
  ASSUME ~CloseFails
  PROVE  ResetSpec => []ResetDescriptorsOwned
<1>1. ResetInv => ResetDescriptorsOwned
  BY DEF ResetInv
<1> QED BY <1>1, ResetInvInductive, PTL

LEMMA FenceOfInv ==
  ASSUME ResetInv
  PROVE  Fenced
<1> SUFFICES ASSUME NEW c \in Client, rpc[c] \in Holding
             PROVE  LET f == fdtab[rfd[c]]
                    IN  /\ f # NoFile
                        /\ Holds(f) => excl[f] /\ \A g \in File \ {f} : ~Holds(g)
  BY DEF Fenced
<1>1. rfd[c] \in Fd /\ fdtab[rfd[c]] # NoFile
  BY DEF ResetInv, ResetTypeOK, ResetDescriptorsOwned
<1>2. fdtab[rfd[c]] \in File /\ excl[fdtab[rfd[c]]]
  BY <1>1, SessionAssumption
     DEF ResetInv, ResetTypeOK, SessionTypeOK, KmdTypeOK, ResetExclusive
<1> QED BY <1>1, <1>2 DEF ResetInv, Arbitrated

\* From the moment tt_reset acquires the device to the moment it lets go of it,
\* nobody else has it open.
THEOREM ResetFenced ==
  ASSUME ~CloseFails
  PROVE  ResetSpec => []Fenced
<1>1. ResetInv => Fenced
  BY FenceOfInv
<1> QED BY <1>1, ResetInvInductive, PTL

\* A step of one client's reset leaves the others where they are.
LEMMA OnlyOwnPoint ==
  ASSUME rpc \in [Client -> {"idle", "open"} \cup Holding], NEW b \in Client, ResetStep(b),
         NEW c \in Client, rpc'[c] # rpc[c]
  PROVE  b = c
<1>1. \E l : Goto(b, l)
  BY DEF ResetStep, AcquireOk, AcquireFail, Info, AsicReset, PollComplete, PollAgain,
     PollTimeout, Wake, DelayOver, PostReset, IoctlFail, CloseAndReturn, Finish
<1> QED BY <1>1 DEF Goto

\* A reset never destroys another client's session.
THEOREM ResetSeversNobody ==
  ASSUME ~CloseFails
  PROVE  ResetSpec => SeversNobody
<1> DEFINE A == (\E c \in Client : rpc[c] = "asic" /\ rpc'[c] = "poll")
                => \A f \in File : st[f] = "live" => st'[f] # "stale"
<1>1. ResetInv /\ [ResetNext]_resetVars => [A]_resetVars
  <2> SUFFICES ASSUME ResetInv, ResetNext, NEW c \in Client, rpc[c] = "asic",
                      rpc'[c] = "poll", NEW f \in File, st[f] = "live"
               PROVE  st'[f] # "stale"
    OBVIOUS
  <2>1. AsicReset(c)
    <3> USE DEF Goto, Finish, procVars
    <3>1. rpc \in [Client -> {"idle", "open"} \cup Holding]
      BY DEF ResetInv, ResetTypeOK
    <3>2. \A b \in Client : ResetStep(b) => b = c
      BY <3>1, OnlyOwnPoint
    <3>3. ResetStep(c) => AsicReset(c)
      BY <3>1 DEF ResetStep, AcquireOk, AcquireFail, Info, PollComplete, PollAgain,
         PollTimeout, Wake, DelayOver, PostReset, IoctlFail, CloseAndReturn
    <3>4. \A b \in Client : ~ResetStart(b) /\ ~ResetWith(b) /\ ~UNCHANGED procVars
      BY <3>1 DEF ResetStart, ResetWith
    <3>5. \A p \in Proc : ~ResetExit(p)
      BY DEF ResetExit
    <3> QED BY <3>2, <3>3, <3>4, <3>5
            DEF ResetNext, DeviceDone, Tick, DevOobReset, DevRemove, DevReprobe
  <2>2. Io(rfd[c]) = "OK" /\ Sever({fdtab[rfd[c]]})
    BY <2>1 DEF AsicReset
  <2>3. \A g \in File \ {fdtab[rfd[c]]} : ~Holds(g)
    <3>1. st[fdtab[rfd[c]]] = "live"
      BY <2>2 DEF Io
    <3> QED BY <3>1, FenceOfInv DEF Fenced, Holding, Holds
  <2>4. f = fdtab[rfd[c]]
    BY <2>3 DEF Holds
  <2> QED BY <2>2, <2>4 DEF Sever
<1>2. [](ResetInv) /\ [][ResetNext]_resetVars => [][A]_resetVars
  BY <1>1, PTL
<1> QED BY <1>2, ResetInvInductive, PTL DEF ResetSpec, SeversNobody

------------------------------------------------------------------------------
(* The session that tt_reset_with consumes.                                 *)

\* Between the return of tt_reset_with and the client's next call the client has no
\* session and opens none.
Consumed(c) == op[c] = "tt_reset_with" => fd[c] = NoFd /\ pc[c] = "idle"

LEMMA ConsumedKept ==
  ASSUME ResetTypeOK, \A c \in Client : Consumed(c), [ResetNext]_resetVars
  PROVE  \A c \in Client : Consumed(c)'
<1> USE DEF Consumed, ResetTypeOK, SessionTypeOK
<1>1. ASSUME NEW b \in Client, LifecycleStep(b)
      PROVE  \A c \in Client : Consumed(c)'
  <2>1. CASE \E fl \in Modes : Open(b, fl)
    BY <1>1, <2>1 DEF Open, Return
  <2>2. CASE Reopen(b)
    BY <1>1, <2>2 DEF Reopen, tt_close, Return
  <2>3. CASE OpenOk(b)
    BY <1>1, <2>3 DEF OpenOk, Return
  <2>4. CASE OpenFail(b)
    BY <1>1, <2>4 DEF OpenFail, Return
  <2>5. CASE Close(b)
    BY <1>1, <2>5 DEF Close, tt_close, Return
  <2> QED BY <1>1, <2>1, <2>2, <2>3, <2>4, <2>5 DEF LifecycleStep
<1>2. ASSUME NEW b \in Client, ResetStart(b) \/ ResetWith(b)
      PROVE  \A c \in Client : Consumed(c)'
  BY <1>2 DEF ResetStart, ResetWith, CanCall, Return
<1>3. ASSUME NEW b \in Client, ResetStep(b)
      PROVE  \A c \in Client : Consumed(c)'
  <2>1. UNCHANGED <<fd, pc>>
    BY <1>3 DEF ResetStep, AcquireOk, AcquireFail, Info, AsicReset, PollComplete,
       PollAgain, PollTimeout, Wake, DelayOver, PostReset, IoctlFail, CloseAndReturn,
       sessionVars, sessVars
  <2>2. op' = op
    <3>1. op' = op \/ \E r : Return(b, op[b], r)
      BY <1>3 DEF ResetStep, AcquireOk, AcquireFail, Info, AsicReset, PollComplete,
         PollAgain, PollTimeout, Wake, DelayOver, PostReset, IoctlFail, CloseAndReturn,
         sessionVars, sessVars
    <3> QED BY <3>1 DEF Return
  <2> QED BY <2>1, <2>2
<1>4. ASSUME NEW p \in Proc, ResetExit(p)
      PROVE  \A c \in Client : Consumed(c)'
  BY <1>4 DEF ResetExit, ProcessExit
<1>5. CASE DeviceDone \/ Tick \/ DevOobReset \/ DevRemove \/ DevReprobe \/ UNCHANGED resetVars
  BY <1>5 DEF DeviceDone, Tick, DevOobReset, DevRemove, DevReprobe, resetVars,
              sessionVars, sessVars
<1> QED BY <1>1, <1>2, <1>3, <1>4, <1>5 DEF ResetNext

\* tt_reset_with consumes the session on every path, whatever close(2) reports
\* (reset.c, tt_reset_with).
THEOREM ResetConsumesSession == ResetSpec => []SessionConsumed
<1> DEFINE I == \A c \in Client : Consumed(c)
<1>1. ResetInit => I
  BY DEF ResetInit, SessionInit, Consumed
<1>2. ResetTypeOK /\ I /\ [ResetNext]_resetVars => I'
  BY ConsumedKept
<1>3. I => SessionConsumed
  BY DEF Consumed, SessionConsumed
<1> HIDE DEF I
<1> QED BY <1>1, <1>2, <1>3, ResetTypeCorrect, PTL DEF ResetSpec

------------------------------------------------------------------------------
(* What the post-reset finds.                                               *)

\* A device that is gone has no live description.
GoneIsDead == ~present => \A f \in File : st[f] # "live"

\* The reset of client c that still has its instance: it has not seen the device gone,
\* and from the end of its polling on the reset is complete and its sleep outlasts what
\* is left of the firmware's start.
Progress(c) ==
  rpc[c] \in Holding /\ st[fdtab[rfd[c]]] = "live" =>
    /\ rpc[c] \in {"poll", "sleep"} => ~gone[c]
    /\ rpc[c] = "delay" => ~marker /\ fwLeft <= timer[c]
    /\ rpc[c] = "post" => Published

PostInv == GoneIsDead /\ \A c \in Client : Progress(c)

\* The reset of client c keeps its description, and the step does not revive it.
KeepsFile(c) ==
  LET f == fdtab[rfd[c]]
  IN  rfd'[c] = rfd[c] /\ fdtab'[rfd[c]] = f /\ (st'[f] = "live" => st[f] = "live")

\* The description of a reset in progress, and its slot.
LEMMA HeldFile ==
  ASSUME ResetTypeOK, ResetDescriptorsOwned, NEW c \in Client, rpc[c] \in Holding
  PROVE  /\ rfd[c] \in Fd /\ fdtab[rfd[c]] \in File /\ st[fdtab[rfd[c]]] # "free"
         /\ ProcOf[rfd[c]] = Home[c]
         /\ \A b \in Client : fd[b] # rfd[c] /\ (rfd[b] = rfd[c] => b = c)
<1>1. rfd[c] \in Fd
  BY DEF ResetTypeOK, ResetDescriptorsOwned
<1> QED
  BY <1>1, SessionAssumption DEF ResetTypeOK, SessionTypeOK, KmdTypeOK, ResetDescriptorsOwned

LEMMA GrantKeepsFile ==
  ASSUME ResetTypeOK, ResetDescriptorsOwned, NEW c \in Client, rpc[c] \in Holding,
         rfd'[c] = rfd[c], NEW p, NEW fl, NEW d \in Fd, OpenGrants(p, fl, d)
  PROVE  KeepsFile(c)
<1>1. PICK f \in File : st[f] = "free" /\ st' = [st EXCEPT ![f] = "live"]
                        /\ fdtab' = [fdtab EXCEPT ![d] = f]
  BY DEF OpenGrants, Grant
<1>2. fdtab[d] = NoFile
  BY DEF OpenGrants, FreeFds
<1>3. rfd[c] # d /\ fdtab[rfd[c]] # f
  BY <1>1, <1>2, HeldFile, KmdAssumption
<1> QED
  BY <1>1, <1>3, HeldFile DEF KeepsFile, ResetTypeOK, SessionTypeOK, KmdTypeOK

LEMMA RetainKeepsFile ==
  ASSUME ResetTypeOK, ResetDescriptorsOwned, NEW c \in Client, rpc[c] \in Holding,
         rfd'[c] = rfd[c], NEW fds, NEW maps, Retain(fds, maps), fds[rfd[c]] = fdtab[rfd[c]]
  PROVE  KeepsFile(c)
<1>1. fdtab' = fds /\ \A f \in File : st'[f] = st[f] \/ st'[f] = "free"
  BY DEF Retain
<1> QED
  BY <1>1, HeldFile DEF KeepsFile

\* A step in which client c's reset holds its descriptor before and after.
LEMMA FileKept ==
  ASSUME ~CloseFails, ResetInv, ResetNext, NEW c \in Client,
         rpc[c] \in Holding, rpc'[c] \in Holding
  PROVE  KeepsFile(c)
<1>1. /\ ResetTypeOK /\ ResetDescriptorsOwned /\ SessionTypeOK /\ OpeningIsClosed
      /\ rpc \in [Client -> {"idle", "open"} \cup Holding]
      /\ rfd \in [Client -> Fd \cup {NoFd}] /\ NoFd \notin Fd
      /\ fdtab \in [Fd -> File \cup {NoFile}] /\ st \in [File -> Status]
  BY SessionAssumption DEF ResetInv, ResetTypeOK, SessionTypeOK, KmdTypeOK
<1>2. /\ rfd[c] \in Fd /\ fdtab[rfd[c]] \in File
      /\ \A b \in Client : fd[b] # rfd[c] /\ (rfd[b] = rfd[c] => b = c)
      /\ ProcOf[rfd[c]] = Home[c]
  BY <1>1, HeldFile
<1>3. ASSUME UNCHANGED <<rfd, fdtab, st>>
      PROVE  KeepsFile(c)
  BY <1>3 DEF KeepsFile
<1>4. ASSUME NEW b \in Client, NEW r, CloseCall(b, r), rfd' = rfd
      PROVE  KeepsFile(c)
  <2>1. CASE UNCHANGED kmdVars
    BY <1>3, <1>4, <2>1 DEF kmdVars
  <2>2. CASE Release(fd[b])
    <3>1. [fdtab EXCEPT ![fd[b]] = NoFile][rfd[c]] = fdtab[rfd[c]]
      BY <1>1, <1>2
    <3> QED BY <1>1, <1>4, <2>2, <3>1, RetainKeepsFile DEF Release
  <2> QED BY <1>4, <2>1, <2>2 DEF CloseCall
<1>5. ASSUME NEW b \in Client, LifecycleStep(b), UNCHANGED procVars
      PROVE  KeepsFile(c)
  <2>1. rfd' = rfd
    BY <1>5 DEF procVars
  <2>2. CASE (\E fl \in Modes : Open(b, fl)) \/ OpenFail(b)
    BY <1>3, <2>1, <2>2 DEF Open, OpenFail, kmdVars
  <2>3. CASE Reopen(b) \/ Close(b)
    <3>1. \E r : CloseCall(b, r)
      BY <2>3 DEF Reopen, Close, tt_close
    <3> QED BY <1>4, <2>1, <3>1
  <2>4. CASE OpenOk(b)
    <3>1. PICK d \in Fd : OpenGrants(Home[b], req[b], d)
      BY <2>4 DEF OpenOk
    <3> QED BY <1>1, <2>1, <3>1, GrantKeepsFile
  <2> QED BY <1>5, <2>2, <2>3, <2>4 DEF LifecycleStep
<1>6. ASSUME NEW b \in Client, ResetStart(b) \/ ResetWith(b)
      PROVE  KeepsFile(c)
  <2>1. CASE UNCHANGED kmdVars
    BY <1>3, <1>6, <2>1 DEF ResetStart, ResetWith, kmdVars
  <2>2. CASE \E r : CloseCall(b, r)
    BY <1>4, <1>6, <2>2 DEF ResetStart, ResetWith
  <2> QED BY <1>6, <2>1, <2>2 DEF ResetStart, ResetWith
<1>7. ASSUME NEW b \in Client, ResetStep(b)
      PROVE  KeepsFile(c)
  <2>1. CASE AcquireOk(b)
    <3>1. PICK d \in Fd : /\ OpenGrants(Home[b], ResetFlags, d)
                          /\ rfd' = [rfd EXCEPT ![b] = d]
      BY <2>1 DEF AcquireOk
    <3>2. b # c
      BY <2>1 DEF AcquireOk, Holding
    <3>3. rfd'[c] = rfd[c]
      BY <1>1, <3>1, <3>2
    <3> QED BY <1>1, <3>1, <3>3, GrantKeepsFile
  <2>2. CASE AcquireFail(b) \/ Info(b) \/ PollComplete(b) \/ PollAgain(b) \/ PollTimeout(b)
             \/ Wake(b) \/ DelayOver(b) \/ PostReset(b) \/ IoctlFail(b)
    BY <1>3, <2>2 DEF AcquireFail, Info, PollComplete, PollAgain, PollTimeout, Wake,
       DelayOver, PostReset, IoctlFail, sessionVars, kmdVars
  <2>3. CASE AsicReset(b)
    BY <1>1, <1>2, <2>3 DEF AsicReset, Sever, KeepsFile
  <2>4. CASE CloseAndReturn(b)
    <3>1. b # c
      BY <1>1, <2>4 DEF CloseAndReturn, Goto, Holding
    <3>2. rfd'[c] = rfd[c] /\ [fdtab EXCEPT ![rfd[b]] = NoFile][rfd[c]] = fdtab[rfd[c]]
      BY <1>1, <1>2, <2>4, <3>1 DEF CloseAndReturn
    <3> QED BY <1>1, <2>4, <3>2, RetainKeepsFile DEF CloseAndReturn, Release
  <2> QED BY <1>7, <2>1, <2>2, <2>3, <2>4 DEF ResetStep
<1>8. ASSUME NEW p \in Proc, ResetExit(p)
      PROVE  KeepsFile(c)
  <2>1. Home[c] # p
    BY <1>8 DEF ResetExit, Holding
  <2>2. rfd'[c] = rfd[c]
    BY <1>8, <2>1 DEF ResetExit
  <2>3. [d \in Fd |-> IF ProcOf[d] = p THEN NoFile ELSE fdtab[d]][rfd[c]] = fdtab[rfd[c]]
    BY <1>2, <2>1
  <2> QED BY <1>1, <1>8, <2>2, <2>3, RetainKeepsFile DEF ResetExit, ProcessExit, Exit
<1>9. CASE DeviceDone \/ Tick
  BY <1>3, <1>9 DEF DeviceDone, Tick, sessionVars, kmdVars, procVars
<1>10. CASE DevOobReset \/ DevRemove \/ DevReprobe
  BY <1>1, <1>2, <1>10 DEF DevOobReset, DevRemove, DevReprobe, OobReset, Sever, Remove,
     Reprobe, procVars, KeepsFile
<1> QED BY <1>5, <1>6, <1>7, <1>8, <1>9, <1>10 DEF ResetNext

LEMMA GoneIsDeadKept ==
  ASSUME ResetTypeOK, GoneIsDead, [ResetNext]_resetVars
  PROVE  GoneIsDead'
<1> USE DEF GoneIsDead
<1>1. st \in [File -> Status]
  BY DEF ResetTypeOK, SessionTypeOK, KmdTypeOK
<1>2. ASSUME NEW fds, NEW maps, Retain(fds, maps)
      PROVE  GoneIsDead'
  BY <1>2 DEF Retain
<1>3. ASSUME UNCHANGED <<present, st>>
      PROVE  GoneIsDead'
  BY <1>3
<1>4. ASSUME NEW b \in Client, NEW r, CloseCall(b, r)
      PROVE  GoneIsDead'
  BY <1>2, <1>3, <1>4 DEF CloseCall, Release, kmdVars
<1>5. ASSUME NEW p, NEW fl, NEW d \in Fd, OpenGrants(p, fl, d)
      PROVE  GoneIsDead'
  BY <1>5 DEF OpenGrants, Grant
<1>6. ASSUME NEW b \in Client, LifecycleStep(b)
      PROVE  GoneIsDead'
  BY <1>3, <1>4, <1>5, <1>6 DEF LifecycleStep, Open, Reopen, Close, tt_close, OpenOk,
     OpenFail, kmdVars
<1>7. ASSUME NEW b \in Client, ResetStart(b) \/ ResetWith(b)
      PROVE  GoneIsDead'
  BY <1>3, <1>4, <1>7 DEF ResetStart, ResetWith, kmdVars
<1>8. ASSUME NEW b \in Client, ResetStep(b)
      PROVE  GoneIsDead'
  <2>1. CASE AcquireOk(b)
    BY <1>5, <2>1 DEF AcquireOk
  <2>2. CASE AsicReset(b)
    BY <1>1, <2>2 DEF AsicReset, Sever
  <2>3. CASE CloseAndReturn(b)
    BY <1>2, <2>3 DEF CloseAndReturn, Release
  <2>4. CASE AcquireFail(b) \/ Info(b) \/ PollComplete(b) \/ PollAgain(b) \/ PollTimeout(b)
             \/ Wake(b) \/ DelayOver(b) \/ PostReset(b) \/ IoctlFail(b)
    BY <1>3, <2>4 DEF AcquireFail, Info, PollComplete, PollAgain, PollTimeout, Wake,
       DelayOver, PostReset, IoctlFail, sessionVars, kmdVars
  <2> QED BY <1>8, <2>1, <2>2, <2>3, <2>4 DEF ResetStep
<1>9. ASSUME NEW p \in Proc, ResetExit(p)
      PROVE  GoneIsDead'
  BY <1>2, <1>9 DEF ResetExit, ProcessExit, Exit
<1>10. CASE DeviceDone \/ Tick \/ UNCHANGED resetVars
  BY <1>3, <1>10 DEF DeviceDone, Tick, resetVars, sessionVars, kmdVars
<1>11. CASE DevOobReset \/ DevRemove \/ DevReprobe
  BY <1>1, <1>11 DEF DevOobReset, DevRemove, DevReprobe, OobReset, Remove, Reprobe, Sever
<1> QED BY <1>6, <1>7, <1>8, <1>9, <1>10, <1>11 DEF ResetNext

\* The steps of client c's own reset.
LEMMA OwnStepProgress ==
  ASSUME ResetInv, PostInv, NEW c \in Client, ResetStep(c), rpc'[c] \in Holding,
         rpc[c] \in Holding => KeepsFile(c)
  PROVE  Progress(c)'
<1> USE ResetAssumption DEF Goto, Finish, Sleep
<1>1. /\ rpc \in [Client -> {"idle", "open"} \cup Holding] /\ rfd \in [Client -> Fd \cup {NoFd}]
      /\ gone \in [Client -> BOOLEAN] /\ timer \in [Client -> Nat]
      /\ marker \in BOOLEAN /\ fwLeft \in 0..FwTime /\ Progress(c)
      /\ ResetTypeOK /\ ResetDescriptorsOwned
  BY DEF ResetInv, ResetTypeOK, PostInv
<1>2. CASE AcquireOk(c) \/ Info(c) \/ PollTimeout(c) \/ PostReset(c) \/ IoctlFail(c)
  <2>1. rpc'[c] \in {"info", "asic", "close"}
    BY <1>1, <1>2 DEF AcquireOk, Info, PollTimeout, PostReset, IoctlFail
  <2> QED BY <2>1 DEF Progress
<1>3. CASE AsicReset(c)
  <2>1. rpc'[c] = "poll" /\ ~gone'[c]
    BY <1>1, <1>3 DEF AsicReset
  <2> QED BY <2>1 DEF Progress
<1>4. CASE PollComplete(c) \/ PollAgain(c) \/ Wake(c) \/ DelayOver(c)
  <2>1. rpc[c] \in Holding /\ UNCHANGED <<sessionVars, rfd, devVars>>
    BY <1>4 DEF PollComplete, PollAgain, Wake, DelayOver, Holding
  <2>2. UNCHANGED <<st, fdtab, present, marker, fwLeft>>
    BY <2>1 DEF sessionVars, kmdVars, devVars
  <2> SUFFICES ASSUME st[fdtab[rfd[c]]] = "live"
               PROVE  /\ rpc'[c] \in {"poll", "sleep"} => ~gone'[c]
                      /\ rpc'[c] = "delay" => ~marker /\ fwLeft <= timer'[c]
                      /\ rpc'[c] = "post" => Published
    BY <2>1, <2>2 DEF Progress, Published
  <2>3. present
    BY <1>1, <2>1, HeldFile DEF PostInv, GoneIsDead
  <2>4. CASE PollComplete(c)
    <3>1. ~gone[c]
      BY <1>1, <2>1, <2>4 DEF PollComplete, Progress
    <3>2. ~marker /\ rpc'[c] = "delay" /\ timer'[c] = Delay
      BY <1>1, <2>4, <3>1 DEF PollComplete, LooksComplete
    <3> QED BY <1>1, <3>2
  <2>5. CASE PollAgain(c)
    <3>1. ~gone[c]
      BY <1>1, <2>1, <2>5 DEF PollAgain, Progress
    <3>2. rpc'[c] = "sleep" /\ ~gone'[c]
      BY <1>1, <2>3, <2>5, <3>1 DEF PollAgain
    <3> QED BY <3>2
  <2>6. CASE Wake(c)
    <3>1. ~gone[c]
      BY <1>1, <2>1, <2>6 DEF Wake, Progress
    <3>2. rpc'[c] = "poll" /\ gone' = gone
      BY <1>1, <2>6 DEF Wake
    <3> QED BY <3>1, <3>2
  <2>7. CASE DelayOver(c)
    <3>1. ~marker /\ fwLeft <= timer[c] /\ timer[c] = 0
      BY <1>1, <2>1, <2>7 DEF DelayOver, Progress
    <3>2. rpc'[c] = "post"
      BY <1>1, <2>7 DEF DelayOver
    <3> QED BY <1>1, <3>1, <3>2 DEF Published
  <2> QED BY <1>4, <2>4, <2>5, <2>6, <2>7
<1>5. CASE AcquireFail(c) \/ CloseAndReturn(c)
  <2>1. rpc'[c] = "idle"
    BY <1>1, <1>5 DEF AcquireFail, CloseAndReturn
  <2> QED BY <2>1 DEF Holding
<1> QED BY <1>2, <1>3, <1>4, <1>5 DEF ResetStep

\* Any other step, as client c's reset in progress sees it.
LEMMA OtherStepProgress ==
  ASSUME ResetInv, PostInv, ResetNext, NEW c \in Client, ~ResetStep(c),
         rpc[c] \in Holding, rpc'[c] \in Holding, KeepsFile(c)
  PROVE  Progress(c)'
<1> USE ResetAssumption
<1>1. /\ rpc \in [Client -> {"idle", "open"} \cup Holding] /\ rfd \in [Client -> Fd \cup {NoFd}]
      /\ gone \in [Client -> BOOLEAN] /\ timer \in [Client -> Nat]
      /\ marker \in BOOLEAN /\ fwLeft \in 0..FwTime /\ Progress(c)
      /\ st \in [File -> Status]
      /\ ResetTypeOK /\ ResetDescriptorsOwned /\ SlotsDistinct /\ GoneIsDead
  BY DEF ResetInv, ResetTypeOK, SessionTypeOK, KmdTypeOK, PostInv
<1>2. rfd[c] \in Fd /\ fdtab[rfd[c]] \in File
  BY <1>1, HeldFile
<1>3. st'[fdtab'[rfd'[c]]] = "live" => st[fdtab[rfd[c]]] = "live"
  BY DEF KeepsFile
<1>4. ASSUME UNCHANGED devVars, rpc'[c] = rpc[c], gone'[c] = gone[c], timer'[c] = timer[c]
      PROVE  Progress(c)'
  BY <1>1, <1>3, <1>4 DEF Progress, devVars, Published
<1>5. ASSUME st'[fdtab[rfd[c]]] # "live"
      PROVE  Progress(c)'
  BY <1>5 DEF KeepsFile, Progress
<1>6. ASSUME NEW b \in Client, LifecycleStep(b), UNCHANGED <<procVars, devVars>>
      PROVE  Progress(c)'
  BY <1>4, <1>6 DEF procVars
<1>7. ASSUME NEW b \in Client, ResetStart(b) \/ ResetWith(b)
      PROVE  Progress(c)'
  <2>1. b # c
    BY <1>7 DEF ResetStart, ResetWith, CanCall, Holding
  <2>2. rpc'[c] = rpc[c] /\ UNCHANGED <<gone, timer, devVars>>
    BY <1>1, <1>7, <2>1 DEF ResetStart, ResetWith, Goto
  <2> QED BY <1>4, <2>2
<1>8. ASSUME NEW b \in Client, ResetStep(b)
      PROVE  Progress(c)'
  <2>1. b # c
    BY <1>8
  <2>2. CASE AsicReset(b)
    <3>1. rpc[b] \in Holding
      BY <2>2 DEF AsicReset, Holding
    <3>2. rfd[b] \in Fd /\ rfd[b] # rfd[c] /\ fdtab[rfd[b]] \in File
      BY <1>1, <2>1, <3>1, HeldFile
    <3>3. fdtab[rfd[c]] # fdtab[rfd[b]]
      BY <1>2, <3>2, KmdAssumption DEF ResetInv, SlotsDistinct
    <3>4. st'[fdtab[rfd[c]]] # "live"
      BY <1>1, <1>2, <2>2, <3>3 DEF AsicReset, Sever
    <3> QED BY <1>5, <3>4
  <2>3. CASE ~AsicReset(b)
    <3>1. rpc'[c] = rpc[c] /\ gone'[c] = gone[c] /\ timer'[c] = timer[c]
      BY <1>1, <1>8, <2>1, <2>3 DEF ResetStep, AcquireOk, AcquireFail, Info, PollComplete,
         PollAgain, PollTimeout, Wake, DelayOver, PostReset, IoctlFail, CloseAndReturn,
         Goto, Finish, Sleep
    <3>2. UNCHANGED devVars
      BY <1>8, <2>3 DEF ResetStep, AcquireOk, AcquireFail, Info, PollComplete,
         PollAgain, PollTimeout, Wake, DelayOver, PostReset, IoctlFail, CloseAndReturn
    <3> QED BY <1>4, <3>1, <3>2
  <2> QED BY <2>2, <2>3
<1>9. ASSUME NEW p \in Proc, ResetExit(p)
      PROVE  Progress(c)'
  <2>1. Home[c] # p
    BY <1>9 DEF ResetExit, Holding
  <2>2. rpc'[c] = rpc[c] /\ gone'[c] = gone[c] /\ timer'[c] = timer[c] /\ UNCHANGED devVars
    BY <1>9, <2>1 DEF ResetExit
  <2> QED BY <1>4, <2>2
<1>10. CASE DeviceDone
  <2>1. UNCHANGED <<rpc, gone, timer, fwLeft>> /\ ~marker'
    BY <1>10 DEF DeviceDone, procVars
  <2> QED BY <1>1, <1>3, <2>1 DEF Progress, Published
<1>11. CASE Tick
  <2>1. /\ UNCHANGED <<rpc, gone, marker>>
        /\ fwLeft' = IF fwLeft > 0 /\ ~marker THEN fwLeft - 1 ELSE fwLeft
        /\ timer'[c] = IF timer[c] > 0 THEN timer[c] - 1 ELSE 0
    BY <1>11 DEF Tick
  <2>2. fwLeft \in Nat /\ timer[c] \in Nat
    BY <1>1
  <2>3. fwLeft <= timer[c] /\ ~marker => fwLeft' <= timer'[c]
    BY <2>1, <2>2
  <2>4. fwLeft = 0 => fwLeft' = 0
    BY <2>1
  <2> QED BY <1>1, <1>3, <2>1, <2>3, <2>4 DEF Progress, Published
<1>12. CASE DevOobReset
  BY <1>1, <1>2, <1>5, <1>12 DEF DevOobReset, OobReset, Sever
<1>13. CASE DevRemove
  BY <1>4, <1>13 DEF DevRemove, procVars
<1>14. CASE DevReprobe
  BY <1>1, <1>2, <1>5, <1>14 DEF DevReprobe, Reprobe, GoneIsDead
<1> QED BY <1>6, <1>7, <1>8, <1>9, <1>10, <1>11, <1>12, <1>13, <1>14 DEF ResetNext

LEMMA PostInvInductive ==
  ASSUME ~CloseFails
  PROVE  ResetSpec => [](ResetInv /\ PostInv)
<1>1. ResetInit => PostInv
  BY DEF ResetInit, SessionInit, KmdInit, PostInv, GoneIsDead, Progress, Holding
<1>2. ASSUME ResetInv, PostInv, [ResetNext]_resetVars
      PROVE  PostInv'
  <2>1. GoneIsDead'
    BY <1>2, GoneIsDeadKept DEF ResetInv, PostInv
  <2>2. ASSUME NEW c \in Client
        PROVE  Progress(c)'
    <3>1. CASE UNCHANGED resetVars
      BY <1>2, <3>1 DEF PostInv, Progress, Published, resetVars, sessionVars, kmdVars,
         procVars, devVars
    <3>2. CASE rpc'[c] \notin Holding
      BY <3>2 DEF Progress
    <3>3. CASE ResetNext /\ rpc[c] \in Holding /\ rpc'[c] \in Holding
      <4>1. KeepsFile(c)
        BY <1>2, <3>3, FileKept
      <4>2. CASE ResetStep(c)
        BY <1>2, <3>3, <4>1, <4>2, OwnStepProgress
      <4>3. CASE ~ResetStep(c)
        BY <1>2, <3>3, <4>1, <4>3, OtherStepProgress
      <4> QED BY <4>2, <4>3
    <3>4. CASE ResetNext /\ rpc[c] \notin Holding /\ rpc'[c] \in Holding
      <4>1. ResetStep(c)
        <5> USE DEF Goto, Finish, procVars
        <5>1. rpc \in [Client -> {"idle", "open"} \cup Holding] /\ rpc[c] # rpc'[c]
          BY <1>2, <3>4 DEF ResetInv, ResetTypeOK
        <5>2. \A b \in Client : ResetStep(b) => b = c
          BY <5>1, OnlyOwnPoint
        <5>3. \A b \in Client : ~ResetStart(b) /\ ~ResetWith(b)
          BY <3>4, <5>1 DEF ResetStart, ResetWith, Holding
        <5>4. ASSUME NEW p \in Proc, ResetExit(p)
              PROVE  FALSE
          <6>1. rpc'[c] \in {"idle", rpc[c]}
            BY <5>4 DEF ResetExit
          <6> QED BY <3>4, <5>1, <6>1 DEF Holding
        <5>5. rpc' # rpc
          BY <5>1
        <5>6. ~DeviceDone /\ ~Tick /\ ~DevOobReset /\ ~DevRemove /\ ~DevReprobe
          BY <5>5 DEF DeviceDone, Tick, DevOobReset, DevRemove, DevReprobe
        <5>7. \A b \in Client : ~(LifecycleStep(b) /\ UNCHANGED <<procVars, devVars>>)
          BY <5>5
        <5> QED BY <3>4, <5>2, <5>3, <5>4, <5>6, <5>7 DEF ResetNext
      <4> QED BY <1>2, <3>4, <4>1, OwnStepProgress
    <3> QED BY <1>2, <3>1, <3>2, <3>3, <3>4
  <2> QED BY <2>1, <2>2 DEF PostInv
<1> QED BY <1>1, <1>2, ResetInvInductive, PTL DEF ResetSpec

\* A POST_RESET that succeeds finds the marker clear and the firmware's telemetry
\* published, although the driver looks for it only once: whatever signals, resets by
\* others, removals and deaths of processes happen in between (reset.c, tt_reset,
\* POST_RESET_DELAY_MS).
THEOREM ResetPostFindsTelemetry ==
  ASSUME ~CloseFails
  PROVE  ResetSpec => PostFindsTelemetry
<1> DEFINE A == \A c \in Client :
                  rpc[c] = "post" /\ rpc'[c] = "close" /\ rres'[c] = "OK"
                  => Published
<1>1. ResetInv /\ PostInv /\ [ResetNext]_resetVars => [A]_resetVars
  <2> SUFFICES ASSUME ResetInv, PostInv, ResetNext, NEW c \in Client, rpc[c] = "post",
                      rpc'[c] = "close", rres'[c] = "OK"
               PROVE  Published
    OBVIOUS
  <2> USE DEF Goto, Finish, procVars
  <2>1. rpc \in [Client -> {"idle", "open"} \cup Holding] /\ rres \in [Client -> Codes]
    BY DEF ResetInv, ResetTypeOK
  <2>2. ResetStep(c)
    <3>1. \A b \in Client : ResetStep(b) => b = c
      BY <2>1, OnlyOwnPoint
    <3>2. \A b \in Client : ~ResetStart(b) /\ ~ResetWith(b)
      BY <2>1 DEF ResetStart, ResetWith
    <3>3. \A p \in Proc : ~ResetExit(p)
      BY DEF ResetExit
    <3> QED BY <3>1, <3>2, <3>3
            DEF ResetNext, DeviceDone, Tick, DevOobReset, DevRemove, DevReprobe
  <2>3. PostReset(c) \/ IoctlFail(c)
    BY <2>1, <2>2 DEF ResetStep, AcquireOk, AcquireFail, Info, AsicReset, PollComplete,
       PollAgain, PollTimeout, Wake, DelayOver, CloseAndReturn
  <2>4. ~IoctlFail(c)
    <3>1. \A r \in IoctlFailures(c) : r # "OK"
      BY DEF IoctlFailures, tt_fail_io, Io
    <3> QED BY <2>1, <3>1 DEF IoctlFail
  <2>5. Io(rfd[c]) = "OK"
    BY <2>3, <2>4 DEF PostReset
  <2>6. st[fdtab[rfd[c]]] = "live"
    BY <2>5 DEF Io
  <2> QED BY <2>6 DEF PostInv, Progress, Holding
<1>2. [](ResetInv /\ PostInv) /\ [][ResetNext]_resetVars => [][A]_resetVars
  BY <1>1, PTL
<1> QED BY <1>2, PostInvInductive, PTL DEF ResetSpec, PostFindsTelemetry
================================================================================
