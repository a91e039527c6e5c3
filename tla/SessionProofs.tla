---------------------------- MODULE SessionProofs ----------------------------
(***************************************************************************)
(* Theorems about Session, for every number of processes, clients, slots   *)
(* and file descriptions.  Those about descriptors and exclusivity assume  *)
(* that close(2) does not fail: one that does leaves its session with a    *)
(* number that another session may be given.  That a reopen tells a        *)
(* removal from a reset assumes instead that no signal interrupts open(2)  *)
(* and that every process has slots enough: tt_open reports EINTR and      *)
(* EMFILE as it does ENODEV.                                               *)
(***************************************************************************)
EXTENDS Session, FiniteSetTheorems, TLAPS

------------------------------------------------------------------------------
(* Types.                                                                   *)

\* What an open(2) that succeeds does to the kernel's tables is well typed.
LEMMA GrantTypes ==
  ASSUME KmdTypeOK, NEW d \in Fd, NEW e \in BOOLEAN, Grant(d, e)
  PROVE  KmdTypeOK'
BY DEF KmdTypeOK, Grant, Status

\* So is every way of dropping descriptors and mappings.
LEMMA RetainTypes ==
  ASSUME KmdTypeOK,
         NEW fds \in [Fd -> File \cup {NoFile}],
         NEW maps \in [Addr -> File \cup {NoFile}],
         Retain(fds, maps)
  PROVE  KmdTypeOK'
<1> DEFINE InUse(f) == (\E d \in Fd : fds[d] = f) \/ (\E a \in Addr : maps[a] = f)
<1>1. st' = [f \in File |-> IF InUse(f) THEN st[f] ELSE "free"]
  BY DEF Retain
<1>2. excl' = [f \in File |-> InUse(f) /\ excl[f]]
  BY DEF Retain
<1>3. fdtab' = fds /\ vma' = maps /\ present' = present
  BY DEF Retain
<1>4. st' \in [File -> Status]
  <2> HIDE DEF InUse
  <2> QED BY <1>1 DEF KmdTypeOK, Status
<1>5. excl' \in [File -> BOOLEAN]
  <2>1. \A f \in File : (InUse(f) /\ excl[f]) \in BOOLEAN
    OBVIOUS
  <2> HIDE DEF InUse
  <2> QED BY <1>2, <2>1
<1> QED BY <1>3, <1>4, <1>5 DEF KmdTypeOK

LEMMA ReleaseTypes ==
  ASSUME KmdTypeOK, NEW d, Release(d)
  PROVE  KmdTypeOK'
<1>1. [fdtab EXCEPT ![d] = NoFile] \in [Fd -> File \cup {NoFile}]
  BY DEF KmdTypeOK
<1>2. vma \in [Addr -> File \cup {NoFile}]
  BY DEF KmdTypeOK
<1> QED BY <1>1, <1>2, RetainTypes DEF Release

\* The close inside tt_close and tt_reset_with.
LEMMA CloseCallTypes ==
  ASSUME SessionTypeOK, NEW c \in Client, NEW r, CloseCall(c, r)
  PROVE  KmdTypeOK' /\ r \in {"OK", "EBADF", "EIO"}
<1>1. CASE UNCHANGED kmdVars /\ r \in {"OK", "EBADF"}
  BY <1>1 DEF SessionTypeOK, KmdTypeOK, kmdVars
<1>2. CASE fd[c] # NoFd /\ Release(fd[c]) /\ r \in {"OK", "EIO"}
  BY <1>2, ReleaseTypes DEF SessionTypeOK
<1> QED BY <1>1, <1>2 DEF CloseCall

LEMMA ExitTypes ==
  ASSUME KmdTypeOK, NEW p \in Proc, Exit(p)
  PROVE  KmdTypeOK'
<1>1. [d \in Fd |-> IF ProcOf[d] = p THEN NoFile ELSE fdtab[d]]
        \in [Fd -> File \cup {NoFile}]
  BY DEF KmdTypeOK
<1>2. [a \in Addr |-> IF ProcOf[a] = p THEN NoFile ELSE vma[a]]
        \in [Addr -> File \cup {NoFile}]
  BY DEF KmdTypeOK
<1> QED BY <1>1, <1>2, RetainTypes DEF Exit

\* open(2) inside tt_open and tt_reset, on a slot of the calling process.
LEMMA OpenGrantsTypes ==
  ASSUME KmdTypeOK, NEW p, NEW fl, NEW d \in Fd, OpenGrants(p, fl, d)
  PROVE  KmdTypeOK'
<1> DEFINE e == "EXCL" \in fl
<1>1. e \in BOOLEAN /\ Grant(d, e)
  BY DEF OpenGrants
<1> HIDE DEF e
<1> QED BY <1>1, GrantTypes

LEMMA CodesOfIo ==
  ASSUME KmdTypeOK, NEW d \in Fd
  PROVE  /\ Io(d) \in {"OK", "EBADF", "ENODEV"}
         /\ tt_fail_io(Io(d)) \in {"OK", "EBADF", "ECONNRESET"}
BY DEF Io, tt_fail_io

LEMMA LifecycleTypes ==
  ASSUME SessionTypeOK, NEW c \in Client, LifecycleStep(c)
  PROVE  SessionTypeOK'
<1> USE SessionAssumption DEF SessionTypeOK, Return
<1>1. ASSUME NEW fl \in Modes, Open(c, fl)
      PROVE  SessionTypeOK'
  <2>1. fl \in SUBSET OpenFlags
    BY DEF OpenFlags
  <2>2. KmdTypeOK'
    BY <1>1 DEF Open, KmdTypeOK, kmdVars
  <2> QED BY <1>1, <2>1, <2>2 DEF Open, Ops, Codes
<1>2. ASSUME Reopen(c)
      PROVE  SessionTypeOK'
  <2>1. PICK r \in Codes : tt_close(c, r)
    BY <1>2 DEF Reopen
  <2>2. KmdTypeOK'
    BY <2>1, CloseCallTypes DEF tt_close
  <2> QED BY <1>2, <2>1, <2>2 DEF Reopen, tt_close, Ops, Codes
<1>3. ASSUME OpenOk(c)
      PROVE  SessionTypeOK'
  <2>1. PICK d \in Fd : /\ OpenGrants(Home[c], req[c], d)
                        /\ fd' = [fd EXCEPT ![c] = d]
    BY <1>3 DEF OpenOk
  <2>2. KmdTypeOK'
    BY <2>1, OpenGrantsTypes
  <2> QED BY <1>3, <2>1, <2>2 DEF OpenOk, Codes
<1>4. ASSUME OpenFail(c)
      PROVE  SessionTypeOK'
  <2>1. PICK e : Return(c, op[c], OpenErrno(e))
    BY <1>4 DEF OpenFail
  <2>2. OpenErrno(e) \in Codes
    BY DEF OpenErrno, Codes
  <2>3. KmdTypeOK'
    BY <1>4 DEF OpenFail, KmdTypeOK, kmdVars
  <2> QED BY <1>4, <2>1, <2>2, <2>3 DEF OpenFail
<1>5. ASSUME Close(c)
      PROVE  SessionTypeOK'
  <2>1. PICK r \in Codes : tt_close(c, r) /\ Return(c, "tt_close", r)
    BY <1>5 DEF Close
  <2>2. KmdTypeOK'
    BY <2>1, CloseCallTypes DEF tt_close
  <2> QED BY <1>5, <2>1, <2>2 DEF Close, tt_close, Ops
<1> QED BY <1>1, <1>2, <1>3, <1>4, <1>5 DEF LifecycleStep

LEMMA EnvTypes ==
  ASSUME KmdTypeOK, OobReset \/ Remove \/ Reprobe
  PROVE  KmdTypeOK'
BY DEF KmdTypeOK, OobReset, Sever, Remove, Reprobe, Status

LEMMA ProcessExitTypes ==
  ASSUME SessionTypeOK, NEW p \in Proc, ProcessExit(p)
  PROVE  SessionTypeOK'
<1>1. KmdTypeOK'
  BY ExitTypes DEF SessionTypeOK, ProcessExit
<1> QED BY <1>1 DEF SessionTypeOK, ProcessExit, Ops, Codes

\* Every state of the session layer is well typed.
THEOREM SessionTypeCorrect == SessionSpec => []SessionTypeOK
<1>1. SessionInit => SessionTypeOK
  BY DEF SessionInit, KmdInit, SessionTypeOK, KmdTypeOK, Status, Ops, Codes
<1>2. SessionTypeOK /\ [SessionNext]_sessionVars => SessionTypeOK'
  <2> SUFFICES ASSUME SessionTypeOK, [SessionNext]_sessionVars
               PROVE  SessionTypeOK'
    OBVIOUS
  <2>1. ASSUME NEW c \in Client, LifecycleStep(c)
        PROVE  SessionTypeOK'
    BY <2>1, LifecycleTypes
  <2>2. ASSUME NEW c \in Client, DevInfo(c)
        PROVE  SessionTypeOK'
    <3>1. SessionIo(c) \in Codes
      BY CodesOfIo DEF SessionIo, SessionTypeOK, Codes
    <3>2. KmdTypeOK'
      BY <2>2 DEF DevInfo, SessionTypeOK, KmdTypeOK, kmdVars
    <3> QED BY <2>2, <3>1, <3>2 DEF DevInfo, Return, SessionTypeOK, Ops
  <2>3. ASSUME NEW p \in Proc, ProcessExit(p)
        PROVE  SessionTypeOK'
    BY <2>3, ProcessExitTypes
  <2>4. CASE SessionEnv
    BY <2>4, EnvTypes DEF SessionEnv, SessionTypeOK, sessVars
  <2>5. CASE UNCHANGED sessionVars
    BY <2>5 DEF sessionVars, sessVars, kmdVars, SessionTypeOK, KmdTypeOK
  <2> QED BY <2>1, <2>2, <2>3, <2>4, <2>5 DEF SessionNext
<1> QED BY <1>1, <1>2, PTL DEF SessionSpec

------------------------------------------------------------------------------
(* Ownership of descriptors and exclusivity.                                *)

\* A session whose open(2) is in progress has let go of its descriptor.
OpeningIsClosed == \A c \in Client : pc[c] = "opening" => fd[c] = NoFd

\* A slot refers to a description that exists, and no two to the same one.
SlotsDistinct ==
  /\ \A s \in Fd : fdtab[s] # NoFile => st[fdtab[s]] # "free"
  /\ \A s, t \in Fd : fdtab[s] # NoFile /\ fdtab[s] = fdtab[t] => s = t

\* A session remembers how it was opened.
FlagsRecorded ==
  \A c \in Client : fd[c] # NoFd => (excl[fdtab[fd[c]]] <=> "EXCL" \in flags[c])

\* Where an exclusive description counts, it is the only one that does.
Arbitrated == \A f, g \in File : Holds(f) /\ Holds(g) /\ excl[f] => f = g

SessionInv ==
  /\ SessionTypeOK
  /\ DescriptorsOwned
  /\ OpeningIsClosed
  /\ SlotsDistinct
  /\ FlagsRecorded
  /\ Arbitrated

\* What an open(2) that succeeds does to the tables.
LEMMA GrantTables ==
  ASSUME SessionAssumption, KmdAssumption, KmdTypeOK, SlotsDistinct, Arbitrated,
         NEW p, NEW fl, NEW d \in Fd, OpenGrants(p, fl, d)
  PROVE  /\ fdtab[d] = NoFile /\ ProcOf[d] = p
         /\ SlotsDistinct' /\ Arbitrated'
         /\ \E f \in File :
              /\ st[f] = "free"
              /\ st' = [st EXCEPT ![f] = "live"]
              /\ excl' = [excl EXCEPT ![f] = "EXCL" \in fl]
              /\ fdtab' = [fdtab EXCEPT ![d] = f]
              /\ \A s \in Fd : fdtab[s] # f
<1> DEFINE e == "EXCL" \in fl
<1>1. fdtab[d] = NoFile /\ ProcOf[d] = p /\ CanOpen(e)
  BY DEF OpenGrants, FreeFds
<1>2. PICK f \in File : /\ st[f] = "free"
                        /\ st' = [st EXCEPT ![f] = "live"]
                        /\ excl' = [excl EXCEPT ![f] = e]
                        /\ fdtab' = [fdtab EXCEPT ![d] = f]
  BY DEF OpenGrants, Grant
<1>3. \A s \in Fd : fdtab[s] # f
  BY <1>2, KmdAssumption DEF SlotsDistinct
<1>4. e \in BOOLEAN
  OBVIOUS
<1> HIDE DEF e
<1>5. SlotsDistinct'
  BY <1>1, <1>2, <1>3 DEF SlotsDistinct, KmdTypeOK
<1>6. Arbitrated'
  <2> SUFFICES ASSUME NEW g \in File, NEW h \in File,
                      Holds(g)', Holds(h)', excl'[g]
               PROVE  g = h
    BY DEF Arbitrated
  <2>1. \A k \in File \ {f} : (Holds(k)' <=> Holds(k)) /\ (excl'[k] <=> excl[k])
    BY <1>2 DEF Holds, KmdTypeOK
  <2>2. excl'[f] <=> e
    BY <1>2, <1>4 DEF KmdTypeOK
  <2> QED BY <1>1, <2>1, <2>2 DEF CanOpen, Arbitrated
<1> QED BY <1>1, <1>2, <1>3, <1>5, <1>6 DEF e

\* What dropping slots does to the descriptions the other slots refer to.
LEMMA RetainTables ==
  ASSUME KmdTypeOK, SlotsDistinct, Arbitrated,
         NEW fds \in [Fd -> File \cup {NoFile}], NEW maps,
         \A s \in Fd : fds[s] \in {fdtab[s], NoFile},
         Retain(fds, maps)
  PROVE  /\ fdtab' = fds
         /\ SlotsDistinct' /\ Arbitrated'
         /\ \A f \in File : st'[f] = st[f] \/ (st'[f] = "free" /\ \A s \in Fd : fds[s] # f)
         /\ \A s \in Fd : fds[s] # NoFile => (excl'[fds[s]] <=> excl[fds[s]])
<1> DEFINE InUse(f) == (\E d \in Fd : fds[d] = f) \/ (\E a \in Addr : maps[a] = f)
<1>1. st' = [f \in File |-> IF InUse(f) THEN st[f] ELSE "free"]
  BY DEF Retain
<1>2. excl' = [f \in File |-> InUse(f) /\ excl[f]]
  BY DEF Retain
<1>3. fdtab' = fds
  BY DEF Retain
<1>4. \A s \in Fd : InUse(fds[s])
  OBVIOUS
<1>5. \A f \in File : ~InUse(f) => \A s \in Fd : fds[s] # f
  OBVIOUS
<1> HIDE DEF InUse
<1>6. \A f \in File : st'[f] = st[f] \/ (st'[f] = "free" /\ \A s \in Fd : fds[s] # f)
  BY <1>1, <1>5
<1>7. \A s \in Fd : fds[s] # NoFile => (excl'[fds[s]] <=> excl[fds[s]])
  <2> SUFFICES ASSUME NEW s \in Fd, fds[s] # NoFile
               PROVE  excl'[fds[s]] <=> excl[fds[s]]
    OBVIOUS
  <2>1. fds[s] \in File
    OBVIOUS
  <2> QED BY <1>2, <1>4, <2>1, Zenon
<1>8. SlotsDistinct'
  BY <1>3, <1>6 DEF SlotsDistinct
<1>9. \A f \in File : (Holds(f)' => Holds(f)) /\ (excl'[f] => excl[f])
  <2> SUFFICES ASSUME NEW f \in File
               PROVE  (Holds(f)' => Holds(f)) /\ (excl'[f] => excl[f])
    OBVIOUS
  <2>1. Holds(f)' => Holds(f)
    BY <1>6 DEF Holds
  <2>2. excl'[f] => excl[f]
    BY <1>2, Zenon
  <2> QED BY <2>1, <2>2
<1>10. Arbitrated'
  BY <1>9 DEF Arbitrated
<1> QED BY <1>3, <1>6, <1>7, <1>8, <1>10

\* A step that leaves the descriptors and their flags alone and at most takes
\* descriptions away from the arbitration.
Quiet ==
  /\ UNCHANGED <<fdtab, excl, fd, flags>>
  /\ \A f \in File : /\ Holds(f)' => Holds(f)
                     /\ st'[f] = "free" <=> st[f] = "free"

LEMMA QuietKeeps ==
  ASSUME DescriptorsOwned, SlotsDistinct, FlagsRecorded, Arbitrated, KmdTypeOK, Quiet
  PROVE  DescriptorsOwned' /\ SlotsDistinct' /\ FlagsRecorded' /\ Arbitrated'
<1>1. DescriptorsOwned'
  BY DEF Quiet, DescriptorsOwned, FileOf
<1>2. SlotsDistinct'
  BY DEF Quiet, SlotsDistinct, KmdTypeOK
<1>3. FlagsRecorded'
  BY DEF Quiet, FlagsRecorded
<1>4. Arbitrated'
  BY DEF Quiet, Arbitrated
<1> QED BY <1>1, <1>2, <1>3, <1>4

\* Where close(2) does not fail, tt_close always closes the session.
LEMMA CloseKeeps ==
  ASSUME ~CloseFails, SessionInv, NEW c \in Client, NEW r \in Codes,
         CloseCall(c, r), fd' = IF r = "OK" THEN [fd EXCEPT ![c] = NoFd] ELSE fd,
         \A d \in Client \ {c} : flags'[d] = flags[d]
  PROVE  /\ r = "OK" /\ fd' = [fd EXCEPT ![c] = NoFd]
         /\ DescriptorsOwned' /\ SlotsDistinct' /\ FlagsRecorded' /\ Arbitrated'
<1> USE DEF SessionInv
<1>1. CASE fd[c] = NoFd
  <2>1. r = "OK" /\ fd' = [fd EXCEPT ![c] = NoFd] /\ fd' = fd
    BY <1>1 DEF CloseCall, SessionTypeOK
  <2>2. UNCHANGED kmdVars /\ UNCHANGED <<st, excl, fdtab>>
    BY <1>1 DEF CloseCall, kmdVars
  <2>3. DescriptorsOwned' /\ SlotsDistinct' /\ Arbitrated'
    BY <2>1, <2>2 DEF DescriptorsOwned, FileOf, SlotsDistinct, Arbitrated, Holds
  <2>4. FlagsRecorded'
    BY <1>1, <2>1, <2>2 DEF FlagsRecorded
  <2> QED BY <2>1, <2>3, <2>4
<1>2. CASE fd[c] # NoFd
  <2>1. fd[c] \in Fd /\ fdtab[fd[c]] # NoFile
    BY <1>2 DEF SessionTypeOK, DescriptorsOwned, FileOf
  <2>2. r = "OK" /\ fd' = [fd EXCEPT ![c] = NoFd]
    BY <1>2, <2>1 DEF CloseCall
  <2> DEFINE fds == [fdtab EXCEPT ![fd[c]] = NoFile]
  <2>3. Retain(fds, vma)
    BY <1>2, <2>1 DEF CloseCall, Release
  <2>4. /\ fds \in [Fd -> File \cup {NoFile}]
        /\ \A s \in Fd : fds[s] \in {fdtab[s], NoFile}
    BY DEF SessionTypeOK, KmdTypeOK
  <2>5. \A d \in Client \ {c} : fd[d] # NoFd => /\ fd[d] \in Fd
                                                /\ fd[d] # fd[c]
                                                /\ fds[fd[d]] = fdtab[fd[d]]
                                                /\ fdtab[fd[d]] # NoFile
    BY <2>1 DEF DescriptorsOwned, FileOf, SessionTypeOK, KmdTypeOK
  <2>6. /\ fds[fd[c]] = NoFile
        /\ \A s \in Fd : fds[s] # NoFile => s # fd[c] /\ fdtab[s] # NoFile
    BY <2>1 DEF SessionTypeOK, KmdTypeOK
  <2> HIDE DEF fds
  <2>7. /\ fdtab' = fds /\ SlotsDistinct' /\ Arbitrated'
        /\ \A s \in Fd : fds[s] # NoFile => (excl'[fds[s]] <=> excl[fds[s]])
    BY <2>3, <2>4, RetainTables DEF SessionTypeOK
  <2>8. \A d \in Client : fd'[d] # NoFd => d # c /\ fd'[d] = fd[d]
    BY <2>2 DEF SessionTypeOK
  <2>9. DescriptorsOwned'
    <3>1. \A d \in Client : fd'[d] # NoFd =>
            fdtab'[fd'[d]] # NoFile /\ ProcOf[fd'[d]] = Home[d]
      BY <2>5, <2>7, <2>8 DEF DescriptorsOwned
    <3>2. \A d, b \in Client : fd'[d] # NoFd /\ fd'[d] = fd'[b] => d = b
      BY <2>8 DEF DescriptorsOwned
    <3>3. \A s \in Fd : fdtab'[s] # NoFile => \E d \in Client : fd'[d] = s
      BY <2>1, <2>2, <2>6, <2>7 DEF DescriptorsOwned, SessionTypeOK
    <3> QED BY <3>1, <3>2, <3>3 DEF DescriptorsOwned, FileOf
  <2>10. FlagsRecorded'
    BY <2>5, <2>7, <2>8 DEF FlagsRecorded
  <2> QED BY <2>2, <2>7, <2>9, <2>10
<1> QED BY <1>1, <1>2

\* open(2) on behalf of a closed session c.
LEMMA OpenKeeps ==
  ASSUME SessionInv, NEW c \in Client, pc[c] = "opening", NEW d \in Fd,
         OpenGrants(Home[c], req[c], d),
         fd' = [fd EXCEPT ![c] = d], flags' = [flags EXCEPT ![c] = req[c]]
  PROVE  DescriptorsOwned' /\ SlotsDistinct' /\ FlagsRecorded' /\ Arbitrated'
<1> USE SessionAssumption, KmdAssumption DEF SessionInv
<1>1. /\ fdtab[d] = NoFile /\ ProcOf[d] = Home[c]
      /\ SlotsDistinct' /\ Arbitrated'
  BY GrantTables DEF SessionTypeOK
<1>2. PICK f \in File : /\ st[f] = "free"
                        /\ excl' = [excl EXCEPT ![f] = "EXCL" \in req[c]]
                        /\ fdtab' = [fdtab EXCEPT ![d] = f]
                        /\ \A s \in Fd : fdtab[s] # f
  BY GrantTables DEF SessionTypeOK
<1>3. fd[c] = NoFd
  BY DEF OpeningIsClosed
<1>4. \A b \in Client \ {c} : /\ fd'[b] = fd[b] /\ flags'[b] = flags[b]
                              /\ fd[b] # NoFd => /\ fd[b] \in Fd \ {d}
                                                 /\ fdtab[fd[b]] \in File \ {f}
                                                 /\ fdtab'[fd[b]] = fdtab[fd[b]]
  BY <1>1, <1>2 DEF SessionTypeOK, KmdTypeOK, DescriptorsOwned, FileOf
<1>5. fd'[c] = d /\ flags'[c] = req[c] /\ fdtab'[d] = f /\ d # NoFd
  BY <1>2 DEF SessionTypeOK, KmdTypeOK
<1>6. DescriptorsOwned'
  <2>1. \A b \in Client : fd'[b] # NoFd =>
          fdtab'[fd'[b]] # NoFile /\ ProcOf[fd'[b]] = Home[b]
    BY <1>1, <1>4, <1>5 DEF DescriptorsOwned
  <2>2. \A a, b \in Client : fd'[a] # NoFd /\ fd'[a] = fd'[b] => a = b
    BY <1>4, <1>5 DEF DescriptorsOwned
  <2>3. \A s \in Fd : fdtab'[s] # NoFile => \E b \in Client : fd'[b] = s
    BY <1>2, <1>3, <1>4, <1>5 DEF DescriptorsOwned, SessionTypeOK, KmdTypeOK
  <2> QED BY <2>1, <2>2, <2>3 DEF DescriptorsOwned, FileOf
<1>7. FlagsRecorded'
  <2> DEFINE e == "EXCL" \in req[c]
  <2>1. excl' = [excl EXCEPT ![f] = e] /\ e \in BOOLEAN /\ (e <=> "EXCL" \in req[c])
    BY <1>2
  <2> HIDE DEF e
  <2>2. excl'[f] <=> "EXCL" \in req[c]
    BY <2>1 DEF SessionTypeOK, KmdTypeOK
  <2>3. \A g \in File \ {f} : excl'[g] = excl[g]
    BY <2>1 DEF SessionTypeOK, KmdTypeOK
  <2> QED BY <1>4, <1>5, <2>2, <2>3 DEF FlagsRecorded
<1> QED BY <1>1, <1>6, <1>7

\* A process that exits takes its slots and its sessions with it.
LEMMA ExitKeeps ==
  ASSUME SessionInv, NEW p \in Proc, ProcessExit(p)
  PROVE  DescriptorsOwned' /\ SlotsDistinct' /\ FlagsRecorded' /\ Arbitrated'
<1> USE SessionAssumption, KmdAssumption DEF SessionInv
<1> DEFINE fds == [d \in Fd |-> IF ProcOf[d] = p THEN NoFile ELSE fdtab[d]]
           maps == [a \in Addr |-> IF ProcOf[a] = p THEN NoFile ELSE vma[a]]
<1>1. Retain(fds, maps)
  BY DEF ProcessExit, Exit
<1>2. /\ fds \in [Fd -> File \cup {NoFile}]
      /\ \A s \in Fd : fds[s] \in {fdtab[s], NoFile}
      /\ \A s \in Fd : fds[s] # NoFile => ProcOf[s] # p /\ fdtab[s] # NoFile
      /\ \A s \in Fd : ProcOf[s] # p => fds[s] = fdtab[s]
  BY DEF SessionTypeOK, KmdTypeOK
<1> HIDE DEF fds, maps
<1>3. /\ fdtab' = fds /\ SlotsDistinct' /\ Arbitrated'
      /\ \A s \in Fd : fds[s] # NoFile => (excl'[fds[s]] <=> excl[fds[s]])
  BY <1>1, <1>2, RetainTables DEF SessionTypeOK
<1>4. \A c \in Client :
        /\ Home[c] = p => fd'[c] = NoFd
        /\ Home[c] # p => fd'[c] = fd[c] /\ flags'[c] = flags[c]
  BY DEF ProcessExit
<1>5. \A c \in Client : fd'[c] # NoFd => /\ fd'[c] = fd[c] /\ flags'[c] = flags[c]
                                         /\ fd[c] \in Fd /\ ProcOf[fd[c]] = Home[c]
                                         /\ fdtab[fd[c]] # NoFile
                                         /\ fds[fd[c]] = fdtab[fd[c]]
  BY <1>2, <1>4 DEF DescriptorsOwned, FileOf, SessionTypeOK
<1>6. DescriptorsOwned'
  <2>1. \A c \in Client : fd'[c] # NoFd =>
          fdtab'[fd'[c]] # NoFile /\ ProcOf[fd'[c]] = Home[c]
    BY <1>3, <1>5
  <2>2. \A c, d \in Client : fd'[c] # NoFd /\ fd'[c] = fd'[d] => c = d
    BY <1>5 DEF DescriptorsOwned
  <2>3. \A s \in Fd : fdtab'[s] # NoFile => \E c \in Client : fd'[c] = s
    <3> SUFFICES ASSUME NEW s \in Fd, fds[s] # NoFile
                 PROVE  \E c \in Client : fd'[c] = s
      BY <1>3
    <3>1. PICK c \in Client : fd[c] = s
      BY <1>2 DEF DescriptorsOwned
    <3>2. ProcOf[s] = Home[c]
      BY <3>1 DEF DescriptorsOwned
    <3> QED BY <1>2, <1>4, <3>1, <3>2
  <2> QED BY <2>1, <2>2, <2>3 DEF DescriptorsOwned, FileOf
<1>7. FlagsRecorded'
  BY <1>3, <1>5 DEF FlagsRecorded
<1> QED BY <1>3, <1>6, <1>7

LEMMA LifecycleKeeps ==
  ASSUME ~CloseFails, SessionInv, NEW c \in Client, LifecycleStep(c)
  PROVE  SessionInv'
<1> USE DEF SessionInv
<1>1. SessionTypeOK'
  BY LifecycleTypes
<1>2. ASSUME NEW fl \in Modes, Open(c, fl)
      PROVE  SessionInv'
  <2>1. Quiet /\ OpeningIsClosed'
    BY <1>2 DEF Open, Quiet, kmdVars, Holds, OpeningIsClosed, SessionTypeOK
  <2> QED BY <1>1, <2>1, QuietKeeps DEF SessionTypeOK
<1>3. ASSUME Reopen(c)
      PROVE  SessionInv'
  <2>1. PICK r \in Codes : tt_close(c, r)
    BY <1>3 DEF Reopen
  <2>2. flags' = flags
    BY <1>3 DEF Reopen
  <2>3. /\ fd' = [fd EXCEPT ![c] = NoFd]
        /\ DescriptorsOwned' /\ SlotsDistinct' /\ FlagsRecorded' /\ Arbitrated'
    BY <2>1, <2>2, CloseKeeps DEF tt_close
  <2>4. OpeningIsClosed'
    BY <1>3, <2>3 DEF Reopen, OpeningIsClosed, SessionTypeOK
  <2> QED BY <1>1, <2>3, <2>4
<1>4. ASSUME OpenOk(c)
      PROVE  SessionInv'
  <2>1. PICK d \in Fd : /\ OpenGrants(Home[c], req[c], d)
                        /\ fd' = [fd EXCEPT ![c] = d]
    BY <1>4 DEF OpenOk
  <2>2. DescriptorsOwned' /\ SlotsDistinct' /\ FlagsRecorded' /\ Arbitrated'
    BY <1>4, <2>1, OpenKeeps DEF OpenOk
  <2>3. OpeningIsClosed'
    BY <1>4, <2>1 DEF OpenOk, OpeningIsClosed, SessionTypeOK
  <2> QED BY <1>1, <2>2, <2>3
<1>5. ASSUME OpenFail(c)
      PROVE  SessionInv'
  <2>1. Quiet /\ OpeningIsClosed'
    BY <1>5 DEF OpenFail, Quiet, kmdVars, Holds, OpeningIsClosed, SessionTypeOK
  <2> QED BY <1>1, <2>1, QuietKeeps DEF SessionTypeOK
<1>6. ASSUME Close(c)
      PROVE  SessionInv'
  <2>1. PICK r \in Codes : tt_close(c, r)
    BY <1>6 DEF Close
  <2>2. flags' = flags /\ pc' = pc
    BY <1>6 DEF Close
  <2>3. /\ fd' = [fd EXCEPT ![c] = NoFd]
        /\ DescriptorsOwned' /\ SlotsDistinct' /\ FlagsRecorded' /\ Arbitrated'
    BY <2>1, <2>2, CloseKeeps DEF tt_close
  <2>4. OpeningIsClosed'
    BY <2>2, <2>3 DEF OpeningIsClosed, SessionTypeOK
  <2> QED BY <1>1, <2>3, <2>4
<1> QED BY <1>2, <1>3, <1>4, <1>5, <1>6 DEF LifecycleStep

\* A call that leaves the session as it is and reports a result.
LEMMA ReportsKeeps ==
  ASSUME SessionInv, UNCHANGED <<kmdVars, fd, flags, req, pc>>,
         op' \in [Client -> Ops], ret' \in [Client -> Codes]
  PROVE  SessionInv' /\ \A c \in Client : FileOf(c)' = FileOf(c)
  <1>1. SessionTypeOK'
    BY DEF SessionInv, SessionTypeOK, KmdTypeOK, kmdVars
  <1>2. Quiet /\ OpeningIsClosed'
    BY DEF Quiet, kmdVars, Holds, OpeningIsClosed, SessionInv
  <1>3. \A c \in Client : FileOf(c)' = FileOf(c)
    BY DEF FileOf, kmdVars
  <1> QED
    BY <1>1, <1>2, <1>3, QuietKeeps DEF SessionInv, SessionTypeOK

\* A step that leaves the session layer alone but for what it reports, and at most
\* changes the mappings.
Mapped(maps) ==
  /\ maps \in [Addr -> File \cup {NoFile}]
  /\ Retain(fdtab, maps)

Reported(c) ==
  /\ UNCHANGED <<fd, flags, req, pc>>
  /\ op' \in [Client -> Ops] /\ ret' \in [Client -> Codes]

LEMMA MappedKeeps ==
  ASSUME SessionInv, NEW c \in Client, Reported(c), NEW maps, Mapped(maps)
  PROVE  SessionInv'
  <1>1. KmdTypeOK' /\ fdtab \in [Fd -> File \cup {NoFile}]
    BY RetainTypes DEF Mapped, SessionInv, SessionTypeOK, KmdTypeOK
  <1>2. /\ fdtab' = fdtab /\ SlotsDistinct' /\ Arbitrated'
        /\ \A s \in Fd : fdtab[s] # NoFile => (excl'[fdtab[s]] <=> excl[fdtab[s]])
    BY <1>1, RetainTables DEF Mapped, SessionInv, SessionTypeOK
  <1>3. SessionTypeOK'
    BY <1>1 DEF Reported, SessionInv, SessionTypeOK
  <1>4. DescriptorsOwned' /\ OpeningIsClosed'
    BY <1>2 DEF Reported, SessionInv, DescriptorsOwned, FileOf, OpeningIsClosed
  <1>5. FlagsRecorded'
    BY <1>2 DEF Reported, SessionInv, SessionTypeOK, DescriptorsOwned, FileOf, FlagsRecorded
  <1> QED
    BY <1>2, <1>3, <1>4, <1>5 DEF SessionInv

LEMMA ReportedKeeps ==
  ASSUME SessionInv, NEW c \in Client, Reported(c), UNCHANGED kmdVars
  PROVE  SessionInv'
  BY ReportsKeeps DEF Reported

\* The environment leaves the sessions alone.
LEMMA EnvKeeps ==
  ASSUME SessionInv, SessionEnv
  PROVE  /\ SessionInv'
         /\ \A c \in Client : FileOf(c)' = FileOf(c)
         /\ \A f \in File : st'[f] = "free" <=> st[f] = "free"
         /\ \A f \in File : st'[f] = "live" => st[f] = "live"
  <1>1. SessionTypeOK'
    BY EnvTypes DEF SessionEnv, SessionInv, SessionTypeOK, sessVars
  <1>2. Quiet /\ OpeningIsClosed'
    BY DEF SessionEnv, OobReset, Sever, Remove, Reprobe, Quiet, Holds,
           OpeningIsClosed, sessVars, SessionInv, SessionTypeOK, KmdTypeOK
  <1>3. \A c \in Client : FileOf(c)' = FileOf(c)
    BY <1>2 DEF FileOf, Quiet
  <1>4. \A f \in File : /\ st'[f] = "free" <=> st[f] = "free"
                        /\ st'[f] = "live" => st[f] = "live"
    BY DEF SessionEnv, OobReset, Sever, Remove, Reprobe, SessionInv, SessionTypeOK, KmdTypeOK
  <1> QED
    BY <1>1, <1>2, <1>3, <1>4, QuietKeeps DEF SessionInv, SessionTypeOK

LEMMA SessionInvInit ==
  ASSUME SessionInit
  PROVE  SessionInv
<1>1. SessionTypeOK
  BY DEF SessionInit, KmdInit, SessionTypeOK, KmdTypeOK, Status, Ops, Codes
<1>2. /\ DescriptorsOwned /\ OpeningIsClosed /\ SlotsDistinct
      /\ FlagsRecorded /\ Arbitrated
  BY DEF SessionInit, KmdInit, DescriptorsOwned, FileOf, OpeningIsClosed,
         SlotsDistinct, FlagsRecorded, Arbitrated, Holds
<1> QED BY <1>1, <1>2 DEF SessionInv

LEMMA SessionInvInductive ==
  ASSUME ~CloseFails
  PROVE  SessionSpec => []SessionInv
<1>1. SessionInit => SessionInv
  BY SessionInvInit
<1>2. SessionInv /\ [SessionNext]_sessionVars => SessionInv'
  <2> SUFFICES ASSUME SessionInv, [SessionNext]_sessionVars
               PROVE  SessionInv'
    OBVIOUS
  <2> USE DEF SessionInv
  <2>1. ASSUME NEW c \in Client, LifecycleStep(c)
        PROVE  SessionInv'
    BY <2>1, LifecycleKeeps
  <2>2. ASSUME NEW c \in Client, DevInfo(c)
        PROVE  SessionInv'
    <3>1. SessionTypeOK'
      <4>1. SessionIo(c) \in Codes
        BY CodesOfIo DEF SessionIo, SessionTypeOK, Codes
      <4>2. KmdTypeOK'
        BY <2>2 DEF DevInfo, SessionTypeOK, KmdTypeOK, kmdVars
      <4> QED BY <2>2, <4>1, <4>2 DEF DevInfo, Return, SessionTypeOK, Ops
    <3>2. Quiet /\ OpeningIsClosed'
      BY <2>2 DEF DevInfo, Quiet, kmdVars, Holds, OpeningIsClosed
    <3> QED BY <3>1, <3>2, QuietKeeps DEF SessionTypeOK
  <2>3. ASSUME NEW p \in Proc, ProcessExit(p)
        PROVE  SessionInv'
    <3>1. SessionTypeOK'
      BY <2>3, ProcessExitTypes
    <3>2. OpeningIsClosed'
      BY <2>3 DEF ProcessExit, OpeningIsClosed
    <3> QED BY <2>3, <3>1, <3>2, ExitKeeps
  <2>4. CASE SessionEnv
    <3>1. SessionTypeOK'
      BY <2>4, EnvTypes DEF SessionEnv, SessionTypeOK, sessVars
    <3>2. Quiet /\ OpeningIsClosed'
      BY <2>4 DEF SessionEnv, OobReset, Sever, Remove, Reprobe, Quiet, Holds,
                  OpeningIsClosed, sessVars, SessionTypeOK, KmdTypeOK
    <3> QED BY <3>1, <3>2, QuietKeeps DEF SessionTypeOK
  <2>5. CASE UNCHANGED sessionVars
    <3>1. SessionTypeOK'
      BY <2>5 DEF sessionVars, sessVars, kmdVars, SessionTypeOK, KmdTypeOK
    <3>2. Quiet /\ OpeningIsClosed'
      BY <2>5 DEF sessionVars, sessVars, kmdVars, Quiet, Holds, OpeningIsClosed
    <3> QED BY <3>1, <3>2, QuietKeeps DEF SessionTypeOK
  <2> QED BY <2>1, <2>2, <2>3, <2>4, <2>5 DEF SessionNext
<1> QED BY <1>1, <1>2, PTL DEF SessionSpec

\* No sequence of opens, closes, reopens, resets, removals and exits leaves two
\* sessions on one descriptor, one on a freed one, or a descriptor leaked.
THEOREM SessionDescriptorsOwned ==
  ASSUME ~CloseFails
  PROVE  SessionSpec => []DescriptorsOwned
<1>1. SessionInv => DescriptorsOwned
  BY DEF SessionInv
<1> QED BY <1>1, SessionInvInductive, PTL

\* An exclusive session never shares its device instance with another session.
THEOREM SessionExclusive ==
  ASSUME ~CloseFails
  PROVE  SessionSpec => []ExclusiveSession
<1>1. SessionInv => ExclusiveSession
  <2> SUFFICES ASSUME SessionInv, NEW c \in Client, NEW d \in Client, c # d,
                      FileOf(c) # NoFile, FileOf(d) # NoFile,
                      Holds(FileOf(c)), Holds(FileOf(d)), "EXCL" \in flags[c]
               PROVE  FALSE
    BY DEF ExclusiveSession
  <2>1. /\ fd[c] \in Fd /\ fd[d] \in Fd /\ fd[c] # fd[d]
        /\ FileOf(c) = fdtab[fd[c]] /\ FileOf(d) = fdtab[fd[d]]
    BY DEF FileOf, SessionInv, SessionTypeOK, DescriptorsOwned
  <2>2. FileOf(c) \in File /\ FileOf(d) \in File /\ FileOf(c) # FileOf(d)
    BY <2>1 DEF SessionInv, SlotsDistinct, SessionTypeOK, KmdTypeOK
  <2>3. excl[FileOf(c)]
    BY <2>1, SessionAssumption DEF SessionInv, FlagsRecorded
  <2> QED BY <2>2, <2>3 DEF SessionInv, Arbitrated
<1> QED BY <1>1, SessionInvInductive, PTL

------------------------------------------------------------------------------
(* What a failed reopen means.  Nothing is assumed of close(2) here.        *)

\* A slot in use is the descriptor of a session of its process that is not at
\* open(2).
SlotsHeld ==
  \A s \in Fd : fdtab[s] # NoFile =>
    \E c \in Client : pc[c] = "idle" /\ fd[c] = s /\ ProcOf[s] = Home[c]

VerdictInv == SessionTypeOK /\ SlotsHeld

\* Each process has as many slots as clients.
EnoughSlots ==
  \A p \in Proc :
    LET clients == {c \in Client : Home[c] = p}
        slots == {s \in Fd : ProcOf[s] = p}
    IN  /\ IsFiniteSet(clients) /\ IsFiniteSet(slots)
        /\ Cardinality(clients) <= Cardinality(slots)

\* A step of client c: a slot in use after it was in use before, with a description
\* that fares no worse, or is the client's new descriptor.
SlotStep(c) ==
  /\ \A d \in Client \ {c} : fd'[d] = fd[d] /\ pc'[d] = pc[d]
  /\ \A s \in Fd : fdtab'[s] # NoFile =>
       \/ /\ fdtab'[s] = fdtab[s]
          /\ st'[fdtab[s]] \in {st[fdtab[s]], "live"}
          /\ pc[c] = "idle" /\ fd[c] = s => pc'[c] = "idle" /\ fd'[c] = s
       \/ /\ pc'[c] = "idle" /\ fd'[c] = s /\ ProcOf[s] = Home[c]
          /\ st'[fdtab'[s]] = "live"

LEMMA SlotStepKeeps ==
  ASSUME SlotsHeld, NEW c \in Client, SlotStep(c)
  PROVE  SlotsHeld' /\ \A s \in Fd : Io(s)' = "ENODEV" => Io(s) = "ENODEV"
<1>1. SlotsHeld'
  <2> SUFFICES ASSUME NEW s \in Fd, fdtab'[s] # NoFile
               PROVE  \E d \in Client : pc'[d] = "idle" /\ fd'[d] = s /\ ProcOf[s] = Home[d]
    BY DEF SlotsHeld
  <2> QED BY DEF SlotsHeld, SlotStep
<1>2. ASSUME NEW s \in Fd, Io(s)' = "ENODEV"
      PROVE  Io(s) = "ENODEV"
  BY <1>2 DEF Io, SlotStep
<1> QED BY <1>1, <1>2

\* A step that leaves the slots and the descriptors alone.
LEMMA StillSlots ==
  ASSUME NEW c \in Client, UNCHANGED <<fdtab, st, fd, pc>>
  PROVE  SlotStep(c)
BY DEF SlotStep

LEMMA MappedSlots ==
  ASSUME KmdTypeOK, NEW c \in Client, NEW maps, Retain(fdtab, maps), UNCHANGED <<fd, pc>>
  PROVE  SlotStep(c)
<1> DEFINE InUse(f) == (\E d \in Fd : fdtab[d] = f) \/ (\E a \in Addr : maps[a] = f)
<1>1. fdtab' = fdtab /\ st' = [f \in File |-> IF InUse(f) THEN st[f] ELSE "free"]
  BY DEF Retain
<1>2. ASSUME NEW s \in Fd, fdtab[s] # NoFile
      PROVE  st'[fdtab[s]] = st[fdtab[s]]
  <2>1. fdtab[s] \in File /\ InUse(fdtab[s])
    BY <1>2 DEF KmdTypeOK
  <2> HIDE DEF InUse
  <2> QED BY <1>1, <2>1
<1> QED BY <1>1, <1>2 DEF SlotStep

\* The close inside tt_close: the slot it frees is the client's own.
LEMMA CloseSlots ==
  ASSUME SessionTypeOK, NEW c \in Client, NEW r, CloseCall(c, r)
  PROVE  \A s \in Fd : fdtab'[s] # NoFile => /\ fdtab'[s] = fdtab[s] /\ fd[c] # s
                                             /\ st'[fdtab[s]] = st[fdtab[s]]
<1>1. CASE UNCHANGED kmdVars /\ (fd[c] = NoFd \/ fdtab[fd[c]] = NoFile)
  BY <1>1, SessionAssumption DEF kmdVars
<1>2. CASE fd[c] # NoFd /\ Release(fd[c])
  <2> DEFINE fds == [fdtab EXCEPT ![fd[c]] = NoFile]
             InUse(f) == (\E d \in Fd : fds[d] = f) \/ (\E a \in Addr : vma[a] = f)
  <2>1. fdtab' = fds /\ st' = [f \in File |-> IF InUse(f) THEN st[f] ELSE "free"]
    BY <1>2 DEF Release, Retain
  <2> SUFFICES ASSUME NEW s \in Fd, fds[s] # NoFile
               PROVE  /\ fds[s] = fdtab[s] /\ fd[c] # s
                      /\ st'[fdtab[s]] = st[fdtab[s]]
    BY <2>1
  <2>2. fds[s] = fdtab[s] /\ fd[c] # s /\ fdtab[s] \in File
    BY DEF SessionTypeOK, KmdTypeOK
  <2>3. InUse(fdtab[s])
    BY <2>2
  <2> HIDE DEF InUse, fds
  <2> QED BY <2>1, <2>2, <2>3
<1> QED BY <1>1, <1>2 DEF CloseCall

LEMMA OpenSlots ==
  ASSUME SessionTypeOK, NEW c \in Client, NEW fl, Open(c, fl)
  PROVE  SlotStep(c)
BY SessionAssumption DEF SessionTypeOK, Open, kmdVars, SlotStep

LEMMA LifecycleSlots ==
  ASSUME SessionTypeOK, NEW c \in Client, LifecycleStep(c)
  PROVE  SlotStep(c)
<1>1. ASSUME NEW r, tt_close(c, r), UNCHANGED pc \/ \E x : pc' = [pc EXCEPT ![c] = x]
      PROVE  SlotStep(c)
  <2>1. \A s \in Fd : fdtab'[s] # NoFile => /\ fdtab'[s] = fdtab[s] /\ fd[c] # s
                                            /\ st'[fdtab[s]] = st[fdtab[s]]
    BY <1>1, CloseSlots DEF tt_close
  <2>2. \A d \in Client \ {c} : fd'[d] = fd[d] /\ pc'[d] = pc[d]
    BY <1>1 DEF tt_close, SessionTypeOK
  <2> QED BY <2>1, <2>2 DEF SlotStep
<1>2. ASSUME OpenOk(c)
      PROVE  SlotStep(c)
  <2>1. PICK d \in Fd : OpenGrants(Home[c], req[c], d) /\ fd' = [fd EXCEPT ![c] = d]
    BY <1>2 DEF OpenOk
  <2>2. PICK f \in File : /\ st' = [st EXCEPT ![f] = "live"]
                          /\ fdtab' = [fdtab EXCEPT ![d] = f]
    BY <2>1 DEF OpenGrants, Grant
  <2>3. ProcOf[d] = Home[c]
    BY <2>1 DEF OpenGrants, FreeFds
  <2>4. pc[c] = "opening" /\ pc' = [pc EXCEPT ![c] = "idle"]
    BY <1>2 DEF OpenOk
  <2> QED BY <2>1, <2>2, <2>3, <2>4 DEF SlotStep, SessionTypeOK, KmdTypeOK
<1>3. ASSUME OpenFail(c)
      PROVE  SlotStep(c)
  BY <1>3 DEF OpenFail, SessionTypeOK, kmdVars, SlotStep
<1> QED BY <1>1, <1>2, <1>3, OpenSlots DEF LifecycleStep, Reopen, Close

\* A client at open(2) has no slot in use, so one of its process is free.
LEMMA SlotToOpen ==
  ASSUME EnoughSlots, SlotsHeld, NEW c \in Client, pc[c] = "opening"
  PROVE  FreeFds(Home[c]) # {}
<1> DEFINE p == Home[c]
           clients == {d \in Client : Home[d] = p}
           others == clients \ {c}
           slots == {s \in Fd : ProcOf[s] = p}
<1>1. p \in Proc
  BY SessionAssumption
<1>2. IsFiniteSet(clients) /\ IsFiniteSet(slots) /\ Cardinality(clients) <= Cardinality(slots)
  BY <1>1 DEF EnoughSlots
<1>3. /\ IsFiniteSet(others) /\ Cardinality(others) = Cardinality(clients) - 1
  BY <1>2, FS_RemoveElement
<1>4. Cardinality(others) < Cardinality(slots)
  BY <1>2, <1>3, FS_CardinalityType
<1> SUFFICES ASSUME \A s \in slots : fdtab[s] # NoFile
             PROVE  FALSE
  BY DEF FreeFds
<1> DEFINE holderOf == [s \in slots |-> CHOOSE d \in Client : /\ pc[d] = "idle" /\ fd[d] = s
                                                               /\ ProcOf[s] = Home[d]]
<1>5. ASSUME NEW s \in slots
      PROVE  holderOf[s] \in others /\ fd[holderOf[s]] = s
  BY DEF SlotsHeld
<1>6. holderOf \in [slots -> others]
  BY <1>5
<1>7. PICK s \in slots, t \in slots : s # t /\ holderOf[s] = holderOf[t]
  <2> HIDE DEF holderOf, slots, others
  <2> QED BY <1>2, <1>3, <1>4, <1>6, FS_PigeonHole
<1> QED BY <1>5, <1>7

\* Without signals, an open(2) that is reported as ENODEV found no device.
LEMMA NoDeviceIsGone ==
  ASSUME ~Signals, EnoughSlots, SessionTypeOK, SlotsHeld, NEW c \in Client,
         OpenFail(c), ret'[c] = "ENODEV"
  PROVE  ~present
<1>1. PICK e \in OpenFailures(Home[c], req[c]) : Return(c, op[c], OpenErrno(e))
  BY DEF OpenFail
<1>2. ret'[c] = OpenErrno(e)
  BY <1>1 DEF Return, SessionTypeOK
<1>3. e # "EAGAIN" /\ e # "EINTR" /\ e # "EMFILE"
  BY <1>2, SlotToOpen DEF OpenFail, OpenErrno, OpenFailures
<1> QED BY <1>3 DEF OpenFailures

LEMMA VerdictInvInductive == SessionSpec => []VerdictInv
<1>1. SessionInit => SlotsHeld
  BY DEF SessionInit, KmdInit, SlotsHeld
<1>2. SessionTypeOK /\ SlotsHeld /\ [SessionNext]_sessionVars => SlotsHeld'
  <2> SUFFICES ASSUME SessionTypeOK, SlotsHeld, [SessionNext]_sessionVars
               PROVE  SlotsHeld'
    OBVIOUS
  <2>1. ASSUME NEW c \in Client, LifecycleStep(c)
        PROVE  SlotsHeld'
    BY <2>1, LifecycleSlots, SlotStepKeeps
  <2>2. CASE \E c \in Client : DevInfo(c)
    BY <2>2 DEF DevInfo, kmdVars, SlotsHeld
  <2>3. ASSUME NEW p \in Proc, ProcessExit(p)
        PROVE  SlotsHeld'
    <3>1. /\ fdtab' = [d \in Fd |-> IF ProcOf[d] = p THEN NoFile ELSE fdtab[d]]
          /\ \A c \in Client : Home[c] # p => fd'[c] = fd[c] /\ pc'[c] = pc[c]
      BY <2>3 DEF ProcessExit, Exit, Retain
    <3> QED BY <3>1 DEF SlotsHeld
  <2>4. CASE SessionEnv \/ UNCHANGED sessionVars
    BY <2>4 DEF SessionEnv, OobReset, Remove, Reprobe, sessionVars, sessVars, kmdVars, SlotsHeld
  <2> QED BY <2>1, <2>2, <2>3, <2>4 DEF SessionNext
<1> QED BY <1>1, <1>2, SessionTypeCorrect, PTL DEF SessionSpec, VerdictInv

\* Where no signal interrupts open(2) and no process runs out of slots, both of
\* which tt_open reports as ENODEV too, a reopen that reports ENODEV found no
\* device, whether or not close(2) fails.
THEOREM SessionReopenVerdict ==
  ASSUME ~Signals, EnoughSlots
  PROVE  SessionSpec => ReopenVerdict
<1> DEFINE A == \A c \in Client :
                  /\ op[c] = "tt_reopen" /\ pc[c] = "opening" /\ pc'[c] = "idle"
                  /\ op'[c] = "tt_reopen" /\ ret'[c] = "ENODEV"
                  => ~present
<1>1. VerdictInv /\ [SessionNext]_sessionVars => [A]_sessionVars
  <2> SUFFICES ASSUME VerdictInv, SessionNext, NEW c \in Client,
                      op[c] = "tt_reopen", pc[c] = "opening", pc'[c] = "idle",
                      op'[c] = "tt_reopen", ret'[c] = "ENODEV"
               PROVE  ~present
    OBVIOUS
  <2> USE DEF VerdictInv, SessionTypeOK, Return
  <2>1. ASSUME NEW d \in Client \ {c}, LifecycleStep(d)
        PROVE  pc'[c] = pc[c]
    <3>1. SlotStep(d)
      BY <2>1, LifecycleSlots
    <3> QED BY <3>1 DEF SlotStep
  <2>2. CASE LifecycleStep(c)
    <3>1. OpenOk(c) \/ OpenFail(c)
      BY <2>2 DEF LifecycleStep, Open, Reopen, Close
    <3>2. ~OpenOk(c)
      BY DEF OpenOk
    <3> QED BY <3>1, <3>2, NoDeviceIsGone
  <2>3. ~(\E d \in Client : DevInfo(d)) /\ ~SessionEnv
    BY DEF DevInfo, SessionEnv, sessVars
  <2>4. ASSUME NEW p \in Proc, ProcessExit(p)
        PROVE  FALSE
    <3>1. op'[c] = IF Home[c] = p THEN "none" ELSE op[c]
      BY <2>4 DEF ProcessExit
    <3>2. pc'[c] = IF Home[c] = p THEN "idle" ELSE pc[c]
      BY <2>4 DEF ProcessExit
    <3> QED BY <3>1, <3>2
  <2> QED BY <2>1, <2>2, <2>3, <2>4 DEF SessionNext
<1> QED BY <1>1, VerdictInvInductive, PTL DEF SessionSpec, ReopenVerdict
================================================================================
