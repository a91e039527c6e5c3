-------------------------------- MODULE Discovery --------------------------------
(***************************************************************************)
(* Finding devices (src/src/dev/mod.c: tt_dev_scan, tt_dev_from_bdf,       *)
(* tt_dev_from_path; src/src/ver.c: tt_kmd_version) as the bindings call   *)
(* it, while devices come, go, are renumbered and reset, and other         *)
(* programs hold them exclusively.                                         *)
(*                                                                         *)
(* A caller is a thread.  A step is the code up to and including one       *)
(* system call.  The device directory is read entry by entry: an entry     *)
(* that is there all the while is read once, and one that comes or goes    *)
(* once or not at all.                                                     *)
(***************************************************************************)
EXTENDS Values

CONSTANTS
  Caller,
  Id,         \* device numbers
  FirstCap,   \* the capacity a scan starts with, 32
  WalkCap,    \* the entries tt_dev_from_bdf has room for, 64
  NoId,
  Sought      \* the texts a Python program looks for

ASSUME DiscoveryAssumption ==
  /\ FirstCap \in Nat \ {0}
  /\ WalkCap \in Nat \ {0}
  /\ NoId \notin Id
  /\ IsFiniteSet(Id)

VARIABLES
  names,     \* the devices in the directory: number -> PCI address
  dir,       \* what opendir(3) makes of the directory: "open", "missing", "refused"
  held,      \* the devices another program holds exclusively
  at,        \* where a caller is
  what,      \* the function it called
  addr,      \* the address it looks for, {} if none
  cap,       \* the capacity of its buffer
  got,       \* the entries read in this pass
  next,      \* the index of the entry to look at
  node,      \* the number of the device it opens or has open
  sess,      \* what became of its session: "none", "live", "dead"
  info,      \* the address the device reported, {} if it failed to
  errno,     \* the thread's, left by the last call that failed: before this one,
             \* by whatever did, say EIO
  code,      \* what the binding made of it: OK, or an errno
  found,     \* the devices it returned
  there,     \* the devices that were in the directory throughout the pass
  were,      \* the addresses the devices in it had during the call
  excuse     \* the devices it may miss: those that it failed to open, that were reset
             \* under it or lie beyond its buffer, all if the directory is unreadable

worldVars == <<names, dir, held>>
callVars == <<at, what, addr, cap, got, next, node, sess, info>>
resultVars == <<errno, code, found>>
ghostVars == <<there, were, excuse>>
vars == <<worldVars, callVars, resultVars, ghostVars>>

Kinds == {"none", "rs_scan", "py_scan", "rs_bdf", "py_bdf", "rs_version", "py_version"}
Errnos == {"OK", "EINVAL", "ENODEV", "EACCES", "ECONNRESET", "EIO"}
Present == DOMAIN names

DiscoveryTypeOK ==
  /\ \E D \in SUBSET Id : names \in [D -> Bus]
  /\ dir \in {"open", "missing", "refused"}
  /\ held \subseteq Present
  /\ at \in [Caller -> {"idle", "dir", "read", "failed", "scanned", "walk", "open", "query", "close"}]
  /\ what \in [Caller -> Kinds]
  /\ \A c \in Caller : IsFiniteSet(addr[c]) /\ Cardinality(addr[c]) <= 1
  /\ \A c \in Caller :
       /\ cap[c] \in Nat /\ next[c] \in 1 .. Cardinality(Id) + 1
       /\ got[c] \in Seq(Id) /\ Len(got[c]) <= Cardinality(Id)
       /\ found[c] \in Seq(Id \cup {NoId})
  /\ node \in [Caller -> Id \cup {NoId}]
  /\ sess \in [Caller -> {"none", "live", "dead"}]
  /\ info \in [Caller -> SUBSET Bus]
  /\ errno \in [Caller -> Errnos]
  /\ code \in [Caller -> Errnos]
  /\ there \in [Caller -> SUBSET Id]
  /\ were \in [Caller -> SUBSET (Id \X Bus)]
  /\ excuse \in [Caller -> SUBSET Id]

DiscoveryInit ==
  /\ names = << >>
  /\ dir = "missing"
  /\ held = {}
  /\ at = [c \in Caller |-> "idle"]
  /\ what = [c \in Caller |-> "none"]
  /\ addr = [c \in Caller |-> {}]
  /\ cap = [c \in Caller |-> 0]
  /\ got = [c \in Caller |-> << >>]
  /\ next = [c \in Caller |-> 1]
  /\ node = [c \in Caller |-> NoId]
  /\ sess = [c \in Caller |-> "none"]
  /\ info = [c \in Caller |-> {}]
  /\ errno = [c \in Caller |-> "EIO"]
  /\ code = [c \in Caller |-> "OK"]
  /\ found = [c \in Caller |-> << >>]
  /\ there = [c \in Caller |-> {}]
  /\ were = [c \in Caller |-> {}]
  /\ excuse = [c \in Caller |-> {}]

------------------------------------------------------------------------------
(* Calls and returns.                                                       *)

Pairs == {<<i, names[i]>> : i \in Present}
Goto(c, l) == at' = [at EXCEPT ![c] = l]

\* err::check in Rust, and in Python, given a C function's result and errno.
RsCheck(ret, e) == IF ret = 0 THEN "OK" ELSE e
PyCheck(ret, e) == IF ret = 0 THEN "OK" ELSE e
Check(kind, ret, e) ==
  IF kind \in {"py_scan", "py_path", "py_bdf", "py_version"} THEN PyCheck(ret, e) ELSE RsCheck(ret, e)

\* Caller c calls a function that scans into a buffer with room for so many.
Begin(c, kind, room, sought) ==
  /\ at[c] = "idle"
  /\ Goto(c, "dir")
  /\ what' = [what EXCEPT ![c] = kind]
  /\ cap' = [cap EXCEPT ![c] = room]
  /\ addr' = [addr EXCEPT ![c] = sought]
  /\ code' = [code EXCEPT ![c] = "OK"]
  /\ found' = [found EXCEPT ![c] = << >>]
  /\ were' = [were EXCEPT ![c] = Pairs]
  /\ UNCHANGED <<worldVars, got, next, node, sess, info, errno, there, excuse>>

\* The C function returns ret, with errno e by now, and the binding devices.
Finish(c, ret, e, devs) ==
  /\ Goto(c, "idle")
  /\ what' = [what EXCEPT ![c] = "none"]
  /\ cap' = [cap EXCEPT ![c] = 0]
  /\ addr' = [addr EXCEPT ![c] = {}]
  /\ got' = [got EXCEPT ![c] = << >>]
  /\ next' = [next EXCEPT ![c] = 1]
  /\ node' = [node EXCEPT ![c] = NoId]
  /\ info' = [info EXCEPT ![c] = {}]
  /\ errno' = [errno EXCEPT ![c] = "EIO"]
  /\ code' = [code EXCEPT ![c] = Check(what[c], ret, e)]
  /\ found' = [found EXCEPT ![c] = IF code'[c] = "OK" THEN devs ELSE << >>]
  /\ there' = [there EXCEPT ![c] = {}]
  /\ were' = [were EXCEPT ![c] = {}]
  /\ excuse' = [excuse EXCEPT ![c] = {}]

\* A call that opens nothing and reads no directory ends at once.
AtOnce(c, kind, ret, e, devs) ==
  /\ at[c] = "idle"
  /\ code' = [code EXCEPT ![c] = Check(kind, ret, IF ret = 0 THEN errno[c] ELSE e)]
  /\ found' = [found EXCEPT ![c] = devs]
  /\ UNCHANGED <<worldVars, callVars, errno, ghostVars>>

------------------------------------------------------------------------------
(* tt_dev_scan.                                                             *)

Opendir(c) ==
  /\ at[c] = "dir"
  /\ got' = [got EXCEPT ![c] = << >>]
  /\ there' = [there EXCEPT ![c] = Present]
  /\ \/ dir = "open" /\ Goto(c, "read") /\ UNCHANGED <<errno, excuse>>
     \/ dir = "missing" /\ Goto(c, "scanned") /\ UNCHANGED <<errno, excuse>>
     \/ /\ dir = "refused"
        /\ Goto(c, "failed")
        /\ errno' = [errno EXCEPT ![c] = "EACCES"]
        /\ excuse' = [excuse EXCEPT ![c] = Id]
  /\ UNCHANGED <<worldVars, what, addr, cap, next, node, sess, info, code, found, were>>

\* readdir(3): the next entry, in whatever order, ...
ReadEntry(c) ==
  /\ at[c] = "read"
  /\ \E i \in Present :
       /\ \A k \in DOMAIN got[c] : got[c][k] # i
       /\ got' = [got EXCEPT ![c] = Append(@, i)]
  /\ UNCHANGED <<worldVars, at, what, addr, cap, next, node, sess, info, resultVars, ghostVars>>

\* ... or the end of the directory.
ReadEnd(c) ==
  /\ at[c] = "read"
  /\ \A i \in there[c] : \E k \in DOMAIN got[c] : got[c][k] = i
  /\ Goto(c, "scanned")
  /\ UNCHANGED <<worldVars, what, addr, cap, got, next, node, sess, info, resultVars, ghostVars>>

------------------------------------------------------------------------------
(* Device::scan in Rust, scan in Python.                                    *)

RsScan(c) == Begin(c, "rs_scan", FirstCap, {})
PyScan(c) == Begin(c, "py_scan", FirstCap, {})

\* Room for more is made and the directory read again.
Grow(c, room) ==
  /\ cap' = [cap EXCEPT ![c] = room]
  /\ Goto(c, "dir")
  /\ UNCHANGED <<what, addr, got, next, node, info, resultVars, ghostVars>>

\* Mutants: the room made is what there was; a scan that did not fit is returned
\* as it is.
RsScannedSame(c) ==
  /\ at[c] \in {"failed", "scanned"} /\ what[c] = "rs_scan"
  /\ IF at[c] = "failed" THEN Finish(c, -1, errno[c], << >>)
     ELSE IF Len(got[c]) <= cap[c] THEN Finish(c, 0, errno[c], got[c])
     ELSE Grow(c, cap[c])
  /\ UNCHANGED <<worldVars, sess>>
PyScannedShort(c) ==
  /\ at[c] \in {"failed", "scanned"} /\ what[c] = "py_scan"
  /\ IF at[c] = "failed" THEN Finish(c, -1, errno[c], << >>)
     ELSE Finish(c, 0, errno[c],
                 [i \in DOMAIN got[c] |-> IF i <= cap[c] THEN got[c][i] ELSE NoId])
  /\ UNCHANGED <<worldVars, sess>>

\* A pass is over: room is made for twice a count that exceeds the capacity.
RsScanned(c) ==
  /\ at[c] \in {"failed", "scanned"} /\ what[c] = "rs_scan"
  /\ IF at[c] = "failed" THEN Finish(c, -1, errno[c], << >>)
     ELSE IF Len(got[c]) <= cap[c] THEN Finish(c, 0, errno[c], got[c])
     ELSE Grow(c, 2 * Len(got[c]))
  /\ UNCHANGED <<worldVars, sess>>

PyScanned(c) ==
  /\ at[c] \in {"failed", "scanned"} /\ what[c] = "py_scan"
  /\ IF at[c] = "failed" THEN Finish(c, -1, errno[c], << >>)
     ELSE IF Len(got[c]) <= cap[c] THEN Finish(c, 0, errno[c], got[c])
     ELSE Grow(c, 2 * Len(got[c]))
  /\ UNCHANGED <<worldVars, sess>>

------------------------------------------------------------------------------
(* tt_dev_from_path.  A path is a device node, a link named for a board, a  *)
(* file elsewhere, or has a nul in it.                                      *)

Path(is, id, of) == [is |-> is, id |-> id, of |-> of]
Paths ==
  {Path("node", i, {}) : i \in Id} \cup {Path("link", NoId, {b}) : b \in Bus}
    \cup {Path("elsewhere", NoId, {}), Path("nul", NoId, {})}

\* What the path names now.
Named(path) == {i \in Present : i = path.id \/ names[i] \in path.of}

\* Its results, as [ret, errno, devices].
tt_dev_from_path(path) ==
  IF path.is = "elsewhere" THEN {[ret |-> -1, e |-> "EINVAL", devs |-> << >>]}
  ELSE IF Named(path) = {} THEN {[ret |-> -1, e |-> "ENODEV", devs |-> << >>]}
  ELSE {[ret |-> 0, e |-> "OK", devs |-> <<i>>] : i \in Named(path)}

Refused == {[ret |-> -1, e |-> "EINVAL", devs |-> << >>]}

\* TryFrom<&Path> for Device.
RsFromPath(c) ==
  \E path \in Paths :
    \E r \in IF path.is = "nul" THEN Refused ELSE tt_dev_from_path(path) :
      AtOnce(c, "rs_path", r.ret, r.e, r.devs)

\* Device.from_path.
PyFromPath(c) ==
  \E path \in Paths :
    \E r \in IF path.is = "nul" THEN Refused ELSE tt_dev_from_path(path) :
      AtOnce(c, "py_path", r.ret, r.e, r.devs)

------------------------------------------------------------------------------
(* tt_dev_from_bdf: every device that was found is opened and asked.        *)

\* TryFrom<pci::Address> for Device.
RsFromBdf(c) == \E a \in Bus : Begin(c, "rs_bdf", WalkCap, Scanned(Display(a)))

\* Device.from_bdf: of any text, even with a nul in it.
PyFromBdf(c) ==
  \/ AtOnce(c, "py_bdf", -1, "EINVAL", << >>)
  \/ \E s \in Sought :
       IF Scanned(s) = {} THEN AtOnce(c, "py_bdf", -1, "EINVAL", << >>)
       ELSE Begin(c, "py_bdf", WalkCap, Scanned(s))

Looking(c) == what[c] \in {"rs_bdf", "py_bdf"}

\* A failed scan has found nothing.
BdfScanned(c) ==
  /\ at[c] \in {"failed", "scanned"} /\ Looking(c)
  /\ Goto(c, "walk")
  /\ excuse' = [excuse EXCEPT ![c] = @ \cup {got[c][k] : k \in cap[c] + 1 .. Len(got[c])}]
  /\ UNCHANGED <<worldVars, what, addr, cap, got, next, node, sess, info, resultVars, there, were>>

\* The next entry, if there is one: what lies beyond the buffer is anything.
WalkNext(c) ==
  /\ at[c] = "walk"
  /\ \/ /\ next[c] > Len(got[c])
        /\ Finish(c, -1, "ENODEV", << >>)
     \/ /\ next[c] <= Len(got[c])
        /\ \E i \in IF next[c] <= cap[c] THEN {got[c][next[c]]} ELSE Id :
             node' = [node EXCEPT ![c] = i]
        /\ Goto(c, "open")
        /\ UNCHANGED <<what, addr, cap, got, next, info, resultVars, ghostVars>>
  /\ UNCHANGED <<worldVars, sess>>

------------------------------------------------------------------------------
(* tt_kmd_version: through the first device that is found.                  *)

\* kmd::version, and kmd.version in Python.
RsKmdVersion(c) == Begin(c, "rs_version", 1, {})
PyKmdVersion(c) == Begin(c, "py_version", 1, {})

Asking(c) == what[c] \in {"rs_version", "py_version"}

VersionScanned(c) ==
  /\ Asking(c)
  /\ \/ at[c] = "failed" /\ Finish(c, -1, errno[c], << >>)
     \/ at[c] = "scanned" /\ got[c] = << >> /\ Finish(c, -1, "ENODEV", << >>)
     \/ /\ at[c] = "scanned" /\ got[c] # << >>
        /\ node' = [node EXCEPT ![c] = got[c][1]]
        /\ Goto(c, "open")
        /\ UNCHANGED <<what, addr, cap, got, next, info, resultVars, ghostVars>>
  /\ UNCHANGED <<worldVars, sess>>

------------------------------------------------------------------------------
(* One device: tt_open, tt_dev_info or the driver's version, tt_close.      *)

\* The device is not the one: the walk goes on.
Skip(c) ==
  /\ Goto(c, "walk")
  /\ next' = [next EXCEPT ![c] = @ + 1]
  /\ node' = [node EXCEPT ![c] = NoId]
  /\ info' = [info EXCEPT ![c] = {}]
  /\ UNCHANGED <<what, addr, cap, got, code, found, there, were>>

\* Mutant: a device that cannot be opened ends the walk.
OpenFailedEnds(c, e) == Finish(c, -1, "ENODEV", << >>)

\* tt_open failed with e.
OpenFailed(c, e) ==
  IF Asking(c) THEN Finish(c, -1, e, << >>)
  ELSE /\ Skip(c)
       /\ errno' = [errno EXCEPT ![c] = e]
       /\ excuse' = [excuse EXCEPT ![c] = @ \cup {node[c]}]

\* Why open(2) can fail: the device is gone; or it is there, but the process has no
\* descriptor left, may not open the node, or was interrupted while it waited.
OpenErrnos(i) ==
  IF i \notin Present THEN {"ENOENT"}
  ELSE {"EMFILE", "EACCES"} \cup IF i \in held THEN {"EINTR"} ELSE {}

\* What tt_open makes of it.
Normalized(e) == IF e = "EAGAIN" THEN "EAGAIN" ELSE "ENODEV"

\* open(2) waits while another program holds the device.
OpenNode(c) ==
  /\ at[c] = "open"
  /\ \/ /\ node[c] \in Present \ held
        /\ sess' = [sess EXCEPT ![c] = "live"]
        /\ Goto(c, "query")
        /\ UNCHANGED <<what, addr, cap, got, next, node, info, resultVars, ghostVars>>
     \/ /\ \E e \in OpenErrnos(node[c]) : OpenFailed(c, Normalized(e))
        /\ UNCHANGED sess
  /\ UNCHANGED worldVars

QueryNode(c) ==
  /\ at[c] = "query"
  /\ info' = [info EXCEPT ![c] = IF sess[c] = "live" THEN {names[node[c]]} ELSE {}]
  /\ errno' = [errno EXCEPT ![c] = IF sess[c] = "live" THEN @ ELSE "ECONNRESET"]
  /\ Goto(c, "close")
  /\ UNCHANGED <<worldVars, what, addr, cap, got, next, node, sess, code, found, ghostVars>>

\* What is returned once the session is closed, with errno e by then.
Answered(c, e) ==
  IF Asking(c)
  THEN IF info[c] = {} THEN Finish(c, -1, "ECONNRESET", << >>) ELSE Finish(c, 0, e, << >>)
  ELSE IF info[c] = addr[c] THEN Finish(c, 0, e, <<node[c]>>)
  ELSE Skip(c) /\ errno' = [errno EXCEPT ![c] = e] /\ UNCHANGED excuse

\* Mutants: a session that failed to answer is not closed; errno is read after it
\* was closed.
CloseNodeSkips(c) ==
  /\ at[c] = "close"
  /\ sess' = [sess EXCEPT ![c] = IF info[c] = {} THEN @ ELSE "none"]
  /\ Answered(c, errno[c])
  /\ UNCHANGED worldVars
CloseNodeLate(c) ==
  /\ at[c] = "close"
  /\ sess' = [sess EXCEPT ![c] = "none"]
  /\ \E e \in {errno[c]} \cup IF sess[c] = "dead" THEN {"EIO"} ELSE {} :
       IF Asking(c) /\ info[c] = {} THEN Finish(c, -1, e, << >>) ELSE Answered(c, e)
  /\ UNCHANGED worldVars

\* close(2) of a severed session may report an error, which is discarded.
CloseNode(c) ==
  /\ at[c] = "close"
  /\ sess' = [sess EXCEPT ![c] = "none"]
  /\ \E e \in {errno[c]} \cup IF sess[c] = "dead" THEN {"EIO"} ELSE {} : Answered(c, e)
  /\ UNCHANGED worldVars

------------------------------------------------------------------------------
(* The world.                                                               *)

Users(i) == {c \in Caller : node[c] = i /\ sess[c] # "none"}
Killed(i) == sess' = [c \in Caller |-> IF c \in Users(i) THEN "dead" ELSE sess[c]]
Excused(i) == excuse' = [c \in Caller |-> IF c \in Users(i) THEN excuse[c] \cup {i} ELSE excuse[c]]

worldSame == <<at, what, addr, cap, got, next, node, info, resultVars>>

\* A device appears under a free number, or goes; a reset severs its sessions.
Arrive ==
  /\ dir # "missing"
  /\ \E i \in Id \ Present, b \in Bus \ {names[j] : j \in Present} :
       /\ names' = [j \in Present \cup {i} |-> IF j = i THEN b ELSE names[j]]
       /\ were' = [c \in Caller |-> IF at[c] = "idle" THEN {} ELSE were[c] \cup {<<i, b>>}]
  /\ UNCHANGED <<worldSame, dir, held, sess, there, excuse>>
Leave(i) ==
  /\ i \in Present
  /\ names' = [j \in Present \ {i} |-> names[j]]
  /\ held' = held \ {i}
  /\ there' = [c \in Caller |-> there[c] \ {i}]
  /\ Killed(i)
  /\ UNCHANGED <<worldSame, dir, were, excuse>>
Reset(i) ==
  /\ i \in Present
  /\ Killed(i)
  /\ Excused(i)
  /\ UNCHANGED <<worldSame, names, dir, held, there, were>>

\* Another program opens a device exclusively, and closes it.
Hold(i) == i \in Present \ held /\ Users(i) = {} /\ held' = held \cup {i}
Unhold(i) == i \in held /\ held' = held \ {i}

\* The driver is loaded and unloaded; the directory can and cannot be opened.
Change ==
  \/ dir = "missing" /\ dir' = "open"
  \/ dir = "open" /\ names = << >> /\ dir' = "missing"
  \/ dir = "open" /\ dir' = "refused"
  \/ dir = "refused" /\ dir' = "open"

World ==
  \/ Arrive
  \/ \E i \in Id :
       \/ Leave(i) \/ Reset(i)
       \/ (Hold(i) \/ Unhold(i)) /\ UNCHANGED <<worldSame, names, dir, sess, ghostVars>>
  \/ Change /\ UNCHANGED <<worldSame, names, held, sess, ghostVars>>

------------------------------------------------------------------------------

Start(c) ==
  \/ RsScan(c) \/ PyScan(c) \/ RsFromPath(c) \/ PyFromPath(c)
  \/ RsFromBdf(c) \/ PyFromBdf(c) \/ RsKmdVersion(c) \/ PyKmdVersion(c)

CallStep(c) ==
  \/ Opendir(c) \/ ReadEntry(c) \/ ReadEnd(c)
  \/ RsScanned(c) \/ PyScanned(c) \/ BdfScanned(c) \/ VersionScanned(c)
  \/ WalkNext(c) \/ OpenNode(c) \/ QueryNode(c) \/ CloseNode(c)

DiscoveryNext == (\E c \in Caller : Start(c) \/ CallStep(c)) \/ World

DiscoverySpec == DiscoveryInit /\ [][DiscoveryNext]_vars

\* A call in progress goes on; nothing is assumed of the world.
FairDiscoverySpec == DiscoverySpec /\ \A c \in Caller : WF_vars(CallStep(c))

------------------------------------------------------------------------------
(* Properties.                                                              *)

Returns(c) == at[c] # "idle" /\ at'[c] = "idle"

\* A scan returns every device that was there throughout its last pass, each once
\* and none that never was there, however many come while it makes room (mod.rs,
\* Device::scan: "even under concurrent device arrival").
ScansAreComplete ==
  [][\A c \in Caller :
       Returns(c) /\ what[c] \in {"rs_scan", "py_scan"} /\ code'[c] = "OK" =>
         LET ids == {found'[c][k] : k \in DOMAIN found'[c]}
         IN  /\ there[c] \subseteq ids
             /\ ids \subseteq {w[1] : w \in were[c]}
             /\ Cardinality(ids) = Len(found'[c])]_vars

\* The device that tt_dev_from_bdf finds had the address at some time during the
\* call, and it misses a device that kept its number all the while only on account
\* of that device itself: its own open failed (mod.c, tt_open: of a device that is
\* there also for want of a descriptor or of permission), its own session was
\* severed, it lies beyond the buffer, or the directory was unreadable.  No other
\* device that comes, goes, fails to open or to answer, and nothing that it leaves
\* in errno, makes it miss (pci::Address: "no connected device matches").
LookupsAreRight ==
  [][\A c \in Caller :
       Returns(c) /\ Looking(c) =>
         IF code'[c] = "OK" THEN \E b \in addr[c] : <<found'[c][1], b>> \in were[c]
         ELSE \A i \in there[c] \ excuse[c] : names[i] \notin addr[c]]_vars

\* A reset that hits the query for the driver's version is reported as one,
\* whatever closing the session leaves in errno (ver.c: "saved before `tt_close`
\* can clobber it").
ResetsReported ==
  [][\A c \in Caller :
       Returns(c) /\ Asking(c) /\ sess[c] = "dead" /\ info[c] = {} => code'[c] = "ECONNRESET"]_vars

\* Between calls no caller has a device open that others would be refused.
NothingStaysOpen ==
  \A c \in Caller : at[c] \notin {"query", "close"} => sess[c] = "none"

\* Discovery returns, however devices come and go, unless another program keeps
\* a device to itself (mod.rs, Device::scan: "bounds the number of iterations").
DiscoveryReturns ==
  \A c \in Caller :
    at[c] # "idle"
      ~> \/ at[c] = "idle"
         \/ what[c] \notin {"rs_scan", "py_scan"} /\ held # {}

\* tt_dev_from_bdf looks at no entry that is not in its buffer (mod.c: "A device
\* beyond the bound would be missed, reporting `ENODEV`").
BoundIsKept == \A c \in Caller : at[c] = "open" => next[c] <= cap[c]
==================================================================================
