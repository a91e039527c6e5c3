---------------------------- MODULE DiscoveryProofs ----------------------------
(***************************************************************************)
(* Theorems about Discovery, for any number of callers and devices, and    *)
(* buffers of any size; and, at the end, about the conversions of Values,  *)
(* for texts of any length, any times and windows of any size.             *)
(*                                                                         *)
(* The invariant FindInv says, at each point of a call, what it still has  *)
(* to see: a scan what it has read, a lookup that every device it may not  *)
(* miss lies ahead of it, within its buffer, and a device whose session was *)
(* severed, or that did not answer, is one it may miss.                    *)
(***************************************************************************)
EXTENDS Discovery, FiniteSetTheorems, WellFoundedInduction, TLAPS

------------------------------------------------------------------------------
(* The invariant.                                                           *)

Walking == {"walk", "open", "query", "close"}
Scanning == {"idle", "dir", "read", "failed", "scanned"}

\* Every caller has its variables, and an unloaded driver has no devices.
Tables ==
  /\ DOMAIN at = Caller /\ DOMAIN what = Caller /\ DOMAIN addr = Caller
  /\ DOMAIN cap = Caller /\ DOMAIN got = Caller /\ DOMAIN next = Caller
  /\ DOMAIN node = Caller /\ DOMAIN sess = Caller /\ DOMAIN info = Caller
  /\ DOMAIN errno = Caller /\ DOMAIN code = Caller /\ DOMAIN found = Caller
  /\ DOMAIN there = Caller /\ DOMAIN were = Caller /\ DOMAIN excuse = Caller
  /\ Present \subseteq Id /\ \A i \in Present : names[i] \in Bus
  /\ dir = "missing" => Present = {}

\* A session exists between its open and its close.
Open(c) ==
  /\ sess[c] \in {"none", "live", "dead"}
  /\ at[c] \in {"query", "close"} <=> sess[c] # "none"

Counted(c) ==
  /\ got[c] \in Seq(Id) /\ next[c] \in Nat /\ cap[c] \in Nat
  /\ at[c] \in Scanning => next[c] = 1

\* The devices that are there, and those that were throughout, are known.
Known(c) ==
  /\ there[c] \subseteq Present
  /\ at[c] # "idle" => \A i \in Present : <<i, names[i]>> \in were[c]

\* A lookup seeks one address, and only it and the version's query open devices.
SeeksOne(c) ==
  /\ at[c] # "idle" /\ Looking(c) => addr[c] # {} /\ \A x, y \in addr[c] : x = y
  /\ at[c] \in {"walk", "open", "query", "close"} => Looking(c) \/ Asking(c)

\* What has been read is distinct, and was there.
Read(c) ==
  at[c] \in {"read", "scanned"} =>
    /\ \A j, k \in DOMAIN got[c] : got[c][j] = got[c][k] => j = k
    /\ \A k \in DOMAIN got[c] : \E b \in Bus : <<got[c][k], b>> \in were[c]

\* A scan that is over has read what was there throughout, or says why not.
Scan(c) ==
  /\ at[c] = "scanned" => \A i \in there[c] : \E k \in DOMAIN got[c] : got[c][k] = i
  /\ at[c] = "failed" => excuse[c] = Id /\ errno[c] # "OK"

\* The device that a lookup may not miss lies ahead.
Ahead(c) ==
  at[c] \in Walking /\ Looking(c) =>
    /\ \A i \in there[c] \ excuse[c] :
         names[i] \in addr[c] =>
           \E k \in DOMAIN got[c] : next[c] <= k /\ k <= cap[c] /\ got[c][k] = i
    /\ at[c] # "walk" =>
         next[c] <= Len(got[c]) /\ (next[c] <= cap[c] => node[c] = got[c][next[c]])

\* A live session is with a device that is there; a dead one may miss it.
Session(c) ==
  /\ sess[c] = "live" => node[c] \in Present
  /\ sess[c] = "dead" => node[c] \notin there[c] \ excuse[c]

\* What a device reported is its address, or it may be missed.
Reported(c) ==
  at[c] = "close" =>
    /\ \A b \in info[c] : <<node[c], b>> \in were[c]
    /\ info[c] = {} => node[c] \notin there[c] \ excuse[c]
    /\ info[c] # {} /\ node[c] \in there[c] => info[c] = {names[node[c]]}

CallInv(c) ==
  /\ Open(c) /\ Counted(c) /\ Known(c) /\ SeeksOne(c)
  /\ Read(c) /\ Scan(c) /\ Ahead(c) /\ Session(c) /\ Reported(c)

FindInv == Tables /\ \A c \in Caller : CallInv(c)

------------------------------------------------------------------------------
(* What a step leaves alone.                                                *)

\* The variables of caller d do not change, but for what it returned.
Same(d) ==
  /\ at'[d] = at[d] /\ what'[d] = what[d] /\ addr'[d] = addr[d] /\ cap'[d] = cap[d]
  /\ got'[d] = got[d] /\ next'[d] = next[d] /\ node'[d] = node[d] /\ sess'[d] = sess[d]
  /\ info'[d] = info[d] /\ errno'[d] = errno[d] /\ there'[d] = there[d]
  /\ were'[d] = were[d] /\ excuse'[d] = excuse[d]

\* A caller no step concerns keeps its invariant.
LEMMA SameKeeps ==
  ASSUME NEW d \in Caller, CallInv(d), Same(d), names' = names
  PROVE  CallInv(d)'
  <1>1. Open(d)' /\ Counted(d)'
    BY DEF CallInv, Same, Open, Counted
  <1>2. Known(d)' /\ SeeksOne(d)'
    BY DEF CallInv, Same, Known, SeeksOne, Looking, Asking, Present
  <1>3. Read(d)' /\ Scan(d)'
    BY DEF CallInv, Same, Read, Scan
  <1>4. Ahead(d)'
    BY DEF CallInv, Same, Ahead, Looking
  <1>5. Session(d)' /\ Reported(d)'
    BY DEF CallInv, Same, Session, Reported, Present
  <1> QED
    BY <1>1, <1>2, <1>3, <1>4, <1>5 DEF CallInv

\* The parts a call's steps are made of change one caller's variables.
LEMMA FinishFrame ==
  ASSUME Tables, NEW c \in Caller, NEW ret, NEW e, NEW devs, Finish(c, ret, e, devs),
         UNCHANGED worldVars, DOMAIN sess' = Caller,
         \A d \in Caller \ {c} : sess'[d] = sess[d]
  PROVE  Tables' /\ names' = names /\ \A d \in Caller \ {c} : Same(d)
  BY DEF Tables, Finish, Goto, Same, worldVars, Present

LEMMA BeginFrame ==
  ASSUME Tables, NEW c \in Caller, NEW kind, NEW room, NEW sought, Begin(c, kind, room, sought)
  PROVE  Tables' /\ names' = names /\ \A d \in Caller \ {c} : Same(d)
  BY DEF Tables, Begin, Goto, Same, worldVars, Present

LEMMA AtOnceFrame ==
  ASSUME Tables, NEW c \in Caller, NEW kind, NEW ret, NEW e, NEW devs,
         AtOnce(c, kind, ret, e, devs)
  PROVE  Tables' /\ names' = names /\ \A d \in Caller : Same(d)
  BY DEF Tables, AtOnce, Same, worldVars, callVars, ghostVars, Present

LEMMA GrowFrame ==
  ASSUME Tables, NEW c \in Caller, NEW room, Grow(c, room), UNCHANGED <<worldVars, sess>>
  PROVE  Tables' /\ names' = names /\ \A d \in Caller \ {c} : Same(d)
  BY DEF Tables, Grow, Goto, Same, worldVars, resultVars, ghostVars, Present

LEMMA SkipFrame ==
  ASSUME Tables, NEW c \in Caller, Skip(c), UNCHANGED worldVars,
         DOMAIN sess' = Caller, DOMAIN errno' = Caller, DOMAIN excuse' = Caller,
         \A d \in Caller \ {c} :
           sess'[d] = sess[d] /\ errno'[d] = errno[d] /\ excuse'[d] = excuse[d]
  PROVE  Tables' /\ names' = names /\ \A d \in Caller \ {c} : Same(d)
  BY DEF Tables, Skip, Goto, Same, worldVars, Present

------------------------------------------------------------------------------
(* The parts of a call keep its caller's invariant.                         *)

\* A call that has returned has nothing left.
LEMMA FinishKeeps ==
  ASSUME Tables, NEW c \in Caller, NEW ret, NEW e, NEW devs, Finish(c, ret, e, devs),
         sess'[c] = "none"
  PROVE  CallInv(c)'
  BY DEF Tables, Finish, Goto, CallInv, Open, Counted, Known, SeeksOne, Read, Scan, Ahead,
         Session, Reported, Looking, Asking, Present, Walking

\* A call begins with what is there.
LEMMA BeginKeeps ==
  ASSUME Tables, NEW c \in Caller, CallInv(c), NEW kind, NEW room \in Nat, NEW sought,
         Begin(c, kind, room, sought),
         kind \in {"rs_bdf", "py_bdf"} => sought # {} /\ \A x, y \in sought : x = y
  PROVE  CallInv(c)'
  <1>1. /\ at[c] = "idle" /\ at'[c] = "dir" /\ what'[c] = kind /\ cap'[c] = room
        /\ addr'[c] = sought /\ were'[c] = Pairs
        /\ names' = names
        /\ got'[c] = got[c] /\ next'[c] = next[c] /\ node'[c] = node[c]
        /\ sess'[c] = sess[c] /\ info'[c] = info[c] /\ there'[c] = there[c]
    BY DEF Tables, Begin, Goto, worldVars
  <1>2. Known(c)'
    BY <1>1 DEF CallInv, Known, Pairs, Present
  <1>3. SeeksOne(c)'
    BY <1>1 DEF SeeksOne, Looking, Asking
  <1> QED
    BY <1>1, <1>2, <1>3 DEF CallInv, Open, Counted, Read, Scan, Ahead,
                            Session, Reported, Walking, Scanning

\* More room: the directory is read again.
LEMMA GrowKeeps ==
  ASSUME Tables, NEW c \in Caller, CallInv(c), NEW room \in Nat, Grow(c, room),
         at[c] = "scanned", UNCHANGED <<worldVars, sess>>
  PROVE  CallInv(c)'
  <1>1. /\ at'[c] = "dir" /\ cap'[c] = room /\ names' = names
        /\ got'[c] = got[c] /\ next'[c] = next[c] /\ node'[c] = node[c]
        /\ sess'[c] = sess[c] /\ info'[c] = info[c] /\ there'[c] = there[c]
        /\ addr'[c] = addr[c] /\ were'[c] = were[c] /\ what'[c] = what[c]
        /\ excuse'[c] = excuse[c] /\ errno'[c] = errno[c]
    BY DEF Tables, Grow, Goto, worldVars, resultVars, ghostVars
  <1> QED
    BY <1>1 DEF CallInv, Open, Counted, Known, SeeksOne, Read, Scan, Ahead,
                Session, Reported, Looking, Asking, Present, Walking, Scanning

\* A device that may be missed, or is not the one, is passed over.
LEMMA SkipKeeps ==
  ASSUME Tables, NEW c \in Caller, CallInv(c), Skip(c), UNCHANGED worldVars,
         at[c] \in {"open", "close"}, sess'[c] = "none",
         excuse[c] \subseteq excuse'[c],
         Looking(c) => node[c] \notin there[c] \ excuse'[c] \/ names[node[c]] \notin addr[c]
  PROVE  CallInv(c)'
  <1>1. /\ at'[c] = "walk" /\ next'[c] = next[c] + 1 /\ node'[c] = NoId /\ info'[c] = {}
        /\ names' = names /\ got'[c] = got[c] /\ cap'[c] = cap[c] /\ there'[c] = there[c]
        /\ addr'[c] = addr[c] /\ were'[c] = were[c] /\ what'[c] = what[c]
    BY DEF Tables, Skip, Goto, worldVars
  <1>2. Ahead(c)'
    <2> SUFFICES ASSUME Looking(c), NEW i \in there[c] \ excuse'[c], names[i] \in addr[c]
                 PROVE  \E k \in DOMAIN got[c] :
                          next[c] + 1 <= k /\ k <= cap[c] /\ got[c][k] = i
      BY <1>1 DEF Ahead, Looking
    <2>1. next[c] <= cap[c] => node[c] = got[c][next[c]]
      BY DEF CallInv, Ahead, Walking
    <2>2. PICK k \in DOMAIN got[c] : next[c] <= k /\ k <= cap[c] /\ got[c][k] = i
      BY DEF CallInv, Ahead, Walking
    <2>3. k \in Nat /\ next[c] \in Nat /\ cap[c] \in Nat
      BY DEF CallInv, Counted
    <2>4. k # next[c]
      BY <2>1, <2>2, <2>3
    <2> QED
      BY <2>2, <2>3, <2>4
  <1> QED
    BY <1>1, <1>2 DEF CallInv, Open, Counted, Known, SeeksOne, Read, Scan,
                      Session, Reported, Looking, Asking, Present, Walking, Scanning

------------------------------------------------------------------------------
(* Each step of a call keeps its caller's invariant, and leaves the others  *)
(* alone.                                                                   *)

\* What every text that is scanned means is one address.
LEMMA ScannedIsOne ==
  ASSUME NEW s, Scanned(s) # {}
  PROVE  \A x, y \in Scanned(s) : x = y
  BY DEF Scanned

\* What is displayed has a meaning.
LEMMA DisplayedIsSought ==
  ASSUME NEW a
  PROVE  Scanned(Display(a)) # {}
  <1> DEFINE s == Display(a)
             kinds == <<"hex", ":", "hex", ":", "hex", ".", "hex">>
  <1>1. Len(s) = 7 /\ Len(kinds) = 7
    BY DEF Display
  <1>2. \A i \in 1 .. 7 : s[i].is = kinds[i]
    BY DEF Display, Hex, Colon, Dot
  <1>3. Len(s) >= Len(kinds) /\ \A i \in 1 .. Len(kinds) : s[i].is = kinds[i]
    BY <1>1, <1>2
  <1> QED
    BY <1>3 DEF Scanned

\* A step of caller c, seen from the others and from itself.
Steps(c) ==
  /\ Tables'
  /\ names' = names
  /\ \A d \in Caller \ {c} : Same(d)
  /\ CallInv(c)'

\* A call that returns keeps the invariant once its session is closed.
LEMMA FinishSteps ==
  ASSUME Tables, NEW c \in Caller, NEW ret, NEW e, NEW devs, Finish(c, ret, e, devs),
         UNCHANGED worldVars,
         \/ sess' = sess /\ sess[c] = "none"
         \/ sess' = [sess EXCEPT ![c] = "none"]
  PROVE  Steps(c)
  <1>1. sess'[c] = "none" /\ DOMAIN sess' = Caller /\ \A d \in Caller \ {c} : sess'[d] = sess[d]
    BY DEF Tables
  <1>2. CallInv(c)'
    BY <1>1, FinishKeeps
  <1> QED
    BY <1>1, <1>2, FinishFrame DEF Steps

LEMMA StartSteps ==
  ASSUME Tables, NEW c \in Caller, CallInv(c), Start(c)
  PROVE  Steps(c)
  <1> USE DiscoveryAssumption
  <1>1. ASSUME NEW kind, NEW ret, NEW e, NEW devs, AtOnce(c, kind, ret, e, devs)
        PROVE  Steps(c)
    <2>1. Tables' /\ names' = names /\ \A d \in Caller : Same(d)
      BY <1>1, AtOnceFrame
    <2> QED
      BY <2>1, SameKeeps DEF Steps
  <1>2. ASSUME NEW kind, NEW room \in Nat, NEW sought, Begin(c, kind, room, sought),
               kind \in {"rs_bdf", "py_bdf"} => sought # {} /\ \A x, y \in sought : x = y
        PROVE  Steps(c)
    BY <1>2, BeginFrame, BeginKeeps DEF Steps
  <1>3. CASE RsScan(c) \/ PyScan(c) \/ RsKmdVersion(c) \/ PyKmdVersion(c)
    BY <1>2, <1>3 DEF RsScan, PyScan, RsKmdVersion, PyKmdVersion
  <1>4. CASE RsFromPath(c) \/ PyFromPath(c)
    BY <1>1, <1>4 DEF RsFromPath, PyFromPath
  <1>5. CASE RsFromBdf(c)
    <2>1. PICK a \in Bus : Begin(c, "rs_bdf", WalkCap, Scanned(Display(a)))
      BY <1>5 DEF RsFromBdf
    <2> QED
      BY <1>2, <2>1, ScannedIsOne, DisplayedIsSought
  <1>6. CASE PyFromBdf(c)
    BY <1>1, <1>2, <1>6, ScannedIsOne DEF PyFromBdf
  <1> QED
    BY <1>3, <1>4, <1>5, <1>6 DEF Start

LEMMA OpendirSteps ==
  ASSUME Tables, NEW c \in Caller, CallInv(c), Opendir(c)
  PROVE  Steps(c)
  <1>1. Tables' /\ names' = names /\ \A d \in Caller \ {c} : Same(d)
    BY DEF Tables, Opendir, Goto, Same, worldVars, Present
  <1>2. /\ at[c] = "dir" /\ got'[c] = << >> /\ there'[c] = Present
        /\ \/ at'[c] = "read"
           \/ at'[c] = "scanned" /\ Present = {}
           \/ at'[c] = "failed" /\ errno'[c] = "EACCES" /\ excuse'[c] = Id
        /\ what'[c] = what[c] /\ addr'[c] = addr[c] /\ cap'[c] = cap[c] /\ next'[c] = next[c]
        /\ node'[c] = node[c] /\ sess'[c] = sess[c] /\ info'[c] = info[c] /\ were'[c] = were[c]
    BY DEF Tables, Opendir, Goto
  <1>3. Open(c)' /\ Counted(c)'
    BY <1>2 DEF CallInv, Open, Counted, Scanning
  <1>4. Known(c)' /\ SeeksOne(c)'
    BY <1>1, <1>2 DEF CallInv, Known, SeeksOne, Looking, Asking, Present
  <1>5. Read(c)' /\ Scan(c)'
    BY <1>2 DEF CallInv, Read, Scan
  <1>6. Ahead(c)' /\ Session(c)' /\ Reported(c)'
    BY <1>2 DEF CallInv, Open, Ahead, Session, Reported, Walking
  <1> QED
    BY <1>1, <1>3, <1>4, <1>5, <1>6 DEF Steps, CallInv

LEMMA ReadEntrySteps ==
  ASSUME Tables, NEW c \in Caller, CallInv(c), ReadEntry(c)
  PROVE  Steps(c)
  <1>1. Tables' /\ names' = names /\ \A d \in Caller \ {c} : Same(d)
    BY DEF Tables, ReadEntry, Same, worldVars, resultVars, ghostVars, Present
  <1>2. PICK i \in Present :
          /\ \A k \in DOMAIN got[c] : got[c][k] # i
          /\ got'[c] = Append(got[c], i)
    BY DEF Tables, ReadEntry
  <1>3. /\ at[c] = "read" /\ at'[c] = "read"
        /\ what'[c] = what[c] /\ addr'[c] = addr[c] /\ cap'[c] = cap[c] /\ next'[c] = next[c]
        /\ node'[c] = node[c] /\ sess'[c] = sess[c] /\ info'[c] = info[c] /\ were'[c] = were[c]
        /\ there'[c] = there[c]
    BY DEF ReadEntry, ghostVars
  <1>4. got[c] \in Seq(Id) /\ i \in Id
    BY DEF Tables, CallInv, Counted
  <1>5. Open(c)' /\ Counted(c)'
    BY <1>2, <1>3, <1>4 DEF CallInv, Open, Counted, Scanning
  <1>6. Known(c)' /\ SeeksOne(c)'
    BY <1>1, <1>3 DEF CallInv, Known, SeeksOne, Looking, Asking, Present
  <1>7. Read(c)'
    <2>1. <<i, names[i]>> \in were[c] /\ names[i] \in Bus
      BY <1>3 DEF CallInv, Known, Tables
    <2>2. got[c] \in Seq(Id) /\ DOMAIN got'[c] = 1 .. Len(got[c]) + 1
      BY <1>2, <1>4
    <2>3. \A k \in DOMAIN got'[c] :
            got'[c][k] = IF k = Len(got[c]) + 1 THEN i ELSE got[c][k]
      BY <1>2, <1>4, <2>2
    <2>4. \A k \in DOMAIN got'[c] : k # Len(got[c]) + 1 => k \in DOMAIN got[c]
      BY <2>2
    <2>5. /\ \A j, k \in DOMAIN got[c] : got[c][j] = got[c][k] => j = k
          /\ \A k \in DOMAIN got[c] : \E b \in Bus : <<got[c][k], b>> \in were[c]
      BY <1>3 DEF CallInv, Read
    <2>6. \A j, k \in DOMAIN got'[c] : got'[c][j] = got'[c][k] => j = k
      BY <1>2, <2>3, <2>4, <2>5
    <2>7. \A k \in DOMAIN got'[c] : \E b \in Bus : <<got'[c][k], b>> \in were'[c]
      BY <1>3, <2>1, <2>3, <2>4, <2>5
    <2> QED
      BY <2>6, <2>7 DEF Read
  <1>8. Scan(c)' /\ Ahead(c)' /\ Session(c)' /\ Reported(c)'
    BY <1>3 DEF CallInv, Open, Scan, Ahead, Session, Reported, Walking
  <1> QED
    BY <1>1, <1>5, <1>6, <1>7, <1>8 DEF Steps, CallInv

LEMMA ReadEndSteps ==
  ASSUME Tables, NEW c \in Caller, CallInv(c), ReadEnd(c)
  PROVE  Steps(c)
  <1>1. Tables' /\ names' = names /\ \A d \in Caller \ {c} : Same(d)
    BY DEF Tables, ReadEnd, Goto, Same, worldVars, resultVars, ghostVars, Present
  <1>2. /\ at[c] = "read" /\ at'[c] = "scanned"
        /\ what'[c] = what[c] /\ addr'[c] = addr[c] /\ cap'[c] = cap[c] /\ next'[c] = next[c]
        /\ node'[c] = node[c] /\ sess'[c] = sess[c] /\ info'[c] = info[c] /\ were'[c] = were[c]
        /\ there'[c] = there[c] /\ got'[c] = got[c] /\ excuse'[c] = excuse[c]
        /\ \A i \in there[c] : \E k \in DOMAIN got[c] : got[c][k] = i
    BY DEF Tables, ReadEnd, Goto, ghostVars
  <1>3. Open(c)' /\ Counted(c)' /\ Read(c)' /\ Scan(c)'
    BY <1>2 DEF CallInv, Open, Counted, Read, Scan, Scanning
  <1>4. Known(c)' /\ SeeksOne(c)'
    BY <1>1, <1>2 DEF CallInv, Known, SeeksOne, Looking, Asking, Present
  <1>5. Ahead(c)' /\ Session(c)' /\ Reported(c)'
    BY <1>2 DEF CallInv, Open, Ahead, Session, Reported, Walking
  <1> QED
    BY <1>1, <1>3, <1>4, <1>5 DEF Steps, CallInv

LEMMA ScannedSteps ==
  ASSUME Tables, NEW c \in Caller, CallInv(c), RsScanned(c) \/ PyScanned(c)
  PROVE  Steps(c)
  <1>1. UNCHANGED <<worldVars, sess>> /\ sess[c] = "none"
    BY DEF RsScanned, PyScanned, CallInv, Open
  <1>2. ASSUME NEW ret, NEW e, NEW devs, Finish(c, ret, e, devs)
        PROVE  Steps(c)
    BY <1>1, <1>2, FinishSteps
  <1>3. ASSUME Grow(c, 2 * Len(got[c])), at[c] = "scanned"
        PROVE  Steps(c)
    <2>1. 2 * Len(got[c]) \in Nat
      BY DEF CallInv, Counted
    <2> QED
      BY <1>1, <1>3, <2>1, GrowKeeps, GrowFrame DEF Steps
  <1> QED
    BY <1>2, <1>3 DEF RsScanned, PyScanned

LEMMA BdfScannedSteps ==
  ASSUME Tables, NEW c \in Caller, CallInv(c), BdfScanned(c)
  PROVE  Steps(c)
  <1>1. Tables' /\ names' = names /\ \A d \in Caller \ {c} : Same(d)
    BY DEF Tables, BdfScanned, Goto, Same, worldVars, resultVars, Present
  <1>2. /\ at[c] \in {"failed", "scanned"} /\ at'[c] = "walk" /\ Looking(c)
        /\ what'[c] = what[c] /\ addr'[c] = addr[c] /\ cap'[c] = cap[c] /\ next'[c] = next[c]
        /\ node'[c] = node[c] /\ sess'[c] = sess[c] /\ info'[c] = info[c] /\ were'[c] = were[c]
        /\ there'[c] = there[c] /\ got'[c] = got[c]
        /\ excuse'[c] = excuse[c] \cup {got[c][k] : k \in cap[c] + 1 .. Len(got[c])}
    BY DEF Tables, BdfScanned, Goto
  <1>3. Open(c)' /\ Counted(c)' /\ Read(c)' /\ Scan(c)'
    BY <1>2 DEF CallInv, Open, Counted, Read, Scan, Scanning
  <1>4. Known(c)' /\ SeeksOne(c)'
    BY <1>1, <1>2 DEF CallInv, Known, SeeksOne, Looking, Asking, Present
  <1>5. Ahead(c)'
    <2>1. next[c] = 1 /\ got[c] \in Seq(Id) /\ cap[c] \in Nat
      BY <1>2 DEF CallInv, Counted, Scanning
    <2>2. SUFFICES ASSUME NEW i \in there[c] \ excuse'[c]
                   PROVE  \E k \in DOMAIN got[c] :
                            next[c] <= k /\ k <= cap[c] /\ got[c][k] = i
      BY <1>1, <1>2 DEF Ahead
    <2>3. at[c] = "scanned"
      <3>1. there[c] \subseteq Id
        BY DEF Tables, CallInv, Known
      <3> QED
        BY <1>2, <2>2, <3>1 DEF CallInv, Scan
    <2>4. PICK k \in DOMAIN got[c] : got[c][k] = i
      BY <2>2, <2>3 DEF CallInv, Scan
    <2>5. k \in 1 .. Len(got[c]) /\ Len(got[c]) \in Nat
      BY <2>1
    <2>6. ~(k \in cap[c] + 1 .. Len(got[c]))
      BY <1>2, <2>2, <2>4
    <2> QED
      BY <2>1, <2>4, <2>5, <2>6
  <1>6. Session(c)' /\ Reported(c)'
    BY <1>2 DEF CallInv, Open, Session, Reported
  <1> QED
    BY <1>1, <1>3, <1>4, <1>5, <1>6 DEF Steps, CallInv

\* The device is opened next: it is the one a lookup has come to.
LEMMA ToOpenSteps ==
  ASSUME Tables, NEW c \in Caller, CallInv(c), at[c] \in {"walk", "scanned"}, NEW i,
         node' = [node EXCEPT ![c] = i], Goto(c, "open"),
         UNCHANGED <<worldVars, what, addr, cap, got, next, sess, info, resultVars, ghostVars>>,
         Asking(c) \/ at[c] = "walk",
         Looking(c) =>
           /\ at[c] = "walk" /\ next[c] <= Len(got[c])
           /\ next[c] <= cap[c] => i = got[c][next[c]]
  PROVE  Steps(c)
  <1>1. Tables' /\ names' = names /\ \A d \in Caller \ {c} : Same(d)
    BY DEF Tables, Goto, Same, worldVars, resultVars, ghostVars, Present
  <1>2. /\ at'[c] = "open" /\ node'[c] = i
        /\ what'[c] = what[c] /\ addr'[c] = addr[c] /\ cap'[c] = cap[c] /\ next'[c] = next[c]
        /\ sess'[c] = sess[c] /\ info'[c] = info[c] /\ were'[c] = were[c]
        /\ there'[c] = there[c] /\ got'[c] = got[c] /\ excuse'[c] = excuse[c]
    BY DEF Tables, Goto, ghostVars
  <1>3. Open(c)' /\ Counted(c)' /\ Read(c)' /\ Scan(c)'
    BY <1>2 DEF CallInv, Open, Counted, Read, Scan, Scanning
  <1>4. Known(c)' /\ SeeksOne(c)'
    BY <1>1, <1>2 DEF CallInv, Known, SeeksOne, Looking, Asking, Present
  <1>5. Ahead(c)'
    BY <1>1, <1>2 DEF CallInv, Ahead, Looking, Walking
  <1>6. Session(c)' /\ Reported(c)'
    BY <1>2 DEF CallInv, Open, Session, Reported
  <1> QED
    BY <1>1, <1>3, <1>4, <1>5, <1>6 DEF Steps, CallInv

LEMMA WalkNextSteps ==
  ASSUME Tables, NEW c \in Caller, CallInv(c), WalkNext(c)
  PROVE  Steps(c)
  <1>1. at[c] = "walk" /\ UNCHANGED <<worldVars, sess>> /\ sess[c] = "none"
    BY DEF WalkNext, CallInv, Open
  <1>2. CASE Finish(c, -1, "ENODEV", << >>)
    BY <1>1, <1>2, FinishSteps
  <1>3. CASE /\ next[c] <= Len(got[c])
             /\ \E i \in IF next[c] <= cap[c] THEN {got[c][next[c]]} ELSE Id :
                  node' = [node EXCEPT ![c] = i]
             /\ Goto(c, "open")
             /\ UNCHANGED <<what, addr, cap, got, next, info, resultVars, ghostVars>>
    <2>1. PICK i \in IF next[c] <= cap[c] THEN {got[c][next[c]]} ELSE Id :
            node' = [node EXCEPT ![c] = i]
      BY <1>3
    <2>2. next[c] <= cap[c] => i = got[c][next[c]]
      BY <2>1
    <2> QED
      BY <1>1, <1>3, <2>1, <2>2, ToOpenSteps
  <1> QED
    BY <1>2, <1>3 DEF WalkNext

LEMMA VersionScannedSteps ==
  ASSUME Tables, NEW c \in Caller, CallInv(c), VersionScanned(c)
  PROVE  Steps(c)
  <1>1. /\ at[c] \in {"failed", "scanned"} /\ Asking(c) /\ ~Looking(c)
        /\ UNCHANGED <<worldVars, sess>> /\ sess[c] = "none"
    BY DEF VersionScanned, Asking, Looking, CallInv, Open
  <1>2. ASSUME NEW e, Finish(c, -1, e, << >>)
        PROVE  Steps(c)
    BY <1>1, <1>2, FinishSteps
  <1>3. CASE /\ at[c] = "scanned"
             /\ node' = [node EXCEPT ![c] = got[c][1]]
             /\ Goto(c, "open")
             /\ UNCHANGED <<what, addr, cap, got, next, info, resultVars, ghostVars>>
    BY <1>1, <1>3, ToOpenSteps
  <1> QED
    BY <1>2, <1>3 DEF VersionScanned

LEMMA OpenNodeSteps ==
  ASSUME Tables, NEW c \in Caller, CallInv(c), OpenNode(c)
  PROVE  Steps(c)
  <1>1. at[c] = "open" /\ UNCHANGED worldVars /\ names' = names /\ sess[c] = "none"
    BY DEF OpenNode, CallInv, Open, worldVars
  <1>2. CASE /\ node[c] \in Present \ held
             /\ sess' = [sess EXCEPT ![c] = "live"]
             /\ Goto(c, "query")
             /\ UNCHANGED <<what, addr, cap, got, next, node, info, resultVars, ghostVars>>
    <2>1. Tables' /\ names' = names /\ \A d \in Caller \ {c} : Same(d)
      BY <1>1, <1>2 DEF Tables, Goto, Same, worldVars, resultVars, ghostVars, Present
    <2>2. /\ at'[c] = "query" /\ node'[c] = node[c] /\ sess'[c] = "live"
          /\ what'[c] = what[c] /\ addr'[c] = addr[c] /\ cap'[c] = cap[c] /\ next'[c] = next[c]
          /\ info'[c] = info[c] /\ were'[c] = were[c]
          /\ there'[c] = there[c] /\ got'[c] = got[c] /\ excuse'[c] = excuse[c]
      BY <1>2 DEF Tables, Goto, ghostVars
    <2>3. Open(c)' /\ Counted(c)' /\ Read(c)' /\ Scan(c)'
      BY <2>2 DEF CallInv, Open, Counted, Read, Scan, Scanning
    <2>4. Known(c)' /\ SeeksOne(c)'
      BY <1>1, <2>1, <2>2 DEF CallInv, Known, SeeksOne, Looking, Asking, Present
    <2>5. Ahead(c)'
      BY <1>1, <2>1, <2>2 DEF CallInv, Ahead, Looking, Walking
    <2>6. Session(c)' /\ Reported(c)'
      BY <1>1, <1>2, <2>2 DEF Session, Reported, Present
    <2> QED
      BY <2>1, <2>3, <2>4, <2>5, <2>6 DEF Steps, CallInv
  <1>3. ASSUME NEW e, OpenFailed(c, e), UNCHANGED sess
        PROVE  Steps(c)
    <2>1. /\ sess'[c] = "none" /\ DOMAIN sess' = Caller
          /\ \A d \in Caller \ {c} : sess'[d] = sess[d]
      BY <1>1, <1>3 DEF Tables
    <2>2. CASE Finish(c, -1, e, << >>)
      BY <1>1, <1>3, <2>2, FinishSteps
    <2>3. CASE /\ Skip(c)
               /\ errno' = [errno EXCEPT ![c] = e]
               /\ excuse' = [excuse EXCEPT ![c] = @ \cup {node[c]}]
      <3>1. /\ DOMAIN errno' = Caller /\ DOMAIN excuse' = Caller
            /\ \A d \in Caller \ {c} : errno'[d] = errno[d] /\ excuse'[d] = excuse[d]
        BY <2>3 DEF Tables
      <3>2. excuse'[c] = excuse[c] \cup {node[c]}
        BY <2>3 DEF Tables
      <3> QED
        BY <1>1, <1>3, <2>1, <2>3, <3>1, <3>2, SkipFrame, SkipKeeps DEF Steps
    <2> QED
      BY <1>3, <2>2, <2>3 DEF OpenFailed
  <1> QED
    BY <1>2, <1>3 DEF OpenNode

LEMMA QueryNodeSteps ==
  ASSUME Tables, NEW c \in Caller, CallInv(c), QueryNode(c)
  PROVE  Steps(c)
  <1>1. Tables' /\ names' = names /\ \A d \in Caller \ {c} : Same(d)
    BY DEF Tables, QueryNode, Goto, Same, worldVars, ghostVars, Present
  <1>2. /\ at[c] = "query" /\ at'[c] = "close" /\ sess'[c] = sess[c] /\ node'[c] = node[c]
        /\ info'[c] = IF sess[c] = "live" THEN {names[node[c]]} ELSE {}
        /\ what'[c] = what[c] /\ addr'[c] = addr[c] /\ cap'[c] = cap[c] /\ next'[c] = next[c]
        /\ were'[c] = were[c] /\ there'[c] = there[c] /\ got'[c] = got[c]
        /\ excuse'[c] = excuse[c]
    BY DEF Tables, QueryNode, Goto, ghostVars
  <1>3. Open(c)' /\ Counted(c)' /\ Read(c)' /\ Scan(c)'
    BY <1>2 DEF CallInv, Open, Counted, Read, Scan, Scanning
  <1>4. Known(c)' /\ SeeksOne(c)'
    BY <1>1, <1>2 DEF CallInv, Known, SeeksOne, Looking, Asking, Present
  <1>5. Ahead(c)'
    BY <1>1, <1>2 DEF CallInv, Ahead, Looking, Walking
  <1>6. Session(c)'
    BY <1>1, <1>2 DEF CallInv, Session, Present
  <1>7. Reported(c)'
    <2>1. CASE sess[c] = "live"
      <3>1. <<node[c], names[node[c]]>> \in were[c]
        BY <1>2, <2>1 DEF CallInv, Known, Session
      <3> QED
        BY <1>1, <1>2, <2>1, <3>1 DEF Reported
    <2>2. CASE sess[c] = "dead"
      BY <1>2, <2>2 DEF CallInv, Session, Reported
    <2> QED
      BY <1>2, <2>1, <2>2 DEF CallInv, Open
  <1> QED
    BY <1>1, <1>3, <1>4, <1>5, <1>6, <1>7 DEF Steps, CallInv

\* A device that answered with another address is not the one sought, and one
\* that did not answer may be missed.
LEMMA OthersMayBeMissed ==
  ASSUME NEW c \in Caller, CallInv(c), at[c] = "close", Looking(c), info[c] # addr[c]
  PROVE  node[c] \notin there[c] \ excuse[c] \/ names[node[c]] \notin addr[c]
  <1>1. CASE info[c] = {}
    BY <1>1 DEF CallInv, Reported
  <1>2. CASE info[c] # {} /\ node[c] \in there[c] /\ names[node[c]] \in addr[c]
    <2>1. info[c] = {names[node[c]]}
      BY <1>2 DEF CallInv, Reported
    <2>2. addr[c] = {names[node[c]]}
      BY <1>2 DEF CallInv, SeeksOne
    <2> QED
      BY <2>1, <2>2
  <1> QED
    BY <1>1, <1>2

LEMMA CloseNodeSteps ==
  ASSUME Tables, NEW c \in Caller, CallInv(c), CloseNode(c)
  PROVE  Steps(c)
  <1>1. at[c] = "close" /\ UNCHANGED worldVars /\ sess' = [sess EXCEPT ![c] = "none"]
    BY DEF CloseNode
  <1>2. PICK e : Answered(c, e)
    BY DEF CloseNode
  <1>3. ASSUME NEW ret, NEW devs, NEW err, Finish(c, ret, err, devs)
        PROVE  Steps(c)
    BY <1>1, <1>3, FinishSteps
  <1>4. CASE /\ ~Asking(c)
             /\ info[c] # addr[c]
             /\ Skip(c)
             /\ errno' = [errno EXCEPT ![c] = e]
             /\ UNCHANGED excuse
    <2>1. /\ DOMAIN errno' = Caller /\ DOMAIN sess' = Caller /\ sess'[c] = "none"
          /\ \A d \in Caller \ {c} : errno'[d] = errno[d] /\ sess'[d] = sess[d]
      BY <1>1, <1>4 DEF Tables
    <2>2. Looking(c) =>
            node[c] \notin there[c] \ excuse'[c] \/ names[node[c]] \notin addr[c]
      BY <1>1, <1>4, OthersMayBeMissed
    <2>3. Tables' /\ names' = names /\ \A d \in Caller \ {c} : Same(d)
      BY <1>1, <1>4, <2>1, SkipFrame DEF Tables
    <2>4. CallInv(c)'
      BY <1>1, <1>4, <2>1, <2>2, SkipKeeps
    <2> QED
      BY <2>3, <2>4 DEF Steps
  <1> QED
    BY <1>2, <1>3, <1>4 DEF Answered

------------------------------------------------------------------------------
(* What the world does keeps every caller's invariant.                      *)

\* What the world changes of no call.
Spared(c) ==
  /\ at'[c] = at[c] /\ what'[c] = what[c] /\ addr'[c] = addr[c] /\ cap'[c] = cap[c]
  /\ got'[c] = got[c] /\ next'[c] = next[c] /\ node'[c] = node[c] /\ info'[c] = info[c]
  /\ errno'[c] = errno[c]

LEMMA ArriveKeeps ==
  ASSUME FindInv, Arrive
  PROVE  FindInv'
  <1>1. PICK i \in Id \ Present, b \in Bus :
          /\ names' = [j \in Present \cup {i} |-> IF j = i THEN b ELSE names[j]]
          /\ were' = [c \in Caller |-> IF at[c] = "idle" THEN {} ELSE were[c] \cup {<<i, b>>}]
    BY DEF Arrive
  <1>2. Tables'
    BY <1>1 DEF FindInv, Tables, Arrive, Present, worldSame, resultVars
  <1>3. /\ Present' = Present \cup {i} /\ names'[i] = b
        /\ \A j \in Present : names'[j] = names[j]
    BY <1>1 DEF Present
  <1>4. ASSUME NEW c \in Caller
        PROVE  CallInv(c)'
    <2>1. CallInv(c) /\ i \notin Present
      BY <1>4 DEF FindInv
    <2>2. /\ Spared(c) /\ sess'[c] = sess[c] /\ there'[c] = there[c] /\ excuse'[c] = excuse[c]
          /\ were'[c] = IF at[c] = "idle" THEN {} ELSE were[c] \cup {<<i, b>>}
      BY <1>1, <1>4 DEF Arrive, Spared, worldSame, resultVars
    <2>3. \A j \in there[c] : names'[j] = names[j]
      BY <1>3, <2>1 DEF CallInv, Known
    <2>4. Open(c)' /\ Counted(c)' /\ Scan(c)' /\ SeeksOne(c)'
      BY <2>1, <2>2 DEF CallInv, Spared, Open, Counted, Scan, SeeksOne, Looking, Asking
    <2>5. Known(c)'
      BY <1>3, <2>1, <2>2 DEF CallInv, Spared, Known
    <2>6. Read(c)'
      BY <2>1, <2>2 DEF CallInv, Spared, Read
    <2>7. Ahead(c)'
      BY <2>1, <2>2, <2>3 DEF CallInv, Spared, Ahead, Looking
    <2>8. Session(c)'
      BY <1>3, <2>1, <2>2 DEF CallInv, Spared, Session
    <2>9. Reported(c)'
      BY <2>1, <2>2, <2>3 DEF CallInv, Spared, Reported
    <2> QED
      BY <2>4, <2>5, <2>6, <2>7, <2>8, <2>9 DEF CallInv
  <1> QED
    BY <1>2, <1>4 DEF FindInv

LEMMA LeaveKeeps ==
  ASSUME FindInv, NEW i, Leave(i)
  PROVE  FindInv'
  <1>1. names' = [j \in Present \ {i} |-> names[j]]
    BY DEF Leave
  <1>2. Tables'
    BY <1>1 DEF FindInv, Tables, Leave, Killed, Present, worldSame, resultVars
  <1>3. Present' = Present \ {i} /\ \A j \in Present' : names'[j] = names[j]
    BY <1>1 DEF Present
  <1>4. ASSUME NEW c \in Caller
        PROVE  CallInv(c)'
    <2>1. CallInv(c)
      BY <1>4 DEF FindInv
    <2>2. /\ Spared(c) /\ there'[c] = there[c] \ {i} /\ were'[c] = were[c]
          /\ excuse'[c] = excuse[c]
          /\ sess'[c] = IF node[c] = i /\ sess[c] # "none" THEN "dead" ELSE sess[c]
      BY <1>4 DEF Leave, Killed, Users, Spared, worldSame, resultVars
    <2>3. there'[c] \subseteq Present' /\ \A j \in there'[c] : names'[j] = names[j]
      BY <1>3, <2>1, <2>2 DEF CallInv, Known
    <2>4. Open(c)' /\ Counted(c)' /\ SeeksOne(c)' /\ Read(c)'
      BY <2>1, <2>2 DEF CallInv, Spared, Open, Counted, SeeksOne, Looking, Asking, Read
    <2>5. Known(c)' /\ Scan(c)'
      BY <1>3, <2>1, <2>2, <2>3 DEF CallInv, Spared, Known, Scan
    <2>6. Ahead(c)'
      BY <2>1, <2>2, <2>3 DEF CallInv, Spared, Ahead, Looking
    <2>7. Session(c)'
      BY <1>3, <2>1, <2>2 DEF CallInv, Spared, Session, Open
    <2>8. Reported(c)'
      BY <2>1, <2>2, <2>3 DEF CallInv, Spared, Reported
    <2> QED
      BY <2>4, <2>5, <2>6, <2>7, <2>8 DEF CallInv
  <1> QED
    BY <1>2, <1>4 DEF FindInv

LEMMA ResetKeeps ==
  ASSUME FindInv, NEW i \in Id, Reset(i)
  PROVE  FindInv'
  <1>1. Tables' /\ names' = names
    BY DEF FindInv, Tables, Reset, Killed, Excused, Present, worldSame, resultVars
  <1>2. ASSUME NEW c \in Caller
        PROVE  CallInv(c)'
    <2>1. CallInv(c)
      BY <1>2 DEF FindInv
    <2>2. /\ Spared(c) /\ there'[c] = there[c] /\ were'[c] = were[c]
          /\ \/ sess'[c] = sess[c]
             \/ sess[c] # "none" /\ sess'[c] = "dead" /\ node[c] \in excuse'[c]
          /\ excuse[c] \subseteq excuse'[c]
          /\ excuse[c] = Id => excuse'[c] = Id
      BY <1>2 DEF Reset, Killed, Users, Excused, Spared, worldSame, resultVars
    <2>3. Open(c)' /\ Counted(c)' /\ SeeksOne(c)' /\ Read(c)'
      BY <2>1, <2>2 DEF CallInv, Spared, Open, Counted, SeeksOne, Looking, Asking, Read
    <2>4. Known(c)' /\ Scan(c)'
      BY <1>1, <2>1, <2>2 DEF CallInv, Spared, Known, Scan, Present
    <2>5. Ahead(c)'
      BY <1>1, <2>1, <2>2 DEF CallInv, Spared, Ahead, Looking
    <2>6. Session(c)' /\ Reported(c)'
      BY <1>1, <2>1, <2>2 DEF CallInv, Spared, Session, Reported, Open, Present
    <2> QED
      BY <2>3, <2>4, <2>5, <2>6 DEF CallInv
  <1> QED
    BY <1>1, <1>2 DEF FindInv

LEMMA WorldKeeps ==
  ASSUME FindInv, World
  PROVE  FindInv'
  <1>1. ASSUME UNCHANGED <<worldSame, names, sess, ghostVars>>,
               dir' = "missing" => Present = {}
        PROVE  FindInv'
    <2>1. Tables'
      BY <1>1 DEF FindInv, Tables, Present, worldSame, resultVars, ghostVars
    <2>2. \A c \in Caller : Same(c)
      BY <1>1 DEF Same, worldSame, resultVars, ghostVars
    <2> QED
      BY <1>1, <2>1, <2>2, SameKeeps DEF FindInv
  <1>2. CASE \E i \in Id : (Hold(i) \/ Unhold(i)) /\ UNCHANGED <<worldSame, names, dir, sess, ghostVars>>
    BY <1>1, <1>2 DEF FindInv, Tables
  <1>3. CASE Change /\ UNCHANGED <<worldSame, names, held, sess, ghostVars>>
    BY <1>1, <1>3 DEF Change, Present
  <1> QED
    BY <1>2, <1>3, ArriveKeeps, LeaveKeeps, ResetKeeps DEF World

------------------------------------------------------------------------------
(* The theorems.                                                            *)

LEMMA FindInit ==
  ASSUME DiscoveryInit
  PROVE  FindInv
  <1>1. Tables
    BY DEF DiscoveryInit, Tables, Present
  <1>2. ASSUME NEW c \in Caller
        PROVE  CallInv(c)
    BY <1>2 DEF DiscoveryInit, CallInv, Open, Counted, Known, SeeksOne, Read, Scan, Ahead,
                Session, Reported, Present, Walking
  <1> QED
    BY <1>1, <1>2 DEF FindInv

LEMMA FindNext ==
  ASSUME FindInv, [DiscoveryNext]_vars
  PROVE  FindInv'
  <1>1. ASSUME NEW c \in Caller, Steps(c)
        PROVE  FindInv'
    <2>1. ASSUME NEW d \in Caller
          PROVE  CallInv(d)'
      <3>1. CASE d = c
        BY <1>1, <3>1 DEF Steps
      <3>2. CASE d # c
        BY <1>1, <2>1, <3>2, SameKeeps DEF Steps, FindInv
      <3> QED
        BY <3>1, <3>2
    <2> QED
      BY <1>1, <2>1 DEF Steps, FindInv
  <1>2. ASSUME NEW c \in Caller, Start(c) \/ CallStep(c)
        PROVE  Steps(c)
    <2>1. Tables /\ CallInv(c)
      BY <1>2 DEF FindInv
    <2> QED
      BY <1>2, <2>1, StartSteps, OpendirSteps, ReadEntrySteps, ReadEndSteps, ScannedSteps,
         BdfScannedSteps, VersionScannedSteps, WalkNextSteps, OpenNodeSteps, QueryNodeSteps,
         CloseNodeSteps DEF CallStep
  <1>3. CASE UNCHANGED vars
    <2>1. Tables'
      BY <1>3 DEF FindInv, Tables, Present, vars, worldVars, callVars, resultVars, ghostVars
    <2>2. names' = names /\ \A c \in Caller : Same(c)
      BY <1>3 DEF Same, vars, worldVars, callVars, resultVars, ghostVars
    <2> QED
      BY <2>1, <2>2, SameKeeps DEF FindInv
  <1> QED
    BY <1>1, <1>2, <1>3, WorldKeeps DEF DiscoveryNext

\* FindInv is an invariant of discovery, however devices come and go (mod.c,
\* tt_dev_scan and tt_dev_from_bdf; ver.c, tt_kmd_version).
THEOREM DiscoveryFindInv == DiscoverySpec => []FindInv
  <1>1. DiscoveryInit => FindInv
    BY FindInit
  <1>2. FindInv /\ [DiscoveryNext]_vars => FindInv'
    BY FindNext
  <1> QED
    BY <1>1, <1>2, PTL DEF DiscoverySpec

\* Between calls no caller has a device open, whichever way its calls ended
\* (mod.c, tt_dev_from_bdf; ver.c, tt_kmd_version).
THEOREM DiscoveryClosesAll == DiscoverySpec => []NothingStaysOpen
  <1>1. FindInv => NothingStaysOpen
    BY DEF FindInv, CallInv, Open, NothingStaysOpen
  <1> QED
    BY <1>1, DiscoveryFindInv, PTL

\* What a call that returns tells its caller.
LEMMA FinishTells ==
  ASSUME Tables, NEW c \in Caller, NEW ret, NEW e, NEW devs, Finish(c, ret, e, devs)
  PROVE  /\ code'[c] = IF ret = 0 THEN "OK" ELSE e
         /\ found'[c] = IF code'[c] = "OK" THEN devs ELSE << >>
  BY DEF Tables, Finish, Check, RsCheck, PyCheck

\* The steps with which a call can return.
LEMMA ReturnSteps ==
  ASSUME FindInv, [DiscoveryNext]_vars, NEW c \in Caller, Returns(c)
  PROVE  \/ RsScanned(c) \/ PyScanned(c) \/ VersionScanned(c)
         \/ WalkNext(c) \/ OpenNode(c) \/ CloseNode(c)
  <1> USE DEF Returns
  <1>1. CASE World \/ UNCHANGED vars
    BY <1>1 DEF World, Arrive, Leave, Reset, worldSame, vars, callVars
  <1>2. CASE Start(c)
    <2>1. at[c] = "idle"
      BY <1>2 DEF Start, RsScan, PyScan, RsFromPath, PyFromPath, RsFromBdf, PyFromBdf,
                  RsKmdVersion, PyKmdVersion, Begin, AtOnce
    <2> QED
      BY <2>1
  <1>3. CASE Opendir(c) \/ ReadEntry(c) \/ ReadEnd(c) \/ BdfScanned(c) \/ QueryNode(c)
    BY <1>3 DEF Opendir, ReadEntry, ReadEnd, BdfScanned, QueryNode, Goto, FindInv, Tables
  <1>4. ASSUME NEW d \in Caller, d # c, Start(d) \/ CallStep(d)
        PROVE  FALSE
    <2>1. Tables /\ CallInv(d)
      BY <1>4 DEF FindInv
    <2>2. Steps(d)
      BY <1>4, <2>1, StartSteps, OpendirSteps, ReadEntrySteps, ReadEndSteps, ScannedSteps,
         BdfScannedSteps, VersionScannedSteps, WalkNextSteps, OpenNodeSteps, QueryNodeSteps,
         CloseNodeSteps DEF CallStep
    <2> QED
      BY <1>4, <2>2 DEF Steps, Same
  <1> QED
    BY <1>1, <1>2, <1>3, <1>4 DEF DiscoveryNext, CallStep

\* A reset that hits the query for the driver's version is reported as one (ver.c,
\* tt_kmd_version: errno is kept over the close).
THEOREM DiscoveryReportsResets == DiscoverySpec => ResetsReported
  <1> DEFINE A == \A c \in Caller :
                    Returns(c) /\ Asking(c) /\ sess[c] = "dead" /\ info[c] = {} =>
                      code'[c] = "ECONNRESET"
  <1>1. ASSUME FindInv, [DiscoveryNext]_vars, NEW c \in Caller, Returns(c), Asking(c),
               sess[c] = "dead", info[c] = {}
        PROVE  code'[c] = "ECONNRESET"
    <2>1. Tables /\ at[c] \in {"query", "close"}
      BY <1>1 DEF FindInv, CallInv, Open
    <2>2. CloseNode(c)
      BY <1>1, <2>1, ReturnSteps
           DEF RsScanned, PyScanned, VersionScanned, WalkNext, OpenNode
    <2>3. Finish(c, -1, "ECONNRESET", << >>)
      BY <1>1, <2>2 DEF CloseNode, Answered
    <2> QED
      BY <2>1, <2>3, FinishTells
  <1>2. FindInv /\ [DiscoveryNext]_vars => [A]_vars
    BY <1>1
  <1> QED
    BY <1>2, DiscoveryFindInv, PTL DEF DiscoverySpec, ResetsReported

\* A device that is found had the address during the call, and one that was there
\* throughout is found unless its own open failed, its own session was severed, it
\* lies beyond the buffer or the directory was unreadable (mod.c, tt_dev_from_bdf).
THEOREM DiscoveryLooksUpRight == DiscoverySpec => LookupsAreRight
  <1> DEFINE A == \A c \in Caller :
                    Returns(c) /\ Looking(c) =>
                      IF code'[c] = "OK" THEN \E b \in addr[c] : <<found'[c][1], b>> \in were[c]
                      ELSE \A i \in there[c] \ excuse[c] : names[i] \notin addr[c]
  <1>1. ASSUME FindInv, [DiscoveryNext]_vars, NEW c \in Caller, Returns(c), Looking(c)
        PROVE  IF code'[c] = "OK" THEN \E b \in addr[c] : <<found'[c][1], b>> \in were[c]
               ELSE \A i \in there[c] \ excuse[c] : names[i] \notin addr[c]
    <2>1. Tables /\ CallInv(c)
      BY <1>1 DEF FindInv
    <2>2. ~Asking(c) /\ what[c] # "rs_scan" /\ what[c] # "py_scan"
      BY <1>1 DEF Looking, Asking
    <2>3. CASE at[c] = "walk" /\ next[c] > Len(got[c]) /\ Finish(c, -1, "ENODEV", << >>)
      <3>1. code'[c] = "ENODEV"
        BY <2>1, <2>3, FinishTells
      <3>2. next[c] \in Nat /\ got[c] \in Seq(Id)
        BY <2>1 DEF CallInv, Counted
      <3>3. \A k \in DOMAIN got[c] : ~(next[c] <= k)
        BY <2>3, <3>2
      <3>4. \A i \in there[c] \ excuse[c] : names[i] \notin addr[c]
        BY <1>1, <2>1, <2>3, <3>3 DEF CallInv, Ahead, Walking
      <3> QED
        BY <3>1, <3>4
    <2>4. CASE CloseNode(c)
      <3>1. PICK e : Answered(c, e)
        BY <2>4 DEF CloseNode
      <3>2. info[c] = addr[c] /\ Finish(c, 0, e, <<node[c]>>)
        BY <1>1, <2>1, <2>2, <3>1 DEF Answered, Skip, Goto, Returns, Tables
      <3>3. code'[c] = "OK" /\ found'[c] = <<node[c]>>
        BY <2>1, <3>2, FinishTells
      <3>4. PICK b \in addr[c] : TRUE
        BY <1>1, <2>1, <2>4 DEF CallInv, SeeksOne, CloseNode
      <3>5. <<node[c], b>> \in were[c]
        BY <2>1, <2>4, <3>2, <3>4 DEF CallInv, Reported, CloseNode
      <3> QED
        BY <3>3, <3>4, <3>5
    <2>5. WalkNext(c) \/ OpenNode(c) \/ CloseNode(c)
      BY <1>1, <2>2, ReturnSteps DEF RsScanned, PyScanned, VersionScanned
    <2>6. ~OpenNode(c)
      BY <1>1, <2>1, <2>2 DEF OpenNode, OpenFailed, Skip, Goto, Returns, Tables
    <2>7. WalkNext(c) => at[c] = "walk" /\ next[c] > Len(got[c]) /\ Finish(c, -1, "ENODEV", << >>)
      BY <1>1, <2>1 DEF WalkNext, Goto, Returns, Tables
    <2> QED
      BY <2>3, <2>4, <2>5, <2>6, <2>7
  <1>2. FindInv /\ [DiscoveryNext]_vars => [A]_vars
    BY <1>1
  <1> QED
    BY <1>2, DiscoveryFindInv, PTL DEF DiscoverySpec, LookupsAreRight

\* A sequence without repetitions has as many members as it is long.
LEMMA AsManyAsLong ==
  ASSUME NEW S, NEW q \in Seq(S), \A j, k \in DOMAIN q : q[j] = q[k] => j = k
  PROVE  Cardinality({q[k] : k \in DOMAIN q}) = Len(q)
  <1> DEFINE R == {q[k] : k \in DOMAIN q}
  <1>1. DOMAIN q = 1 .. Len(q) /\ Len(q) \in Nat
    OBVIOUS
  <1>2. IsFiniteSet(1 .. Len(q)) /\ Cardinality(1 .. Len(q)) = Len(q)
    BY <1>1, FS_Interval
  <1>3. q \in Bijection(1 .. Len(q), R)
    BY <1>1 DEF Bijection, Injection, Surjection, IsInjective
  <1> QED
    BY <1>2, <1>3, FS_Bijection DEF ExistsBijection

\* A scan returns what was there all the while it read the directory for the last
\* time, each device once, and none that was never there (Device::scan, and
\* Python's).
THEOREM DiscoveryScansAreComplete == DiscoverySpec => ScansAreComplete
  <1> DEFINE A == \A c \in Caller :
                    Returns(c) /\ what[c] \in {"rs_scan", "py_scan"} /\ code'[c] = "OK" =>
                      LET ids == {found'[c][k] : k \in DOMAIN found'[c]}
                      IN  /\ there[c] \subseteq ids
                          /\ ids \subseteq {w[1] : w \in were[c]}
                          /\ Cardinality(ids) = Len(found'[c])
  <1>1. ASSUME FindInv, [DiscoveryNext]_vars, NEW c \in Caller, Returns(c),
               what[c] \in {"rs_scan", "py_scan"}, code'[c] = "OK"
        PROVE  LET ids == {found'[c][k] : k \in DOMAIN found'[c]}
               IN  /\ there[c] \subseteq ids
                   /\ ids \subseteq {w[1] : w \in were[c]}
                   /\ Cardinality(ids) = Len(found'[c])
    <2>1. Tables /\ CallInv(c)
      BY <1>1 DEF FindInv
    <2>2. ~Asking(c) /\ ~Looking(c)
      BY <1>1 DEF Looking, Asking
    <2>3. RsScanned(c) \/ PyScanned(c)
      <3>1. ~VersionScanned(c)
        BY <2>2 DEF VersionScanned
      <3>2. ~WalkNext(c) /\ ~OpenNode(c) /\ ~CloseNode(c)
        BY <2>1, <2>2 DEF CallInv, SeeksOne, WalkNext, OpenNode, CloseNode
      <3> QED
        BY <1>1, <3>1, <3>2, ReturnSteps
    <2>4. at[c] = "scanned" /\ Finish(c, 0, errno[c], got[c])
      <3>1. at[c] = "failed" => ~Finish(c, -1, errno[c], << >>)
        BY <1>1, <2>1, FinishTells DEF CallInv, Scan
      <3>2. at[c] = "scanned" => \A room : ~Grow(c, room)
        BY <1>1, <2>1 DEF Grow, Goto, Returns, Tables
      <3> QED
        BY <2>3, <3>1, <3>2 DEF RsScanned, PyScanned
    <2>5. found'[c] = got[c] /\ got[c] \in Seq(Id)
      BY <2>1, <2>4, <1>1, FinishTells DEF CallInv, Counted
    <2>6. there[c] \subseteq {got[c][k] : k \in DOMAIN got[c]}
      BY <2>1, <2>4 DEF CallInv, Scan
    <2>7. {got[c][k] : k \in DOMAIN got[c]} \subseteq {w[1] : w \in were[c]}
      <3>1. ASSUME NEW k \in DOMAIN got[c]
            PROVE  \E w \in were[c] : got[c][k] = w[1]
        <4>1. PICK b \in Bus : <<got[c][k], b>> \in were[c]
          BY <2>1, <2>4, <3>1 DEF CallInv, Read
        <4> QED
          BY <4>1, <<got[c][k], b>>[1] = got[c][k]
      <3> QED
        BY <3>1
    <2>8. Cardinality({got[c][k] : k \in DOMAIN got[c]}) = Len(got[c])
      BY <2>1, <2>4, <2>5, AsManyAsLong DEF CallInv, Read
    <2> QED
      BY <2>5, <2>6, <2>7, <2>8
  <1>2. FindInv /\ [DiscoveryNext]_vars => [A]_vars
    BY <1>1
  <1> QED
    BY <1>2, DiscoveryFindInv, PTL DEF DiscoverySpec, ScansAreComplete

------------------------------------------------------------------------------
(* What the bindings convert.                                               *)

\* Division and remainder, and what decides a quotient.
LEMMA DivMod ==
  ASSUME NEW a \in Nat, NEW b \in Nat \ {0}
  PROVE  a = b * (a \div b) + (a % b) /\ a \div b \in Nat /\ a % b \in 0 .. (b - 1)
  BY SMT

LEMMA Quotient ==
  ASSUME NEW a \in Nat, NEW b \in Nat \ {0}, NEW q \in Nat, NEW r \in 0 .. (b - 1), a = b * q + r
  PROVE  a \div b = q
  BY SMT

LEMMA DivGrows ==
  ASSUME NEW a \in Nat, NEW d \in Nat, a <= d, NEW b \in Nat \ {0}
  PROVE  a \div b <= d \div b
  <1> DEFINE p == a \div b
             q == d \div b
  <1>1. p \in Nat /\ q \in Nat /\ a >= b * p /\ d < b * q + b
    BY DivMod
  <1> HIDE DEF p, q
  <1>2. ASSUME q < p
        PROVE  FALSE
    <2>1. PICK k \in Nat : p = q + 1 + k
      <3>1. p - q - 1 \in Nat
        BY <1>1, <1>2
      <3> QED
        BY <1>1, <3>1
    <2>2. b * p = b * q + b + b * k /\ b * k \in Nat /\ b * q \in Nat
      BY <1>1, <2>1
    <2> QED
      BY <1>1, <2>2
  <1>3. p <= q
    BY <1>1, <1>2
  <1> QED
    BY <1>3 DEF p, q

LEMMA ElapsedLemma ==
  ASSUME Times \subseteq Nat
  PROVE  ElapsedIsElapsed
  <1> SUFFICES ASSUME NEW s \in Nat, NEW t \in Nat, s <= t
               PROVE  (Clock(t).sec - Clock(s).sec) * Sec + (Clock(t).nsec - Clock(s).nsec) = t - s
    BY DEF ElapsedIsElapsed, timespec_diff_ms
  <1> DEFINE a == s \div Sec
             b == t \div Sec
             m == s % Sec
             n == t % Sec
  <1>1. Sec \in Nat \ {0}
    BY ValuesAssumption
  <1>2. /\ s = Sec * a + m /\ a \in Nat /\ m \in Nat
        /\ t = Sec * b + n /\ b \in Nat /\ n \in Nat
    BY <1>1, DivMod
  <1>3. Clock(s) = [sec |-> a, nsec |-> m] /\ Clock(t) = [sec |-> b, nsec |-> n]
    BY DEF Clock
  <1> HIDE DEF a, b, m, n
  <1>4. (b - a) * Sec = Sec * b - Sec * a
    BY <1>1, <1>2
  <1>5. (b - a) * Sec + (n - m) = t - s
    BY <1>1, <1>2, <1>4
  <1> QED
    BY <1>3, <1>5

LEMMA TimeoutsLemma ==
  ASSUME Times \subseteq Nat, MaxU32 > 0
  PROVE  TimeoutsAgree
  <1> SUFFICES ASSUME NEW t \in Nat
               PROVE  /\ t >= Ms => RsMillis(t) > 0
                      /\ RsMillis(t) <= RsMillis(t + 1)
                      /\ \E p \in PyMillis(t) :
                           /\ p \in RsMillis(t) .. (RsMillis(t) + 1)
                           /\ t % Ms = 0 => p = RsMillis(t)
    BY DEF TimeoutsAgree
  <1> DEFINE q == t \div Ms
             r == t % Ms
             u == (t + 1) \div Ms
             p == (2 * t + Ms) \div (2 * Ms)
  <1>1. Ms \in Nat \ {0} /\ MaxU32 \in Nat
    BY ValuesAssumption
  <1>2. t = Ms * q + r /\ q \in Nat /\ r \in 0 .. (Ms - 1)
    BY <1>1, DivMod
  <1>3. t + 1 \in Nat /\ u \in Nat
    <2>1. t + 1 \in Nat
      OBVIOUS
    <2> QED
      BY <1>1, <2>1, DivMod
  <1>4. q <= u
    BY <1>1, <1>3, DivGrows
  <1>5. RsMillis(t) = Minimum(q, MaxU32) /\ RsMillis(t + 1) = Minimum(u, MaxU32)
    BY DEF RsMillis
  <1>6. PyMillis(t) = {Minimum(p, MaxU32)}
    BY DEF PyMillis
  <1> HIDE DEF q, r, u
  <1>7. p = IF 2 * r < Ms THEN q ELSE q + 1
    <2>1. 2 * t + Ms = (2 * Ms) * q + (2 * r + Ms)
      <3>1. 2 * (Ms * q) = (2 * Ms) * q
        BY <1>1, <1>2
      <3> QED
        BY <1>1, <1>2, <3>1
    <2>2. CASE 2 * r < Ms
      <3>1. 2 * r + Ms \in 0 .. (2 * Ms - 1)
        BY <1>1, <1>2, <2>2
      <3>2. 2 * Ms \in Nat \ {0} /\ 2 * t + Ms \in Nat
        BY <1>1
      <3> QED
        BY <1>2, <2>1, <2>2, <3>1, <3>2, Quotient
    <2>3. CASE ~(2 * r < Ms)
      <3>1. 2 * r - Ms \in 0 .. (2 * Ms - 1)
        BY <1>1, <1>2, <2>3
      <3>2. 2 * Ms \in Nat \ {0} /\ 2 * t + Ms \in Nat /\ q + 1 \in Nat
        BY <1>1, <1>2
      <3>3. (2 * Ms) * (q + 1) = (2 * Ms) * q + 2 * Ms
        BY <1>1, <1>2
      <3>4. 2 * t + Ms = (2 * Ms) * (q + 1) + (2 * r - Ms)
        BY <1>1, <1>2, <2>1, <3>2, <3>3
      <3> HIDE DEF p
      <3>5. (2 * t + Ms) \div (2 * Ms) = q + 1
        BY <3>1, <3>2, <3>4, Quotient
      <3> QED
        BY <2>3, <3>5 DEF p
    <2> QED
      BY <2>2, <2>3
  <1>8. t >= Ms => q > 0
    <2>1. q = 0 => Ms * q = 0
      BY <1>1
    <2> QED
      BY <1>1, <1>2, <2>1
  <1>9. r = 0 => p = q
    BY <1>1, <1>7
  <1> HIDE DEF p
  <1>10. Minimum(q, MaxU32) <= Minimum(u, MaxU32) /\ (t >= Ms => Minimum(q, MaxU32) > 0)
    BY <1>1, <1>2, <1>3, <1>4, <1>8 DEF Minimum
  <1>11. /\ Minimum(p, MaxU32) \in Minimum(q, MaxU32) .. (Minimum(q, MaxU32) + 1)
         /\ r = 0 => Minimum(p, MaxU32) = Minimum(q, MaxU32)
    BY <1>1, <1>2, <1>7, <1>9 DEF Minimum
  <1> QED
    BY <1>5, <1>6, <1>10, <1>11 DEF r

LEMMA VersionsLemma == VersionsAgree
  BY DEF VersionsAgree, PyVersion, RsVersion

LEMMA MessagesLemma == MessagesReplaced
  BY DEF MessagesReplaced, PyMessage, set_message

LEMMA EnumLemma == EnumerationsAgree
  <1> DEFINE table == [i \in 0 .. TT_TELEMETRY_LEN - 1 |-> i]
             Flags == DOMAIN TT_POWER
  <1>1. \A i \in DOMAIN PySize : PySizeRaw(i) = RsSize(PySize[i])
    BY DEF PySizeRaw, RsSize
  <1>2. \A i \in DOMAIN PyCaching : PyCachingRaw(i) = RsCaching(PyCaching[i])
    BY DEF PyCachingRaw, RsCaching
  <1>3. \A f, g \in Flags :
           /\ FlagSet(<<f, g>>) = PyOr(PyFlag(f), PyFlag(g))
           /\ f # g => PyFlag(f) \cap PyFlag(g) = LO
           /\ PyFlag(f) \subseteq HI
    <2> SUFFICES ASSUME NEW f \in Flags, NEW g \in Flags
                 PROVE  /\ FlagSet(<<f, g>>) = {TT_POWER[f], TT_POWER[g]}
                        /\ f # g => TT_POWER[f] # TT_POWER[g]
                        /\ TT_POWER[f] \in HI
      BY DEF PyOr, PyFlag, LO
    <2>1. FlagSet(<<f, g>>) = {TT_POWER[f], TT_POWER[g]}
      BY DEF FlagSet, RsFlag
    <2>2. (f # g => TT_POWER[f] # TT_POWER[g]) /\ TT_POWER[f] \in HI
      BY DEF TT_POWER, HI
    <2> QED
      BY <2>1, <2>2
  <1>4. \A n \in 3 .. 9 :
          Positional(PyConfigNew, [i \in 1 .. n |-> i]) =
            Positional(tt_tlb_config_t, [i \in 1 .. n |-> i])
    BY DEF PyConfigNew, tt_tlb_config_t
  <1>5. RsTag = PyTag
    BY DEF RsTag, PyTag
  <1>6. \A tag \in RsTag : RsGet(table, tag) = {tag} /\ PyGet(table, tag) = {tag}
    BY DEF RsTag, TT_TAG, TT_TELEMETRY_LEN, RsGet, PyGet, PyTagRaw
  <1> QED
    BY <1>1, <1>2, <1>3, <1>4, <1>5, <1>6 DEF EnumerationsAgree

\* A window of l bytes, n bytes that are none of its own, whether it has n of them
\* at an offset, and what becomes of it when they are stored there.
Mem(l) == [i \in 1 .. l |-> i]
Fresh(l, n) == [i \in 1 .. n |-> l + i]
Within(l, offset, n) == offset % n = 0 /\ offset + n <= l
Overwritten(l, offset, n, new) ==
  /\ DOMAIN new = DOMAIN Mem(l)
  /\ Bytes(new, offset, n) = Fresh(l, n)
  /\ \A i \in DOMAIN Mem(l) : i - 1 \in offset .. (offset + n - 1) \/ new[i] = Mem(l)[i]

\* An access of n bytes at an offset of a window of l.
LEMMA AccessLemma ==
  ASSUME NEW l \in 0 .. MaxUsize, NEW offset \in 0 .. MaxUsize, NEW n \in Nat \ {0}
  PROVE  /\ Len(Mem(l)) = l
         /\ Reaches(Mem(l), offset, n) <=> Within(l, offset, n)
         /\ Within(l, offset, n) =>
              Overwritten(l, offset, n, Stored(Mem(l), offset, Fresh(l, n)))
  <1> USE DEF Within
  <1> DEFINE mem == Mem(l)
             put == Fresh(l, n)
             new == Stored(mem, offset, put)
  <1>1. l \in Nat /\ offset \in Nat /\ MaxUsize \in Nat
    BY ValuesAssumption
  <1>2. Len(mem) = l
    BY <1>1 DEF Mem
  <1>3. Reaches(mem, offset, n) <=> offset % n = 0 /\ offset + n <= l
    <2> HIDE DEF mem
    <2> QED
      BY <1>1, <1>2 DEF Reaches, Add
  <1>4. new = [i \in 1 .. l |-> IF i - offset \in 1 .. n THEN put[i - offset] ELSE i]
    <2>1. DOMAIN put = 1 .. n
      BY DEF Fresh
    <2> HIDE DEF put
    <2> QED
      BY <2>1 DEF Stored, Mem
  <1>5. ASSUME offset + n <= l
        PROVE  Bytes(new, offset, n) = put
    <2>1. \A i \in 1 .. n : offset + i \in 1 .. l /\ (offset + i) - offset = i
      BY <1>1, <1>5
    <2>2. \A i \in 1 .. n : new[offset + i] = put[i]
      <3> HIDE DEF put, new
      <3> QED
        BY <1>4, <2>1
    <2>3. DOMAIN new = 1 .. l /\ put = [i \in 1 .. n |-> put[i]]
      BY <1>4 DEF Fresh
    <2> HIDE DEF new, put
    <2> QED
      BY <2>1, <2>2, <2>3 DEF Bytes
  <1>6. \A i \in DOMAIN mem : i - 1 \in offset .. (offset + n - 1) \/ new[i] = mem[i]
    <2> SUFFICES ASSUME NEW i \in 1 .. l, ~(i - 1 \in offset .. (offset + n - 1))
                 PROVE  new[i] = i
      BY DEF Mem
    <2>1. ~(i - offset \in 1 .. n)
      BY <1>1
    <2> HIDE DEF new
    <2> QED
      BY <1>4, <2>1
  <1>7. DOMAIN new = DOMAIN mem
    BY <1>4 DEF Mem
  <1> QED
    BY <1>2, <1>3, <1>5, <1>6, <1>7 DEF Overwritten

LEMMA AccessesLemma ==
  ASSUME Lengths \subseteq 0 .. MaxUsize
  PROVE  AccessesStayInside
  <1> SUFFICES ASSUME NEW l \in Lengths, NEW offset \in 0 .. MaxUsize
               PROVE  LET mem == [i \in 1 .. l |-> i]
                          Put(n) == [i \in 1 .. n |-> l + i]
                          Inside(n) == offset % n = 0 /\ offset + n <= l
                          Kept(n, new) ==
                            /\ DOMAIN new = DOMAIN mem
                            /\ Bytes(new, offset, n) = Put(n)
                            /\ \A i \in DOMAIN mem :
                                 i - 1 \in offset .. (offset + n - 1) \/ new[i] = mem[i]
                          Reading(n, read) ==
                            read = IF Inside(n) THEN {RsRead(mem, offset, n)} ELSE {}
                          Writing(n, write) ==
                            /\ (write # {}) = Inside(n)
                            /\ \A new \in write : Kept(n, new) /\ new = RsWrite(mem, offset, Put(n))
                      IN  /\ Reading(1, read_u8(mem, offset))
                          /\ Reading(4, read_u32(mem, offset))
                          /\ Reading(8, read_u64(mem, offset))
                          /\ Writing(1, write_u8(mem, offset, Put(1)))
                          /\ Writing(4, write_u32(mem, offset, Put(4)))
                          /\ Writing(8, write_u64(mem, offset, Put(8)))
    BY DEF AccessesStayInside
  <1> DEFINE mem == Mem(l)
  <1>1. l \in Nat /\ l \in 0 .. MaxUsize /\ offset \in Nat
    BY ValuesAssumption
  <1>2. \A n \in Nat \ {0} :
          /\ Len(mem) = l
          /\ Reaches(mem, offset, n) <=> Within(l, offset, n)
          /\ Within(l, offset, n) => Overwritten(l, offset, n, Stored(mem, offset, Fresh(l, n)))
    BY <1>1, AccessLemma
  <1>3. offset % 1 = 0
    <2>1. offset % 1 \in 0 .. 0
      BY <1>1, DivMod
    <2> QED
      BY <2>1
  <1>4. offset >= Len(mem) <=> ~Within(l, offset, 1)
    <2>1. Len(mem) = l
      BY <1>2
    <2> QED
      BY <1>1, <1>3, <2>1 DEF Within
  <1> HIDE DEF mem
  <1>5. /\ read_u8(mem, offset) = IF Within(l, offset, 1) THEN {RsRead(mem, offset, 1)} ELSE {}
        /\ read_u32(mem, offset) = IF Within(l, offset, 4) THEN {RsRead(mem, offset, 4)} ELSE {}
        /\ read_u64(mem, offset) = IF Within(l, offset, 8) THEN {RsRead(mem, offset, 8)} ELSE {}
    BY <1>2, <1>4 DEF read_u8, read_u32, read_u64, RsRead
  <1>6. \A put :
          /\ write_u8(mem, offset, put) = IF Within(l, offset, 1) THEN {RsWrite(mem, offset, put)} ELSE {}
          /\ write_u32(mem, offset, put) = IF Within(l, offset, 4) THEN {RsWrite(mem, offset, put)} ELSE {}
          /\ write_u64(mem, offset, put) = IF Within(l, offset, 8) THEN {RsWrite(mem, offset, put)} ELSE {}
    BY <1>2, <1>4 DEF write_u8, write_u32, write_u64, RsWrite
  <1>7. \A n \in Nat \ {0} : Within(l, offset, n) => Overwritten(l, offset, n, RsWrite(mem, offset, Fresh(l, n)))
    BY <1>2 DEF RsWrite
  <1>8. ASSUME NEW n \in {1, 4, 8}, NEW write,
               write = IF Within(l, offset, n) THEN {RsWrite(mem, offset, Fresh(l, n))} ELSE {}
        PROVE  /\ (write # {}) = Within(l, offset, n)
               /\ \A new \in write : Overwritten(l, offset, n, new) /\ new = RsWrite(mem, offset, Fresh(l, n))
    <2>1. Within(l, offset, n) \in BOOLEAN
      BY DEF Within
    <2>2. n \in Nat \ {0}
      OBVIOUS
    <2> QED
      BY <1>7, <1>8, <2>1, <2>2
  <1>9. /\ \A new \in write_u8(mem, offset, Fresh(l, 1)) : Overwritten(l, offset, 1, new) /\ new = RsWrite(mem, offset, Fresh(l, 1))
        /\ (write_u8(mem, offset, Fresh(l, 1)) # {}) = Within(l, offset, 1)
    BY <1>6, <1>8
  <1>10. /\ \A new \in write_u32(mem, offset, Fresh(l, 4)) : Overwritten(l, offset, 4, new) /\ new = RsWrite(mem, offset, Fresh(l, 4))
         /\ (write_u32(mem, offset, Fresh(l, 4)) # {}) = Within(l, offset, 4)
    BY <1>6, <1>8
  <1>11. /\ \A new \in write_u64(mem, offset, Fresh(l, 8)) : Overwritten(l, offset, 8, new) /\ new = RsWrite(mem, offset, Fresh(l, 8))
         /\ (write_u64(mem, offset, Fresh(l, 8)) # {}) = Within(l, offset, 8)
    BY <1>6, <1>8
  <1> QED
    BY <1>5, <1>9, <1>10, <1>11 DEF mem, Mem, Fresh, Within, Overwritten

\* A token of a text is a colon, a dot, a number or something else.
Token == [is: {":", ".", "hex", "else"}, n: Nat]

\* A set of numbers that is not empty has a least one, and it is Least.
LEMMA LeastIsLeast ==
  ASSUME NEW S \in SUBSET Nat, S # {}
  PROVE  Least(S) \in S /\ \A y \in S : Least(S) <= y
  <1> DEFINE Less == {ss \in Nat \X Nat : ss[1] < ss[2]}
  <1>1. IsWellFoundedOn(Less, Nat)
    BY NatLessThanWellFounded, Zenon DEF OpToRel
  <1> HIDE DEF Less
  <1>2. PICK m \in S : \A y \in S : ~(<<y, m>> \in Less)
    BY <1>1, WFMin
  <1>3. \A y \in S : m <= y
    <2> SUFFICES ASSUME NEW y \in S, ~(m <= y)
                 PROVE  FALSE
      OBVIOUS
    <2>1. y \in Nat /\ m \in Nat /\ y < m
      OBVIOUS
    <2>2. <<y, m>> \in Less
      BY <2>1 DEF Less
    <2> QED
      BY <1>2, <2>2
  <1> QED
    BY <1>3 DEF Least

LEMMA LeastAt ==
  ASSUME NEW s \in Seq(Token), NEW is, At(s, is) # {}
  PROVE  /\ Least(At(s, is)) \in At(s, is)
         /\ \A i \in At(s, is) : Least(At(s, is)) <= i
  <1>1. At(s, is) \in SUBSET Nat
    BY DEF At
  <1> QED
    BY <1>1, LeastIsLeast

\* A text whose first token of a kind is its second falls apart around it.
LEMMA Halves ==
  ASSUME NEW s \in Seq(Token), NEW is, 1 \notin At(s, is), 2 \in At(s, is)
  PROVE  /\ Before(s, is) \in Seq(Token) /\ Len(Before(s, is)) = 1 /\ Before(s, is)[1] = s[1]
         /\ After(s, is) \in Seq(Token) /\ Len(After(s, is)) = Len(s) - 2
         /\ \A i \in 1 .. Len(s) - 2 : After(s, is)[i] = s[i + 2]
         /\ Len(s) - 2 \in Nat
  <1>1. Least(At(s, is)) = 2
    <2>1. /\ Least(At(s, is)) \in At(s, is)
          /\ Least(At(s, is)) <= 2
      BY LeastAt
    <2> QED
      BY <2>1 DEF At
  <1>2. 2 \in 1 .. Len(s)
    BY DEF At
  <1>3. Before(s, is) = SubSeq(s, 1, 1) /\ After(s, is) = SubSeq(s, 3, Len(s))
    BY <1>1 DEF Before, After
  <1>4. SubSeq(s, 1, 1) \in Seq(Token) /\ Len(SubSeq(s, 1, 1)) = 1 /\ SubSeq(s, 1, 1)[1] = s[1]
    BY <1>2
  <1>5. /\ SubSeq(s, 3, Len(s)) \in Seq(Token) /\ Len(SubSeq(s, 3, Len(s))) = Len(s) - 2
        /\ \A i \in 1 .. Len(s) - 2 : SubSeq(s, 3, Len(s))[i] = s[i + 2]
    <2>1. Len(SubSeq(s, 3, Len(s))) = Len(s) - 2
      <3>1. CASE Len(s) = 2
        BY <1>2, <3>1
      <3>2. CASE Len(s) >= 3
        BY <1>2, <3>2
      <3>3. Len(s) \in Nat
        OBVIOUS
      <3> DEFINE l == Len(s)
      <3> HIDE DEF l
      <3>4. l \in Nat /\ 2 \in 1 .. l => l = 2 \/ l >= 3
        OBVIOUS
      <3>5. Len(s) = 2 \/ Len(s) >= 3
        BY <1>2, <3>3, <3>4 DEF l
      <3> QED
        BY <3>1, <3>2, <3>5
    <2>2. \A i \in 1 .. Len(s) - 2 : SubSeq(s, 3, Len(s))[i] = s[i + 2]
      BY <1>2
    <2>3. SubSeq(s, 3, Len(s)) \in Seq(Token)
      BY <1>2
    <2> QED
      BY <2>1, <2>2, <2>3
  <1> QED
    BY <1>2, <1>3, <1>4, <1>5

\* It is where one number stands before it.
LEMMA NumberFirst ==
  ASSUME NEW s \in Seq(Token), NEW is \in {":", "."}, NEW max, At(s, is) # {},
         Fits(Before(s, is), max)
  PROVE  /\ 1 \notin At(s, is) /\ 2 \in At(s, is)
         /\ s[1].is = "hex" /\ s[1].n <= max
  <1> DEFINE m == Least(At(s, is))
  <1>1. m \in At(s, is) /\ \A i \in At(s, is) : m <= i
    BY LeastAt
  <1>2. m \in 1 .. Len(s)
    BY <1>1 DEF At
  <1>3. Before(s, is) = SubSeq(s, 1, m - 1)
    BY DEF Before
  <1> HIDE DEF m
  <1>4. Len(SubSeq(s, 1, m - 1)) = m - 1
    BY <1>2
  <1>5. m = 2
    BY <1>2, <1>3, <1>4 DEF Fits
  <1>6. SubSeq(s, 1, 1)[1] = s[1]
    BY <1>2, <1>5
  <1>7. s[1].is = "hex" /\ s[1].n <= max
    BY <1>3, <1>5, <1>6 DEF Fits
  <1> QED
    BY <1>1, <1>5, <1>7 DEF At
\* The texts FromStr reads: with a domain, and without.
Long(s) ==
  /\ Len(s) = 7
  /\ s[1].is = "hex" /\ s[2].is = ":" /\ s[3].is = "hex" /\ s[4].is = ":"
  /\ s[5].is = "hex" /\ s[6].is = "." /\ s[7].is = "hex"
Short(s) ==
  /\ Len(s) = 5
  /\ s[1].is = "hex" /\ s[2].is = ":" /\ s[3].is = "hex" /\ s[4].is = "." /\ s[5].is = "hex"

\* A text of two numbers and what tells them apart, from its i-th token on.
DevFn(s) ==
  /\ At(s, ".") # {}
  /\ Fits(Before(s, "."), U8) /\ Fits(After(s, "."), U8)

LEMMA DevFnRead ==
  ASSUME NEW s \in Seq(Token)
  PROVE  DevFn(s) <=>
           /\ Len(s) = 3 /\ s[1].is = "hex" /\ s[2].is = "." /\ s[3].is = "hex"
           /\ s[1].n <= U8 /\ s[3].n <= U8
  <1>1. ASSUME DevFn(s)
        PROVE  /\ Len(s) = 3 /\ s[1].is = "hex" /\ s[2].is = "." /\ s[3].is = "hex"
               /\ s[1].n <= U8 /\ s[3].n <= U8
    <2>1. /\ 1 \notin At(s, ".") /\ 2 \in At(s, ".")
          /\ s[1].is = "hex" /\ s[1].n <= U8
      BY <1>1, NumberFirst DEF DevFn
    <2>2. /\ Len(After(s, ".")) = Len(s) - 2
          /\ \A i \in 1 .. Len(s) - 2 : After(s, ".")[i] = s[i + 2]
      BY <2>1, Halves
    <2>3. Len(After(s, ".")) = 1 /\ After(s, ".")[1].is = "hex" /\ After(s, ".")[1].n <= U8
      BY <1>1 DEF DevFn, Fits
    <2> DEFINE rest == After(s, ".")
               l == Len(s)
    <2> HIDE DEF rest, l
    <2>4. l \in Nat
      BY DEF l
    <2>5. l = 3
      <3>1. l - 2 = 1
        BY <2>2, <2>3 DEF rest, l
      <3> QED
        BY <2>4, <3>1
    <2>6. rest[1] = s[3]
      BY <2>2, <2>5 DEF rest, l
    <2>7. s[2].is = "."
      BY <2>1 DEF At
    <2> QED
      BY <2>1, <2>3, <2>5, <2>6, <2>7 DEF rest, l
  <1>2. ASSUME Len(s) = 3, s[1].is = "hex", s[2].is = ".", s[3].is = "hex",
               s[1].n <= U8, s[3].n <= U8
        PROVE  DevFn(s)
    <2>1. 1 \notin At(s, ".") /\ 2 \in At(s, ".")
      BY <1>2 DEF At
    <2>2. /\ Len(Before(s, ".")) = 1 /\ Before(s, ".")[1] = s[1]
          /\ Len(After(s, ".")) = Len(s) - 2
          /\ \A i \in 1 .. Len(s) - 2 : After(s, ".")[i] = s[i + 2]
      BY <2>1, Halves
    <2>3. Len(After(s, ".")) = 1 /\ After(s, ".")[1] = s[3]
      BY <1>2, <2>2
    <2> QED
      BY <1>2, <2>1, <2>2, <2>3 DEF DevFn, Fits
  <1> QED
    BY <1>1, <1>2

LEMMA SmallSets ==
  /\ \A S : S = {} => Cardinality(S) = 0
  /\ \A S, x : S = {x} => Cardinality(S) = 1
  BY FS_EmptySet, FS_Singleton, Zenon

LEMMA Pair == Cardinality({2} \cup {4}) = 2
  <1> DEFINE two == {2}
             both == two \cup {4}
  <1>1. IsFiniteSet(two) /\ Cardinality(two) = 1
    BY FS_Singleton, Zenon
  <1>2. 4 \notin two
    OBVIOUS
  <1> HIDE DEF two
  <1>3. Cardinality(both) = Cardinality(two) + 1
    BY <1>1, <1>2, FS_AddElement, Zenon
  <1> HIDE DEF both
  <1>4. Cardinality(both) = 2
    BY <1>1, <1>3
  <1> QED
    BY <1>4 DEF both, two

\* A text without a domain.
Rest(s) ==
  /\ At(s, ":") # {}
  /\ Fits(Before(s, ":"), U8) /\ DevFn(After(s, ":"))

LEMMA RestRead ==
  ASSUME NEW s \in Seq(Token)
  PROVE  Rest(s) <=> Short(s) /\ s[1].n <= U8 /\ s[3].n <= U8 /\ s[5].n <= U8
  <1> DEFINE t == After(s, ":")
             l == Len(s)
  <1>1. l \in Nat
    OBVIOUS
  <1>2. ASSUME Rest(s)
        PROVE  Short(s) /\ s[1].n <= U8 /\ s[3].n <= U8 /\ s[5].n <= U8
    <2>1. /\ 1 \notin At(s, ":") /\ 2 \in At(s, ":")
          /\ s[1].is = "hex" /\ s[1].n <= U8
      BY <1>2, NumberFirst DEF Rest
    <2>2. /\ t \in Seq(Token) /\ Len(t) = l - 2
          /\ \A i \in 1 .. l - 2 : t[i] = s[i + 2]
      BY <2>1, Halves
    <2>3. s[2].is = ":"
      BY <2>1 DEF At
    <2>4. DevFn(t)
      BY <1>2 DEF Rest
    <2> HIDE DEF t, l
    <2>5. /\ Len(t) = 3 /\ t[1].is = "hex" /\ t[2].is = "." /\ t[3].is = "hex"
          /\ t[1].n <= U8 /\ t[3].n <= U8
      BY <2>2, <2>4, DevFnRead
    <2>6. l = 5
      <3>1. l - 2 = 3
        BY <2>2, <2>5
      <3> QED
        BY <1>1, <3>1
    <2>7. t[1] = s[3] /\ t[2] = s[4] /\ t[3] = s[5]
      BY <2>2, <2>6
    <2> QED
      BY <2>1, <2>3, <2>5, <2>6, <2>7 DEF Short, l
  <1>3. ASSUME Short(s), s[1].n <= U8, s[3].n <= U8, s[5].n <= U8
        PROVE  Rest(s)
    <2>1. 1 \notin At(s, ":") /\ 2 \in At(s, ":")
      BY <1>3 DEF At, Short
    <2>2. /\ t \in Seq(Token) /\ Len(t) = l - 2
          /\ \A i \in 1 .. l - 2 : t[i] = s[i + 2]
          /\ Len(Before(s, ":")) = 1 /\ Before(s, ":")[1] = s[1]
      BY <2>1, Halves
    <2>3. l = 5
      BY <1>3 DEF Short
    <2> HIDE DEF t, l
    <2>4. Len(t) = 3 /\ t[1] = s[3] /\ t[2] = s[4] /\ t[3] = s[5]
      BY <2>2, <2>3
    <2>5. DevFn(t)
      BY <1>3, <2>2, <2>4, DevFnRead DEF Short
    <2>6. Fits(Before(s, ":"), U8)
      BY <1>3, <2>2 DEF Fits, Short
    <2> QED
      BY <2>1, <2>5, <2>6 DEF Rest, t
  <1> QED
    BY <1>2, <1>3

\* A text with one.
LEMMA LongRead ==
  ASSUME NEW s \in Seq(Token)
  PROVE  /\ Cardinality(At(s, ":")) = 2
         /\ Fits(Before(s, ":"), U16) /\ Fits(Before(After(s, ":"), ":"), U8)
         /\ DevFn(After(After(s, ":"), ":"))
         <=>
         Long(s) /\ s[1].n <= U16 /\ s[3].n <= U8 /\ s[5].n <= U8 /\ s[7].n <= U8
  <1> DEFINE t == After(s, ":")
             l == Len(s)
             colons == At(s, ":")
  <1>1. l \in Nat
    OBVIOUS
  <1>2. ASSUME Cardinality(colons) = 2,
               Fits(Before(s, ":"), U16), Fits(Before(t, ":"), U8), DevFn(After(t, ":"))
        PROVE  Long(s) /\ s[1].n <= U16 /\ s[3].n <= U8 /\ s[5].n <= U8 /\ s[7].n <= U8
    <2>1. colons # {}
      BY <1>2, FS_EmptySet
    <2>2. /\ 1 \notin colons /\ 2 \in colons
          /\ s[1].is = "hex" /\ s[1].n <= U16
      BY <1>2, <2>1, NumberFirst
    <2>3. /\ t \in Seq(Token) /\ Len(t) = l - 2
          /\ \A i \in 1 .. l - 2 : t[i] = s[i + 2]
      BY <2>2, Halves
    <2>4. PICK j \in colons : j # 2
      <3>1. colons # {2}
        <4>1. Cardinality(colons) = 2
          BY <1>2
        <4> HIDE DEF colons
        <4>2. colons = {2} => Cardinality(colons) = 1
          BY SmallSets, Zenon
        <4> QED
          BY <4>1, <4>2
      <3> HIDE DEF colons
      <3> QED
        BY <2>2, <3>1
    <2>5. j \in Nat /\ j <= l /\ j # 1 /\ s[j].is = ":"
      BY <1>1, <2>2, <2>4 DEF At
    <2>6. s[2].is = ":"
      BY <2>2 DEF At
    <2> HIDE DEF t, l, colons
    <2>7. j - 2 \in 1 .. l - 2 /\ (j - 2) + 2 = j
      <3>1. j > 2
        <4>1. j # 0
          BY <2>4 DEF At, colons
        <4> QED
          BY <2>4, <2>5, <4>1
      <3> QED
        BY <1>1, <2>5, <3>1
    <2>8. j - 2 \in At(t, ":")
      BY <2>3, <2>5, <2>7 DEF At
    <2>9. Rest(t)
      BY <1>2, <2>8 DEF Rest
    <2>10. Short(t) /\ t[1].n <= U8 /\ t[3].n <= U8 /\ t[5].n <= U8
      BY <2>3, <2>9, RestRead
    <2>11. l = 7
      <3>1. l - 2 = 5
        BY <2>3, <2>10 DEF Short
      <3> QED
        BY <1>1, <3>1
    <2>12. t[1] = s[3] /\ t[2] = s[4] /\ t[3] = s[5] /\ t[4] = s[6] /\ t[5] = s[7]
      BY <2>3, <2>11
    <2> QED
      BY <2>2, <2>6, <2>10, <2>11, <2>12 DEF Long, Short, l
  <1>3. ASSUME Long(s), s[1].n <= U16, s[3].n <= U8, s[5].n <= U8, s[7].n <= U8
        PROVE  /\ Cardinality(colons) = 2
               /\ Fits(Before(s, ":"), U16) /\ Fits(Before(t, ":"), U8) /\ DevFn(After(t, ":"))
    <2>1. 1 \notin colons /\ 2 \in colons
      BY <1>3 DEF At, Long
    <2>2. /\ t \in Seq(Token) /\ Len(t) = l - 2
          /\ \A i \in 1 .. l - 2 : t[i] = s[i + 2]
          /\ Len(Before(s, ":")) = 1 /\ Before(s, ":")[1] = s[1]
      BY <2>1, Halves
    <2>3. l = 7
      BY <1>3 DEF Long
    <2>4. colons = {2} \cup {4}
      <3>1. \A i \in 1 .. 7 : s[i].is = ":" <=> i = 2 \/ i = 4
        BY <1>3 DEF Long
      <3> QED
        BY <2>3, <3>1 DEF At
    <2>5. Cardinality({2} \cup {4}) = 2
      BY Pair
    <2> HIDE DEF t, l
    <2>6. Len(t) = 5 /\ t[1] = s[3] /\ t[2] = s[4] /\ t[3] = s[5] /\ t[4] = s[6] /\ t[5] = s[7]
      BY <2>2, <2>3
    <2>7. Short(t) /\ t[1].n <= U8 /\ t[3].n <= U8 /\ t[5].n <= U8
      BY <1>3, <2>6 DEF Short, Long
    <2>8. Rest(t)
      BY <2>2, <2>7, RestRead
    <2>9. Fits(Before(s, ":"), U16)
      BY <1>3, <2>2 DEF Fits, Long
    <2> QED
      BY <2>4, <2>5, <2>8, <2>9 DEF Rest
  <1> QED
    BY <1>2, <1>3

\* What FromStr reads.
LEMMA FromStrReads ==
  ASSUME NEW s \in Seq(Token)
  PROVE  FromStr(s) =
           IF Long(s) /\ s[1].n <= U16 /\ s[3].n <= U8 /\ s[5].n <= U8 /\ s[7].n <= U8
           THEN {New(s[1].n, s[3].n, s[5].n, s[7].n)}
           ELSE IF Short(s) /\ s[1].n <= U8 /\ s[3].n <= U8 /\ s[5].n <= U8
           THEN {New(0, s[1].n, s[3].n, s[5].n)}
           ELSE {}
  <1> DEFINE t == After(s, ":")
             colons == At(s, ":")
             long == Cardinality(colons) = 2
             reads ==
               /\ Cardinality(colons) = 2
               /\ Fits(Before(s, ":"), U16) /\ Fits(Before(t, ":"), U8) /\ DevFn(After(t, ":"))
  <1>1. reads <=> Long(s) /\ s[1].n <= U16 /\ s[3].n <= U8 /\ s[5].n <= U8 /\ s[7].n <= U8
    BY LongRead
  <1>2. Rest(s) <=> Short(s) /\ s[1].n <= U8 /\ s[3].n <= U8 /\ s[5].n <= U8
    BY RestRead
  <1>3. CASE long
    <2>1. FromStr(s) =
            IF reads
            THEN {New(s[1].n, t[1].n, After(t, ":")[1].n, After(t, ":")[3].n)}
            ELSE {}
      BY <1>3 DEF FromStr, DevFn
    <2>2. ~Short(s)
      <3>1. ASSUME Short(s)
            PROVE  FALSE
        <4>1. colons = {2}
          <5>1. \A i \in 1 .. 5 : s[i].is = ":" <=> i = 2
            BY <3>1 DEF Short
          <5>2. Len(s) = 5
            BY <3>1 DEF Short
          <5> QED
            BY <5>1, <5>2 DEF At
        <4>2. Cardinality(colons) = 2
          BY <1>3
        <4> HIDE DEF colons
        <4>3. Cardinality(colons) = 1
          BY <4>1, SmallSets, Zenon
        <4> QED
          BY <4>2, <4>3
      <3> QED
        BY <3>1
    <2>3. ASSUME Long(s)
          PROVE  t[1] = s[3] /\ After(t, ":")[1] = s[5] /\ After(t, ":")[3] = s[7]
      <3>1. 1 \notin At(s, ":") /\ 2 \in At(s, ":")
        BY <2>3 DEF At, Long
      <3>2. /\ t \in Seq(Token) /\ Len(t) = Len(s) - 2
            /\ \A i \in 1 .. Len(s) - 2 : t[i] = s[i + 2]
        BY <3>1, Halves
      <3> DEFINE l == Len(s)
      <3> HIDE DEF t
      <3>7. l = 7
        BY <2>3 DEF Long
      <3>8. Len(t) = l - 2 /\ \A i \in 1 .. l - 2 : t[i] = s[i + 2]
        BY <3>2
      <3> HIDE DEF l
      <3>9. Len(t) = 5
        BY <3>7, <3>8
      <3>3. t[1] = s[3] /\ t[2] = s[4] /\ t[3] = s[5] /\ t[4] = s[6] /\ t[5] = s[7]
        BY <3>7, <3>8
      <3>4. 1 \notin At(t, ":") /\ 2 \in At(t, ":")
        BY <2>3, <3>9, <3>3 DEF At, Long
      <3>5. \A i \in 1 .. Len(t) - 2 : After(t, ":")[i] = t[i + 2]
        BY <3>2, <3>4, Halves
      <3>6. After(t, ":")[1] = t[3] /\ After(t, ":")[3] = t[5]
        <4> DEFINE n == Len(t)
        <4>1. \A i \in 1 .. n - 2 : After(t, ":")[i] = t[i + 2]
          BY <3>5
        <4>2. n = 5
          BY <3>9
        <4> HIDE DEF n
        <4> QED
          BY <4>1, <4>2
      <3> QED
        BY <3>3, <3>6
    <2> HIDE DEF t, reads
    <2> QED
      BY <1>1, <2>1, <2>2, <2>3
  <1>4. CASE ~long
    <2>1. ~reads
      BY <1>4
    <2>2. Rest(s) => Cardinality(colons) = 1
      <3>1. ASSUME Rest(s)
            PROVE  colons = {2}
        <4>1. Short(s)
          BY <1>2, <3>1
        <4>2. \A i \in 1 .. 5 : s[i].is = ":" <=> i = 2
          BY <4>1 DEF Short
        <4>3. Len(s) = 5
          BY <4>1 DEF Short
        <4> QED
          BY <4>2, <4>3 DEF At
      <3> HIDE DEF colons
      <3> QED
        BY <3>1, SmallSets, Zenon
    <2>3. Cardinality(colons) = 1 => colons # {}
      <3> HIDE DEF colons
      <3>1. colons = {} => Cardinality(colons) = 0
        BY SmallSets, Zenon
      <3> QED
        BY <3>1
    <2>4. FromStr(s) = IF Rest(s) THEN {New(0, s[1].n, t[1].n, t[3].n)} ELSE {}
      <3>1. FromStr(s) =
              IF Cardinality(colons) = 1 /\ Fits(Before(s, ":"), U8) /\ DevFn(t)
              THEN {New(0, s[1].n, t[1].n, t[3].n)}
              ELSE {}
        BY <1>4 DEF FromStr, DevFn
      <3>2. Cardinality(colons) = 1 /\ Fits(Before(s, ":"), U8) /\ DevFn(t) <=> Rest(s)
        BY <2>2, <2>3 DEF Rest
      <3> QED
        BY <3>1, <3>2
    <2>5. ASSUME Short(s)
          PROVE  t[1] = s[3] /\ t[3] = s[5]
      <3>1. 1 \notin At(s, ":") /\ 2 \in At(s, ":")
        BY <2>5 DEF At, Short
      <3> DEFINE l == Len(s)
      <3>2. \A i \in 1 .. l - 2 : t[i] = s[i + 2]
        BY <3>1, Halves
      <3>3. l = 5
        BY <2>5 DEF Short
      <3> HIDE DEF t, l
      <3> QED
        BY <3>2, <3>3
    <2> HIDE DEF t, reads
    <2> QED
      BY <1>1, <1>2, <2>1, <2>4, <2>5
  <1> QED
    BY <1>3, <1>4

\* What tt_dev_from_bdf reads is that, and more.
LEMMA ScannedReads ==
  ASSUME NEW s \in Seq(Token)
  PROVE  /\ Long(s) => Scanned(s) = {New(s[1].n, s[3].n, s[5].n, s[7].n)}
         /\ Short(s) => Scanned(s) = {New(0, s[1].n, s[3].n, s[5].n)}
  <1> DEFINE long == <<"hex", ":", "hex", ":", "hex", ".", "hex">>
             short == <<"hex", ":", "hex", ".", "hex">>
             Starts(kinds) == Len(s) >= Len(kinds) /\ \A i \in 1 .. Len(kinds) : s[i].is = kinds[i]
  <1>1. Scanned(s) =
          IF Starts(long) THEN {New(s[1].n, s[3].n, s[5].n, s[7].n)}
          ELSE IF Starts(short) THEN {New(0, s[1].n, s[3].n, s[5].n)} ELSE {}
    BY DEF Scanned
  <1>2. Long(s) => Starts(long)
    BY DEF Long
  <1>3. Short(s) => ~Starts(long) /\ Starts(short)
    BY DEF Short
  <1> HIDE DEF Starts, long, short
  <1> QED
    BY <1>1, <1>2, <1>3

LEMMA AddressesLemma ==
  ASSUME Texts \subseteq Seq(Token)
  PROVE  AddressesResolve
  <1>1. ASSUME NEW a \in Bus
        PROVE  FromStr(Display(a)) = {a} /\ Scanned(Display(a)) = {a}
    <2> DEFINE s == Display(a)
    <2>1. a \in Address
      BY BusAssumption
    <2>2. U16 \in Nat /\ U8 \in Nat
      BY DEF U16, U8
    <2>3. /\ a.domain \in Nat /\ a.bus \in Nat /\ a.device \in Nat /\ a.function \in Nat
          /\ a.domain <= U16 /\ a.bus <= U8 /\ a.device <= U8 /\ a.function <= U8
      BY <2>1, <2>2 DEF Address
    <2>4. a = New(a.domain, a.bus, a.device, a.function)
      BY <2>1 DEF Address, New
    <2>5. s \in Seq(Token)
      <3>1. \A n \in Nat : Hex(n) \in Token
        BY DEF Hex, Token
      <3>2. Colon \in Token /\ Dot \in Token
        BY DEF Colon, Dot, Token
      <3>3. /\ Hex(a.domain) \in Token /\ Hex(a.bus) \in Token
            /\ Hex(a.device) \in Token /\ Hex(a.function) \in Token
        BY <2>3, <3>1
      <3> QED
        BY <3>2, <3>3 DEF Display
    <2>6. Long(s) /\ s[1].n = a.domain /\ s[3].n = a.bus /\ s[5].n = a.device /\ s[7].n = a.function
      BY DEF Display, Long, Hex, Colon, Dot
    <2> HIDE DEF s
    <2> QED
      BY <2>3, <2>4, <2>5, <2>6, FromStrReads, ScannedReads DEF s
  <1>2. ASSUME NEW s \in Texts, FromStr(s) # {}
        PROVE  FromStr(s) \subseteq Address /\ Scanned(s) = FromStr(s)
    <2>1. s \in Seq(Token)
      OBVIOUS
    <2>2. U16 \in Nat /\ U8 \in Nat
      BY DEF U16, U8
    <2>3. \A i \in 1 .. Len(s) : s[i].n \in Nat
      <3>1. \A t \in Token : t.n \in Nat
        BY DEF Token
      <3>2. \A i \in 1 .. Len(s) : s[i] \in Token
        BY <2>1
      <3> QED
        BY <3>1, <3>2
    <2>4. CASE Long(s) /\ s[1].n <= U16 /\ s[3].n <= U8 /\ s[5].n <= U8 /\ s[7].n <= U8
      <3>1. s[1].n \in Nat /\ s[3].n \in Nat /\ s[5].n \in Nat /\ s[7].n \in Nat
        BY <2>3, <2>4 DEF Long
      <3>2. New(s[1].n, s[3].n, s[5].n, s[7].n) \in Address
        BY <2>2, <2>4, <3>1 DEF New, Address
      <3> QED
        BY <2>1, <2>4, <3>2, FromStrReads, ScannedReads
    <2>5. CASE Short(s) /\ s[1].n <= U8 /\ s[3].n <= U8 /\ s[5].n <= U8
      <3>1. s[1].n \in Nat /\ s[3].n \in Nat /\ s[5].n \in Nat
        BY <2>3, <2>5 DEF Short
      <3>2. New(0, s[1].n, s[3].n, s[5].n) \in Address
        BY <2>2, <2>5, <3>1 DEF New, Address
      <3>3. ~Long(s)
        BY <2>5 DEF Short, Long
      <3> QED
        BY <2>1, <2>5, <3>2, <3>3, FromStrReads, ScannedReads
    <2> QED
      BY <1>2, <2>1, <2>4, <2>5, FromStrReads
  <1> QED
    BY <1>1, <1>2 DEF AddressesResolve

\* What the definitions are checked with is what the program can be given: texts,
\* points in time, windows that fit in the address space, and an unsigned type of
\* one bit or more.
Inputs ==
  /\ Texts \subseteq Seq(Token) /\ Times \subseteq Nat
  /\ Lengths \subseteq 0 .. MaxUsize /\ MaxU32 > 0

\* The conversions of both bindings are exact: every address that is displayed is
\* read back, and every text that Rust reads tt_dev_from_bdf reads alike, however
\* long it is; no timeout of a millisecond or more becomes the driver's default;
\* the clock's difference is the elapsed time; an access to a window is aligned,
\* stays inside and changes nothing else, whatever its size and the offset; and
\* names, versions and messages mean in both what they mean in the header.
THEOREM DiscoveryConversionsExact ==
  ASSUME Inputs
  PROVE  ConversionsAreExact
  <1>1. AddressesResolve
    BY AddressesLemma DEF Inputs
  <1>2. TimeoutsAgree /\ ElapsedIsElapsed
    BY TimeoutsLemma, ElapsedLemma DEF Inputs
  <1>3. AccessesStayInside
    BY AccessesLemma DEF Inputs
  <1> QED
    BY <1>1, <1>2, <1>3, EnumLemma, VersionsLemma, MessagesLemma DEF ConversionsAreExact
==============================================================================
