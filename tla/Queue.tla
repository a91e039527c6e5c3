---------------------------------- MODULE Queue ----------------------------------
(***************************************************************************)
(* Handles to posted SMC messages in the bindings                          *)
(* (src/bind/rs/src/dev/smc, src/bind/py/src/dev/smc.rs), over the         *)
(* library's calls (module Smc).                                           *)
(*                                                                         *)
(* A Rust session belongs to one thread, and a Queued borrows it mutably:  *)
(* nothing else is done with the session while the handle exists.  The     *)
(* threads of a Python program share a session and any number of handles   *)
(* to it: one thread can be in Session.call, without the interpreter lock, *)
(* while others post, poll and drop; reopening and closing need a session  *)
(* that nobody uses.  Refused borrows are no steps.                        *)
(***************************************************************************)
EXTENDS Smc

CONSTANTS
  Rust,       \* the clients that are Rust sessions; the others are Python's
  Handle,
  NoClient

ASSUME QueueAssumption ==
  /\ Rust \subseteq Client
  /\ NoClient \notin Client

VARIABLES
  sess,      \* the session of a Queued, NoClient if there is no such handle
  asked,     \* the message it was posted with
  done,      \* queued.done
  called,    \* the message of the call in progress
  strayed    \* a Python session was reopened under a handle, polled by one that
             \* is done, or posted on when a failed call had yet to drop

queueVars == <<sess, asked, done, called, strayed>>
allVars == <<smcVars, queueVars>>

QueueTypeOK ==
  /\ SmcTypeOK
  /\ sess \in [Handle -> Client \cup {NoClient}]
  /\ asked \in [Handle -> MaybeReq]
  /\ done \in [Handle -> BOOLEAN]
  /\ called \in [Client -> MaybeReq]
  /\ strayed \in [Client -> BOOLEAN]
  /\ \A h \in Handle : sess[h] \in Rust => \A g \in Handle : sess[g] = sess[h] => g = h

QueueInit ==
  /\ SmcInit
  /\ sess = [h \in Handle |-> NoClient]
  /\ asked = [h \in Handle |-> NoReq]
  /\ done = [h \in Handle |-> FALSE]
  /\ called = [c \in Client |-> NoReq]
  /\ strayed = [c \in Client |-> FALSE]

------------------------------------------------------------------------------
(* Helpers.                                                                 *)

\* What a handle does leaves the session, and a wait in progress on it, alone.
handleSame == <<sessionVars, waitVars, called>>

Handles(c) == {h \in Handle : sess[h] = c}
Pending(c) == {h \in Handles(c) : ~done[h]}

\* Borrows: a Rust session is free to use, a Python session can be shared, and a
\* Python session can be borrowed mutably.
Free(c) == c \in Rust /\ Handles(c) = {} /\ CanCall(c)
Shared(c) == c \notin Rust /\ pc[c] = "idle"
Exclusively(c) == Shared(c) /\ spc[c] = "idle"

\* A handle to message q is made, on session c.
Made(h, c, q) ==
  /\ sess[h] = NoClient
  /\ sess' = [sess EXCEPT ![h] = c]
  /\ asked' = [asked EXCEPT ![h] = q]
  /\ done' = [done EXCEPT ![h] = FALSE]

\* The handle is gone.
Gone(h) ==
  /\ sess' = [sess EXCEPT ![h] = NoClient]
  /\ asked' = [asked EXCEPT ![h] = NoReq]
  /\ done' = [done EXCEPT ![h] = FALSE]

------------------------------------------------------------------------------
(* Rust.                                                                    *)

\* Mutant: a wait that timed out has consumed the message.
SettleAll(h, r, retry) == done' = [done EXCEPT ![h] = TRUE]

\* Queued::settle: an attempt to read the reply ended in r.
Settle(h, r, retry) == done' = [done EXCEPT ![h] = (r # retry)]

\* Session::post, which is Queued::post: a handle only if the post succeeds.
RsPost(c, q) ==
  /\ Free(c)
  /\ \E r \in Codes :
       /\ Post(c, q, r)
       /\ IF r = "OK" THEN \E h \in Handle : Made(h, c, q) ELSE UNCHANGED <<sess, asked, done>>
  /\ UNCHANGED <<handleSame, rsp, strayed>>

\* Session::call, up to its first poll.
RsCall(c, q) ==
  /\ Free(c)
  /\ SmcCall(c, q)
  /\ called' = [called EXCEPT ![c] = IF spc'[c] = "idle" THEN NoReq ELSE q]
  /\ UNCHANGED <<sess, asked, done, strayed>>

\* Queued::try_wait.
RsTryWait(h) ==
  /\ sess[h] \in Rust /\ spc[sess[h]] = "idle"
  /\ \E r \in Codes : tt_smc_poll(sess[h], r) /\ Settle(h, r, "EAGAIN")
  /\ UNCHANGED <<handleSame, sess, asked, strayed>>

\* Queued::wait, up to its first poll.
RsWait(h) ==
  /\ sess[h] \in Rust
  /\ SmcWait(sess[h])
  /\ IF spc'[sess[h]] = "idle" THEN Settle(h, ret'[sess[h]], "ETIMEDOUT") ELSE UNCHANGED done
  /\ UNCHANGED <<sess, asked, called, strayed>>

\* Drop for Queued: unless the reply was taken, the message is dropped.
RsDrop(h) ==
  /\ sess[h] \in Rust /\ spc[sess[h]] = "idle"
  /\ IF done[h] THEN UNCHANGED driverVars
     ELSE \E r \in Codes : tt_smc_drop(sess[h], r)
  /\ Gone(h)
  /\ UNCHANGED <<handleSame, rsp, strayed>>

------------------------------------------------------------------------------
(* Python.                                                                  *)

\* Session.post.
PyPost(c, q) ==
  /\ Shared(c)
  /\ \E r \in Codes :
       /\ Post(c, q, r)
       /\ IF r = "OK" THEN \E h \in Handle : Made(h, c, q) ELSE UNCHANGED <<sess, asked, done>>
  /\ UNCHANGED <<handleSame, rsp, strayed>>

\* Session.call, up to its first poll: on a copy of the session, which stays
\* borrowed.
PyCall(c, q) ==
  /\ Exclusively(c)
  /\ SmcCall(c, q)
  /\ called' = [called EXCEPT ![c] = IF spc'[c] = "idle" THEN NoReq ELSE q]
  /\ UNCHANGED <<sess, asked, done, strayed>>

\* Queued.poll: whether or not the handle is done.
PyPoll(h) ==
  /\ sess[h] # NoClient /\ Shared(sess[h])
  /\ \E r \in Codes :
       /\ tt_smc_poll(sess[h], r)
       /\ done' = [done EXCEPT ![h] = @ \/ r # "EAGAIN"]
  /\ strayed' = [strayed EXCEPT ![sess[h]] = @ \/ done[h]]
  /\ UNCHANGED <<handleSame, sess, asked>>

\* Mutant: a discarded or answered handle drops what is outstanding now.
DiscardTwice(h) ==
  IF Shared(sess[h]) THEN \E r \in Codes : tt_smc_drop(sess[h], r) ELSE UNCHANGED driverVars

\* Queued::discard, once: a session that is being reopened or reset loses the
\* message anyway.
Discard(h) ==
  IF done[h] \/ ~Shared(sess[h]) THEN UNCHANGED driverVars
  ELSE \E r \in Codes : tt_smc_drop(sess[h], r)

\* Queued.drop and __exit__.
PyDrop(h) ==
  /\ sess[h] \notin Rust \cup {NoClient}
  /\ Discard(h)
  /\ done' = [done EXCEPT ![h] = TRUE]
  /\ UNCHANGED <<handleSame, rsp, sess, asked, strayed>>

\* Drop for Queued.
PyCollect(h) ==
  /\ sess[h] \notin Rust \cup {NoClient}
  /\ Discard(h)
  /\ Gone(h)
  /\ UNCHANGED <<handleSame, rsp, strayed>>

------------------------------------------------------------------------------
(* Both.                                                                    *)

\* A session is opened, closed or reopened.  The message of a Python handle goes
\* with the description it was posted on, and the handle then is on the next.
Lifecycle(c) ==
  /\ IF c \in Rust THEN Handles(c) = {} ELSE TRUE
  /\ spc[c] = "idle"
  /\ LifecycleStep(c)
  /\ Abandon
  /\ strayed' = [strayed EXCEPT ![c] = @ \/ Pending(c) # {}]
  /\ UNCHANGED <<waitVars, rsp, sess, asked, done, called>>

\* The wait or the call in progress on c goes on.
Waiting(c) ==
  /\ WaitStep(c)
  /\ called' = [called EXCEPT ![c] = IF spc'[c] = "idle" THEN NoReq ELSE @]
  /\ IF c \in Rust /\ ~inCall[c] /\ spc'[c] = "idle"
     THEN \E h \in Handles(c) : Settle(h, ret'[c], "ETIMEDOUT")
     ELSE UNCHANGED done
  /\ strayed' = [strayed EXCEPT ![c] = @ \/ (spc[c] = "drop" /\ Pending(c) # {})]
  /\ UNCHANGED <<sess, asked>>

QueueOutside ==
  /\ \/ \E f \in File : Dispatch(f) \/ FailExchange(f)
     \/ Answer \/ SmcTick \/ SmcOutside
  /\ UNCHANGED queueVars

QueueNext ==
  \/ \E c \in Client, q \in Req : RsPost(c, q) \/ RsCall(c, q) \/ PyPost(c, q) \/ PyCall(c, q)
  \/ \E h \in Handle : RsTryWait(h) \/ RsWait(h) \/ RsDrop(h) \/ PyPoll(h) \/ PyDrop(h) \/ PyCollect(h)
  \/ \E c \in Client : Lifecycle(c) \/ Waiting(c)
  \/ QueueOutside

QueueSpec == QueueInit /\ [][QueueNext]_allVars

------------------------------------------------------------------------------
(* Properties.                                                              *)

\* Session c's message leaves the box.
Emptied(c) == Outstanding(c) # NoReq /\ Outstanding(c)' = NoReq

\* A reply that a handle or a call returns answers the message that the handle or
\* the call posted, and a handle drops no other message: on a Rust session always,
\* for the handle borrows it, on a Python one until a handle strays (msg.rs, "which
\* the borrow enforces").
OwnMessages ==
  [][/\ \A c \in Client : \A h \in Handles(c) :
          /\ done'[h] # done[h] \/ sess'[h] # c
          /\ ~strayed'[c] /\ Emptied(c)
          => Outstanding(c) = asked[h]
     /\ \A c \in Client :
          called[c] # NoReq /\ called'[c] = NoReq /\ ret'[c] = "OK" /\ ~strayed[c]
          => rsp'[c] = called[c]]_allVars

\* Once its handles are gone or done and no call is in progress, a session holds
\* no message, and the next post is not refused: on a Python session until a
\* handle strays (msg.rs, Queued::settle: "only `retry` needs a drop later").
NothingLeftBehind ==
  \A c \in Client :
    /\ Pending(c) = {} /\ called[c] = NoReq /\ ~strayed[c]
    /\ FileOf(c) \in File /\ st[FileOf(c)] = "live"
    => phase[FileOf(c)] = "none"
==============================================================================
