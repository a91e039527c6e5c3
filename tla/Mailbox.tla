------------------------------- MODULE Mailbox -------------------------------
(***************************************************************************)
(* What a session promises for SMC messages (ttdal.h, MESSAGING): a box    *)
(* that holds at most one message, from the post that puts it there until  *)
(* its own reply is retrieved or the message is given up.                  *)
(***************************************************************************)
CONSTANTS Client, Req, NoReq

VARIABLES
  box,    \* the client's outstanding message, or NoReq
  rsp     \* the reply it retrieved last, named by the message it answers

mailVars == <<box, rsp>>

Init ==
  /\ box = [c \in Client |-> NoReq]
  /\ rsp = [c \in Client |-> NoReq]

Post(c) ==
  /\ box[c] = NoReq
  /\ \E r \in Req : box' = [box EXCEPT ![c] = r]
  /\ UNCHANGED rsp

Retrieve(c) ==
  /\ box[c] # NoReq
  /\ rsp' = [rsp EXCEPT ![c] = box[c]]
  /\ box' = [box EXCEPT ![c] = NoReq]

\* Dropped, consumed by a failed exchange, or lost with the session.
GiveUp(S) ==
  /\ box' = [c \in Client |-> IF c \in S THEN NoReq ELSE box[c]]
  /\ UNCHANGED rsp

Next ==
  \/ \E c \in Client : Post(c) \/ Retrieve(c)
  \/ \E S \in SUBSET Client : GiveUp(S)

Spec == Init /\ [][Next]_mailVars
==============================================================================
