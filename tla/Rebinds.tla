-------------------------------- MODULE Rebinds --------------------------------
(***************************************************************************)
(* Pointers into TLB windows that users have saved (src/src/dev/tlb.c,     *)
(* tt_tlb_bind): Tlb with a history variable, the address each handle had  *)
(* before its latest bind.  Tlb's own steps are as they are in Tlb.        *)
(***************************************************************************)
EXTENDS Tlb

VARIABLE
  prior      \* where a handle pointed before its latest tt_tlb_bind

rebindVars == <<tlbVars, prior>>

\* A tt_tlb_bind of handle h is in progress.
Binding(h) ==
  LET c == Owner[h]
  IN  call[c].h = h /\ call[c].at \in {"configure", "replace", "cleanup"}

RebindsInit == TlbInit /\ prior = [h \in Handle |-> NoAddr]

\* A bind puts the pointer of its handle on record.  A handle that points nowhere, since
\* it was freed, its bind failed or its process died, has nothing on record.
Record ==
  prior' = [h \in Handle |->
              IF ~Binding(h) /\ Binding(h)' THEN tlb[h].ptr
              ELSE IF tlb'[h].ptr = NoAddr /\ ~Binding(h)' THEN NoAddr
              ELSE prior[h]]

RebindsSpec == RebindsInit /\ [][TlbNext /\ Record]_rebindVars

------------------------------------------------------------------------------
(* Properties.                                                              *)

\* Once a bind of a handle has returned, the pointer that it replaced does not reach
\* the handle's window, which now shows other device memory: the new address is not
\* the old one, and no mapping made since then shows that window at the old one.
StalePointersMiss ==
  \A h \in Handle :
    prior[h] # NoAddr /\ tlb[h].ptr # NoAddr /\ ~Binding(h)
    => ~(vma[prior[h]] = vma[tlb[h].ptr] /\ shows[prior[h]] = tlb[h].id)
==============================================================================
