------------------------------- MODULE Telemetry -------------------------------
(***************************************************************************)
(* tt_telemetry (src/src/dev/telem.c): threads of one process, each with a *)
(* session of its own, read the table that the firmware keeps writing,     *)
(* under the guard of module Trap, while the device is reset and the       *)
(* application uses windows and a handler of its own.                      *)
(*                                                                         *)
(* Module Tlb shows what the TLB calls do; here each is one step.  A tag's *)
(* value is the number of the firmware's update that wrote it, and zero is *)
(* what memset leaves.  An absent session and an unsupported architecture, *)
(* which only return, are left out.                                        *)
(***************************************************************************)
EXTENDS Naturals, Trap

CONSTANTS
  LastTag,     \* the tags are 1 .. LastTag, read in that order
  Heartbeat,   \* TT_TAG_TIMER_HEARTBEAT
  MaxUpdates,  \* bound on the firmware's updates
  Tries        \* attempts at a coherent snapshot: 3

ASSUME TelemetryAssumption ==
  /\ LastTag \in Nat
  /\ Heartbeat \in 1 .. LastTag
  /\ MaxUpdates \in Nat \ {0}
  /\ Tries \in Nat \ {0}

VARIABLES
  cell,      \* the firmware's table: the update each tag is from
  tags,      \* the tags the firmware reports
  own,       \* where the application has mapped a window of its own
  zapped,    \* the mapped addresses that a reset has made fault
  severed,   \* the thread's session is severed
  holds,     \* tlb.id is allocated to the thread's description
  map,       \* tlb.ptr
  at,        \* the point the thread has reached in tt_telemetry
  csm,       \* the window is bound to the CSM, no longer to the APB
  snap,      \* locals of snapshot: the attempt, the heartbeat, the next tag
  table,     \* the caller's table
  ret        \* errno on the way out and after the call, or OK

deviceVars == <<cell, tags>>
mapVars == <<own, zapped>>
sessVars == <<severed, holds, map>>
readVars == <<at, csm, snap, table, ret>>
telemetryVars == <<trapVars, deviceVars, mapVars, sessVars, readVars>>

Tag == 1 .. LastTag
Guarded == {"pointers", "layout", "tick", "read", "check"}
Points == Guarded \cup {"idle", "alloc", "bind", "arm", "cleanup"}
Codes == {"OK", "ECONNRESET", "ENOMEM", "EIO"}
Snap == [try: 0 .. Tries - 1, tick: 0 .. MaxUpdates, tag: Tag]

TelemetryTypeOK ==
  /\ TrapTypeOK
  /\ cell \in [Tag -> 1 .. MaxUpdates]
  /\ tags \subseteq Tag
  /\ own \in Addr \cup {NoAddr}
  /\ zapped \subseteq Addr
  /\ severed \in [Thread -> BOOLEAN]
  /\ holds \in [Thread -> BOOLEAN]
  /\ map \in [Thread -> Addr \cup {NoAddr}]
  /\ at \in [Thread -> Points]
  /\ csm \in [Thread -> BOOLEAN]
  /\ snap \in [Thread -> Snap]
  /\ table \in [Thread -> [Tag -> 0 .. MaxUpdates]]
  /\ ret \in [Thread -> Codes]

Zeroes == [g \in Tag |-> 0]
Locals(try, tick, tag) == [try |-> try, tick |-> tick, tag |-> tag]

TelemetryInit ==
  /\ TrapInit
  /\ cell = [g \in Tag |-> 1]
  /\ tags \in {Tag, Tag \ {Heartbeat}}
  /\ own = NoAddr
  /\ zapped = {}
  /\ severed = [t \in Thread |-> FALSE]
  /\ holds = [t \in Thread |-> FALSE]
  /\ map = [t \in Thread |-> NoAddr]
  /\ at = [t \in Thread |-> "idle"]
  /\ csm = [t \in Thread |-> FALSE]
  /\ snap = [t \in Thread |-> Locals(0, 0, 1)]
  /\ table = [t \in Thread |-> Zeroes]
  /\ ret = [t \in Thread |-> "OK"]

------------------------------------------------------------------------------
(* Helpers.                                                                 *)

Goto(t, p) == at' = [at EXCEPT ![t] = p]

\* errno is e and the call goes on at p.
Fail(t, p, e) == Goto(t, p) /\ ret' = [ret EXCEPT ![t] = e]

FreeAddrs == Addr \ ({own} \cup {map[t] : t \in Thread})

\* Thread t's window is mapped at address a and nowhere else.
MapAt(t, a) ==
  /\ map' = [map EXCEPT ![t] = a]
  /\ zapped' = zapped \ {a, map[t]}
  /\ UNCHANGED own

\* Thread t accesses its window, which has not been zapped.
Accesses(t) ==
  /\ map[t] \notin zapped
  /\ UNCHANGED <<trapVars, deviceVars, mapVars, sessVars, csm>>

------------------------------------------------------------------------------
(* tt_telemetry.                                                            *)

\* Up to tt_dev_info, which fails on a severed session.
Start(t) ==
  /\ at[t] = "idle"
  /\ IF severed[t]
     THEN /\ Fail(t, "idle", "ECONNRESET")
          /\ UNCHANGED <<csm, snap, table>>
     ELSE /\ Fail(t, "alloc", "OK")
          /\ table' = [table EXCEPT ![t] = Zeroes]
          /\ snap' = [snap EXCEPT ![t] = Locals(0, 0, 1)]
          /\ csm' = [csm EXCEPT ![t] = FALSE]
  /\ UNCHANGED <<trapVars, deviceVars, mapVars, sessVars>>

\* tt_tlb_alloc, which fails at will for want of a window.
Alloc(t) ==
  /\ at[t] = "alloc"
  /\ \/ /\ ~severed[t]
        /\ holds' = [holds EXCEPT ![t] = TRUE]
        /\ Goto(t, "bind")
        /\ UNCHANGED ret
     \/ /\ Fail(t, "idle", IF severed[t] THEN "ECONNRESET" ELSE "ENOMEM")
        /\ UNCHANGED holds
  /\ UNCHANGED <<trapVars, deviceVars, mapVars, severed, map, csm, snap, table>>

\* tt_tlb_bind: a new address, or none if it fails.
Bind(t) ==
  /\ at[t] = "bind"
  /\ \/ /\ ~severed[t]
        /\ \E a \in FreeAddrs : MapAt(t, a)
        /\ Goto(t, "arm")
        /\ UNCHANGED ret
     \/ /\ severed[t] \/ FreeAddrs = {}
        /\ MapAt(t, NoAddr)
        /\ Fail(t, "cleanup", IF severed[t] THEN "ECONNRESET" ELSE "ENOMEM")
  /\ UNCHANGED <<trapVars, deviceVars, severed, holds, csm, snap, table>>

\* The installation, by whichever call is the first to arm a range.
ArmInstall(t) ==
  /\ at[t] = "arm"
  /\ Install
  /\ UNCHANGED <<deviceVars, mapVars, sessVars, readVars>>

\* The guard is armed and the recovery point taken.
Arm(t) ==
  /\ at[t] = "arm"
  /\ tt_trap_arm(t, map[t])
  /\ Goto(t, IF csm[t] THEN "layout" ELSE "pointers")
  /\ UNCHANGED <<deviceVars, mapVars, sessVars, csm, snap, table, ret>>

\* A guarded access to a zapped window faults.
ReadFaults(t) ==
  /\ at[t] \in Guarded
  /\ map[t] \in zapped
  /\ Fault(t, map[t], "library")
  /\ IF Recovers(t, map[t]) THEN Fail(t, "cleanup", "ECONNRESET") ELSE UNCHANGED <<at, ret>>
  /\ UNCHANGED <<deviceVars, mapVars, sessVars, csm, snap, table>>

\* The pointers into the CSM are read, and the guard disarmed for the rebind.
ReadPointers(t) ==
  /\ at[t] = "pointers"
  /\ map[t] \notin zapped
  /\ \/ /\ tt_trap_disarm(t)
        /\ csm' = [csm EXCEPT ![t] = TRUE]
        /\ Goto(t, "bind")
        /\ UNCHANGED ret
     \/ Fail(t, "cleanup", "EIO") /\ UNCHANGED <<trapVars, csm>>
  /\ UNCHANGED <<deviceVars, mapVars, sessVars, snap, table>>

\* snapshot: the offset of each tag, which must not be given twice.
ReadLayout(t) ==
  /\ at[t] = "layout"
  /\ Accesses(t)
  /\ \/ Goto(t, "tick") /\ UNCHANGED ret
     \/ Fail(t, "cleanup", "EIO")
  /\ UNCHANGED <<snap, table>>

\* The heartbeat of an attempt, 0 if there is none.
ReadTick(t) ==
  /\ at[t] = "tick"
  /\ Accesses(t)
  /\ LET tick == IF Heartbeat \in tags THEN cell[Heartbeat] ELSE 0
     IN  snap' = [snap EXCEPT ![t] = Locals(@.try, tick, 1)]
  /\ Goto(t, "read")
  /\ UNCHANGED <<table, ret>>

\* One tag of an attempt.
ReadTag(t) ==
  LET g == snap[t].tag
  IN  /\ at[t] = "read"
      /\ Accesses(t)
      /\ table' = IF g \in tags THEN [table EXCEPT ![t] = [@ EXCEPT ![g] = cell[g]]] ELSE table
      /\ IF g = LastTag
         THEN Goto(t, "check") /\ UNCHANGED snap
         ELSE /\ snap' = [snap EXCEPT ![t] = Locals(@.try, @.tick, g + 1)]
              /\ UNCHANGED at
      /\ UNCHANGED ret

\* Mutant: the heartbeat is compared with the copy in the table.
CoherentCopy(t) == Heartbeat \in tags => snap[t].tick = table[t][Heartbeat]
\* The attempt succeeded: the heartbeat is what it was before.
Coherent(t) == Heartbeat \in tags => snap[t].tick = cell[Heartbeat]

\* There is an attempt left.
Again(t) == snap[t].try + 1 < Tries

\* The end of an attempt.
Check(t) ==
  /\ at[t] = "check"
  /\ Accesses(t)
  /\ IF Coherent(t)
     THEN Goto(t, "cleanup") /\ UNCHANGED <<snap, table, ret>>
     ELSE /\ table' = [table EXCEPT ![t] = Zeroes]
          /\ IF Again(t)
             THEN /\ snap' = [snap EXCEPT ![t] = Locals(@.try + 1, @.tick, @.tag)]
                  /\ Goto(t, "tick")
                  /\ UNCHANGED ret
             ELSE Fail(t, "cleanup", "EIO") /\ UNCHANGED snap

\* Mutants: the guard is left armed; the window is left allocated and mapped.
CleanupArmed(t) ==
  /\ at[t] = "cleanup"
  /\ MapAt(t, NoAddr)
  /\ holds' = [holds EXCEPT ![t] = @ /\ severed[t]]
  /\ Goto(t, "idle")
  /\ UNCHANGED <<trapVars, deviceVars, severed, csm, snap, table, ret>>
CleanupKeeps(t) ==
  /\ at[t] = "cleanup"
  /\ tt_trap_disarm(t)
  /\ IF ret[t] = "OK"
     THEN MapAt(t, NoAddr) /\ holds' = [holds EXCEPT ![t] = @ /\ severed[t]]
     ELSE UNCHANGED <<mapVars, map, holds>>
  /\ Goto(t, "idle")
  /\ UNCHANGED <<deviceVars, severed, csm, snap, table, ret>>

\* Both ends: the guard is disarmed and the window unmapped and, unless the
\* session is severed, freed; the errno is kept.
Cleanup(t) ==
  /\ at[t] = "cleanup"
  /\ tt_trap_disarm(t)
  /\ MapAt(t, NoAddr)
  /\ holds' = [holds EXCEPT ![t] = @ /\ severed[t]]
  /\ Goto(t, "idle")
  /\ UNCHANGED <<deviceVars, severed, csm, snap, table, ret>>

ReadStep(t) ==
  \/ Start(t) \/ Alloc(t) \/ Bind(t) \/ ArmInstall(t) \/ Arm(t)
  \/ ReadFaults(t) \/ ReadPointers(t) \/ ReadLayout(t)
  \/ ReadTick(t) \/ ReadTag(t) \/ Check(t) \/ Cleanup(t)

------------------------------------------------------------------------------
(* The surroundings.                                                        *)

\* The firmware writes a word: each of its updates writes every tag, in any
\* order, before the next one begins.
FwWrite ==
  /\ \E g \in Tag :
       /\ cell[g] < MaxUpdates
       /\ \A h \in Tag : cell[g] <= cell[h]
       /\ cell' = [cell EXCEPT ![g] = @ + 1]
  /\ UNCHANGED <<trapVars, tags, mapVars, sessVars, readVars>>

\* An out-of-band reset severs the sessions and zaps the mappings.
DevReset ==
  /\ severed' = [t \in Thread |-> TRUE]
  /\ zapped' = Addr \ FreeAddrs
  /\ UNCHANGED <<trapVars, deviceVars, own, holds, map, readVars>>

\* tt_reopen: a new description, without windows.
Reopen(t) ==
  /\ at[t] = "idle" /\ severed[t]
  /\ severed' = [severed EXCEPT ![t] = FALSE]
  /\ holds' = [holds EXCEPT ![t] = FALSE]
  /\ UNCHANGED <<trapVars, deviceVars, mapVars, map, readVars>>

\* The application binds or frees a window, or covers the guard's handler.
AppBind ==
  /\ IF own = NoAddr THEN own' \in FreeAddrs ELSE own' = NoAddr
  /\ zapped' = zapped \ {own, own'}
  /\ UNCHANGED <<trapVars, deviceVars, sessVars, readVars>>

AppCover == Cover /\ UNCHANGED <<deviceVars, mapVars, sessVars, readVars>>

\* The application, between calls of the thread, accesses its window.
AppFaults(t) ==
  /\ at[t] = "idle"
  /\ own \in zapped
  /\ Fault(t, own, "application")
  /\ UNCHANGED <<deviceVars, mapVars, sessVars, readVars>>

TelemetryNext ==
  /\ Alive
  /\ \/ \E t \in Thread : ReadStep(t) \/ Reopen(t) \/ AppFaults(t)
     \/ FwWrite \/ DevReset \/ AppBind \/ AppCover

TelemetrySpec == TelemetryInit /\ [][TelemetryNext]_telemetryVars

------------------------------------------------------------------------------
(* Properties.                                                              *)

\* A reset in the middle of a telemetry read never ends the process, whatever
\* other threads arm and whatever handler covers the guard (DESIGN.md, "Fault
\* Recovery").
ReadsSurvive == fate.who # "library"

\* A fault of the application is never recovered by the library, and reaches
\* the handler installed before the guard if there is one (trap.h,
\* tt_trap_arm), except while the guard is being installed, when its copy of
\* that handler is not yet written.
OthersCrash ==
  /\ fate.end # "lost"
  /\ fate.end = "killed" => before = "default" \/ once = "running"

\* After a call its window is unmapped and, on a session that is not severed,
\* given back, whatever the call returned (telem.c, `cleanup`).
WindowReturned ==
  \A t \in Thread :
    at[t] = "idle" => map[t] = NoAddr /\ (holds[t] => severed[t])

\* A table returned has every tag the firmware reports, and, if it reports its
\* heartbeat, no value is more than one update away from it (telem.c, snapshot).
SnapshotWithinAnUpdate ==
  \A t \in Thread : at[t] = "idle" /\ ret[t] = "OK" /\ csm[t] =>
    \A g \in tags :
      /\ table[t][g] # 0
      /\ Heartbeat \in tags => /\ table[t][g] <= snap[t].tick + 1
                               /\ snap[t].tick <= table[t][g] + 1
==============================================================================
