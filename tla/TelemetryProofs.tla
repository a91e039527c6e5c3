---------------------------- MODULE TelemetryProofs ----------------------------
(***************************************************************************)
(* Theorems about Trap and Telemetry, for any number of threads, addresses,*)
(* tags, updates and attempts.                                             *)
(*                                                                         *)
(* The invariant GuardInv says when the guard is armed, and that it is the *)
(* thread's own window; from it follows who can be recovered, and who ends *)
(* the process.  SnapInv says what an attempt has read, and how far that   *)
(* can be from the heartbeat it began with.                                *)
(***************************************************************************)
EXTENDS Telemetry, TLAPS

------------------------------------------------------------------------------
(* Types.                                                                   *)

\* Every path of the handler (trap.c, handler) leaves the guard's state typed.
LEMMA FaultTypes ==
  ASSUME TrapTypeOK, NEW t \in Thread, NEW a, NEW who \in {"library", "application"},
         Fault(t, a, who)
  PROVE  TrapTypeOK'
  <1>1. CASE disp = "guard" /\ Recovers(t, a) /\ Recover(t, who)
    BY <1>1 DEF TrapTypeOK, Recover, Ends
  <1>2. CASE disp = "guard" /\ Chain(who)
    BY <1>2, SMTT(60) DEF TrapTypeOK, Chain, Ends
  <1>3. CASE disp = "over" /\ RaiseAgain(t, who)
    BY <1>3, SMTT(60) DEF TrapTypeOK, RaiseAgain, Ends
  <1>4. CASE /\ disp = "before"
             /\ Ends(IF before = "handler" THEN "handled" ELSE "killed", who)
             /\ UNCHANGED <<once, before, prev, disp, armed>>
    BY <1>4 DEF TrapTypeOK, Ends
  <1> QED BY <1>1, <1>2, <1>3, <1>4 DEF Fault

\* The locals of snapshot (telem.c, snapshot) are typed if their parts are.
LEMMA LocalsTypes ==
  ASSUME NEW try \in 0 .. Tries - 1, NEW tick \in 0 .. MaxUpdates, NEW tag \in Tag
  PROVE  Locals(try, tick, tag) \in Snap
  BY DEF Locals, Snap

\* What a step of thread t's call does to the types (telem.c, tt_telemetry).
LEMMA ReadStepTypes ==
  ASSUME TelemetryTypeOK, NEW t \in Thread, ReadStep(t)
  PROVE  TelemetryTypeOK'
  <1> USE TelemetryAssumption, TrapAssumption
  <1>1. CASE Start(t)
    <2>1. at' \in [Thread -> Points] /\ ret' \in [Thread -> Codes]
      BY <1>1 DEF TelemetryTypeOK, Start, Fail, Goto, Points, Codes
    <2>2. snap' \in [Thread -> Snap]
      <3>1. Locals(0, 0, 1) \in Snap
        BY LocalsTypes DEF Tag
      <3> QED
        BY <1>1, <3>1 DEF TelemetryTypeOK, Start
    <2>3. table' \in [Thread -> [Tag -> 0 .. MaxUpdates]]
      <3>1. Zeroes \in [Tag -> 0 .. MaxUpdates]
        BY DEF Zeroes
      <3>2. table \in [Thread -> [Tag -> 0 .. MaxUpdates]]
        BY DEF TelemetryTypeOK
      <3>3. table' = table \/ table' = [table EXCEPT ![t] = Zeroes]
        BY <1>1 DEF Start
      <3> QED
        BY <3>1, <3>2, <3>3
    <2> QED
      BY <1>1, <2>1, <2>2, <2>3 DEF TelemetryTypeOK, TrapTypeOK, Start,
                                    trapVars, deviceVars, mapVars, sessVars
  <1>2. CASE Alloc(t)
    <2>1. at' \in [Thread -> Points] /\ ret' \in [Thread -> Codes]
      BY <1>2 DEF TelemetryTypeOK, Alloc, Fail, Goto, Points, Codes
    <2> QED
      BY <1>2, <2>1 DEF TelemetryTypeOK, TrapTypeOK, Alloc, trapVars, deviceVars, mapVars
  <1>3. CASE Bind(t)
    <2>1. at' \in [Thread -> Points] /\ ret' \in [Thread -> Codes]
      BY <1>3 DEF TelemetryTypeOK, Bind, Fail, Goto, Points, Codes
    <2>2. \E a \in Addr \cup {NoAddr} : MapAt(t, a)
      BY <1>3 DEF Bind, FreeAddrs
    <2> QED
      BY <1>3, <2>1, <2>2 DEF TelemetryTypeOK, TrapTypeOK, Bind, MapAt, trapVars, deviceVars
  <1>4. CASE ArmInstall(t)
    BY <1>4 DEF TelemetryTypeOK, TrapTypeOK, ArmInstall, Install,
                deviceVars, mapVars, sessVars, readVars
  <1>5. CASE Arm(t)
    BY <1>5 DEF TelemetryTypeOK, TrapTypeOK, Arm, tt_trap_arm, Goto, Points, Codes, Guarded,
                deviceVars, mapVars, sessVars
  <1>6. CASE ReadFaults(t)
    <2>1. TrapTypeOK'
      BY <1>6, FaultTypes DEF ReadFaults, TelemetryTypeOK
    <2> QED
      BY <1>6, <2>1 DEF TelemetryTypeOK, ReadFaults, Fail, Goto, Points, Codes, Guarded,
                        deviceVars, mapVars, sessVars
  <1>7. CASE ReadPointers(t)
    BY <1>7 DEF TelemetryTypeOK, TrapTypeOK, ReadPointers, tt_trap_disarm, Fail, Goto,
                Points, Codes, Guarded, trapVars, deviceVars, mapVars, sessVars
  <1>8. CASE ReadLayout(t)
    <2>1. at' \in [Thread -> Points] /\ ret' \in [Thread -> Codes]
      BY <1>8 DEF TelemetryTypeOK, ReadLayout, Fail, Goto, Points, Guarded, Codes
    <2> QED
      BY <1>8, <2>1 DEF TelemetryTypeOK, TrapTypeOK, ReadLayout, Accesses,
                        trapVars, deviceVars, mapVars, sessVars
  <1>9. CASE ReadTick(t)
    <2>1. at' \in [Thread -> Points]
      BY <1>9 DEF TelemetryTypeOK, ReadTick, Goto, Points, Guarded
    <2>2. snap' \in [Thread -> Snap]
      <3> DEFINE tick == IF Heartbeat \in tags THEN cell[Heartbeat] ELSE 0
      <3>1. tick \in 0 .. MaxUpdates /\ 1 \in Tag /\ snap[t] \in Snap
        BY DEF TelemetryTypeOK, Tag
      <3>2. Locals(snap[t].try, tick, 1) \in Snap
        BY <3>1, LocalsTypes DEF Snap
      <3> HIDE DEF tick
      <3> QED
        BY <1>9, <3>2 DEF TelemetryTypeOK, ReadTick, tick
    <2> QED
      BY <1>9, <2>1, <2>2 DEF TelemetryTypeOK, TrapTypeOK, ReadTick, Accesses,
                              trapVars, deviceVars, mapVars, sessVars
  <1>10. CASE ReadTag(t)
    <2>1. at' \in [Thread -> Points]
      BY <1>10 DEF TelemetryTypeOK, ReadTag, Goto, Points, Guarded
    <2>2. snap' \in [Thread -> Snap]
      <3>1. /\ snap[t].try \in 0 .. Tries - 1
            /\ snap[t].tick \in 0 .. MaxUpdates
            /\ snap[t].tag \in Tag
        BY DEF TelemetryTypeOK, Snap
      <3>2. ASSUME snap[t].tag # LastTag
            PROVE  Locals(snap[t].try, snap[t].tick, snap[t].tag + 1) \in Snap
        <4>1. snap[t].tag + 1 \in Tag
          BY <3>1, <3>2 DEF Tag
        <4> QED BY <3>1, <4>1, LocalsTypes
      <3> QED
        BY <1>10, <3>2 DEF TelemetryTypeOK, ReadTag
    <2>3. table' \in [Thread -> [Tag -> 0 .. MaxUpdates]]
      <3>1. snap[t].tag \in Tag
        BY DEF TelemetryTypeOK, Snap
      <3>2. cell[snap[t].tag] \in 0 .. MaxUpdates
        BY <3>1 DEF TelemetryTypeOK
      <3> QED
        BY <1>10, <3>1, <3>2 DEF TelemetryTypeOK, ReadTag
    <2> QED
      BY <1>10, <2>1, <2>2, <2>3 DEF TelemetryTypeOK, TrapTypeOK, ReadTag, Accesses,
                                     trapVars, deviceVars, mapVars, sessVars
  <1>11. CASE Check(t)
    <2>1. at' \in [Thread -> Points] /\ ret' \in [Thread -> Codes]
      BY <1>11 DEF TelemetryTypeOK, Check, Fail, Goto, Points, Guarded, Codes
    <2>2. snap' \in [Thread -> Snap]
      <3>1. snap[t] \in Snap
        BY DEF TelemetryTypeOK
      <3>2. Again(t) => Locals(snap[t].try + 1, snap[t].tick, snap[t].tag) \in Snap
        BY <3>1, LocalsTypes DEF Again, Snap
      <3> QED
        BY <1>11, <3>2 DEF TelemetryTypeOK, Check
    <2>3. table' \in [Thread -> [Tag -> 0 .. MaxUpdates]]
      BY <1>11 DEF TelemetryTypeOK, Check, Zeroes
    <2> QED
      BY <1>11, <2>1, <2>2, <2>3 DEF TelemetryTypeOK, TrapTypeOK, Check, Accesses,
                                     trapVars, deviceVars, mapVars, sessVars
  <1>12. CASE Cleanup(t)
    BY <1>12 DEF TelemetryTypeOK, TrapTypeOK, Cleanup, tt_trap_disarm, MapAt, Goto,
                 Points, deviceVars
  <1> QED
    BY <1>1, <1>2, <1>3, <1>4, <1>5, <1>6, <1>7, <1>8, <1>9, <1>10, <1>11, <1>12 DEF ReadStep

\* Every reachable state of telemetry reads (telem.c, trap.c) is well typed.
THEOREM TelemetryTypeCorrect == TelemetrySpec => []TelemetryTypeOK
  <1> USE TelemetryAssumption, TrapAssumption
  <1>1. TelemetryInit => TelemetryTypeOK
    BY DEF TelemetryInit, TrapInit, TelemetryTypeOK, TrapTypeOK, Zeroes, Locals, Tag, Points, Codes, Snap
  <1>2. TelemetryTypeOK /\ [TelemetryNext]_telemetryVars => TelemetryTypeOK'
    <2> SUFFICES ASSUME TelemetryTypeOK, [TelemetryNext]_telemetryVars PROVE TelemetryTypeOK'
      OBVIOUS
    <2>1. CASE \E t \in Thread : ReadStep(t)
      BY <2>1, ReadStepTypes
    <2>2. CASE \E t \in Thread : Reopen(t)
      BY <2>2 DEF TelemetryTypeOK, TrapTypeOK, Reopen,
                  trapVars, deviceVars, mapVars, readVars
    <2>3. ASSUME NEW t \in Thread, AppFaults(t) PROVE TelemetryTypeOK'
      <3>1. TrapTypeOK'
        BY <2>3, FaultTypes DEF AppFaults, TelemetryTypeOK
      <3> QED
        BY <2>3, <3>1 DEF TelemetryTypeOK, AppFaults, deviceVars, mapVars, sessVars, readVars
    <2>4. CASE FwWrite
      BY <2>4 DEF TelemetryTypeOK, TrapTypeOK, FwWrite, trapVars, mapVars, sessVars, readVars
    <2>5. CASE DevReset
      BY <2>5 DEF TelemetryTypeOK, TrapTypeOK, DevReset, trapVars, deviceVars, readVars
    <2>6. CASE AppBind
      BY <2>6 DEF TelemetryTypeOK, TrapTypeOK, AppBind, FreeAddrs,
                  trapVars, deviceVars, sessVars, readVars
    <2>7. CASE AppCover
      BY <2>7 DEF TelemetryTypeOK, TrapTypeOK, AppCover, Cover,
                  deviceVars, mapVars, sessVars, readVars
    <2>8. CASE UNCHANGED telemetryVars
      BY <2>8 DEF TelemetryTypeOK, TrapTypeOK, telemetryVars,
                  trapVars, deviceVars, mapVars, sessVars, readVars
    <2> QED
      BY <2>1, <2>2, <2>3, <2>4, <2>5, <2>6, <2>7, <2>8 DEF TelemetryNext
  <1> QED BY <1>1, <1>2, PTL DEF TelemetrySpec

------------------------------------------------------------------------------
(* Who is recovered, and who ends the process.                              *)

\* In a guarded section the thread has armed its window, and before and after
\* nothing (telem.c); SIGBUS is the guard's once it is installed.
ArmedRight ==
  /\ \A t \in Thread : at[t] \in Guarded => armed[t] = map[t] /\ once = "done"
  /\ \A t \in Thread : at[t] \notin Guarded \cup {"cleanup"} => armed[t] = NoAddr

Installed ==
  /\ once = "new" => disp = "before"
  /\ once # "new" /\ Alive => disp \in {"guard", "over"}
  /\ once = "done" => prev = before

GuardInv ==
  /\ TelemetryTypeOK
  /\ ArmedRight
  /\ Installed
  /\ ReadsSurvive
  /\ OthersCrash

\* A thread that moves to another point of its call (telem.c, tt_telemetry) with
\* the guard as it is meant to be there disturbs no other thread.
LEMMA MoveInv ==
  ASSUME TelemetryTypeOK, ArmedRight, NEW t \in Thread, NEW p, NEW a,
         at' = [at EXCEPT ![t] = p],
         armed' = [armed EXCEPT ![t] = a],
         map' = map, once' = once,
         p \in Guarded => a = map[t] /\ once = "done",
         p \notin Guarded \cup {"cleanup"} => a = NoAddr
  PROVE  ArmedRight'
  BY DEF TelemetryTypeOK, TrapTypeOK, ArmedRight

\* A fault of a guarded read (telem.c, tt_telemetry) is recovered, or left to
\* happen again under the guard.
LEMMA ReadFaultsInv ==
  ASSUME GuardInv, Alive, NEW t \in Thread, ReadFaults(t)
  PROVE  ArmedRight' /\ Installed' /\ ReadsSurvive' /\ OthersCrash'
  <1> USE TrapAssumption
  <1>1. /\ once = "done" /\ disp \in {"guard", "over"}
        /\ armed[t] = map[t] /\ armed[t] # NoAddr
    BY DEF GuardInv, ArmedRight, Installed, ReadFaults, TelemetryTypeOK
  <1>2. /\ UNCHANGED <<once, before, prev, fate>>
        /\ disp' \in {"guard", "over"}
        /\ \/ Recovers(t, map[t]) /\ armed' = [armed EXCEPT ![t] = NoAddr]
           \/ ~Recovers(t, map[t]) /\ UNCHANGED armed
    BY <1>1 DEF ReadFaults, Fault, Recovers, Recover, RaiseAgain
  <1>3. ArmedRight'
    <2>1. CASE Recovers(t, map[t])
      <3>1. armed' = [armed EXCEPT ![t] = NoAddr] /\ once' = once
        BY <1>2, <2>1
      <3>2. at' = [at EXCEPT ![t] = "cleanup"] /\ map' = map
        BY <2>1 DEF ReadFaults, Fail, Goto, sessVars
      <3>3. "cleanup" \notin Guarded
        BY DEF Guarded
      <3> QED
        BY <3>1, <3>2, <3>3, MoveInv DEF GuardInv
    <2>2. CASE ~Recovers(t, map[t])
      BY <1>2, <2>2 DEF GuardInv, ArmedRight, ReadFaults, sessVars
    <2> QED BY <2>1, <2>2
  <1>4. Installed'
    BY <1>1, <1>2 DEF GuardInv, Installed, Alive
  <1>5. ReadsSurvive' /\ OthersCrash'
    BY <1>2 DEF GuardInv, ReadsSurvive, OthersCrash
  <1> QED BY <1>3, <1>4, <1>5

\* A fault of the application (trap.c, handler) finds nothing armed by its own
\* thread.
LEMMA AppFaultsInv ==
  ASSUME GuardInv, Alive, NEW t \in Thread, AppFaults(t)
  PROVE  ArmedRight' /\ Installed' /\ ReadsSurvive' /\ OthersCrash'
  <1> USE TrapAssumption
  <1>1. armed[t] = NoAddr /\ own # NoAddr
    BY DEF GuardInv, ArmedRight, AppFaults, TelemetryTypeOK, Guarded
  <1>2. ~Recovers(t, own)
    BY <1>1 DEF Recovers
  <1>3. /\ UNCHANGED <<once, before, prev, armed, at, map>>
        /\ fate' \in {[end |-> "handled", who |-> "application"],
                      [end |-> "killed", who |-> "application"]}
    BY <1>1, <1>2 DEF AppFaults, Fault, Chain, RaiseAgain, Ends, readVars, sessVars
  <1>4. fate'.end = "killed" => before = "default" \/ once = "running"
    <2>1. CASE disp = "before"
      <3>1. fate' = [end |-> IF before = "handler" THEN "handled" ELSE "killed",
                     who |-> "application"]
        BY <2>1 DEF AppFaults, Fault, Ends
      <3>2. before \in {"default", "handler"}
        BY DEF GuardInv, TelemetryTypeOK, TrapTypeOK
      <3> QED BY <3>1, <3>2
    <2>2. CASE disp # "before"
      <3>1. once # "new"
        BY <2>2 DEF GuardInv, Installed
      <3>2. once = "running" \/ prev = before
        BY <3>1 DEF GuardInv, Installed, TelemetryTypeOK, TrapTypeOK
      <3>3. fate'.end = "killed" => prev = "default"
        BY <1>1, <1>2, <2>2 DEF AppFaults, Fault, Chain, RaiseAgain, Ends
      <3> QED BY <3>2, <3>3
    <2> QED BY <2>1, <2>2
  <1>5. once = "new" => disp' = "before"
    BY <1>2 DEF GuardInv, Installed, AppFaults, Fault
  <1> QED
    BY <1>3, <1>4, <1>5 DEF GuardInv, ArmedRight, Installed, Alive, ReadsSurvive, OthersCrash

\* The other steps of a thread's call (telem.c, tt_telemetry) keep the guard
\* where the thread reads.
LEMMA ReadStepInv ==
  ASSUME GuardInv, Alive, NEW t \in Thread, ReadStep(t), ~ReadFaults(t)
  PROVE  ArmedRight' /\ Installed' /\ ReadsSurvive' /\ OthersCrash'
  <1> USE DEF GuardInv, ArmedRight, TelemetryTypeOK, TrapTypeOK
  <1>1. UNCHANGED <<before, fate>> /\ (UNCHANGED <<once, prev, disp>> \/ Install)
    BY DEF ReadStep, Start, Alloc, Bind, ArmInstall, Install, Arm, ReadPointers, ReadLayout,
           ReadTick, ReadTag, Check, Cleanup, Accesses, tt_trap_arm, tt_trap_disarm, trapVars
  <1>2. Installed'
    BY <1>1 DEF Installed, Install, Alive
  <1>3. ReadsSurvive' /\ OthersCrash'
    BY <1>1 DEF ReadsSurvive, OthersCrash, Alive
  <1>4. ArmedRight'
    <2>1. CASE Start(t)
      BY <2>1 DEF Start, Fail, Goto, Guarded, trapVars, sessVars
    <2>2. CASE Alloc(t)
      BY <2>2 DEF Alloc, Fail, Goto, Guarded, trapVars
    <2>3. CASE Bind(t)
      BY <2>3 DEF Bind, MapAt, Fail, Goto, Guarded, trapVars
    <2>4. CASE ArmInstall(t)
      BY <2>4 DEF ArmInstall, Install, readVars, sessVars
    <2>5. CASE Arm(t)
      BY <2>5 DEF Arm, tt_trap_arm, Goto, Guarded, sessVars
    <2>6. CASE ReadPointers(t)
      <3>1. armed = [armed EXCEPT ![t] = armed[t]]
        OBVIOUS
      <3>2. CASE tt_trap_disarm(t) /\ Goto(t, "bind")
        <4>1. "bind" \notin Guarded
          BY DEF Guarded
        <4> QED
          BY <2>6, <3>2, <4>1, MoveInv DEF ReadPointers, tt_trap_disarm, Goto, sessVars
      <3>3. CASE Fail(t, "cleanup", "EIO") /\ UNCHANGED trapVars
        <4>1. "cleanup" \notin Guarded
          BY DEF Guarded
        <4> QED
          BY <2>6, <3>1, <3>3, <4>1, MoveInv DEF ReadPointers, Fail, Goto, trapVars, sessVars
      <3> QED
        BY <2>6, <3>2, <3>3 DEF ReadPointers
    <2>7. CASE ReadLayout(t)
      BY <2>7 DEF ReadLayout, Accesses, Fail, Goto, Guarded, trapVars, sessVars
    <2>8. CASE ReadTick(t)
      BY <2>8 DEF ReadTick, Accesses, Goto, Guarded, trapVars, sessVars
    <2>9. CASE ReadTag(t)
      BY <2>9 DEF ReadTag, Accesses, Goto, Guarded, trapVars, sessVars
    <2>10. CASE Check(t)
      BY <2>10 DEF Check, Accesses, Fail, Goto, Guarded, trapVars, sessVars
    <2>11. CASE Cleanup(t)
      BY <2>11 DEF Cleanup, tt_trap_disarm, MapAt, Goto, Guarded
    <2> QED
      BY <2>1, <2>2, <2>3, <2>4, <2>5, <2>6, <2>7, <2>8, <2>9, <2>10, <2>11 DEF ReadStep
  <1> QED BY <1>2, <1>3, <1>4

\* GuardInv holds in every reachable state (trap.c, telem.c).
LEMMA GuardInvariant == TelemetrySpec => []GuardInv
  <1>1. TelemetryInit => ArmedRight /\ Installed /\ ReadsSurvive /\ OthersCrash
    BY DEF TelemetryInit, TrapInit, ArmedRight, Installed, ReadsSurvive, OthersCrash, Guarded
  <1>2. ASSUME GuardInv, [TelemetryNext]_telemetryVars
        PROVE  ArmedRight' /\ Installed' /\ ReadsSurvive' /\ OthersCrash'
    <2> USE <1>2
    <2>1. CASE UNCHANGED telemetryVars
      BY <2>1 DEF GuardInv, ArmedRight, Installed, Alive, ReadsSurvive, OthersCrash,
                  telemetryVars, trapVars, sessVars, readVars
    <2>2. ASSUME TelemetryNext PROVE Alive
      BY <2>2 DEF TelemetryNext
    <2>3. ASSUME Alive, NEW t \in Thread, ReadStep(t)
          PROVE  ArmedRight' /\ Installed' /\ ReadsSurvive' /\ OthersCrash'
      BY <2>3, ReadStepInv, ReadFaultsInv
    <2>4. ASSUME Alive, NEW t \in Thread, AppFaults(t)
          PROVE  ArmedRight' /\ Installed' /\ ReadsSurvive' /\ OthersCrash'
      BY <2>4, AppFaultsInv
    <2>5. CASE (\E t \in Thread : Reopen(t)) \/ FwWrite \/ DevReset \/ AppBind
      <3>1. UNCHANGED <<trapVars, map, at>>
        BY <2>5 DEF Reopen, FwWrite, DevReset, AppBind, readVars, sessVars
      <3> QED
        BY <3>1 DEF GuardInv, ArmedRight, Installed, Alive, ReadsSurvive, OthersCrash, trapVars
    <2>6. CASE AppCover
      BY <2>6 DEF GuardInv, ArmedRight, Installed, Alive, ReadsSurvive, OthersCrash,
                  AppCover, Cover, readVars, sessVars
    <2> QED
      BY <2>1, <2>2, <2>3, <2>4, <2>5, <2>6 DEF TelemetryNext
  <1> QED
    BY <1>1, <1>2, TelemetryTypeCorrect, PTL DEF TelemetrySpec, GuardInv

\* A reset in the middle of a telemetry read never ends the process (DESIGN.md,
\* "Fault Recovery"), for any number of threads and windows.
THEOREM TelemetryReadsSurvive == TelemetrySpec => []ReadsSurvive
  BY GuardInvariant, PTL DEF GuardInv

\* A fault of the application is never recovered by the library and, once the
\* guard is installed, reaches the handler that was there before (trap.h,
\* tt_trap_arm).
THEOREM TelemetryOthersCrash == TelemetrySpec => []OthersCrash
  BY GuardInvariant, PTL DEF GuardInv

------------------------------------------------------------------------------
(* What a call leaves behind.                                               *)

\* Outside the part of a call that has a window, the thread has none mapped, and what it
\* left allocated went with the session.
Returned(t) == at[t] \in {"idle", "alloc"} => map[t] = NoAddr /\ (holds[t] => severed[t])

\* No step of one thread changes what another has.
LEMMA ReturnedKept ==
  ASSUME TelemetryTypeOK, \A t \in Thread : Returned(t), [TelemetryNext]_telemetryVars,
         NEW t \in Thread
  PROVE  Returned(t)'
  <1> USE DEF TelemetryTypeOK, Returned
  <1>1. ASSUME NEW s \in Thread, ReadStep(s)
        PROVE  Returned(t)'
    <2>1. CASE Start(s)
      BY <1>1, <2>1 DEF Start, Fail, Goto, sessVars
    <2>2. CASE Alloc(s)
      BY <1>1, <2>2 DEF Alloc, Fail, Goto
    <2>3. CASE Bind(s)
      BY <1>1, <2>3 DEF Bind, MapAt, Fail, Goto
    <2>4. CASE Cleanup(s)
      BY <1>1, <2>4 DEF Cleanup, MapAt, Goto
    <2>5. CASE ArmInstall(s)
      BY <1>1, <2>5 DEF ArmInstall, sessVars, readVars
    <2>6. CASE Arm(s) \/ ReadFaults(s) \/ ReadPointers(s) \/ ReadLayout(s)
               \/ ReadTick(s) \/ ReadTag(s) \/ Check(s)
      <3>1. UNCHANGED sessVars
        BY <2>6 DEF Arm, ReadFaults, ReadPointers, ReadLayout, ReadTick, ReadTag, Check, Accesses
      <3>2. at' = at \/ \E p \in Points \ {"idle", "alloc"} : at' = [at EXCEPT ![s] = p]
        BY <2>6 DEF Arm, ReadFaults, ReadPointers, ReadLayout, ReadTick, ReadTag, Check,
                    Fail, Goto, Points, Guarded
      <3> QED
        BY <3>1, <3>2 DEF sessVars
    <2> QED
      BY <1>1, <2>1, <2>2, <2>3, <2>4, <2>5, <2>6 DEF ReadStep
  <1>2. ASSUME NEW s \in Thread, Reopen(s)
        PROVE  Returned(t)'
    BY <1>2 DEF Reopen, readVars
  <1>3. CASE DevReset
    BY <1>3 DEF DevReset, readVars
  <1>4. CASE (\E s \in Thread : AppFaults(s)) \/ FwWrite \/ AppBind \/ AppCover
             \/ UNCHANGED telemetryVars
    BY <1>4 DEF AppFaults, FwWrite, AppBind, AppCover, telemetryVars, sessVars, readVars
  <1> QED
    BY <1>1, <1>2, <1>3, <1>4 DEF TelemetryNext

\* Whatever tt_telemetry returns, and whenever a reset hits it, its window is unmapped and,
\* on a session that is not severed, given back (telem.c, `cleanup`).
THEOREM TelemetryWindowReturned == TelemetrySpec => []WindowReturned
  <1> DEFINE I == \A t \in Thread : Returned(t)
  <1>1. TelemetryInit => I
    BY DEF TelemetryInit, Returned
  <1>2. TelemetryTypeOK /\ I /\ [TelemetryNext]_telemetryVars => I'
    BY ReturnedKept
  <1>3. I => WindowReturned
    BY DEF Returned, WindowReturned
  <1> QED
    BY <1>1, <1>2, <1>3, TelemetryTypeCorrect, PTL DEF TelemetrySpec

------------------------------------------------------------------------------
(* The snapshot.                                                            *)

\* The firmware finishes an update before it begins the next.
Level == \A g, h \in Tag : cell[g] <= cell[h] + 1

\* Thread t has a value for tag g that is from at most one update before the heartbeat
\* of the attempt and at most one after the heartbeat now.
Near(t, g) ==
  /\ table[t][g] # 0
  /\ Heartbeat \in tags => /\ snap[t].tick <= table[t][g] + 1
                           /\ table[t][g] <= cell[Heartbeat] + 1

\* What an attempt has read (telem.c, snapshot), and what the attempt that succeeded returns.
SnapOK(t) ==
  /\ at[t] \in {"read", "check"} /\ Heartbeat \in tags => snap[t].tick <= cell[Heartbeat]
  /\ at[t] = "read" => \A g \in tags : g < snap[t].tag => Near(t, g)
  /\ at[t] = "check" => \A g \in tags : Near(t, g)
  /\ at[t] \in {"cleanup", "idle"} /\ ret[t] = "OK" /\ csm[t] =>
       \A g \in tags :
         /\ table[t][g] # 0
         /\ Heartbeat \in tags => /\ table[t][g] <= snap[t].tick + 1
                                  /\ snap[t].tick <= table[t][g] + 1

SnapInv == Level /\ \A t \in Thread : SnapOK(t)

\* A step that leaves the table, the tags and t's locals alone.
LEMMA SnapStays ==
  ASSUME NEW t \in Thread, SnapOK(t), UNCHANGED <<cell, tags>>,
         at'[t] = at[t], snap'[t] = snap[t], table'[t] = table[t],
         ret'[t] = ret[t], csm'[t] = csm[t]
  PROVE  SnapOK(t)'
  BY DEF SnapOK, Near

\* The firmware's writes keep the table level and move the heartbeat forward only.
LEMMA FwWriteKeeps ==
  ASSUME TelemetryTypeOK, SnapInv, FwWrite
  PROVE  SnapInv'
  <1> USE TelemetryAssumption DEF TelemetryTypeOK
  <1>1. PICK g \in Tag : /\ \A h \in Tag : cell[g] <= cell[h]
                         /\ cell' = [cell EXCEPT ![g] = @ + 1]
    BY DEF FwWrite
  <1>2. UNCHANGED <<tags, at, csm, snap, table, ret>>
    BY DEF FwWrite, readVars
  <1>3. \A h \in Tag : cell[h] \in Nat /\ cell'[h] = IF h = g THEN cell[h] + 1 ELSE cell[h]
    BY <1>1
  <1>4. Level'
    BY <1>1, <1>3 DEF SnapInv, Level
  <1>5. cell[Heartbeat] <= cell'[Heartbeat] /\ cell'[Heartbeat] \in Nat /\ cell[Heartbeat] \in Nat
    BY <1>3 DEF Tag
  <1>6. ASSUME NEW t \in Thread
        PROVE  SnapOK(t)'
    <2>1. snap[t].tick \in Nat /\ \A h \in tags : table[t][h] \in Nat
      BY DEF Snap
    <2>2. ASSUME NEW h \in tags, Near(t, h)
          PROVE  Near(t, h)'
      BY <1>2, <1>5, <2>1, <2>2 DEF Near
    <2>3. SnapOK(t)
      BY DEF SnapInv
    <2>4. at[t] \in {"read", "check"} /\ Heartbeat \in tags => snap[t].tick <= cell'[Heartbeat]
      BY <1>5, <2>1, <2>3 DEF SnapOK
    <2> QED
      BY <1>2, <2>2, <2>3, <2>4 DEF SnapOK
  <1> QED
    BY <1>4, <1>6 DEF SnapInv

\* The steps of an attempt.
LEMMA AttemptKeeps ==
  ASSUME TelemetryTypeOK, SnapInv, NEW t \in Thread, ReadTick(t) \/ ReadTag(t) \/ Check(t)
  PROVE  SnapOK(t)'
  <1> USE TelemetryAssumption DEF TelemetryTypeOK
  <1>1. /\ SnapOK(t) /\ Level /\ UNCHANGED <<cell, tags, csm>>
        /\ tags \subseteq Tag /\ Heartbeat \in Tag
        /\ \A g \in Tag : cell[g] \in Nat \ {0} /\ table[t][g] \in Nat
    BY DEF SnapInv, ReadTick, ReadTag, Check, Accesses, deviceVars, Tag
  <1>2. snap[t].tick \in Nat /\ snap[t].tag \in Tag
    BY DEF Snap
  <1>3. CASE ReadTick(t)
    <2>1. at'[t] = "read" /\ snap'[t].tag = 1
      BY <1>3 DEF ReadTick, Goto, Locals
    <2>2. Heartbeat \in tags => snap'[t].tick = cell[Heartbeat]
      BY <1>3 DEF ReadTick, Locals
    <2>3. \A g \in tags : ~(g < 1)
      BY <1>1 DEF Tag
    <2> QED
      BY <1>1, <2>1, <2>2, <2>3 DEF SnapOK
  <1>4. CASE ReadTag(t)
    <2>1. /\ at[t] = "read" /\ ret' = ret
          /\ Heartbeat \in tags => snap[t].tick <= cell[Heartbeat]
          /\ \A g \in tags : g < snap[t].tag => Near(t, g)
      BY <1>1, <1>4 DEF ReadTag, SnapOK
    <2>2. /\ \A g \in Tag \ {snap[t].tag} : table'[t][g] = table[t][g]
          /\ snap[t].tag \in tags => table'[t][snap[t].tag] = cell[snap[t].tag]
      BY <1>2, <1>4 DEF ReadTag
    <2>3. snap'[t].tick = snap[t].tick
      BY <1>4 DEF ReadTag, Locals
    <2>4. ASSUME NEW g \in tags, g = snap[t].tag
          PROVE  Near(t, g)'
      <3>1. table'[t][g] = cell[g] /\ cell[g] \in Nat \ {0} /\ cell[Heartbeat] \in Nat
        BY <1>1, <2>2, <2>4
      <3>2. cell[g] <= cell[Heartbeat] + 1 /\ cell[Heartbeat] <= cell[g] + 1
        BY <1>1 DEF Level
      <3> QED
        BY <1>1, <1>2, <2>1, <2>3, <3>1, <3>2 DEF Near
    <2>5. ASSUME NEW g \in tags, g < snap[t].tag
          PROVE  Near(t, g)'
      <3>1. table'[t][g] = table[t][g]
        BY <1>1, <1>2, <2>2, <2>5 DEF Tag
      <3>2. Near(t, g)
        BY <2>1, <2>5
      <3> QED
        BY <1>1, <2>3, <3>1, <3>2 DEF Near
    <2>6. CASE snap[t].tag = LastTag
      <3>1. at'[t] = "check"
        BY <1>4, <2>6 DEF ReadTag, Goto
      <3>2. \A g \in tags : g = snap[t].tag \/ g < snap[t].tag
        BY <1>1, <1>2, <2>6 DEF Tag
      <3>3. \A g \in tags : Near(t, g)'
        BY <2>4, <2>5, <3>2
      <3> QED
        BY <1>1, <2>1, <2>3, <3>1, <3>3 DEF SnapOK
    <2>7. CASE snap[t].tag # LastTag
      <3>1. at'[t] = "read" /\ snap'[t].tag = snap[t].tag + 1
        BY <1>4, <2>1, <2>7 DEF ReadTag, Locals
      <3>2. \A g \in tags : g < snap[t].tag + 1 => g = snap[t].tag \/ g < snap[t].tag
        BY <1>1, <1>2 DEF Tag
      <3>3. \A g \in tags : g < snap'[t].tag => Near(t, g)'
        BY <2>4, <2>5, <3>1, <3>2
      <3> QED
        BY <1>1, <2>1, <2>3, <3>1, <3>3 DEF SnapOK
    <2> QED
      BY <2>6, <2>7
  <1>5. CASE Check(t)
    <2>1. /\ at[t] = "check" /\ \A g \in tags : Near(t, g)
      BY <1>1, <1>5 DEF Check, SnapOK
    <2>2. CASE Coherent(t)
      <3>1. at'[t] = "cleanup" /\ UNCHANGED <<snap, table, ret>>
        BY <1>5, <2>2 DEF Check, Goto
      <3>2. Heartbeat \in tags => snap[t].tick = cell[Heartbeat]
        BY <2>2 DEF Coherent
      <3> QED
        BY <1>1, <2>1, <3>1, <3>2 DEF SnapOK, Near
    <2>3. CASE ~Coherent(t)
      <3>1. \/ at'[t] = "tick"
            \/ at'[t] = "cleanup" /\ ret'[t] = "EIO"
        BY <1>5, <2>3 DEF Check, Goto, Fail
      <3> QED
        BY <3>1 DEF SnapOK
    <2> QED
      BY <2>2, <2>3
  <1> QED
    BY <1>3, <1>4, <1>5

\* The other steps of a call return no table, or one that was there before.
LEMMA OtherStepKeeps ==
  ASSUME TelemetryTypeOK, SnapInv, NEW t \in Thread, ReadStep(t),
         ~(ReadTick(t) \/ ReadTag(t) \/ Check(t))
  PROVE  SnapOK(t)'
  <1> USE DEF TelemetryTypeOK
  <1>1. SnapOK(t) /\ UNCHANGED <<cell, tags>>
    BY DEF SnapInv, ReadStep, Start, Alloc, Bind, ArmInstall, Arm, ReadFaults, ReadPointers,
           ReadLayout, Cleanup, Accesses, deviceVars
  <1>2. CASE Start(t)
    <2>1. (at'[t] = "idle" /\ ret'[t] = "ECONNRESET") \/ at'[t] = "alloc"
      BY <1>2 DEF Start, Fail, Goto
    <2> QED
      BY <2>1 DEF SnapOK
  <1>3. CASE Alloc(t)
    <2>1. (at'[t] = "idle" /\ ret'[t] # "OK") \/ at'[t] = "bind"
      BY <1>3 DEF Alloc, Fail, Goto
    <2> QED
      BY <2>1 DEF SnapOK
  <1>4. CASE Bind(t)
    <2>1. (at'[t] = "cleanup" /\ ret'[t] # "OK") \/ at'[t] = "arm"
      BY <1>4 DEF Bind, Fail, Goto
    <2> QED
      BY <2>1 DEF SnapOK
  <1>5. CASE ArmInstall(t)
    BY <1>1, <1>5, SnapStays DEF ArmInstall, readVars
  <1>6. CASE Arm(t)
    <2>1. at'[t] \in {"layout", "pointers"}
      BY <1>6 DEF Arm, Goto
    <2> QED
      BY <2>1 DEF SnapOK
  <1>7. CASE ReadFaults(t)
    <2>1. CASE Recovers(t, map[t])
      <3>1. at'[t] = "cleanup" /\ ret'[t] = "ECONNRESET"
        BY <1>7, <2>1 DEF ReadFaults, Fail, Goto
      <3> QED
        BY <3>1 DEF SnapOK
    <2>2. CASE ~Recovers(t, map[t])
      BY <1>1, <1>7, <2>2, SnapStays DEF ReadFaults
    <2> QED
      BY <2>1, <2>2
  <1>8. CASE ReadPointers(t)
    <2>1. (at'[t] = "cleanup" /\ ret'[t] = "EIO") \/ at'[t] = "bind"
      BY <1>8 DEF ReadPointers, Fail, Goto
    <2> QED
      BY <2>1 DEF SnapOK
  <1>9. CASE ReadLayout(t)
    <2>1. (at'[t] = "cleanup" /\ ret'[t] = "EIO") \/ at'[t] = "tick"
      BY <1>9 DEF ReadLayout, Fail, Goto
    <2> QED
      BY <2>1 DEF SnapOK
  <1>10. CASE Cleanup(t)
    <2>1. /\ at[t] = "cleanup" /\ at'[t] = "idle"
          /\ UNCHANGED <<csm, snap, table, ret>>
      BY <1>10 DEF Cleanup, Goto
    <2> QED
      BY <1>1, <2>1 DEF SnapOK
  <1> QED
    BY <1>2, <1>3, <1>4, <1>5, <1>6, <1>7, <1>8, <1>9, <1>10 DEF ReadStep

\* A thread's call writes only its own locals.
LEMMA OnlyOwnLocals ==
  ASSUME TelemetryTypeOK, NEW t \in Thread, ReadStep(t), NEW s \in Thread \ {t}
  PROVE  /\ UNCHANGED <<cell, tags>>
         /\ at'[s] = at[s] /\ snap'[s] = snap[s] /\ table'[s] = table[s]
         /\ ret'[s] = ret[s] /\ csm'[s] = csm[s]
  <1> USE DEF TelemetryTypeOK
  <1>1. CASE Start(t) \/ Alloc(t) \/ Bind(t) \/ ArmInstall(t) \/ Arm(t) \/ ReadFaults(t)
    BY <1>1 DEF Start, Alloc, Bind, ArmInstall, Arm, ReadFaults, Fail, Goto, deviceVars, readVars
  <1>2. CASE ReadPointers(t) \/ ReadLayout(t) \/ ReadTick(t) \/ Check(t) \/ Cleanup(t)
    BY <1>2 DEF ReadPointers, ReadLayout, ReadTick, Check, Cleanup, Accesses, Fail, Goto, deviceVars
  <1>3. CASE ReadTag(t)
    BY <1>3 DEF ReadTag, Accesses, Goto, deviceVars
  <1> QED
    BY <1>1, <1>2, <1>3 DEF ReadStep

\* A table that tt_telemetry returns has every tag the firmware reports, and none of its
\* values is more than one update away from the heartbeat of the attempt, for any number of
\* threads, tags, updates and attempts (telem.c, snapshot).
THEOREM TelemetrySnapshotWithinAnUpdate == TelemetrySpec => []SnapshotWithinAnUpdate
  <1>1. TelemetryInit => SnapInv
    BY DEF TelemetryInit, SnapInv, Level, SnapOK
  <1>2. TelemetryTypeOK /\ SnapInv /\ [TelemetryNext]_telemetryVars => SnapInv'
    <2> SUFFICES ASSUME TelemetryTypeOK, SnapInv, [TelemetryNext]_telemetryVars
                 PROVE  SnapInv'
      OBVIOUS
    <2>1. ASSUME NEW t \in Thread, ReadStep(t)
          PROVE  SnapInv'
      <3>1. SnapOK(t)' /\ UNCHANGED cell
        BY <2>1, AttemptKeeps, OtherStepKeeps DEF ReadStep, Start, Alloc, Bind, ArmInstall, Arm,
           ReadFaults, ReadPointers, ReadLayout, ReadTick, ReadTag, Check, Cleanup, Accesses, deviceVars
      <3>2. \A s \in Thread \ {t} : SnapOK(s)'
        BY <2>1, OnlyOwnLocals, SnapStays DEF SnapInv
      <3> QED
        BY <3>1, <3>2 DEF SnapInv, Level
    <2>2. CASE (\E t \in Thread : Reopen(t) \/ AppFaults(t)) \/ DevReset \/ AppBind \/ AppCover
               \/ UNCHANGED telemetryVars
      <3>1. UNCHANGED <<cell, tags, at, csm, snap, table, ret>>
        BY <2>2 DEF Reopen, AppFaults, DevReset, AppBind, AppCover, telemetryVars, deviceVars, readVars
      <3> QED
        BY <3>1, SnapStays DEF SnapInv, Level
    <2> QED
      BY <2>1, <2>2, FwWriteKeeps DEF TelemetryNext
  <1>3. SnapInv => SnapshotWithinAnUpdate
    BY DEF SnapInv, SnapOK, SnapshotWithinAnUpdate
  <1> QED
    BY <1>1, <1>2, <1>3, TelemetryTypeCorrect, PTL DEF TelemetrySpec
================================================================================
