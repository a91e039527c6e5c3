# tt-dal: verification project

tt-dal is a C library for Tenstorrent devices (`src/src`, declared in
`src/include/ttdal.h`) with Rust and Python bindings (`src/bind`). It keeps
little state of its own: a session is a descriptor number and flags, a TLB handle
a window id and a pointer, an SMC message nothing at all. What makes it hard is
what it shares: descriptor slots with the other threads of a process, the device
with other processes, and a driver that severs sessions when somebody resets the
device. The modules here model the library's operations system call by system
call, among other clients and an environment that resets, removes and re-probes
the device and kills processes, and the bindings over them: what a persistent
session retries, and what outlives what.

Paths below are relative to the repository unless they name a module.

## Inventory

| Component | State | Operations | Interacts with | Hard behaviour | Correct when |
|---|---|---|---|---|---|
| Sessions, `src/dev/mod.c` | `sess->fd`, `sess->flags` | `tt_open`, `tt_close`, `tt_reopen`, `tt_dev_info` | driver arbitration; the process's descriptor table | a close that fails, slots taken between close and open, blocking exclusive opens, sessions severed at any time | each open session has a slot of its own; exclusive means alone; a reopen tells reset from removal |
| Errors, `src/err.h` | none | `tt_fail`, `tt_fail_io` | every operation | `ENODEV` has two meanings; `errno` outlives the call that set it | a severed session reports `ECONNRESET`, never `ENODEV` |
| Reset, `src/dev/reset.c` | locals of one call | `tt_reset`, `tt_reset_with` | sessions of all clients, sysfs, firmware | polling with a deadline, signals, disappearing devices, nine exits | no other session is severed; the exclusive descriptor is never leaked; it returns; post-reset finds the firmware |
| SMC, `src/dev/smc.c` | none; one slot per descriptor in the driver | `tt_smc_post`, `poll`, `wait`, `drop`, `call` | driver slot, one controller for all clients | late replies to dropped messages, failed exchanges, timeouts | a reply answers the message outstanding; a call leaves the session free; waits end |
| TLB windows, `src/dev/tlb.c` | `id`, `ptr` of each handle | `tt_tlb_alloc`, `bind`, `free` | session descriptor, address space | mapping before unmapping, errors between two mappings, handles that outlive a session | no mapping or window is leaked or shared; a replaced pointer does not reach the window any more |
| Telemetry, `src/dev/telem.c` | locals | `tt_telemetry` | TLB windows, trap, firmware | firmware writes while it reads; a fault in the middle | the snapshot is complete and within one update; a reset reports `ECONNRESET` |
| Fault trap, `src/trap.c` | armed range per thread, previous handler | arm, disarm, handler | signals, telemetry | a process-wide handler and thread-local ranges | only faults of the armed range are recovered |
| Enumeration, `src/dev/mod.c`; versions, `src/ver.c` | none | `tt_dev_scan`, `tt_dev_from_bdf`, `tt_dev_from_path`, `tt_kmd_version` | transient opens | devices that come, go and change numbers during a walk; opens that block; errors left in `errno` | everything that was there is found, nothing stays open |
| Power, `src/dev/power.c` | none | `tt_power` | driver | the request is lost with the descriptor | the request stands on the descriptor the session ends with |
| Clock, `src/clock.h` | none | `timespec_diff_ms` | reset, SMC | a second boundary in a difference | elapsed time never jumps |
| Rust sessions, `bind/rs/src/dev/mod.rs` | session in a `Cell`, options | `open`, `perform`, `reopen`, `close`, `Drop` | sessions | bounded retries, reopens behind a shared borrow | callers of a persistent session never see `ECONNRESET`; one close per descriptor |
| Rust handles, `tlb.rs`, `smc/msg.rs`, `reset.rs` | `Tlb`, `Window`, `Queued` | `bind`, `free`, `wait`, `poll`, `Drop` | TLB, SMC | handles that outlive a reopen | a handle acts only on what it was created for |
| Python objects, `bind/py/src` | `raw`, `persist`, `freed`, `done` of shared objects | the same, and waits without the interpreter lock | sessions, TLB, SMC, the interpreter | handles copied out and back around each wait; threads that share them | one closer per descriptor; a `Window` stays on its own window; a waiting thread does not stop the interpreter |
| Data types, `pci.rs`, `smc/msg.rs`, `telem`, `power`, `tlb` of both bindings | none | conversions | the C header | widths, roundings, positions, gaps | both bindings mean what the header means |

The driver (tt-kmd), the kernel's tables and the firmware are external. They are
modelled from what the library relies on (`vendor/tt-kmd/ioctl.h` and the
library's comments).

## Modules

    Kmd                    driver and process tables (external)
     +- Session            tt_open, tt_close, tt_reopen, tt_dev_info
         +- Reset          tt_reset, tt_reset_with
         +- Smc            the five SMC operations        implements Mailbox
         |   +- Queue      handles to posted messages, both bindings
         +- Windows        windows as the driver keeps them (external)
             +- Tlb        alloc, bind, free, one step per system call
             |   +- Rebinds    Tlb and the pointers users have saved
             +- Calls      alloc, bind, free, power, reset as one step each
                 +- Rust   sessions, perform, Tlb and Window
                 +- Python sessions, perform, Tlb and Window, interpreter lock
    Trap                   the SIGBUS guard
     +- Telemetry          tt_telemetry and its snapshot
    Values                 conversions, clock, checked accesses
     +- Discovery          scans, lookups, the driver's version, both bindings
    SessionProofs, ResetProofs, SmcProofs, TlbProofs, TelemetryProofs,
    DiscoveryProofs, RustProofs, PythonProofs               theorems
    MCSession, MCReset, MCSmc, MCTlb, MCTelemetry,
    MCDiscovery, MCRust, MCPython, MCQueue                  instances for TLC

`Session` is composed with each of `Reset`, `Smc` and `Tlb`: in each of them
clients also open, close and reopen sessions, and the environment acts. The
library's calls return before the next one starts, so the three are not composed
with each other; what they share is the session. `Telemetry` uses what `Tlb`
establishes of the TLB calls instead of the calls: each is one step, with its
failures. `Rust` and `Python` keep the system calls of opens and reopens apart,
since these block and others come in between, and take the calls of `Tlb`,
`Reset` and `tt_power` as one step each (`Calls`): what happens inside those is
the subject of their own modules.

**Kmd.** `present` is the device node. `st` and `excl` describe the open file
descriptions, `fdtab` the descriptor slots, `vma` the mapped addresses. A
description lives as long as a slot or a mapping refers to it (`Retain`). The
arbitration (`CanOpen`) is a reader/writer lock over descriptions in use; a
severed one still counts, one of a removed instance does not. A reset makes live
descriptions `stale`, removal makes all `dead`; an operation on either fails
with `ENODEV`. Nothing of this is in `src/`; it is what `reset.c:32-41`,
`mod.c:189-195`, `tlb.c:159-160` and `err.h:18-30` rely on.

**Session.** `fd`, `flags`: the fields of `tt_session_t`. `pc` is `"opening"`
between the code before `open(2)` and its return, when the call may block, so
other threads and resets come in between: `Open` and `Reopen` go up to
`open(2)`, `OpenOk` and `OpenFail` are the call's return and the rest of
`tt_open`. `OpenFailures` lists when `open(2)` can fail now and `OpenErrno` what
`tt_open` makes of it. `Reopen` includes the close whose result is discarded.
`tt_close` clears `fd` only if `close(2)` succeeded, as the code does; the
constant `CloseFails` says whether `close(2)` of a severed descriptor may
report an error, which `mod.c:224` expects. The kernel frees the slot either
way.

**Reset.** `rpc` is the point `tt_reset` has reached, `rfd` its descriptor,
`gone` is `device_disappeared`, `rres` what it returns once `rfd` is closed.
Time is counted in `POLL_INTERVAL_US`: `Tick` advances all sleepers, `elapsed`
and the firmware. `marker` is bit 6 of the PCI command register and `fwLeft`
the time until telemetry is published. Every exit goes through
`CloseAndReturn`. `ResetWith` is `tt_reset_with` up to the first system call of
`tt_reset`. The assumption `FwTime <= Delay` is the comment at
`reset.c:129-134`: 350 against 500 ms. Reading the clock and looking at sysfs
are one step.

**Smc.** `phase`, `msg`, `reply` are the driver's slot of each description;
`ctlReq`, `ctlFile` the message the controller is running and whose it is. The
operators `Post`, `tt_smc_poll`, `tt_smc_drop` are the three one-ioctl
operations with their result; `spc` is the place in `tt_smc_wait`, `inCall`
says that it runs inside `tt_smc_call`. A reply is named by the message it
answers, so that a mix-up shows. `Mailbox` is the contract: at most one message
per session, and a reply retrieved answers it.

**Queue.** Both bindings' `Queued`: `sess` and `asked` of a handle, `done` as in
Python, `called` the message of the `call` in progress. A Rust handle borrows its
session, so nothing else happens to it meanwhile; a Python session has any number
of handles and is reopened under them. `strayed` records three things a Python
program can do that the properties leave out (see *Known limits*).

**Tlb.** `holder` is the description a window is allocated to, `shows` the
window mapped at an address, `tlb` the handles, `call` the frame of the TLB call
in progress. One step per system call: `Bind` ends with `mmap`, `Configure` or
`ConfigureFail` is the ioctl with the unmapping of the new address, `Replace`
and `Cleanup` unmap the old one. A handle is freed once, whatever
`tt_tlb_free` returns, as `Tlb::free(self)` does. `FreesFirst` says whether
clients free their handles before they open their session again.

**Rebinds.** `Tlb` with a history variable `prior`: where a handle pointed before
its latest `tt_tlb_bind`, which is what a pointer saved by the user may still hold.
`Record` follows the steps of `Tlb` and restricts none.

**Rust.** A client owns at most one `Session` (`alive`, `opts`; the raw session
is `fd`, `flags`). `call` is the method in progress. `perform` is taken apart: an
operation, then the two parts of a reopen, then the next attempt. `owned` are the
`Tlb` values, which keep their session from being moved or closed, and `windows`
those with a `Window`, which keep their `Tlb` from being bound or freed; a
persistent session reopens behind the shared borrow all the same. `severings`
counts the resets and removals during a call, up to `RETRIES`: a history variable
that only `GivesUpForCause` reads.

**Python.** `raw`, `persist`, `made` are the Session objects, `gil` the thread
that waits with the interpreter lock held, if one does. `open`, `reopen`, `reset`
and `call` release the lock and work on a copy, the thread's `fd` and `flags`;
`Attach...` puts the copy back. What runs with the lock held is one step. A method
refused by a borrow raises and changes nothing, so it is no step. `owner` is the
session and thread of a `Tlb` (it is unsendable), `freed` its flag. `unbound` is a
history variable: the `Tlb` objects whose last bind failed, which the code keeps
nowhere but in their pointer.

**Trap.** `once`, `prev`, `armed` are the variables of `trap.c` of that meaning;
`disp` is the process's disposition of `SIGBUS`, `before` what it was. `Install`
takes two steps, the change of the disposition and the writing of `prev`. `Fault`
is a fault with the whole of `handler` that follows: `Recover` is its
`siglongjmp`, `Chain` its end, `RaiseAgain` the case of a handler put over the
guard's that restores it and raises the signal anew (`tests/trap.c`). `fate` says
how a fault ended the process, if one did, and whose access it was; an access of
the application that is recovered is `"lost"`, for the jump goes into a frame that
has returned.

**Telemetry.** `at` is the point in `tt_telemetry` or `snapshot`; a step is one
TLB call or the reads between two points, a `ReadTag` one word. `Bind` and `Arm`
serve both bindings of the window, `csm` tells which. `Cleanup` is the common end
of the failing paths (`telem.c:153-158`) and of the successful one (149-151). The
firmware (`FwWrite`) writes word by word, in any order, one update after the
other; a value is named by its update. `DevReset` zaps every mapping; the
application has a window of its own (`own`), at whatever address is free, and
accesses it.

**Values.** Pure operators: PCI addresses as sequences of tokens with Rust's
parser (`FromStr`) and the two `sscanf` formats (`Scanned`); timeouts; the
clock's difference; flags, sizes, caching modes, tags and architectures of both
bindings against the header's; versions; messages; configurations by position; the
checked accesses of a Python `Window`. Integers are scaled down (`MaxU32`,
`MaxUsize`) and wrap or saturate where the code's do.

**Discovery.** A caller runs a scan, a lookup or a query for the driver's
version, one step per system call, in a directory whose entries come, go and are
renumbered while it is read: `readdir(3)` gives an entry that is there all along
once and one that comes or goes once or not at all. `OpenErrnos` lists how the
`open(2)` of an entry can fail: the node is gone, the caller has no slot or no
permission, or a signal ends the wait for a holder; `Normalized` is what `tt_open`
makes of it, which a walk passes over and a version query reports. `errno` is the
thread's, kept across calls, since the bindings read it afterwards. `there`, `were` and `excuse`
are history: what was in the directory throughout the pass, which addresses the
devices had, and the devices that a lookup may miss: those it failed to open, those
whose session was severed, those beyond its buffer, and all if the directory could
not be read.

## Runs

| Run | Instance | Checks |
|---|---|---|
| `session` | 2 threads of one process, all 4 flag sets; resets, removals, re-probes, exit | `DescriptorsOwned`, `ExclusiveSession`, `ReopenVerdict`, `ReopenReturns` |
| `reset` | 2 processes, 3 slots, signals, kills; deadline, delay and firmware of 2 intervals | `Fenced`, `ResetDescriptorsOwned`, `PostFindsTelemetry` |
| `reset_returns` | 2 processes with one slot each, closes that fail | `SessionConsumed`, `ResetReturns` |
| `smc` | one client, 2 requests, failing exchanges, signals; budget 2, 2 spins | `CallLeavesFree`, `WaitReturns` |
| `smc_mailbox` | 2 clients in 2 processes, one controller | `IsMailbox` (refinement) |
| `tlb` | 2 threads, 3 handles, 2 windows, 2 addresses, shared and exclusive sessions; with the history of `Rebinds` | `MappingsOwned`, `WindowsOwned`, `StalePointersMiss`, `RefusedByOthers` |
| `telemetry` | 2 threads, 3 addresses, 2 tags, 3 updates, 2 attempts; resets, an application window, a handler before and one over the guard's | `ReadsSurvive`, `OthersCrash`, `WindowReturned`, `SnapshotWithinAnUpdate` |
| `rust` | a client with persistent sessions that wait or exclude, one handle, window and address, 2 reopens; a client that takes the device for itself; resets and removals | `WindowsReachTheirTlb`, `SessionsOwnDescriptors`, `NeverLost`, `GivesUpForCause`, `FailedReopenSurfaces`, `GrantedOnCurrent`, `MethodReturns` |
| `python` | 2 threads of one interpreter, 2 Session objects, one `Tlb` and window, 2 addresses; one thread uses all of one session, the other calls it and holds the device for itself in between | `OneCloser`, `CallsOnCurrent`, `WindowsFollowTheirTlb`, `SessionsClose` |
| `queue` | a Rust and a Python session, 2 handles, 2 requests, failing exchanges | `NothingLeftBehind`, `OwnMessages` |
| `discovery` | one caller, 2 devices, a first buffer of one entry and a walk of two; a directory that is missing or refused, opens that fail; the inputs of `Values` | `NothingStaysOpen`, `ConversionsAreExact`, `ScansAreComplete`, `LookupsAreRight`, `ResetsReported`, `DiscoveryReturns` |
| `bdf_bound` | as `discovery`, a walk of one | `BoundIsKept`, which is violated |

What each property says, and of which code, is in the comment before it. Each is
also checked against a mutant of the code (`PROJECT.json`): a changed definition,
next to the original under a comment `Mutant`, that TLC finds to violate it.

`bdf_bound` shows a disagreement between the code and its comment: `tt_dev_scan`
returns how many devices there are, `tt_dev_from_bdf` walks that many entries of a
buffer for 64 (`mod.c:101-103`), and the comment says that a device beyond the bound
is missed (`mod.c:99-100`). In the run the buffer has one entry and there are two
devices.

**Bounds.** Two clients suffice to hold and to wait; a third only adds waiters.
In `session` the two threads share as many slots as they can use. `reset` gives
one process a slot to spare and the other none, since the poll needs one for the
config file. Intervals: with a deadline, a delay and a firmware time of 2 the loop
runs zero, one and two sleeps, each can be woken early, and the device can
complete before, at and after each boundary. In `smc` two spins and a budget of 2
let each bound be reached first. Two requests make a reply to the wrong one
visible. In `tlb` three handles on two windows exhaust the windows, and two
addresses are needed and exhausted by a rebind. Two handles of one thread
and one of the other compete for the address that a rebind leaves. `elapsed`, `waited` and `spins`
are capped at their bound, after which the code does not look at them again.

In `telemetry` two attempts and three updates let the heartbeat change in every
attempt (the code makes three); two tags, the heartbeat and one read after it,
show a mixture. Three addresses are a window of each thread and the application's,
and a rebind exhausts them. Once a fault has ended the process nothing happens, so
deadlock is not checked there.

In `rust` two reopens (the code makes three) are one that is not the last and one
that is. Three descriptions are the client's, the other's, and one that a mapped
window keeps alive. One window and one handle exhaust the windows; two handles of
one client are in `tlb`. In `python` one reopen and one `Tlb` are what two threads
can interfere with, and a rebind needs two addresses; that a pointer never comes to
show the window of a second `Tlb` is proved. The thread that uses all of one session
leaves three of the queries to the other session, since they do nothing to a session
that a telemetry read does not. In `discovery` two devices outgrow a buffer of one, by
arriving during the pass or before it. The texts of up to seven tokens cover
every shape both parsers accept, with trailing text. The values of a field that
fits and one that does not (7 and 300) stand for the rest. Times cross two second
boundaries and the largest timeout; offsets run to the largest integer, so that
the end of an access overflows.

File descriptions, windows, addresses, requests and handles are symmetric where no
liveness is checked. `smc_mailbox` and `queue` use views that leave out what only
reports (`op`, `ret`, `err`, and in `queue` `rsp`): no step and no part of the
state properties reads it; action properties read it in the step that sets it.

Type invariants: those of `Session`, `Reset`, `Smc`, `Queue`, `Telemetry`, `Tlb`
and `Rust` are proved. The others (`PythonTypeOK`, `DiscoveryTypeOK`) document the
variables; TLC confirms them on the instances above when they are added to the
configurations.

**Fairness.** What a call in progress needs to go on, and nothing else:

- `FairSessionSpec`: an `open(2)` that can return does (a woken thread is
  scheduled).
- `FairResetSpec`, `FairSmcSpec`: a thread inside a call is scheduled, and time
  passes.
- `FairRustSpec`, `FairDiscoverySpec`: a method in progress goes on (weak fairness
  of `CallStep`).
- `FairPythonSpec`: the same, and strong fairness of closing a session: the
  property asks whether the interpreter lets a program close that wants to, so
  that much is assumed of the program.

Nothing obliges a client to make another call, the device to complete, or the
controller to answer. A blocking exclusive open among other clients may starve, as
`reset.c:36-37` says; `ReopenReturns` and `MethodReturns` promise a return only
when nobody else holds the device.

## Proofs

For any number of processes, clients, threads, slots, addresses, windows, handles,
requests, tags, devices and retries:

| Theorem | States | Assumes |
|---|---|---|
| `SessionTypeCorrect`, `ResetTypeCorrect` | `[]SessionTypeOK`, `[]ResetTypeOK` | the constants' assumptions |
| `SessionDescriptorsOwned`, `ResetOwnership` | one open slot per session or reset in progress, and no other | `~CloseFails` |
| `SessionExclusive` | `[]ExclusiveSession` | `~CloseFails` |
| `SessionReopenVerdict` | `ReopenVerdict` | `~Signals`, `EnoughSlots` |
| `ResetFenced` | `[]Fenced` | `~CloseFails` |
| `ResetSeversNobody` | `SeversNobody`, an action property | `~CloseFails` |
| `ResetConsumesSession` | `[]SessionConsumed` | the constants' assumptions |
| `ResetPostFindsTelemetry` | `PostFindsTelemetry` | `~CloseFails` |
| `SmcTypeCorrect`, `SmcCallLeavesFree` | `[]SmcTypeOK`, `[]CallLeavesFree` | `~CloseFails` |
| `SmcIsMailbox` | `IsMailbox`: the message layer implements `Mailbox` | `~CloseFails` |
| `QueueTypeCorrect` | `[]QueueTypeOK` | `~CloseFails` |
| `QueueNothingLeftBehind`, `QueueOwnMessages` | `[]NothingLeftBehind`, `OwnMessages` | `~CloseFails` |
| `TlbTypeCorrect`, `RustTypeCorrect` | `[]TlbTypeOK`, `[]RustTypeOK` | `Handle # {}` |
| `TlbMappingsOwned` | `[]MappingsOwned` | the constants' assumptions |
| `TlbWindowsOwned`, `TlbRefusedByOthers` | `[]WindowsOwned`, `RefusedByOthers` | `~CloseFails`, `FreesFirst` |
| `TlbRefusedByHolders` | `RefusedByHolders` | `~CloseFails` |
| `TlbStalePointersMiss` | `[]StalePointersMiss` | `~CloseFails`, `FreesFirst` |
| `TelemetryTypeCorrect` | `[]TelemetryTypeOK` | the constants' assumptions |
| `TelemetryReadsSurvive`, `TelemetryOthersCrash` | `[]ReadsSurvive`, `[]OthersCrash` | the constants' assumptions |
| `TelemetryWindowReturned`, `TelemetrySnapshotWithinAnUpdate` | `[]WindowReturned`, `[]SnapshotWithinAnUpdate` | the constants' assumptions |
| `DiscoveryFindInv`, `DiscoveryClosesAll` | `[]FindInv`, `[]NothingStaysOpen` | the constants' assumptions |
| `DiscoveryReportsResets`, `DiscoveryLooksUpRight`, `DiscoveryScansAreComplete` | `ResetsReported`, `LookupsAreRight`, `ScansAreComplete` | the constants' assumptions |
| `DiscoveryConversionsExact` | `ConversionsAreExact` | `Inputs` |
| `RustNeverLost`, `RustFailedReopenSurfaces` | `NeverLost`, `FailedReopenSurfaces` | the constants' assumptions |
| `RustWindowsReach` | `[]WindowsReachTheirTlb` | the constants' assumptions |
| `RustGrantedOnCurrent` | `GrantedOnCurrent` | the constants' assumptions |
| `RustGivesUpForCause` | `GivesUpForCause` | `~Signals`, `EnoughSlots` |
| `RustSessionsOwnDescriptors` | `[]SessionsOwnDescriptors` | `~CloseFails` |
| `PythonWindowsFollowTheirTlb` | `[]WindowsFollowTheirTlb` | the constants' assumptions |
| `PythonOneCloser`, `PythonCallsOnCurrent` | `[]OneCloser`, `[]CallsOnCurrent` | `~CloseFails` |

`~CloseFails` is needed where it is assumed: with it false a failed reopen leaves a
number in `sess->fd` that is not the session's (see *Known limits*), and
exclusivity, the box of a session and the bindings' ownership rest on that.
`~Signals` and `EnoughSlots`, that each process has as many slots as clients, are
needed where `ENODEV` is to mean a missing device: `tt_open` makes the same of
`EINTR` and `EMFILE` (*Known limits*). `FreesFirst` is needed where a window is
known by its number: a handle freed after its session was reopened frees, by
number, what may by then be another's. `Rust`'s borrows do not give that, as a
persistent session reopens under its handles; what they give is
`WindowsReachTheirTlb`. `Handle # {}` gives the type invariants of `Tlb` and `Rust`
a handle for the calls that have none. `Inputs` says that the sets `ConversionsAreExact` ranges
over hold texts, times and sizes, and nothing more.

*Sessions.* Exclusivity is not inductive: it speaks of flags of sessions, while
the driver decides by `excl`. `SessionInv` adds what links them: an opening
client's session is closed (`OpeningIsClosed`), no description has two slots
(`SlotsDistinct`), the flags of a session are those its description was opened
with (`FlagsRecorded`), and an exclusive description in the arbitration is the only
one (`Arbitrated`). Ownership turns "two descriptions" into "two sessions". Only
`Grant` and `Retain` change the kernel's tables, so each is treated once and the
actions reduce to them; `Smc` and `Rust` reuse the same lemmas. `ReopenVerdict`
rests on a weaker fact that a failing close does not spoil, `SlotsHeld`: a slot in
use is the number in `sess->fd` of some client of its process that is not at
`open(2)`. So a process with as many slots as clients has a free one when one of
them is at `open(2)` (`SlotToOpen`, by counting), and what is left to fail with
`ENODEV` is a missing device.

*Reset.* `ResetInv` has the same parts, ownership extended to the descriptor of a
reset in progress, and `ResetExclusive`: that descriptor's description is
exclusive. `Fenced` follows from `ResetExclusive` and `Arbitrated`. `SeversNobody`
follows from `Fenced` in the state before: an ASIC reset can make stale only live
descriptions other than its own, and there is none. `SessionConsumed` holds with
closes that fail, for the session is cleared whatever `close(2)` reports.
`PostFindsTelemetry` needs `PostInv`: as long as the description of the reset is
live the device has not gone, and from the delay on the marker is cleared and what
is left of the delay covers what the firmware still needs. A signal does not shorten
the delay, which is resumed.

*Messages.* `SmcInv` adds to `SessionInv` that a slot is empty exactly if its phase
says so, that a reply waiting in it answers its message, that a free description
has none, and that the controller runs the message of the slot it will answer
(`DriverInv`); that a wait belongs to a call or to `tt_smc_wait` (`WaitOf`); and
what a finished call leaves. Each step then posts into an empty box, retrieves the
box's own reply, gives up boxes, or stutters (`MailStep`); that two sessions have
two descriptions makes "the box of another session" well defined.

*Handles to messages.* `QueueInv` keeps all of that but what a finished call leaves,
which other handles of a Python session may change. It adds `CallOf`, what the
`call` in progress is and that a Rust session in one has no handle, and `Owned`:
until a handle strays, a session has at most one pending handle, and the message in
its box is that handle's or the call's. `OwnMessages` then compares the reply in
the box, which answers its message, with the handle's.

*Windows.* `MapInv` says who holds each mapped address: a handle of the process
that owns it, or the bind in progress (`Held`), never two (`Apart`), and that
where a call ends by forgetting its handle the handle points nowhere (`CallOK`).
The three ways a step can change the mappings, not at all, by `mmap`, by one
`munmap`, are a lemma each. Because a mapping keeps its description alive, nothing
about `close(2)` or about the order of frees and reopens is needed.

`WinInv` says the same of windows. A window is held by a description, a handle
belongs to a session, and the two agree only while the session is open on that
description; so `WinInv` needs `SessionInv` for one session per description, that
descriptions last exactly as long as slots and mappings refer to them (`Counted`),
that a window is held only by a description that holds the device (`Allocated`),
and that a client at `open(2)` has no handle and no call in progress (`Busy`), which
is where `FreesFirst` enters. `Owns` is what `WindowsOwned` says of a client whose
session is live: the windows of its description and its handles correspond one to
one. `Mine` keeps a step on one client's handle from unmapping another's window.

`RefusedByHolders` does without `FreesFirst`: beside `MapInv` and `SessionInv`,
`BookInv` needs only that descriptions last as long as slots and mappings refer to
them, that a client at `open(2)` has no call in progress, and that what a bind has
mapped and not yet recorded is of its own client's session (`Making`). So a description that counts against an open has a slot,
which is another client's, or a mapping that a handle records.

`StalePointersMiss` compares a handle with where it pointed before. A step changes
where a handle points in one of three ways (`Moved`), and only the `mmap` of a bind
maps an address, with the window of its own handle (`NextKeeps`). While the bind is
in progress the address on record is still mapped, so the new one differs; after it,
a mapping that showed the handle's window on its description would be another
handle's of the same client, which has another window (`OwnWindows`), or another
client's, which has another description (`OwnFiles`). Those two are where `FreesFirst`
and `~CloseFails` enter.

*Telemetry.* Neither property is inductive: both depend on where the guard is
armed. `GuardInv` adds `ArmedRight`, that a thread in a guarded section has armed
the address of its own window, after the installation, and that outside one it has
armed nothing, and `Installed`, what `SIGBUS` does before and after the
installation and that `prev` is right once it is over. A fault of a guarded read
then is recovered or left to happen again; one of the application finds nothing
armed by its thread and takes the end of the handler.

`WindowReturned` follows thread by thread from what each point of the call has
allocated and mapped (`Returned`). `SnapshotWithinAnUpdate` needs two facts.
`Level`: the firmware's words are never more than one update apart. `SnapOK`: what
an attempt has read so far is from at most one update before the heartbeat it began
with and at most one after the one there now (`Near`). At the check the two heartbeats are equal, and that
is what the attempt that succeeded returns.

*Discovery.* `FindInv` says, for each point of a call, which devices have been
seen and which are still ahead: in a scan, whatever was there throughout is read
or will be; in a walk, a device with the address sought is at the entry at hand or
later, or the call has an excuse; a session that was severed stays so until it is
closed. What a call returns follows from its last point.

*Rust.* `CallInv` says which method can be at which point, and that an operation
reached by a reopen has an open session (`Placed`): so `ENOTCONN` can only come
from the first attempt, and the last one turns a lost connection into `ENODEV`.
`OwnInv` joins it with `SessionInv` and says that a client without a `Session` has
no descriptor (`AliveOf`). `ReachInv` says that a handle that points somewhere
points at a mapping of its own window, that no two do at one address, and that an
allocation in progress is for a handle not in use (`Fresh`); so only a bind or a
free of a handle without a `Window` moves mappings, whatever sessions do meanwhile.
`GrantedOnCurrent` adds only that the driver's tables are functions (`Kept`).

`GivesUpForCause` counts. `Caused` says that the reopens of a method in progress
are at most one more than the resets and removals since it began, and no more than
those while the descriptor is severed: the descriptor of each reopen but the first
was opened by the method, live, so a severing of its own lies between two of them.
A method that used up its attempts therefore saw `RETRIES` severings. One whose
reopen failed with `ENODEV` found no device, by the argument of `ReopenVerdict`,
which is carried over to the bindings' reopens.

*Conversions.* Everything but addresses is arithmetic and case analysis, for any
times, units and sizes: a quotient is determined by its remainder (`Quotient`), and
an access that stays inside leaves the other bytes alone (`AccessLemma`). Addresses
need what `Least` returns, by well-founded induction on numbers (`LeastIsLeast`):
a text whose first number fits has its first colon second (`NumberFirst`), splits
there (`Halves`), and so reads as one of two shapes (`FromStrReads`), which the
`sscanf` formats read alike (`ScannedReads`).

*Python.* What a `Window` points at follows as in Rust (`Pointed`), without a
condition on who uses the `Tlb`: a rebind moves the pointer with the mapping. That it
points somewhere at all unless its `Tlb` was freed or failed to bind (`Followed`)
needs that nothing is allocated into a `Tlb` with a `Window`: such a `Tlb` has an
owner, one that an allocation in progress is to make has none, and no two
allocations are for one.
`OneCloser` needs to know where a descriptor is while a `tt_session_t` is out of
its object. `Borrows` says that an object in use has one user or is only called,
that a call's copy is still the object's descriptor, and that a thread waiting in
`open(2)` has none. `Own` then places each descriptor in use once, in an object
(`HeldBy`) or with a thread (`CarriedBy`). A step takes a descriptor, gives it
back, opens, closes, or moves none, a lemma each (`OwnTaken`, `OwnGiven`,
`OwnOpened`, `OwnDropped` and `OwnClosed`, `OwnStays`).

Every safety and action property that a passing run checks is stated by a theorem.
Only model-checked are the liveness properties (`ReopenReturns`, `ResetReturns`,
`WaitReturns`, `MethodReturns`, `SessionsClose`, `DiscoveryReturns`), since liveness
under fairness is beyond the prover, and the type invariants of `Python` and
`Discovery`, of which the proofs carry the parts they use. So is
induction over data beyond it; what `tt_dev_scan` returns of a directory of any
size is therefore stated by what was read, not by recursion. `ResetSeversNobody` is
only proved: it follows from `Fenced`, which the run checks. So is
`RefusedByHolders`, which says of clients that reopen over their handles what the run
`tlb`, where they do not, cannot show. `BoundIsKept` is refuted by its run.

## Known limits of the code

Met while modelling; the properties above state what holds, and leave these out.

- *A failing close.* `tt_close` keeps the number in `sess->fd` when `close(2)`
  reports an error, though the kernel has freed it (`mod.c:245`). If the open of a
  `tt_reopen` then fails, it stays there, where `ttdal.h:408-409` says that the
  session is closed; another thread may be given that number.
- *`ENODEV` from a reopen* does not always mean removal: `EMFILE` and `EINTR` are
  reported the same way (`mod.c:205`; `QUIRKS.md:39-41`). The run `session` has
  neither.
- *`ENODEV` from a lookup or a version query* does not always mean that no device
  has the address or that none is available (`ttdal.h:286`, `ttdal.h:90`): a walk
  passes over a device that it cannot open, for want of a slot (`EMFILE`), of
  permission (`EACCES`) or because a signal ends the wait (`EINTR`)
  (`mod.c:105-106`, `mod.c:205`, `ver.c:36-37`). `LookupsAreRight` excuses such a
  miss, of that device only.
- *`ETIMEDOUT` from a wait* whose message is gone: an exchange that the driver
  fails with that code is consumed (`smc.c:128`; `ttdal.h:752-753`).
- *A reopen refused, or blocked for good, by its own window.* A mapped window
  keeps the exclusive hold of the descriptor the reopen has just closed
  (`mod.c:226`, `tlb.c:159-160`; `ttdal.h:418-419`). `RefusedByHolders` includes this
  case, `RefusedByOthers` does not: its run frees handles before it reopens.
- *A pointer saved across a rebind.* A rebind maps first and unmaps after, so that
  such pointers trap "rather than silently accessing different device memory"
  (`tlb.c:92-95`). They do until a later bind, of another handle or a second one of
  the same, is given the address that was left. What does hold, and what mapping first
  is for, is `StalePointersMiss`: the pointer does not reach the window that was
  rebound.
- *A Python `Window` of a `Tlb` that was freed*, or that failed to bind again, reads
  and writes through NULL plus an offset: each access is checked against the length of
  the `Tlb`, after which the pointer is taken to be valid (`tlb.rs:299`, 317, 335), but
  `tt_tlb_free` and a failed bind make the pointer NULL and keep the length
  (`tlb.c:163`, `tlb.c:142-145`). `WindowsFollowTheirTlb` is therefore no claim that an
  access is safe: it says that the pointer is NULL exactly then, and otherwise that of
  the `Window`'s own mapping.
- *A rebind on a closed session* leaves the window mapped: the cleanup is not
  reached (`tlb.c:85`; `ttdal.h:592-593`).
- *A handle freed after a reopen* frees by number on the new descriptor, where the
  number may be another handle's unmapped window.
- *A reset that completes in the last sleep* of `tt_reset`'s loop is reported as
  `ETIMEDOUT` (`reset.c:100`).
- *A telemetry table* is within one update of the heartbeat, not of "the same
  update cycle" (`telem.c:163-164`), unless the firmware writes it at once.
- *While the guard is being installed*, between `sigaction` and the writing of
  `prev`, a fault of another thread bypasses the handler installed before.
- *In Python*, `kmd.version` and the lookup by address wait in `open(2)` with the
  interpreter lock held; another thread can post between the failing wait of
  `Session.call` and its drop, which then takes the other's message
  (`smc.rs:210`); a handle that is done still polls, and takes the reply to the
  message another handle posted since (`smc.rs:138`); a `Tlb` dropped while its
  session is in use leaks its mapping.

## Not modelled

Null arguments and unknown flags (they return `EINVAL` and change nothing);
accessors, representations, formatting of paths and the registration of Python
modules; the parsing of sysfs version texts; the closing of a descriptor another
thread has already reused (it needs the stale number of a failed close); old
drivers that ignore `O_EXCL` (`QUIRKS.md`); what the firmware leaves in the
telemetry table after a reset, which a reader can reach only with a new window;
examples, tests and build files. The kernel driver is modelled only as far as the
library relies on it, hence *partly*; so are the versions and the header, whose
declarations are what the other modules translate.

## What is left

In the order it would add most: the refinement of `Tlb`'s calls to their one-step
forms in `Calls`; the type invariants of `Python` and `Discovery` as theorems; a run of `Rust` with two handles and a freed window taken over, as a
property of what a program must not do.
