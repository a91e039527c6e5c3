--------------------------------- MODULE Values ---------------------------------
(***************************************************************************)
(* What the bindings compute without a device: conversions, enumerations,  *)
(* addresses, and the checked accesses of a Python Window.  A conversion   *)
(* that fails returns the name of its exception or error.                  *)
(***************************************************************************)
EXTENDS Integers, Sequences, FiniteSets

CONSTANTS
  MaxU32,    \* u32::MAX, scaled down
  MaxUsize,  \* usize::MAX, scaled down
  Ms,        \* units of time to a millisecond
  Sec,       \* and to a second
  Bus,       \* addresses ...
  Texts,     \* ... texts, ...
  Times,     \* ... points in time, ...
  Lengths    \* ... and sizes of windows, to check the definitions with

ASSUME ValuesAssumption ==
  /\ MaxU32 \in Nat /\ MaxUsize \in Nat
  /\ Ms \in Nat \ {0} /\ Sec \in Nat \ {0}

Least(S) == CHOOSE x \in S : \A y \in S : x <= y
Minimum(a, b) == IF a <= b THEN a ELSE b

------------------------------------------------------------------------------
(* PCI addresses.  A text is a sequence of tokens: colons, dots, numbers    *)
(* (in hexadecimal, however many digits) and anything else.                 *)

Colon == [is |-> ":", n |-> 0]
Dot == [is |-> ".", n |-> 0]
Hex(n) == [is |-> "hex", n |-> n]

U8 == 255
U16 == 65535

\* pci::Address: its fields are as wide as the driver's, device and function
\* wider than PCI's.
Address == [domain: 0 .. U16, bus: 0 .. U8, device: 0 .. U8, function: 0 .. U8]

ASSUME BusAssumption == Bus \subseteq Address

\* Address::new.
New(domain, bus, device, function) ==
  [domain |-> domain, bus |-> bus, device |-> device, function |-> function]

\* Display for Address.
Display(a) ==
  <<Hex(a.domain), Colon, Hex(a.bus), Colon, Hex(a.device), Dot, Hex(a.function)>>

At(s, is) == {i \in 1 .. Len(s) : s[i].is = is}
Before(s, is) == SubSeq(s, 1, Least(At(s, is)) - 1)
After(s, is) == SubSeq(s, Least(At(s, is)) + 1, Len(s))

\* A text is one number that fits.
Fits(s, max) == Len(s) = 1 /\ s[1].is = "hex" /\ s[1].n <= max

\* FromStr for Address: the address, or nothing.
FromStr(s) ==
  LET long == Cardinality(At(s, ":")) = 2
      rest == IF long THEN After(s, ":") ELSE s
      devfn == After(rest, ":")
  IN  IF /\ Cardinality(At(s, ":")) \in {1, 2}
         /\ long => Fits(Before(s, ":"), U16)
         /\ Fits(Before(rest, ":"), U8)
         /\ At(devfn, ".") # {}
         /\ Fits(Before(devfn, "."), U8) /\ Fits(After(devfn, "."), U8)
      THEN {New(IF long THEN s[1].n ELSE 0, rest[1].n, devfn[1].n, devfn[3].n)}
      ELSE {}

\* What tt_dev_from_bdf parses: the long form, else the short one, and no matter
\* what follows; numbers are not bounded.
Scanned(s) ==
  LET Starts(kinds) == Len(s) >= Len(kinds) /\ \A i \in 1 .. Len(kinds) : s[i].is = kinds[i]
  IN  IF Starts(<<"hex", ":", "hex", ":", "hex", ".", "hex">>)
      THEN {New(s[1].n, s[3].n, s[5].n, s[7].n)}
      ELSE IF Starts(<<"hex", ":", "hex", ".", "hex">>)
      THEN {New(0, s[1].n, s[3].n, s[5].n)}
      ELSE {}

------------------------------------------------------------------------------
(* Timeouts and the clock.  0 selects the driver's default.                 *)

\* millis, in Rust, of a Duration.
RsMillis(t) == Minimum(t \div Ms, MaxU32)

\* millis, in Python, of a float: rounded, and refused if negative.
PyMillis(t) == IF t < 0 THEN {} ELSE {Minimum((2 * t + Ms) \div (2 * Ms), MaxU32)}

Clock(t) == [sec |-> t \div Sec, nsec |-> t % Sec]

\* timespec_diff_ms.
timespec_diff_ms(start, end) ==
  ((end.sec - start.sec) * Sec + (end.nsec - start.nsec)) \div Ms

------------------------------------------------------------------------------
(* Enumerations: what the header gives a value, and what the bindings do.   *)

\* A flag is the position of its bit, a size its megabytes.
TT_POWER == [MaxAiClk |-> 0, MriscPhyWakeup |-> 1, TensixEnable |-> 2, L2CpuEnable |-> 3]
TT_TLB == [Mb1 |-> 1, Mb2 |-> 2, Mb16 |-> 16, Gb4 |-> 4096]
TT_CACHE == [Uncached |-> 0, WriteCombined |-> 1]
TT_ARCH == [Grayskull |-> 65440, Wormhole |-> 16414, Blackhole |-> 45376]

\* The telemetry tags: TELEM_ENUM_COUNT is not one.
TT_TAG == (1 .. 32) \cup (34 .. 68)
TT_TELEMETRY_LEN == 69

\* Rust's.
RsFlag(f) == TT_POWER[f]
RsSize(s) == TT_TLB[s]
RsCaching(m) == TT_CACHE[m]
RsArch(a) == TT_ARCH[a]
RsTag == TT_TAG

\* Python's; a variant's value is its position, and as_raw is what C is given.
PyFlag(f) == {TT_POWER[f]}
PySize == <<"Mb1", "Mb2", "Mb16", "Gb4">>
PySizeRaw(i) == TT_TLB[PySize[i]]
PyCaching == <<"Uncached", "WriteCombined">>
PyCachingRaw(i) == TT_CACHE[PyCaching[i]]
PyTag == TT_TAG
PyTagRaw(t) == t

\* FlagSet::HI and LO, which Python's Flag has too, and From for arrays of Flags.
HI == 0 .. 15
LO == {}
FlagSet(flags) == {RsFlag(flags[i]) : i \in DOMAIN flags}

\* Flag.__or__.
PyOr(a, b) == a \cup b

\* Telemetry::get, and Index, in Rust; Telemetry.get and __getitem__ in Python.
RsGet(table, tag) == IF tag \in DOMAIN table THEN {table[tag]} ELSE {}
PyGet(table, tag) == IF PyTagRaw(tag) \in DOMAIN table THEN {table[PyTagRaw(tag)]} ELSE {}

------------------------------------------------------------------------------
(* Versions.  The parts after the numbers may be absent, an identifier, no  *)
(* identifier at all or none before the +, or fill a buffer that then has   *)
(* no terminator.                                                           *)

Parts == {"", "rc1", "01", "r_1", "unterminated"}
IsPre(part) == part \in {"", "rc1"}
IsBuild(part) == part \in {"", "rc1", "01"}

\* cstr, in both bindings.
CStr(part) == IF part = "unterminated" THEN "" ELSE part

\* from_raw: what is no identifier is left out.
RsVersion(raw) ==
  [pre |-> IF IsPre(CStr(raw.pre)) THEN CStr(raw.pre) ELSE "",
   build |-> IF IsBuild(CStr(raw.build)) THEN CStr(raw.build) ELSE ""]

\* raw_to_semver: what is no identifier raises ValueError.
PyVersion(raw) ==
  IF IsPre(CStr(raw.pre)) /\ IsBuild(CStr(raw.build))
  THEN {[pre |-> CStr(raw.pre), build |-> CStr(raw.build)]}
  ELSE {}

------------------------------------------------------------------------------
(* SMC messages and TLB configurations, in Python.                          *)

Words == 8

\* Message.__new__.
PyMessage(words) ==
  IF Len(words) > Words THEN {}
  ELSE {[i \in 1 .. Words |-> IF i <= Len(words) THEN words[i] ELSE 0]}

\* Message.message, the setter.
set_message(old, words) ==
  IF Len(words) > Words THEN {}
  ELSE {[i \in 1 .. Words |-> IF i <= Len(words) THEN words[i] ELSE 0]}

\* tt_tlb_config_t's members, and Config.__new__'s parameters, of which the first
\* three are required and the others default to 0.
tt_tlb_config_t ==
  <<"addr", "x_end", "y_end", "x_start", "y_start", "noc", "mcast", "linked", "static_vc">>
PyConfigNew ==
  <<"addr", "x_end", "y_end", "x_start", "y_start", "noc", "mcast", "linked", "static_vc">>

\* A configuration of positional values; what is not given is 0.
Positional(names, args) ==
  [name \in {names[i] : i \in DOMAIN names} |->
     LET i == CHOOSE i \in DOMAIN names : names[i] = name
     IN  IF i <= Len(args) THEN args[i] ELSE 0]

------------------------------------------------------------------------------
(* Accesses to a window, a sequence of bytes, through a Window object: the  *)
(* bytes at an offset.                                                      *)

\* checked_add.
Add(a, b) == IF a + b <= MaxUsize THEN {a + b} ELSE {}

\* Mutant: the end of the access wraps around.
ReachesWraps(mem, offset, n) == offset % n = 0 /\ (offset + n) % (MaxUsize + 1) <= Len(mem)

\* An access of n bytes is aligned and ends within the window.
Reaches(mem, offset, n) == offset % n = 0 /\ \E end \in Add(offset, n) : end <= Len(mem)

\* What lies outside the window is anything, say 0.
Bytes(mem, offset, n) ==
  [i \in 1 .. n |-> IF offset + i \in DOMAIN mem THEN mem[offset + i] ELSE 0]
Stored(mem, offset, bytes) ==
  [i \in DOMAIN mem |-> IF i - offset \in DOMAIN bytes THEN bytes[i - offset] ELSE mem[i]]

read_u8(mem, offset) == IF offset >= Len(mem) THEN {} ELSE {Bytes(mem, offset, 1)}
read_u32(mem, offset) == IF Reaches(mem, offset, 4) THEN {Bytes(mem, offset, 4)} ELSE {}
read_u64(mem, offset) == IF Reaches(mem, offset, 8) THEN {Bytes(mem, offset, 8)} ELSE {}
write_u8(mem, offset, v) == IF offset >= Len(mem) THEN {} ELSE {Stored(mem, offset, v)}
write_u32(mem, offset, v) == IF Reaches(mem, offset, 4) THEN {Stored(mem, offset, v)} ELSE {}
write_u64(mem, offset, v) == IF Reaches(mem, offset, 8) THEN {Stored(mem, offset, v)} ELSE {}

\* Window::read and Window::write in Rust: the caller sees to the offset.
RsRead(mem, offset, n) == Bytes(mem, offset, n)
RsWrite(mem, offset, v) == Stored(mem, offset, v)

------------------------------------------------------------------------------
(* Properties.                                                              *)

\* An address that was displayed is read back, by Rust and by tt_dev_from_bdf,
\* and whatever text Rust reads tt_dev_from_bdf reads alike (mod.rs, TryFrom:
\* "the device at the given PCI address").
AddressesResolve ==
  /\ \A a \in Bus : FromStr(Display(a)) = {a} /\ Scanned(Display(a)) = {a}
  /\ \A s \in Texts : FromStr(s) # {} => FromStr(s) \subseteq Address /\ Scanned(s) = FromStr(s)

\* A timeout of a millisecond or more never comes out as 0, which is the driver's
\* default, a longer one is never shorter, and the bindings agree to a
\* millisecond (smc.rs and msg.rs, millis).
TimeoutsAgree ==
  \A t \in Times :
    /\ t >= Ms => RsMillis(t) > 0
    /\ t + 1 \in Times => RsMillis(t) <= RsMillis(t + 1)
    /\ \E p \in PyMillis(t) :
         p \in RsMillis(t) .. (RsMillis(t) + 1) /\ (t % Ms = 0 => p = RsMillis(t))

\* The time elapsed between two readings of the clock is theirs to a millisecond,
\* across second boundaries too (clock.h).
ElapsedIsElapsed ==
  \A s, t \in Times :
    s <= t => timespec_diff_ms(Clock(s), Clock(t)) = (t - s) \div Ms

\* An access to a window that a Window object allows is aligned and stays within
\* the window, whatever the offset, and what was written is read back and nothing
\* else changed (tlb.rs, "offset is in-bounds and aligned").
AccessesStayInside ==
  \A l \in Lengths : \A offset \in 0 .. MaxUsize :
    LET mem == [i \in 1 .. l |-> i]
        Put(n) == [i \in 1 .. n |-> l + i]
        Inside(n) == offset % n = 0 /\ offset + n <= l
        Kept(n, new) ==
          /\ DOMAIN new = DOMAIN mem
          /\ Bytes(new, offset, n) = Put(n)
          /\ \A i \in DOMAIN mem : i - 1 \in offset .. (offset + n - 1) \/ new[i] = mem[i]
        Reading(n, read) == read = IF Inside(n) THEN {RsRead(mem, offset, n)} ELSE {}
        Writing(n, write) ==
          /\ (write # {}) = Inside(n)
          /\ \A new \in write : Kept(n, new) /\ new = RsWrite(mem, offset, Put(n))
    IN  /\ Reading(1, read_u8(mem, offset))
        /\ Reading(4, read_u32(mem, offset))
        /\ Reading(8, read_u64(mem, offset))
        /\ Writing(1, write_u8(mem, offset, Put(1)))
        /\ Writing(4, write_u32(mem, offset, Put(4)))
        /\ Writing(8, write_u64(mem, offset, Put(8)))

\* Both bindings give the C library the same values for the same names, every
\* flag is in HI and tells itself from the others, and every tag has an entry of
\* its own in a table.
EnumerationsAgree ==
  LET table == [i \in 0 .. TT_TELEMETRY_LEN - 1 |-> i]
      Flags == DOMAIN TT_POWER
  IN  /\ \A i \in DOMAIN PySize : PySizeRaw(i) = RsSize(PySize[i])
      /\ \A i \in DOMAIN PyCaching : PyCachingRaw(i) = RsCaching(PyCaching[i])
      /\ \A f, g \in Flags :
           /\ FlagSet(<<f, g>>) = PyOr(PyFlag(f), PyFlag(g))
           /\ f # g => PyFlag(f) \cap PyFlag(g) = LO
           /\ PyFlag(f) \subseteq HI
      /\ \A n \in 3 .. 9 :
           Positional(PyConfigNew, [i \in 1 .. n |-> i]) =
             Positional(tt_tlb_config_t, [i \in 1 .. n |-> i])
      /\ RsTag = PyTag
      /\ \A tag \in RsTag : RsGet(table, tag) = {tag} /\ PyGet(table, tag) = {tag}

\* A version that Python can express is the one that Rust does.
VersionsAgree ==
  \A pre, build \in Parts :
    LET raw == [pre |-> pre, build |-> build] IN PyVersion(raw) \subseteq {RsVersion(raw)}

\* Setting the words of a message leaves nothing of those it had.
MessagesReplaced ==
  \A m, n \in 0 .. Words + 1 :
    \A old \in PyMessage([i \in 1 .. m |-> i]) :
      set_message(old, [i \in 1 .. n |-> i + Words]) = PyMessage([i \in 1 .. n |-> i + Words])

\* What the bindings convert keeps what the code around it relies on: addresses,
\* timeouts, the clock, the bytes of a window, and the names, versions and messages
\* by which both bindings mean what the header means.
ConversionsAreExact ==
  /\ EnumerationsAgree /\ VersionsAgree /\ MessagesReplaced
  /\ AddressesResolve /\ TimeoutsAgree /\ ElapsedIsElapsed /\ AccessesStayInside
==============================================================================
