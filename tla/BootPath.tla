------------------------------ MODULE BootPath ------------------------------
(***************************************************************************)
(* The boot stub, from firmware entry to the hand-off to init: efi_main    *)
(* (src/kernel/boot/src/main.rs) paints the screen if there is one, scans  *)
(* the PCI functions (hwinv.rs), reads the CMOS clock register by register *)
(* while the clock runs on (rtc.rs), mints the boot projection             *)
(* (bootproj.rs), probes the two driver scaffolds, brings up the heap and  *)
(* enters init, which allocates.  One CPU runs all of it; the only         *)
(* concurrent actor is the clock.  A digest is modelled by its preimage.   *)
(***************************************************************************)
EXTENDS BootRows

CONSTANTS
  Machines,       \* [fw: what the UEFI tables offer, GOP mode included,
                  \*  seat: length of the ASOLARIA_SEAT label it is built with,
                  \*  pci: its PCI functions, as a sequence of slots,
                  \*  rtc: [bcd, h12, century], how its clock encodes a time]
  ScanCap,        \* functions after which the scan stops (64 in the code)
  TupleCap,       \* bytes of the hardware tuple (512 in the code)
  Instants,       \* successive times the clock shows
  UipLead,        \* port reads between update-in-progress and the update
  GuardMax,       \* bound of the wait for the end of an update
  HeapStart, HeapSize,
  Layouts,        \* [size, align] that init may ask the allocator for
  MaxGrants,      \* bound on the allocations of a behaviour
  Identities,     \* BootIdentity values a caller renders
  LineCaps        \* sizes of the buffers it renders them into

\* The registers read_boot_time reads, in its order (status B comes last)
ClockRegs == <<"sec", "min", "hour", "day", "month", "year", "century">>

\* The times a clock that may lack a century register can show.
ClockTimes ==
  [year : 1900 .. 2099, month : 1 .. 12, day : 1 .. 31, hour : 0 .. 23, min : 0 .. 59,
   sec : 0 .. 59]

ASSUME BootAssumption ==
  /\ ScanCap \in Nat \ {0} /\ TupleCap \in Nat /\ GuardMax \in Nat /\ MaxGrants \in Nat
  /\ 6 * ScanCap + 4 <= TupleCap                 \* 64 functions in 512 bytes
  /\ UipLead \in Nat /\ UipLead > Len(ClockRegs)  \* 244 us against a handful of port reads
  /\ Instants \in Seq(ClockTimes) /\ Instants # <<>>
  /\ HeapStart \in Nat /\ HeapSize \in Nat
  /\ \A l \in Layouts : l.size \in Nat /\ l.align \in Nat \ {0}
  /\ \A m \in Machines :
       /\ m.seat \in Nat /\ m.rtc \in [bcd : BOOLEAN, h12 : BOOLEAN, century : BOOLEAN]
       /\ m.fw.mode # <<>> =>
            /\ \A n \in {m.fw.mode[1].w, m.fw.mode[1].h, m.fw.mode[1].pps,
                       m.fw.mode[1].bytes} : n \in Nat
            /\ m.fw.mode[1].format \in PixelFormats

ASSUME LineAssumption ==
  /\ LineCaps \subseteq Nat
  /\ \A id \in Identities :
       /\ id.seat \in Seq(0 .. 255) /\ id.devicePid \in Seq(0 .. 255)
       /\ id.otherFields \in Nat /\ id.tupleDim \in Nat

VARIABLES
  bootStage,   \* the step efi_main is at
  machine,     \* the machine, fixed from power-on
  obs,         \* BootObservations
  painted,     \* last pixel of each area painted, as an index from the base
  lines,       \* lines rendered by the two writers, with their buffers
  scan,        \* [slot, func]: the loops of pci_scan
  hw,          \* HwTuple: [tuple, count, rstVmd, ahci]
  clock,       \* [now, uip]: the RTC; uip counts down to the update
  cmos,        \* [guard, expired, regs, from]: the reads of read_boot_time
  bootTime,    \* BootTime, once read
  bootPid,     \* the preimage of boot_pid but its TSC, once minted
  heap,        \* [end, next] of the BumpAllocator
  grants       \* what alloc returned: [ptr, size, align], ptr 0 for null

bootVars == <<bootStage, machine, obs, painted, lines, scan, hw, clock, cmos,
              bootTime, bootPid, heap, grants>>

-----------------------------------------------------------------------------
\* build.rs: a seat label the build accepts.
SeatAcceptedAny(n) == TRUE       \* Mutant: no assertion on the label
SeatAccepted(n) == 1 <= n /\ n <= 32

NotRead == [sec |-> 0, min |-> 0, hour |-> 0, day |-> 0, month |-> 0, year |-> 0]

BootInit ==
  /\ machine = <<>>
  /\ bootStage = "off"
  /\ obs = [uefi |-> FALSE, conOut |-> FALSE, bs |-> FALSE, gop |-> FALSE,
            fb |-> NoFramebuffer, sb |-> "unknown", loader |-> "unknown"]
  /\ painted = {}
  /\ lines = <<>>
  /\ scan = [slot |-> 1, func |-> 1]
  /\ hw = [tuple |-> <<>>, count |-> 0, rstVmd |-> FALSE, ahci |-> FALSE]
  /\ clock = [now |-> 1, uip |-> 0]
  /\ cmos = [guard |-> 0, expired |-> FALSE, regs |-> <<>>, from |-> 1]
  /\ bootTime = NotRead
  /\ bootPid = <<>>
  /\ heap = [end |-> 0, next |-> 0]
  /\ grants = <<>>

\* The firmware of some machine enters a build for some seat.
PowerOn ==
  /\ bootStage = "off" /\ lines = <<>>
  /\ machine' \in {m \in Machines : SeatAccepted(m.seat)}
  /\ bootStage' = "entry"
  /\ UNCHANGED <<obs, painted, lines, scan, hw, clock, cmos, bootTime, bootPid, heap, grants>>

\* A row of n bytes goes into its buffer, or the panic handler halts.
RowThen(n, cap, next) == bootStage' = IF n <= cap THEN next ELSE "panicked"

-----------------------------------------------------------------------------
(* efi_main: console, observations and the screen *)

\* The GOP mode as the observation records it.
ObserveFramebuffer(m) ==
  [width |-> m.w, height |-> m.h, format |-> m.format, bytes |-> m.bytes,
   base |-> m.base, layout |-> m.pps >= m.w /\ m.bytes >= m.pps * m.h * 4]

\* The painting of a mode: background, amber bar and title, each by the index
\* of the last pixel it may touch.  The title is 15 glyphs of 9 scaled columns.
PaintScreen(m) ==
  LET scale == IF m.w >= 1024 THEN 8 ELSE 4
      tw == 15 * 9 * scale
      tx == IF m.w > tw THEN (m.w - tw) \div 2 ELSE 0
      ty == m.h \div 2 - 4 * scale
      barTop == IF ty > 3 * scale THEN ty - 3 * scale ELSE 0
  IN  {(m.h - 1) * m.pps + m.w - 1,
       (barTop + scale - 1) * m.pps + tx + tw - 1,
       (ty + 8 * scale - 1) * m.pps + tx + (14 * 9 + 8) * scale - 1}

\* Mutant: the stride and the size of the framebuffer are not checked.
MayPaintUnchecked(fb) == fb.base /\ IsDirectFormat(fb.format) /\ fb.width >= 320 /\ fb.height >= 200

MayPaint(fb) ==
  /\ fb.base /\ fb.layout /\ IsDirectFormat(fb.format)
  /\ fb.width >= 320 /\ fb.height >= 200

\* Banner, BootServices, LocateProtocol, mode and framebuffer, whatever is there.
OwnDisplay ==
  LET fw == machine.fw
      seen == fw.table /\ fw.bs /\ fw.gop
      fb == IF seen /\ fw.mode # <<>> THEN ObserveFramebuffer(fw.mode[1]) ELSE NoFramebuffer
  IN
  /\ bootStage = "entry"
  /\ obs' = [obs EXCEPT !.uefi = fw.table, !.conOut = fw.table /\ fw.conOut,
                        !.bs = fw.table /\ fw.bs, !.gop = seen, !.fb = fb]
  /\ painted' = IF MayPaint(fb) THEN PaintScreen(fw.mode[1]) ELSE {}
  /\ bootStage' = "diag"
  /\ UNCHANGED <<machine, lines, scan, hw, clock, cmos, bootTime, bootPid, heap, grants>>

\* The diagnostic row in its 384 bytes, and the identity row of the build.
Diagnose ==
  /\ bootStage = "diag"
  /\ lines' = Append(lines, [pieces |-> StatusLine(obs), cap |-> 384,
                             line |-> RenderLine(StatusLine(obs), 384)])
  /\ bootStage' = "scan"
  /\ UNCHANGED <<machine, obs, painted, scan, hw, clock, cmos, bootTime, bootPid, heap, grants>>

\* render_boot_identity_line, for callers of the core library; the stub prints
\* the row its build script made instead.
RenderIdentity ==
  /\ bootStage = "off" /\ lines = <<>>
  /\ \E id \in Identities, cap \in LineCaps :
       lines' = <<[pieces |-> IdentityLine(id), cap |-> cap,
                   line |-> RenderLine(IdentityLine(id), cap)]>>
  /\ UNCHANGED <<bootStage, machine, obs, painted, scan, hw, clock, cmos, bootTime, bootPid,
                 heap, grants>>

-----------------------------------------------------------------------------
(* hwinv.rs: one step per function of a slot *)

\* Mutant: the tuple takes functions only while two of them would fit.
HwPushShort(t, f) ==
  [tuple |-> IF 6 * (Len(t.tuple) + 2) <= TupleCap THEN Append(t.tuple, f.id) ELSE t.tuple,
   count |-> t.count + 1,
   rstVmd |-> t.rstVmd \/ f.kind = "rst-vmd", ahci |-> t.ahci \/ f.kind = "ahci"]

\* HwTuple::push
HwPush(t, f) ==
  [tuple |-> IF 6 * (Len(t.tuple) + 1) <= TupleCap THEN Append(t.tuple, f.id) ELSE t.tuple,
   count |-> t.count + 1,
   rstVmd |-> t.rstVmd \/ f.kind = "rst-vmd", ahci |-> t.ahci \/ f.kind = "ahci"]

\* sha256 of the tuple and a four-byte counter: it hashes no more than TupleCap
\* bytes, and the counter's only nonzero byte is the last one, so a tuple that
\* leaves less than four bytes loses the counter.
Sha256(tuple, counter) ==
  IF 6 * Len(tuple) + 4 <= TupleCap THEN <<tuple, counter>> ELSE <<tuple>>

\* project_60d: sixty glyphs out of four digests, told apart by the counter
Project60d(tuple) == [k \in 0 .. 3 |-> Sha256(tuple, k)]

\* A slot without function 0 is skipped; one that is not multi-function has
\* only function 0.
LastFunc(slot) ==
  IF ~ slot.funcs[1].present THEN 0 ELSE IF slot.multi THEN Len(slot.funcs) ELSE 1

\* pci_scan up to the next function; the device pid is minted at the end of
\* the buses or at the cap, and its row emitted.
ScanFunction ==
  LET slot == machine.pci[scan.slot]
      f == slot.funcs[scan.func]
      found == IF scan.func <= LastFunc(slot) /\ f.present THEN HwPush(hw, f) ELSE hw
      onward == IF scan.func < LastFunc(slot) THEN [scan EXCEPT !.func = @ + 1]
                ELSE [slot |-> scan.slot + 1, func |-> 1]
      over == found.count >= ScanCap \/ onward.slot > Len(machine.pci)
  IN
  /\ bootStage = "scan"
  /\ hw' = found
  /\ scan' = onward
  /\ IF over THEN RowThen(BootPidRow(machine.seat, found.count, 24), RowCap.pid, "uip")
     ELSE RowThen(PciRow, RowCap.pci, "scan")
  /\ UNCHANGED <<machine, obs, painted, lines, clock, cmos, bootTime, bootPid, heap, grants>>

-----------------------------------------------------------------------------
(* The CMOS clock: update-in-progress rises, at least UipLead port reads go   *)
(* by, the registers change, update-in-progress falls                         *)

RtcBusy == clock.now < Len(Instants)

RtcUipRises ==
  /\ bootStage \in {"uip", "regs"} /\ RtcBusy /\ clock.uip = 0
  /\ clock' = [clock EXCEPT !.uip = UipLead]
  /\ UNCHANGED <<bootStage, machine, obs, painted, lines, scan, hw, cmos, bootTime,
                 bootPid, heap, grants>>

RtcUpdate ==
  /\ bootStage \in {"uip", "regs"} /\ clock.uip = 1
  /\ clock' = [now |-> clock.now + 1, uip |-> 0]
  /\ UNCHANGED <<bootStage, machine, obs, painted, lines, scan, hw, cmos, bootTime,
                 bootPid, heap, grants>>

\* A port read takes time.
ClockAfterRead == [clock EXCEPT !.uip = IF @ > 1 THEN @ - 1 ELSE @]

Bcd(n) == (n \div 10) * 16 + (n % 10)

\* What a clock of the given mode holds in register r for time t.
Encode(t, r, mode) ==
  LET Num(n) == IF mode.bcd THEN Bcd(n) ELSE n
      h12 == IF t.hour % 12 = 0 THEN 12 ELSE t.hour % 12
  IN  CASE r = "hour" /\ mode.h12 -> Num(h12) + (IF t.hour >= 12 THEN 128 ELSE 0)
        [] r = "year" -> Num(t.year % 100)
        [] r = "century" -> IF mode.century THEN Num(t.year \div 100) ELSE 0
        [] OTHER -> Num(t[r])

\* While an update is under way a register may hold the old or the new time.
Showing == IF clock.uip = 1 /\ RtcBusy THEN {clock.now, clock.now + 1} ELSE {clock.now}

(* rtc.rs: read_boot_time *)

\* Mutant: the fields are read without waiting for the update to end.
WaitUipNot ==
  /\ bootStage = "uip"
  /\ bootStage' = "regs"
  /\ cmos' = [cmos EXCEPT !.from = clock.now]
  /\ clock' = ClockAfterRead
  /\ UNCHANGED <<machine, obs, painted, lines, scan, hw, bootTime, bootPid, heap, grants>>

\* One round of the wait: status A, then the guard.
WaitUip ==
  /\ bootStage = "uip"
  /\ \/ /\ clock.uip # 0 /\ cmos.guard < GuardMax
        /\ cmos' = [cmos EXCEPT !.guard = @ + 1]
        /\ UNCHANGED bootStage
     \/ /\ clock.uip = 0 \/ cmos.guard >= GuardMax
        /\ cmos' = [cmos EXCEPT !.expired = clock.uip # 0, !.from = clock.now]
        /\ bootStage' = "regs"
  /\ clock' = ClockAfterRead
  /\ UNCHANGED <<machine, obs, painted, lines, scan, hw, bootTime, bootPid, heap, grants>>

ReadReg ==
  /\ bootStage = "regs" /\ Len(cmos.regs) < Len(ClockRegs)
  /\ \E now \in Showing :
       cmos' = [cmos EXCEPT !.regs =
                  Append(@, Encode(Instants[now], ClockRegs[Len(@) + 1], machine.rtc))]
  /\ clock' = ClockAfterRead
  /\ UNCHANGED <<bootStage, machine, obs, painted, lines, scan, hw, bootTime, bootPid,
                 heap, grants>>

BcdToBin(v) == (v % 16) + (v \div 16) * 10

\* Mutant: noon and midnight are not told apart from the other hours.
DecodeNoNoon(regs, mode) ==
  LET Conv(v) == IF mode.bcd THEN BcdToBin(v) ELSE v
      pm == mode.h12 /\ regs[3] >= 128
      century == IF regs[7] # 0 THEN Conv(regs[7]) ELSE 20
  IN  [sec |-> Conv(regs[1]), min |-> Conv(regs[2]),
       hour |-> Conv(regs[3] % 128) + (IF pm THEN 12 ELSE 0), day |-> Conv(regs[4]),
       month |-> Conv(regs[5]), year |-> century * 100 + Conv(regs[6])]

\* The conversion after the reads: BCD, the PM bit stripped before it, 12 AM
\* as 0, and the 21st century when there is no century register.
DecodeClock(regs, mode) ==
  LET Conv(v) == IF mode.bcd THEN BcdToBin(v) ELSE v
      pm == mode.h12 /\ regs[3] >= 128
      raw == Conv(regs[3] % 128)
      base == IF mode.h12 /\ raw = 12 THEN 0 ELSE raw
      century == IF regs[7] # 0 THEN Conv(regs[7]) ELSE 20
  IN  [sec |-> Conv(regs[1]), min |-> Conv(regs[2]),
       hour |-> base + (IF pm THEN 12 ELSE 0), day |-> Conv(regs[4]),
       month |-> Conv(regs[5]), year |-> century * 100 + Conv(regs[6])]

\* Status B, the conversion, the TSC and the BOOTTIME row.
FinishTime ==
  /\ bootStage = "regs" /\ Len(cmos.regs) = Len(ClockRegs)
  /\ bootTime' = DecodeClock(cmos.regs, machine.rtc)
  /\ RowThen(BootTimeRow(20), RowCap.time, "proj")
  /\ UNCHANGED <<machine, obs, painted, lines, scan, hw, clock, cmos, bootPid, heap, grants>>

-----------------------------------------------------------------------------
(* bootproj.rs, driver_rst_vmd.rs, driver_ahci.rs *)

Project ==
  /\ bootStage = "proj"
  /\ bootPid' = <<Project60d(hw.tuple), bootTime>>
  /\ RowThen(BootProjRow, RowCap.proj, "drivers")
  /\ UNCHANGED <<machine, obs, painted, lines, scan, hw, clock, cmos, bootTime, heap, grants>>

ProbeDrivers ==
  LET n == machine.seat
      longest == {RstVmdRow(n, hw.rstVmd), AhciRow(n, hw.ahci)}
  IN
  /\ bootStage = "drivers"
  /\ bootStage' = IF \A len \in longest : len <= RowCap.driver THEN "heap" ELSE "panicked"
  /\ UNCHANGED <<machine, obs, painted, lines, scan, hw, clock, cmos, bootTime, bootPid,
                 heap, grants>>

-----------------------------------------------------------------------------
(* The heap *)

HeapUp ==
  /\ bootStage = "heap"
  /\ heap' = [end |-> HeapStart + HeapSize, next |-> HeapStart]
  /\ bootStage' = "init"
  /\ UNCHANGED <<machine, obs, painted, lines, scan, hw, clock, cmos, bootTime, bootPid, grants>>

\* Mutant: the end of the grant is computed from the unaligned pointer.
AllocUnaligned(l) ==
  LET aligned == ((heap.next + l.align - 1) \div l.align) * l.align
      fits == heap.next + l.size <= heap.end
  IN
  /\ Len(grants) < MaxGrants /\ bootStage # "panicked"
  /\ heap' = IF fits THEN [heap EXCEPT !.next = @ + l.size] ELSE heap
  /\ grants' = Append(grants, [ptr |-> IF fits THEN aligned ELSE 0, size |-> l.size,
                               align |-> l.align])
  /\ UNCHANGED <<bootStage, machine, obs, painted, lines, scan, hw, clock, cmos,
                 bootTime, bootPid>>

\* BumpAllocator::alloc; align is a power of two, so the mask rounds up to a
\* multiple.  Nothing is ever given back.
Alloc(l) ==
  LET aligned == ((heap.next + l.align - 1) \div l.align) * l.align
      fits == aligned + l.size <= heap.end
  IN
  /\ Len(grants) < MaxGrants /\ bootStage # "panicked"
  /\ heap' = IF fits THEN [heap EXCEPT !.next = aligned + l.size] ELSE heap
  /\ grants' = Append(grants, [ptr |-> IF fits THEN aligned ELSE 0, size |-> l.size,
                               align |-> l.align])
  /\ UNCHANGED <<bootStage, machine, obs, painted, lines, scan, hw, clock, cmos,
                 bootTime, bootPid>>

\* Only init and what it calls allocate, after the heap is up.
BootNext ==
  \/ RenderIdentity \/ PowerOn \/ OwnDisplay \/ Diagnose \/ ScanFunction
  \/ RtcUipRises \/ RtcUpdate \/ WaitUip \/ ReadReg \/ FinishTime
  \/ Project \/ ProbeDrivers \/ HeapUp
  \/ bootStage = "init" /\ \E l \in Layouts : Alloc(l)

-----------------------------------------------------------------------------
BootTypeOK ==
  /\ bootStage \in {"off", "entry", "diag", "scan", "uip", "regs", "proj", "drivers", "heap",
                    "init", "panicked"}
  /\ hw.count \in 0 .. ScanCap
  /\ clock.uip \in 0 .. UipLead /\ clock.now \in 1 .. Len(Instants)
  /\ cmos.guard \in 0 .. GuardMax
  /\ Len(grants) <= MaxGrants

\* The parts of BootStaysInBounds.
Sums(pieces) ==
  LET s[i \in 0 .. Len(pieces)] == IF i = 0 THEN 0 ELSE s[i - 1] + pieces[i] IN s

LinesReport ==
  \A i \in DOMAIN lines :
    LET whole == Sums(lines[i].pieces)[Len(lines[i].pieces)]
    IN  /\ lines[i].line.ok = (whole <= lines[i].cap)
        /\ lines[i].line.required = whole
        /\ lines[i].line.written = Min2(whole, lines[i].cap)

PixelsInside == \A p \in painted : 4 * (p + 1) <= obs.fb.bytes

GrantsApart ==
  \A i \in DOMAIN grants : grants[i].ptr # 0 =>
    /\ grants[i].ptr % grants[i].align = 0
    /\ HeapStart <= grants[i].ptr
    /\ grants[i].ptr + grants[i].size <= HeapStart + HeapSize
    /\ \A j \in DOMAIN grants : j < i /\ grants[j].ptr # 0 =>
         grants[j].ptr + grants[j].size <= grants[i].ptr

\* What the stub writes stays inside what it writes to.  For every seat label
\* the build accepts, every row fits its fixed buffer, so the boot never ends
\* in the panic handler; a rendered line is whole or reports how long it would
\* have been; every painted pixel is in the framebuffer; and what the allocator
\* gives out is aligned, inside the heap and disjoint (build.rs, put_bytes,
\* render_status_line, efi_main, fb_fill, fb_string, BumpAllocator::alloc).
BootStaysInBounds ==
  bootStage # "panicked" /\ LinesReport /\ PixelsInside /\ GrantsApart

\* The boot's identity is sound: the device tuple holds every function the scan
\* counted, the blocks of its coordinate are salted apart, and the time is one
\* the clock really showed while it was read, unless the wait ran into its
\* guard or the clock cannot say which century
\* (pci_scan, HwTuple::push, project_60d, read_boot_time, bootproj::emit).
BootIdentitySound ==
  bootPid # <<>> =>
    /\ Len(hw.tuple) = hw.count
    /\ \A j, k \in 0 .. 3 : j # k => bootPid[1][j] # bootPid[1][k]
    /\ \/ cmos.expired
       \/ \E k \in cmos.from .. clock.now :
            \/ bootPid[2] = Instants[k]
            \/ /\ ~ machine.rtc.century /\ Instants[k].year < 2000
               /\ [bootPid[2] EXCEPT !.year = Instants[k].year] = Instants[k]
=============================================================================
