------------------------------ MODULE BootRows ------------------------------
(***************************************************************************)
(* What the boot stub prints, reduced to lengths: the classification in    *)
(* boot_diag.rs, the two line writers that count what they need and keep   *)
(* what fits, the selector axes of boot_identity.rs, and the fixed buffers *)
(* into which hwinv.rs, rtc.rs, bootproj.rs and the two driver scaffolds   *)
(* put their rows byte by byte.                                            *)
(***************************************************************************)
EXTENDS Integers, Sequences, FiniteSets

\* push_bool, push_byte, push_u32, push_usize: the bytes a value takes (the
\* u32 range, which no count of the model leaves).
PowersOfTen == <<10, 100, 1000, 10000, 100000, 1000000, 10000000, 100000000, 1000000000>>
Digits(n) == 1 + Cardinality({d \in DOMAIN PowersOfTen : PowersOfTen[d] <= n})

Min2(a, b) == IF a < b THEN a ELSE b

\* push_bytes of n bytes into a buffer of cap bytes: what is required grows,
\* what is written grows by what still fits.
PushBytes(w, n, cap) ==
  [required |-> w.required + n, written |-> w.written + Min2(cap - w.written, n)]

\* The writer after each of the pieces, whose lengths are given.
Pushed(pieces, cap) ==
  LET w[i \in 0 .. Len(pieces)] ==
        IF i = 0 THEN [required |-> 0, written |-> 0] ELSE PushBytes(w[i - 1], pieces[i], cap)
  IN  w

\* A line of pieces; finish fails when bytes are missing.
RenderLine(pieces, cap) ==
  LET w == Pushed(pieces, cap)[Len(pieces)]
  IN  [ok |-> w.required <= w.written, required |-> w.required, written |-> w.written]

-----------------------------------------------------------------------------
(* boot_diag.rs *)

\* What as_wire answers for the four enums
PixelFormats == {"rgb", "bgr", "bitmask", "blt-only", "unknown"}
SecureBootStates == {"unknown", "enabled", "disabled"}
LoaderPaths == {"firmware-efi", "windows-bootmgr", "unknown"}
BootStages == {"no-uefi", "uefi-table", "uefi-console", "boot-services", "graphics-output",
               "framebuffer", "policy-guarded", "metal-candidate", "pre-driver-ready"}

\* The length of a text is a number: what a proof has to be told about strings.
ASSUME TextAssumption ==
  \A t \in PixelFormats \cup SecureBootStates \cup LoaderPaths \cup BootStages : Len(t) \in Nat

\* PixelFormat::is_direct_framebuffer
IsDirectFormat(fmt) == fmt \in {"rgb", "bgr", "bitmask"}

NoFramebuffer ==
  [width |-> 0, height |-> 0, format |-> "unknown", bytes |-> 0, base |-> FALSE,
   layout |-> FALSE]

\* FramebufferObservation::is_direct_complete
IsDirectComplete(fb) ==
  /\ fb.width # 0 /\ fb.height # 0 /\ fb.bytes # 0
  /\ fb.base /\ fb.layout
  /\ IsDirectFormat(fb.format)

HasDirectFramebuffer(obs) == obs.gop /\ IsDirectComplete(obs.fb)

\* classify_boot_stage, in the order of its tests
ClassifyBootStage(obs) ==
  CASE ~ obs.uefi -> "no-uefi"
    [] obs.uefi /\ HasDirectFramebuffer(obs) ->
         (CASE obs.loader = "firmware-efi" /\ obs.sb = "disabled" -> "pre-driver-ready"
            [] obs.loader = "firmware-efi" /\ obs.sb = "unknown" -> "metal-candidate"
            [] obs.loader = "windows-bootmgr" \/ obs.sb = "enabled" -> "policy-guarded"
            [] OTHER -> "framebuffer")
    [] OTHER ->
         (CASE obs.gop -> "graphics-output"
            [] ~ obs.gop /\ obs.bs -> "boot-services"
            [] ~ obs.gop /\ ~ obs.bs /\ obs.conOut -> "uefi-console"
            [] OTHER -> "uefi-table")

\* render_status_line_inner: the fixed text around the values it carries
StatusLine(obs) ==
  <<117, Len(ClassifyBootStage(obs)), 6, 1, 8, 1, 4, 1, 5, 1, 4,
    Digits(obs.fb.width), 1, Digits(obs.fb.height), 1, Len(obs.fb.format), 1,
    Digits(obs.fb.bytes), 8, 1, 10, 1, 4, Len(obs.sb), 8, Len(obs.loader)>>

-----------------------------------------------------------------------------
(* boot_identity.rs *)

\* selector_axis_u10 of the identity's seed (the device pid, or the seat when
\* there is none), with the u16 arithmetic wrapping before the mask
SelectorAxis(seed, i) ==
  LET At(k) == seed[(k % Len(seed)) + 1]
  IN  ((At(i) * 31 + At(i * 7 + 3) * 17 + At(i * 13 + 11) * 7 + i * 19) % 65536) % 1024

\* render_boot_identity_line_inner: the fixed fields, then the axes with a
\* comma before each but the first
IdentityLine(id) ==
  LET seed == IF id.devicePid = <<>> THEN id.seat ELSE id.devicePid
      Axis(i) == IF i = 1 THEN 0 ELSE IF i % 2 = 1 THEN 1
                 ELSE Digits(SelectorAxis(seed, i \div 2 - 1))
  IN  <<75, 6, Len(id.seat), 12, Len(id.devicePid), id.otherFields>>
        \o [i \in 1 .. 2 * id.tupleDim |-> Axis(i)]

-----------------------------------------------------------------------------
(* The rows with a fixed buffer: a row that does not fit indexes past the end *)
(* of its array, which panics.  Lengths as in the literals of the source.     *)

Utc == 20   \* write_utc: YYYY-MM-DDTHH:MM:SSZ

\* The length of each row, for a seat label of n bytes
PciRow == 41
BootPidRow(n, count, coordDigits) == 335 + Digits(count) + coordDigits + 5 + 2 * n
BootTimeRow(tscDigits) == 20 + Utc + tscDigits + 30
BootProjRow == 122 + Utc
RstVmdRow(n, rstVmd) ==
  61 + 16 + 10 + 16 + 5 + Utc + 6 + n + 8 + (IF rstVmd THEN 35 ELSE 42) + 29
AhciRow(n, ahci) ==
  61 + 16 + 10 + 16 + 5 + Utc + 6 + n + 8 + (IF ahci THEN 39 ELSE 42) + 29

RowCap == [pci |-> 48, pid |-> 448, time |-> 96, proj |-> 160, driver |-> 256]
=============================================================================
