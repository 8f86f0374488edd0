----------------------------- MODULE BootProofs -----------------------------
(***************************************************************************)
(* Proofs about the boot path of KernelServices, for every machine, seat   *)
(* label, clock, scan cap and heap, and the type correctness of the whole  *)
(* composition.                                                            *)
(***************************************************************************)
EXTENDS ServiceProofs, GateProofs

LEMMA BootProject == [Next]_serviceVars => [BootNext]_bootVars
  BY DEF Next, serviceVars, PeerService, RegistryService, ChainService, GateService,
         LinkService, RouteService, BootService, bootVars

-----------------------------------------------------------------------------
(* Rows *)

\* A counter takes ten digits at most.
LEMMA DigitsBound == ASSUME NEW n PROVE Digits(n) \in 1 .. 10
<1> DEFINE D == {d \in DOMAIN PowersOfTen : PowersOfTen[d] <= n}
<1>1. DOMAIN PowersOfTen = 1 .. 9
  BY DEF PowersOfTen
<1>2. IsFiniteSet(1 .. 9) /\ Cardinality(1 .. 9) = 9
  <2>1. IsFiniteSet(1 .. 9) /\ Cardinality(1 .. 9) = IF 1 > 9 THEN 0 ELSE 9 - 1 + 1
    <3>1. 1 \in Int /\ 9 \in Int
      OBVIOUS
    <3> QED BY <3>1, FS_Interval, Zenon
  <2> QED BY <2>1
<1>3. D \subseteq 1 .. 9
  BY <1>1
<1>4. IsFiniteSet(D) /\ Cardinality(D) <= 9
  BY <1>2, <1>3, FS_Subset
<1>5. Cardinality(D) \in Nat
  BY <1>4, FS_CardinalityType
<1> HIDE DEF D
<1>6. 1 + Cardinality(D) \in 1 .. 10
  BY <1>4, <1>5
<1> QED BY <1>6 DEF D, Digits

\* For every label the build accepts every row fits.
LEMMA RowsFit ==
  ASSUME NEW n \in 1 .. 32
  PROVE  /\ \A count : BootPidRow(n, count, 24) <= RowCap.pid
         /\ PciRow <= RowCap.pci /\ BootTimeRow(20) <= RowCap.time /\ BootProjRow <= RowCap.proj
         /\ \A b : RstVmdRow(n, b) <= RowCap.driver /\ AhciRow(n, b) <= RowCap.driver
<1>1. /\ RowCap.pid = 448 /\ RowCap.pci = 48 /\ RowCap.time = 96 /\ RowCap.proj = 160
      /\ RowCap.driver = 256
  BY DEF RowCap
<1>2. ASSUME NEW count PROVE BootPidRow(n, count, 24) <= 448
  BY DigitsBound DEF BootPidRow
<1>3. ASSUME NEW b PROVE RstVmdRow(n, b) <= 256 /\ AhciRow(n, b) <= 256
  <2>1. (IF b THEN 35 ELSE 42) \in 35 .. 42 /\ (IF b THEN 39 ELSE 42) \in 35 .. 42
    OBVIOUS
  <2> QED BY <2>1 DEF RstVmdRow, AhciRow, Utc
<1>4. PciRow <= 48 /\ BootTimeRow(20) <= 96 /\ BootProjRow <= 160
  BY DEF PciRow, BootTimeRow, BootProjRow, Utc
<1>5. PciRow <= RowCap.pci /\ BootTimeRow(20) <= RowCap.time /\ BootProjRow <= RowCap.proj
  BY <1>1, <1>4, Zenon
<1>6. \A count : BootPidRow(n, count, 24) <= RowCap.pid
  BY <1>1, <1>2, Zenon
<1>7. \A b : RstVmdRow(n, b) <= RowCap.driver /\ AhciRow(n, b) <= RowCap.driver
  BY <1>1, <1>3, Zenon
<1> QED BY <1>5, <1>6, <1>7, Zenon

-----------------------------------------------------------------------------
(* Lines.  What a recursive function computes is proved by induction, and    *)
(* induction from the well-foundedness of the numbers.                       *)

\* Some smallest number is in every nonempty set of numbers.
LEMMA LeastNumber ==
  ASSUME NEW T, T \subseteq Nat, T # {}
  PROVE  \E n \in T : \A m \in T : n <= m
<1>1. IsWellFoundedOn(OpToRel(<, Nat), Nat)
  BY NatLessThanWellFounded, Zenon
<1>2. PICK n \in T : \A m \in T : ~ (<<m, n>> \in OpToRel(<, Nat))
  BY <1>1, WFMin, Zenon
<1>3. \A m \in T : ~ (m < n)
  BY <1>2 DEF OpToRel
<1> QED BY <1>3

\* Induction over the numbers, said of a set in place of a predicate.
LEMMA NumberInduction ==
  ASSUME NEW S, S \subseteq Nat, 0 \in S, \A n \in S : n + 1 \in S
  PROVE  S = Nat
<1> DEFINE T == Nat \ S
<1> SUFFICES ASSUME T # {} PROVE FALSE
  OBVIOUS
<1>1. T \subseteq Nat
  OBVIOUS
<1> HIDE DEF T
<1>2. PICK n \in T : \A m \in T : n <= m
  BY <1>1, LeastNumber, Zenon
<1>3. n # 0 /\ n - 1 \in Nat /\ n - 1 \in S
  BY <1>2 DEF T
<1> QED BY <1>2, <1>3 DEF T

\* The sums that Sums chooses exist and satisfy their equation.
LEMMA SumsEquation ==
  ASSUME NEW s \in Seq(Nat)
  PROVE  /\ Sums(s) \in [0 .. Len(s) -> Nat]
         /\ Sums(s)[0] = 0
         /\ \A i \in 1 .. Len(s) : Sums(s)[i] = Sums(s)[i - 1] + s[i]
<1> DEFINE Sum(f, n) == f = [i \in 0 .. n |-> IF i = 0 THEN 0 ELSE f[i - 1] + s[i]]
           S == {n \in Nat : n <= Len(s) => \E f : Sum(f, n)}
<1>1. 0 \in S
  <2>1. Sum([i \in 0 .. 0 |-> 0], 0)
    OBVIOUS
  <2> QED BY <2>1
<1>2. ASSUME NEW n \in S PROVE n + 1 \in S
  <2> SUFFICES ASSUME n + 1 <= Len(s) PROVE \E f : Sum(f, n + 1)
    OBVIOUS
  <2>1. PICK f : Sum(f, n)
    BY <1>2
  <2> DEFINE g == [i \in 0 .. n + 1 |-> IF i = n + 1 THEN f[n] + s[n + 1] ELSE f[i]]
             h == [i \in 0 .. n + 1 |-> IF i = 0 THEN 0 ELSE g[i - 1] + s[i]]
  <2>2. ASSUME NEW i \in 0 .. n + 1 PROVE g[i] = h[i]
    <3>1. n \in Nat /\ f = [j \in 0 .. n |-> IF j = 0 THEN 0 ELSE f[j - 1] + s[j]]
      BY <1>2, <2>1
    <3> HIDE DEF Sum, S
    <3>2. CASE i = 0
      BY <3>1, <3>2
    <3>3. CASE i = n + 1
      BY <3>1, <3>3
    <3>4. CASE i \in 1 .. n
      <4>1. f[i] = f[i - 1] + s[i] /\ g[i - 1] = f[i - 1] /\ g[i] = f[i]
        BY <3>1, <3>4
      <4> QED BY <3>1, <3>4, <4>1
    <3> QED BY <3>1, <3>2, <3>3, <3>4
  <2>3. g = h
    <3> HIDE DEF Sum, S
    <3> QED BY <2>2, Zenon
  <2>4. Sum(g, n + 1)
    BY <2>3, Zenon
  <2> QED BY <2>4
<1>3. S = Nat
  <2>1. S \subseteq Nat
    OBVIOUS
  <2> HIDE DEF S
  <2> QED BY <1>1, <1>2, <2>1, NumberInduction, Zenon
<1>4. Len(s) \in Nat
  OBVIOUS
<1>5. \E f : Sum(f, Len(s))
  BY <1>3, <1>4
<1>6. Sums(s) = CHOOSE f : Sum(f, Len(s))
  BY Zenon DEF Sums
<1>7. Sum(Sums(s), Len(s))
  <2> HIDE DEF Sum
  <2> QED BY <1>5, <1>6, Zenon
<1> DEFINE f == Sums(s)
<1>8. /\ f = [i \in 0 .. Len(s) |-> IF i = 0 THEN 0 ELSE f[i - 1] + s[i]]
  BY <1>7, Zenon
<1> HIDE DEF f, S, Sum
<1>9. f[0] = 0 /\ \A i \in 1 .. Len(s) : f[i] = f[i - 1] + s[i]
  BY <1>4, <1>8
<1> DEFINE N == {n \in Nat : n <= Len(s) => f[n] \in Nat}
<1>10. N = Nat
  <2>1. N \subseteq Nat /\ 0 \in N
    BY <1>9
  <2>2. ASSUME NEW n \in N PROVE n + 1 \in N
    <3>1. CASE n + 1 <= Len(s)
      BY <1>4, <1>9, <2>2, <3>1
    <3> QED BY <3>1
  <2> HIDE DEF N
  <2> QED BY <2>1, <2>2, NumberInduction, Zenon
<1>11. \A n \in 0 .. Len(s) : f[n] \in Nat
  BY <1>4, <1>10
<1>12. f \in [0 .. Len(s) -> Nat]
  BY <1>8, <1>11
<1> QED BY <1>9, <1>12 DEF f

\* After every piece the writer has counted all of them, and kept what fits.
LEMMA WriterCounts ==
  ASSUME NEW s \in Seq(Nat), NEW cap \in Nat
  PROVE  \A i \in 0 .. Len(s) :
           Pushed(s, cap)[i] = [required |-> Sums(s)[i], written |-> Min2(Sums(s)[i], cap)]
<1> DEFINE W(w) == w = [i \in 0 .. Len(s) |->
                          IF i = 0 THEN [required |-> 0, written |-> 0]
                          ELSE PushBytes(w[i - 1], s[i], cap)]
           Kept(i) == [required |-> Sums(s)[i], written |-> Min2(Sums(s)[i], cap)]
           v == [i \in 0 .. Len(s) |-> Kept(i)]
<1>1. Len(s) \in Nat /\ \A i \in 1 .. Len(s) : s[i] \in Nat
  OBVIOUS
<1>2. Kept(0) = [required |-> 0, written |-> 0]
  BY SumsEquation DEF Min2
<1>3. ASSUME NEW i \in 1 .. Len(s) PROVE Kept(i) = PushBytes(Kept(i - 1), s[i], cap)
  <2> DEFINE a == Sums(s)[i - 1]
             b == Sums(s)[i]
  <2>1. a \in Nat /\ b = a + s[i] /\ s[i] \in Nat
    BY <1>1, SumsEquation
  <2> HIDE DEF a, b
  <2>2. Min2(b, cap) = Min2(a, cap) + Min2(cap - Min2(a, cap), s[i])
    BY <2>1 DEF Min2
  <2>3. Kept(i) = [required |-> b, written |-> Min2(b, cap)]
    BY DEF b
  <2>4. PushBytes(Kept(i - 1), s[i], cap)
          = [required |-> a + s[i], written |-> Min2(a, cap) + Min2(cap - Min2(a, cap), s[i])]
    BY DEF PushBytes, a
  <2> QED BY <2>1, <2>2, <2>3, <2>4
<1> HIDE DEF Kept
<1>4. W(v)
  <2> DEFINE u == [i \in 0 .. Len(s) |-> IF i = 0 THEN [required |-> 0, written |-> 0]
                                         ELSE PushBytes(v[i - 1], s[i], cap)]
  <2>1. ASSUME NEW i \in 0 .. Len(s) PROVE v[i] = u[i]
    <3>1. CASE i = 0
      BY <1>1, <1>2, <3>1
    <3>2. CASE i \in 1 .. Len(s)
      <4>1. v[i - 1] = Kept(i - 1) /\ v[i] = Kept(i)
        BY <1>1, <3>2
      <4>2. u[i] = PushBytes(v[i - 1], s[i], cap)
        BY <1>1, <3>2
      <4> QED BY <1>3, <3>2, <4>1, <4>2
    <3> QED BY <1>1, <3>1, <3>2
  <2>2. v = u
    BY <2>1, Zenon
  <2> QED BY <2>2, Zenon
<1>5. Pushed(s, cap) = CHOOSE w : W(w)
  BY Zenon DEF Pushed
<1>6. W(Pushed(s, cap))
  <2> HIDE DEF W, v
  <2> QED BY <1>4, <1>5, Zenon
<1> DEFINE w == Pushed(s, cap)
<1>7. w = [i \in 0 .. Len(s) |-> IF i = 0 THEN [required |-> 0, written |-> 0]
                                 ELSE PushBytes(w[i - 1], s[i], cap)]
  BY <1>6, Zenon
<1> HIDE DEF w, W
<1> DEFINE N == {n \in Nat : n <= Len(s) => w[n] = Kept(n)}
<1>8. N = Nat
  <2>1. N \subseteq Nat /\ 0 \in N
    BY <1>1, <1>2, <1>7
  <2>2. ASSUME NEW n \in N PROVE n + 1 \in N
    <3>1. CASE n + 1 <= Len(s)
      <4>1. n + 1 \in 1 .. Len(s) /\ (n + 1) - 1 = n /\ w[n] = Kept(n)
        BY <1>1, <2>2, <3>1
      <4>2. w[n + 1] = PushBytes(w[n], s[n + 1], cap)
        BY <1>1, <1>7, <4>1
      <4>3. Kept(n + 1) = PushBytes(Kept(n), s[n + 1], cap)
        BY <1>3, <4>1
      <4> QED BY <4>1, <4>2, <4>3
    <3> QED BY <3>1
  <2> HIDE DEF N
  <2> QED BY <2>1, <2>2, NumberInduction, Zenon
<1>9. \A n \in 0 .. Len(s) : w[n] = Kept(n)
  BY <1>1, <1>8
<1> QED BY <1>9 DEF w, Kept

\* So a rendered line is whole or says how long it would have been.
LEMMA RenderReports ==
  ASSUME NEW s \in Seq(Nat), NEW cap \in Nat
  PROVE  LET whole == Sums(s)[Len(s)]
             line == RenderLine(s, cap)
         IN  /\ line.ok = (whole <= cap) /\ line.required = whole
             /\ line.written = Min2(whole, cap)
<1> DEFINE whole == Sums(s)[Len(s)]
<1>1. Len(s) \in 0 .. Len(s)
  OBVIOUS
<1>2. whole \in Nat
  BY <1>1, SumsEquation
<1>3. Pushed(s, cap)[Len(s)] = [required |-> whole, written |-> Min2(whole, cap)]
  BY <1>1, WriterCounts, Zenon
<1> HIDE DEF whole
<1>4. RenderLine(s, cap) = [ok |-> whole <= Min2(whole, cap), required |-> whole,
                            written |-> Min2(whole, cap)]
  BY <1>3 DEF RenderLine
<1>5. (whole <= Min2(whole, cap)) = (whole <= cap)
  BY <1>2 DEF Min2
<1> QED BY <1>4, <1>5 DEF whole

\* The pieces of the two lines have lengths.
LEMMA StatusPieces ==
  ASSUME NEW o, o.fb.format \in PixelFormats, o.sb \in SecureBootStates,
         o.loader \in LoaderPaths
  PROVE  StatusLine(o) \in Seq(Nat)
<1>1. ClassifyBootStage(o) \in BootStages
  BY Zenon DEF ClassifyBootStage, BootStages
<1>2. /\ Len(ClassifyBootStage(o)) \in Nat /\ Len(o.fb.format) \in Nat
      /\ Len(o.sb) \in Nat /\ Len(o.loader) \in Nat
  BY <1>1, TextAssumption, Zenon
<1>3. Digits(o.fb.width) \in Nat /\ Digits(o.fb.height) \in Nat /\ Digits(o.fb.bytes) \in Nat
  BY DigitsBound
<1> QED BY <1>2, <1>3 DEF StatusLine

LEMMA IdentityPieces ==
  ASSUME NEW id \in Identities
  PROVE  IdentityLine(id) \in Seq(Nat)
<1> DEFINE seed == IF id.devicePid = <<>> THEN id.seat ELSE id.devicePid
           Axis(i) == IF i = 1 THEN 0 ELSE IF i % 2 = 1 THEN 1
                      ELSE Digits(SelectorAxis(seed, i \div 2 - 1))
           axes == [i \in 1 .. 2 * id.tupleDim |-> Axis(i)]
           fields == <<75, 6, Len(id.seat), 12, Len(id.devicePid), id.otherFields>>
<1>1. /\ id.seat \in Seq(0 .. 255) /\ id.devicePid \in Seq(0 .. 255)
      /\ id.otherFields \in Nat /\ id.tupleDim \in Nat
  BY LineAssumption, Zenon
<1>2. fields \in Seq(Nat)
  BY <1>1
<1>3. ASSUME NEW i \in 1 .. 2 * id.tupleDim PROVE Axis(i) \in Nat
  <2>1. Digits(SelectorAxis(seed, i \div 2 - 1)) \in Nat
    BY DigitsBound
  <2> QED BY <2>1
<1> HIDE DEF Axis, fields
<1>4. axes \in Seq(Nat)
  <2> DEFINE n == 2 * id.tupleDim
  <2>1. n \in Nat
    BY <1>1
  <2>2. \A i \in 1 .. n : Axis(i) \in Nat
    BY <1>3, Zenon
  <2> HIDE DEF n
  <2>3. [i \in 1 .. n |-> Axis(i)] \in [1 .. n -> Nat]
    BY <2>2, Zenon
  <2>4. [i \in 1 .. n |-> Axis(i)] \in Seq(Nat)
    BY <2>1, <2>3, SeqDef, Zenon
  <2> QED BY <2>4, Zenon DEF n
<1>5. IdentityLine(id) = fields \o axes
  BY Zenon DEF IdentityLine, fields, Axis
<1> HIDE DEF axes
<1> QED BY <1>2, <1>4, <1>5

-----------------------------------------------------------------------------
(* The screen *)

\* A pixel in the last of r rows, or in the row after it, counted from the base.
LEMMA PixelArith ==
  ASSUME NEW r \in Nat, NEW h \in Nat, NEW s \in Nat, NEW off \in Nat, NEW bytes \in Nat,
         r + 2 <= h, off < 2 * s, bytes >= s * h * 4
  PROVE  4 * ((r * s + off) + 1) <= bytes
<1>1. (r + 2) * s <= h * s /\ (r + 2) * s = r * s + 2 * s
  BY Z3
<1>2. s * h * 4 = 4 * (h * s) /\ h * s \in Nat /\ r * s \in Nat
  BY Z3
<1>3. \A a, b \in Nat : a + 2 * s <= b /\ bytes >= 4 * b => 4 * ((a + off) + 1) <= bytes
  OBVIOUS
<1> QED BY <1>1, <1>2, <1>3

\* What fb_fill and fb_string touch is in a framebuffer that passed the checks.
LEMMA PaintFits ==
  ASSUME NEW m, m.w \in Nat, m.h \in Nat, m.pps \in Nat, m.bytes \in Nat,
         m.w >= 320, m.h >= 200, m.pps >= m.w, m.bytes >= m.pps * m.h * 4
  PROVE  \A p \in PaintScreen(m) : 4 * (p + 1) <= m.bytes
<1> DEFINE w == m.w
           h == m.h
           s == m.pps
           scale == IF w >= 1024 THEN 8 ELSE 4
           tw == 15 * 9 * scale
           tx == IF w > tw THEN (w - tw) \div 2 ELSE 0
           ty == h \div 2 - 4 * scale
           barTop == IF ty > 3 * scale THEN ty - 3 * scale ELSE 0
           half == h \div 2
<1>1. PaintScreen(m) =
        {(h - 1) * s + w - 1, (barTop + scale - 1) * s + tx + tw - 1,
         (ty + 8 * scale - 1) * s + tx + (14 * 9 + 8) * scale - 1}
  BY Zenon DEF PaintScreen
<1>2. scale \in {4, 8} /\ (scale = 8 => w >= 1024)
  OBVIOUS
<1>3. half \in Nat /\ half >= 100 /\ 2 * half <= h
  BY Z3
<1>4. tx \in Nat /\ (w > tw => tx + tw <= w) /\ (~(w > tw) => tx = 0)
  <2>1. w > tw => (w - tw) \div 2 \in Nat /\ (w - tw) \div 2 <= w - tw
    <3>1. tw \in Nat
      BY <1>2
    <3> HIDE DEF tw
    <3> QED BY <3>1, Z3
  <2>2. tw \in Nat
    BY <1>2
  <2> HIDE DEF tw
  <2> QED BY <2>1, <2>2
<1>5. ty = half - 4 * scale
  OBVIOUS
<1>6. tw = 135 * scale
  BY <1>2
<1> HIDE DEF scale, half, ty, tw, tx
<1>7. ty > 3 * scale /\ barTop = half - 7 * scale
  BY <1>2, <1>3, <1>5
<1> HIDE DEF barTop
<1>8. tx + tw < 2 * s /\ tx + tw > 0
  <2>1. CASE w > tw
    BY <1>2, <1>4, <1>6, <2>1
  <2>2. CASE ~(w > tw)
    BY <1>2, <1>4, <1>6, <2>2
  <2> QED BY <2>1, <2>2
<1>9. 4 * (((h - 1) * s + w - 1) + 1) <= m.bytes
  <2>1. (h - 1) * s + s = h * s /\ s * h * 4 = 4 * (h * s) /\ (h - 1) * s \in Nat /\ h * s \in Nat
    BY Z3
  <2>2. \A a, b \in Nat : a + s = b /\ m.bytes >= 4 * b => 4 * ((a + w - 1) + 1) <= m.bytes
    OBVIOUS
  <2> QED BY <2>1, <2>2
<1>10. 4 * (((barTop + scale - 1) * s + tx + tw - 1) + 1) <= m.bytes
  <2> DEFINE r == barTop + scale - 1
             off == tx + tw - 1
  <2>1. r \in Nat /\ r + 2 <= h
    BY <1>2, <1>3, <1>7
  <2>2. off \in Nat /\ off < 2 * s
    BY <1>2, <1>4, <1>6, <1>8
  <2> HIDE DEF r, off
  <2>3. 4 * ((r * s + off) + 1) <= m.bytes
    BY <2>1, <2>2, PixelArith
  <2>4. r * s \in Nat
    BY <2>1, Z3
  <2>5. \A a \in Nat : a + off = a + tx + tw - 1
    BY <1>2, <1>4, <1>6 DEF off
  <2>6. r * s + off = (barTop + scale - 1) * s + tx + tw - 1
    BY <2>4, <2>5 DEF r
  <2> QED BY <2>3, <2>6, Zenon
<1>11. 4 * (((ty + 8 * scale - 1) * s + tx + (14 * 9 + 8) * scale - 1) + 1) <= m.bytes
  <2> DEFINE r == ty + 8 * scale - 1
             off == tx + (14 * 9 + 8) * scale - 1
  <2>1. r \in Nat /\ r + 2 <= h
    BY <1>2, <1>3, <1>5
  <2>2. off \in Nat /\ off < 2 * s
    BY <1>2, <1>4, <1>6, <1>8
  <2> HIDE DEF r, off
  <2>3. 4 * ((r * s + off) + 1) <= m.bytes
    BY <2>1, <2>2, PixelArith
  <2>4. r * s \in Nat
    BY <2>1, Z3
  <2>5. \A a \in Nat : a + off = a + tx + (14 * 9 + 8) * scale - 1
    BY <1>2, <1>4 DEF off
  <2>6. r * s + off = (ty + 8 * scale - 1) * s + tx + (14 * 9 + 8) * scale - 1
    BY <2>4, <2>5 DEF r
  <2> QED BY <2>3, <2>6, Zenon
<1> QED BY <1>1, <1>9, <1>10, <1>11, Zenon

-----------------------------------------------------------------------------
(* The clock *)

Clockwise == 0 .. 99   \* what a BCD register can hold

LEMMA BcdRoundTrip ==
  ASSUME NEW n \in Clockwise
  PROVE  BcdToBin(Bcd(n)) = n /\ Bcd(n) \in Nat /\ (n > 0 => Bcd(n) # 0)
         /\ (n <= 23 => Bcd(n) < 128)
<1> DEFINE a == n \div 10
           b == n % 10
           v == a * 16 + b
<1>1. a \in 0 .. 9 /\ b \in 0 .. 9 /\ n = 10 * a + b
  BY Z3 DEF Clockwise
<1>2. \A c, d \in 0 .. 9 : (c * 16 + d) % 16 = d /\ (c * 16 + d) \div 16 = c
  BY Z3
<1>3. Bcd(n) = v
  BY DEF Bcd
<1>4. v % 16 = b /\ v \div 16 = a
  <2> HIDE DEF a, b
  <2> QED BY <1>1, <1>2
<1>5. BcdToBin(Bcd(n)) = b + a * 10
  BY <1>3, <1>4, Zenon DEF BcdToBin
<1> HIDE DEF a, b
<1> QED BY <1>1, <1>3, <1>5 DEF Clockwise

\* The twelve-hour clock face.
LEMMA TwelveHours ==
  ASSUME NEW h \in 0 .. 23
  PROVE  LET f == IF h % 12 = 0 THEN 12 ELSE h % 12
         IN  /\ f \in 1 .. 12 /\ f \in Clockwise
             /\ h = (IF f = 12 THEN 0 ELSE f) + (IF h >= 12 THEN 12 ELSE 0)
<1>1. h % 12 \in 0 .. 11 /\ (h < 12 => h % 12 = h) /\ (h >= 12 => h % 12 = h - 12)
  BY Z3
<1> DEFINE k == h % 12
<1> HIDE DEF k
<1>2. k \in 0 .. 11 /\ (h < 12 => k = h) /\ (h >= 12 => k = h - 12)
  BY <1>1 DEF k
<1>3. LET f == IF k = 0 THEN 12 ELSE k
      IN  /\ f \in 1 .. 12 /\ f \in Clockwise
          /\ h = (IF f = 12 THEN 0 ELSE f) + (IF h >= 12 THEN 12 ELSE 0)
  BY <1>2 DEF Clockwise
<1> QED BY <1>3 DEF k

\* The PM bit is apart from the hour.
LEMMA PmBit ==
  ASSUME NEW v \in Nat, v < 128
  PROVE  v % 128 = v /\ (v + 128) % 128 = v
  BY Z3

LEMMA YearParts ==
  ASSUME NEW y \in 1900 .. 2099
  PROVE  /\ y % 100 \in Clockwise /\ y \div 100 \in {19, 20} /\ y = (y \div 100) * 100 + (y % 100)
         /\ (y >= 2000 => y \div 100 = 20)
<1>1. y % 100 \in 0 .. 99 /\ y = (y \div 100) * 100 + (y % 100)
  BY Z3
<1>2. y \div 100 \in {19, 20} /\ (y >= 2000 => y \div 100 = 20)
  BY Z3
<1> QED BY <1>1, <1>2 DEF Clockwise

Modes == [bcd : BOOLEAN, h12 : BOOLEAN, century : BOOLEAN]

\* What a decoded time says of the time that was encoded.
Reads(b, t, mode) ==
  \/ b = t
  \/ ~mode.century /\ t.year < 2000 /\ [b EXCEPT !.year = t.year] = t

\* The registers of one instant decode to that instant, but for the century
\* of a clock that has no register for it.
LEMMA ClockReads ==
  ASSUME NEW mode \in Modes, NEW t \in ClockTimes, NEW regs,
         \A i \in 1 .. 7 : regs[i] = Encode(t, ClockRegs[i], mode)
  PROVE  Reads(DecodeClock(regs, mode), t, mode)
<1> DEFINE Num(n) == IF mode.bcd THEN Bcd(n) ELSE n
           Conv(v) == IF mode.bcd THEN BcdToBin(v) ELSE v
           f == IF t.hour % 12 = 0 THEN 12 ELSE t.hour % 12
<1>1. /\ t.year \in 1900 .. 2099 /\ t.month \in Clockwise /\ t.day \in Clockwise
      /\ t.hour \in 0 .. 23 /\ t.min \in Clockwise /\ t.sec \in Clockwise
      /\ t = [year |-> t.year, month |-> t.month, day |-> t.day, hour |-> t.hour,
              min |-> t.min, sec |-> t.sec]
  BY DEF ClockTimes, Clockwise
<1>2. \A n \in Clockwise : /\ Conv(Num(n)) = n /\ Num(n) \in Nat /\ (n > 0 => Num(n) # 0)
                           /\ (n <= 23 => Num(n) < 128)
  BY BcdRoundTrip DEF Clockwise
<1>3. /\ ClockRegs[1] = "sec" /\ ClockRegs[2] = "min" /\ ClockRegs[3] = "hour"
      /\ ClockRegs[4] = "day" /\ ClockRegs[5] = "month" /\ ClockRegs[6] = "year"
      /\ ClockRegs[7] = "century"
  BY DEF ClockRegs
<1>4. /\ regs[1] = Encode(t, "sec", mode) /\ regs[2] = Encode(t, "min", mode) /\ regs[3] = Encode(t, "hour", mode)
      /\ regs[4] = Encode(t, "day", mode) /\ regs[5] = Encode(t, "month", mode)
      /\ regs[6] = Encode(t, "year", mode) /\ regs[7] = Encode(t, "century", mode)
  BY <1>3
<1>5. /\ regs[1] = Num(t.sec) /\ regs[2] = Num(t.min) /\ regs[4] = Num(t.day)
      /\ regs[5] = Num(t.month)
  BY <1>4 DEF Encode
<1>6. regs[3] = IF mode.h12 THEN Num(f) + (IF t.hour >= 12 THEN 128 ELSE 0) ELSE Num(t.hour)
  BY <1>4 DEF Encode
<1>7. regs[6] = Num(t.year % 100)
  BY <1>4 DEF Encode
<1>8. regs[7] = IF mode.century THEN Num(t.year \div 100) ELSE 0
  BY <1>4 DEF Encode
<1>9. /\ f \in 1 .. 12 /\ f \in Clockwise
      /\ t.hour = (IF f = 12 THEN 0 ELSE f) + (IF t.hour >= 12 THEN 12 ELSE 0)
  BY <1>1, TwelveHours
<1> DEFINE pm == mode.h12 /\ regs[3] >= 128
           raw == Conv(regs[3] % 128)
           base == IF mode.h12 /\ raw = 12 THEN 0 ELSE raw
           hour == base + (IF pm THEN 12 ELSE 0)
           century == IF regs[7] # 0 THEN Conv(regs[7]) ELSE 20
           year == century * 100 + Conv(regs[6])
<1> HIDE DEF Num, Conv, f
<1>10. hour = t.hour
  <2>1. CASE mode.h12
    <3>1. Num(f) \in Nat /\ Num(f) < 128 /\ Conv(Num(f)) = f
      BY <1>2, <1>9
    <3>2. regs[3] % 128 = Num(f) /\ (regs[3] >= 128 <=> t.hour >= 12)
      <4>1. CASE t.hour >= 12
        BY <1>6, <2>1, <3>1, <4>1, PmBit
      <4>2. CASE ~(t.hour >= 12)
        BY <1>6, <2>1, <3>1, <4>2, PmBit
      <4> QED BY <4>1, <4>2
    <3>3. raw = f /\ (pm <=> t.hour >= 12)
      BY <2>1, <3>1, <3>2
    <3> QED BY <1>9, <2>1, <3>3
  <2>2. CASE ~mode.h12
    <3>1. Num(t.hour) \in Nat /\ Num(t.hour) < 128 /\ Conv(Num(t.hour)) = t.hour
      BY <1>1, <1>2 DEF Clockwise
    <3>2. regs[3] % 128 = Num(t.hour)
      BY <1>6, <2>2, <3>1, PmBit
    <3>3. raw = t.hour
      BY <3>1, <3>2
    <3>4. hour = t.hour + 0
      BY <2>2, <3>3
    <3> QED BY <1>1, <3>4
  <2> QED BY <2>1, <2>2
<1>11. year = t.year \/ (~mode.century /\ t.year < 2000)
  <2>1. Conv(regs[6]) = t.year % 100
    BY <1>1, <1>2, <1>7, YearParts
  <2>2. CASE mode.century
    <3>1. t.year \div 100 \in Clockwise /\ t.year \div 100 > 0
      BY <1>1, YearParts DEF Clockwise
    <3>2. century = t.year \div 100
      BY <1>2, <1>8, <2>2, <3>1
    <3> QED BY <1>1, <2>1, <3>2, YearParts
  <2>3. CASE ~mode.century /\ t.year >= 2000
    <3>1. century = 20
      BY <1>8, <2>3
    <3>2. t.year \div 100 = 20
      BY <1>1, <2>3, YearParts
    <3> QED BY <1>1, <2>1, <3>1, <3>2, YearParts
  <2> QED BY <1>1, <2>2, <2>3
<1> HIDE DEF hour, year
<1>12. DecodeClock(regs, mode) =
         [sec |-> t.sec, min |-> t.min, hour |-> t.hour, day |-> t.day, month |-> t.month,
          year |-> year]
  <2>1. DecodeClock(regs, mode) =
         [sec |-> Conv(regs[1]), min |-> Conv(regs[2]), hour |-> hour, day |-> Conv(regs[4]),
          month |-> Conv(regs[5]), year |-> year]
    BY Zenon DEF DecodeClock, hour, year, Conv
  <2>2. /\ Conv(regs[1]) = t.sec /\ Conv(regs[2]) = t.min /\ Conv(regs[4]) = t.day
        /\ Conv(regs[5]) = t.month
    BY <1>1, <1>2, <1>5
  <2> QED BY <1>10, <2>1, <2>2, Zenon
<1> DEFINE b == [sec |-> t.sec, min |-> t.min, hour |-> t.hour, day |-> t.day,
                 month |-> t.month, year |-> year]
<1>13. year = t.year => b = t
  BY <1>1
<1>14. [b EXCEPT !.year = t.year] = t
  BY <1>1
<1>15. DecodeClock(regs, mode) = b
  BY <1>12, Zenon
<1> HIDE DEF b
<1>16. Reads(b, t, mode)
  <2>1. CASE year = t.year
    BY <1>13, <2>1, Zenon DEF Reads
  <2>2. CASE ~mode.century /\ t.year < 2000
    BY <1>14, <2>2 DEF Reads
  <2> QED BY <1>11, <2>1, <2>2
<1> QED BY <1>15, <1>16, Zenon

-----------------------------------------------------------------------------
(* Stages *)

Early == {"off", "entry", "diag", "scan"}
Late == {"drivers", "heap", "init"}

\* No boot ends in the panic handler, and a boot runs on a machine with a label
\* the build accepts.
StageInv ==
  /\ bootStage \in Early \cup {"uip", "regs", "proj"} \cup Late
  /\ bootStage # "off" => machine \in Machines /\ machine.seat \in 1 .. 32

LEMMA StageInitial == BootInit => StageInv
  BY DEF BootInit, StageInv, Early

\* Who moves the stage, and which machine it is about.
LEMMA StageStep ==
  ASSUME StageInv, BootNext
  PROVE  /\ StageInv'
         /\ bootStage # "off" => machine' = machine
<1> DEFINE n == machine.seat
<1>1. CASE PowerOn
  <2>1. PICK m \in Machines : m = machine' /\ SeatAccepted(m.seat)
    BY <1>1 DEF PowerOn
  <2>2. m.seat \in 1 .. 32
    <3>1. m.seat \in Nat
      BY BootAssumption, Zenon
    <3> QED BY <2>1, <3>1 DEF SeatAccepted
  <2>3. bootStage = "off" /\ bootStage' = "entry" /\ machine' \in Machines /\ machine'.seat \in 1 .. 32
    BY <1>1, <2>1, <2>2 DEF PowerOn
  <2> QED BY <2>3 DEF StageInv, Early
<1>2. CASE bootStage # "off" /\ ~PowerOn
  <2>1. machine' = machine /\ n \in 1 .. 32 /\ machine \in Machines
    BY <1>2 DEF StageInv, BootNext, RenderIdentity, OwnDisplay, Diagnose, ScanFunction, RtcUipRises,
       RtcUpdate, WaitUip, ReadReg, FinishTime, Project, ProbeDrivers, HeapUp, Alloc
  <2>2. /\ \A count : BootPidRow(n, count, 24) <= RowCap.pid
        /\ PciRow <= RowCap.pci /\ BootTimeRow(20) <= RowCap.time /\ BootProjRow <= RowCap.proj
        /\ \A b : RstVmdRow(n, b) <= RowCap.driver /\ AhciRow(n, b) <= RowCap.driver
    BY <2>1, RowsFit
  <2>3. bootStage' \in Early \cup {"uip", "regs", "proj"} \cup Late /\ bootStage' # "off"
    <3>1. CASE ScanFunction
      <4>1. bootStage' \in {"uip", "scan"}
        BY <2>2, <3>1, Zenon DEF ScanFunction, RowThen
      <4> QED BY <4>1 DEF Early
    <3>2. CASE FinishTime
      BY <2>2, <3>2 DEF FinishTime, RowThen
    <3>3. CASE Project
      BY <2>2, <3>3 DEF Project, RowThen, Late
    <3>4. CASE ProbeDrivers
      <4>1. \A len \in {RstVmdRow(n, hw.rstVmd), AhciRow(n, hw.ahci)} : len <= RowCap.driver
        BY <2>2, Zenon
      <4>2. bootStage' = "heap"
        BY <3>4, <4>1, Zenon DEF ProbeDrivers
      <4> QED BY <4>2 DEF Late
    <3>5. CASE OwnDisplay \/ Diagnose \/ RtcUipRises \/ RtcUpdate \/ WaitUip \/ ReadReg \/ HeapUp
      BY <1>2, <3>5 DEF OwnDisplay, Diagnose, RtcUipRises, RtcUpdate, WaitUip, ReadReg, HeapUp,
         Early, Late, StageInv
    <3>6. CASE RenderIdentity
      BY <1>2, <3>6 DEF RenderIdentity
    <3> DEFINE Allocates == bootStage = "init" /\ \E l \in Layouts : Alloc(l)
    <3>7. CASE Allocates
      BY <3>7 DEF Alloc, Late
    <3>8. \/ RenderIdentity \/ PowerOn \/ OwnDisplay \/ Diagnose \/ ScanFunction
          \/ RtcUipRises \/ RtcUpdate \/ WaitUip \/ ReadReg \/ FinishTime
          \/ Project \/ ProbeDrivers \/ HeapUp \/ Allocates
      BY Zenon DEF BootNext
    <3> HIDE DEF Allocates
    <3> QED BY <1>2, <3>1, <3>2, <3>3, <3>4, <3>5, <3>6, <3>7, <3>8
  <2> QED BY <2>1, <2>3 DEF StageInv
<1>3. CASE bootStage = "off" /\ ~PowerOn
  <2>1. RenderIdentity
    BY <1>3 DEF BootNext, OwnDisplay, Diagnose, ScanFunction, RtcUipRises, RtcUpdate, WaitUip,
       ReadReg, FinishTime, Project, ProbeDrivers, HeapUp
  <2>2. bootStage' = "off"
    BY <1>3, <2>1 DEF RenderIdentity
  <2> QED BY <1>3, <2>2 DEF StageInv, Early
<1> QED BY <1>1, <1>2, <1>3

-----------------------------------------------------------------------------
(* The device tuple *)

HwInv ==
  /\ hw = [tuple |-> hw.tuple, count |-> hw.count, rstVmd |-> hw.rstVmd, ahci |-> hw.ahci]
  /\ \E S : hw.tuple \in Seq(S)
  /\ hw.count \in 0 .. ScanCap /\ Len(hw.tuple) = hw.count
  /\ bootStage \in Early => hw.count < ScanCap

LEMMA HwInitial == BootInit => HwInv
<1> SUFFICES ASSUME BootInit PROVE HwInv
  OBVIOUS
<1>1. hw = [tuple |-> <<>>, count |-> 0, rstVmd |-> FALSE, ahci |-> FALSE]
  BY DEF BootInit
<1>2. PICK a, b : hw = [tuple |-> <<>>, count |-> 0, rstVmd |-> a, ahci |-> b]
  BY <1>1, Zenon
<1>3. <<>> \in Seq({}) /\ Len(<<>>) = 0 /\ hw.tuple = <<>> /\ hw.count = 0
  BY <1>2
<1>4. \E S : hw.tuple \in Seq(S)
  BY <1>3
<1> QED BY <1>2, <1>3, <1>4, BootAssumption DEF HwInv

\* The tuple takes every function the scan counts, because the scan stops
\* before the tuple is full.
LEMMA PushFits ==
  ASSUME HwInv, hw.count < ScanCap, NEW f
  PROVE  LET g == HwPush(hw, f)
         IN  /\ g = [tuple |-> g.tuple, count |-> g.count, rstVmd |-> g.rstVmd, ahci |-> g.ahci]
             /\ \E S : g.tuple \in Seq(S)
             /\ g.count \in 0 .. ScanCap /\ Len(g.tuple) = g.count
<1>1. /\ hw.count \in Nat /\ ScanCap \in Nat /\ Len(hw.tuple) = hw.count
      /\ 6 * (Len(hw.tuple) + 1) <= TupleCap
  <2>1. ScanCap \in Nat /\ TupleCap \in Nat /\ 6 * ScanCap + 4 <= TupleCap
    BY BootAssumption, Zenon
  <2>2. hw.count \in 0 .. ScanCap /\ Len(hw.tuple) = hw.count
    BY DEF HwInv
  <2> QED BY <2>1, <2>2
<1>2. PICK S : hw.tuple \in Seq(S)
  BY DEF HwInv
<1> DEFINE tup == Append(hw.tuple, f.id)
<1>3. tup \in Seq(S \cup {f.id}) /\ Len(tup) = Len(hw.tuple) + 1
  <2>1. hw.tuple \in Seq(S \cup {f.id})
    BY <1>2
  <2> QED BY <2>1, AppendProperties
<1>4. PICK a, b : HwPush(hw, f) = [tuple |-> tup, count |-> hw.count + 1, rstVmd |-> a, ahci |-> b]
  <2>1. HwPush(hw, f) =
          [tuple |-> tup, count |-> hw.count + 1,
           rstVmd |-> hw.rstVmd \/ f.kind = "rst-vmd", ahci |-> hw.ahci \/ f.kind = "ahci"]
    BY <1>1, Zenon DEF HwPush
  <2> QED BY <2>1, Zenon
<1> HIDE DEF tup
<1>5. \E T : HwPush(hw, f).tuple \in Seq(T)
  BY <1>3, <1>4
<1> QED BY <1>1, <1>3, <1>4, <1>5

LEMMA HwStep ==
  ASSUME StageInv, HwInv, BootNext
  PROVE  HwInv' /\ (bootStage \notin Early => hw' = hw)
<1>1. CASE ScanFunction
  <2>1. bootStage = "scan" /\ hw.count < ScanCap
    BY <1>1 DEF ScanFunction, HwInv, Early
  <2>2. PICK f : hw' = hw \/ hw' = HwPush(hw, f)
    BY <1>1, Zenon DEF ScanFunction
  <2>3. /\ hw' = [tuple |-> hw'.tuple, count |-> hw'.count, rstVmd |-> hw'.rstVmd, ahci |-> hw'.ahci]
        /\ \E S : hw'.tuple \in Seq(S)
        /\ hw'.count \in 0 .. ScanCap /\ Len(hw'.tuple) = hw'.count
    <3>1. CASE hw' = hw
      BY <3>1, Zenon DEF HwInv
    <3>2. CASE hw' = HwPush(hw, f)
      BY <2>1, <3>2, PushFits, Zenon
    <3> QED BY <2>2, <3>1, <3>2
  <2>4. bootStage' \in {"scan", "uip", "panicked"} /\ (bootStage' = "scan" => ~(hw'.count >= ScanCap))
    <3>1. CASE hw'.count >= ScanCap
      <4>1. RowThen(BootPidRow(machine.seat, hw'.count, 24), RowCap.pid, "uip")
        BY <1>1, <3>1, Zenon DEF ScanFunction
      <4> QED BY <4>1 DEF RowThen
    <3>2. CASE ~(hw'.count >= ScanCap)
      <4>1. \/ RowThen(BootPidRow(machine.seat, hw'.count, 24), RowCap.pid, "uip")
            \/ RowThen(PciRow, RowCap.pci, "scan")
        BY <1>1, Zenon DEF ScanFunction
      <4> QED BY <3>2, <4>1 DEF RowThen
    <3> QED BY <3>1, <3>2
  <2>5. bootStage' \in Early => hw'.count < ScanCap
    BY <2>3, <2>4, BootAssumption DEF Early
  <2> QED BY <2>1, <2>3, <2>5 DEF HwInv, Early
<1>2. CASE ~ScanFunction
  <2>1. hw' = hw
    BY <1>2 DEF BootNext, RenderIdentity, PowerOn, OwnDisplay, Diagnose, RtcUipRises, RtcUpdate,
       WaitUip, ReadReg, FinishTime, Project, ProbeDrivers, HeapUp, Alloc
  <2>2. bootStage' \in Early => bootStage \in Early
    BY <1>2 DEF BootNext, RenderIdentity, PowerOn, OwnDisplay, Diagnose, RtcUipRises, RtcUpdate,
       WaitUip, ReadReg, FinishTime, Project, ProbeDrivers, HeapUp, Alloc, RowThen, Early
  <2> QED BY <2>1, <2>2 DEF HwInv
<1> QED BY <1>1, <1>2

-----------------------------------------------------------------------------
(* The reads of the clock *)

ClockInv ==
  /\ clock = [now |-> clock.now, uip |-> clock.uip]
  /\ cmos = [guard |-> cmos.guard, expired |-> cmos.expired, regs |-> cmos.regs,
             from |-> cmos.from]
  /\ clock.now \in 1 .. Len(Instants) /\ clock.uip \in 0 .. UipLead
  /\ clock.uip > 0 => clock.now < Len(Instants)
  /\ cmos.from \in 1 .. clock.now /\ cmos.guard \in 0 .. GuardMax
  /\ \E S : cmos.regs \in Seq(S)
  /\ Len(cmos.regs) <= 7
  /\ bootStage \in Early \cup {"uip"} => cmos.regs = <<>>

\* A read that began with no update in sight: an update that is announced later
\* is still as far away as the reads that are left, so all registers are of the
\* instant at which the wait ended.
ReadInv ==
  bootStage = "regs" /\ ~cmos.expired =>
    /\ \A i \in 1 .. Len(cmos.regs) :
         cmos.regs[i] = Encode(Instants[cmos.from], ClockRegs[i], machine.rtc)
    /\ Len(cmos.regs) < 7 =>
         clock.now = cmos.from /\ (clock.uip = 0 \/ clock.uip >= UipLead - Len(cmos.regs))

\* The time that was read is one the clock showed meanwhile.
TimeInv ==
  bootStage \in {"proj"} \cup Late /\ ~cmos.expired =>
    \E k \in cmos.from .. clock.now : Reads(bootTime, Instants[k], machine.rtc)

PidInv ==
  /\ bootStage \notin Late => bootPid = <<>>
  /\ bootStage \in Late => bootPid = <<Project60d(hw.tuple), bootTime>>

LEMMA ClockConstants ==
  /\ UipLead \in Nat /\ UipLead > 7 /\ GuardMax \in Nat /\ Len(Instants) \in Nat
  /\ Len(Instants) >= 1 /\ Len(ClockRegs) = 7
  /\ \A k \in 1 .. Len(Instants) : Instants[k] \in ClockTimes
  /\ \A m \in Machines : m.rtc \in Modes
<1>1. Len(ClockRegs) = 7
  BY DEF ClockRegs
<1>2. UipLead \in Nat /\ UipLead > Len(ClockRegs) /\ GuardMax \in Nat
  BY BootAssumption, Zenon
<1>3. Instants \in Seq(ClockTimes) /\ Instants # <<>>
  BY BootAssumption, Zenon
<1>4. \A m \in Machines : m.rtc \in Modes
  BY BootAssumption, Zenon DEF Modes
<1> HIDE DEF ClockTimes
<1>5. /\ Len(Instants) \in Nat /\ Len(Instants) >= 1
      /\ \A k \in 1 .. Len(Instants) : Instants[k] \in ClockTimes
  BY <1>3
<1> QED BY <1>1, <1>2, <1>4, <1>5

LEMMA TimeInitial == BootInit => ClockInv /\ ReadInv /\ TimeInv /\ PidInv
<1> SUFFICES ASSUME BootInit PROVE ClockInv /\ ReadInv /\ TimeInv /\ PidInv
  OBVIOUS
<1>1. bootStage = "off" /\ clock = [now |-> 1, uip |-> 0] /\ bootPid = <<>>
  BY DEF BootInit
<1>2. PICK e : cmos = [guard |-> 0, expired |-> e, regs |-> <<>>, from |-> 1]
  BY Zenon DEF BootInit
<1>3. <<>> \in Seq({}) /\ Len(<<>>) = 0
  OBVIOUS
<1>4. \E S : cmos.regs \in Seq(S)
  BY <1>2, <1>3
<1>5. ClockInv
  BY <1>1, <1>2, <1>3, <1>4, ClockConstants DEF ClockInv
<1> QED BY <1>1, <1>5 DEF ReadInv, TimeInv, PidInv, Late

\* The steps that leave the clock, the reads and what came of them alone.
LEMMA TimeFrame ==
  ASSUME ClockInv, ReadInv, TimeInv, PidInv, UNCHANGED <<clock, cmos, bootTime, bootPid>>,
         machine' = machine \/ bootStage \in Early,
         bootStage' \in Early \cup {"uip", "regs", "proj"} \cup Late,
         bootStage' \in Early \cup {"uip"} => bootStage \in Early \cup {"uip"},
         bootStage' = "regs" => bootStage = "regs",
         bootStage' \in {"proj"} \cup Late =>
           bootStage \in {"proj"} \cup Late /\ hw' = hw /\ (bootStage' \in Late <=> bootStage \in Late)
  PROVE  ClockInv' /\ ReadInv' /\ TimeInv' /\ PidInv'
<1>1. clock' = clock /\ cmos' = cmos /\ bootTime' = bootTime /\ bootPid' = bootPid
  OBVIOUS
<1>2. ClockInv'
  BY <1>1 DEF ClockInv
<1>3. bootStage' = "regs" => machine' = machine
  BY DEF Early
<1>4. bootStage' \in {"proj"} \cup Late => machine' = machine
  BY DEF Early, Late
<1>5. ReadInv'
  <2>1. CASE bootStage' = "regs"
    <3>1. bootStage = "regs" /\ machine' = machine
      BY <1>3, <2>1
    <3> QED BY <1>1, <3>1 DEF ReadInv
  <2> QED BY <2>1 DEF ReadInv
<1>6. TimeInv'
  <2>1. CASE bootStage' \in {"proj"} \cup Late
    <3>1. bootStage \in {"proj"} \cup Late /\ machine' = machine
      BY <1>4, <2>1
    <3> QED BY <1>1, <3>1 DEF TimeInv
  <2> QED BY <2>1 DEF TimeInv
<1>7. PidInv'
  <2>1. CASE bootStage' \in Late
    <3>1. bootStage \in Late /\ hw' = hw
      BY <2>1
    <3> QED BY <1>1, <2>1, <3>1, Zenon DEF PidInv, Project60d, Sha256
  <2>2. CASE bootStage' \notin Late
    <3>1. bootPid = <<>>
      BY <2>2 DEF PidInv, Early, Late
    <3> QED BY <1>1, <2>2, <3>1, Zenon DEF PidInv
  <2> QED BY <2>1, <2>2
<1> QED BY <1>2, <1>5, <1>6, <1>7

\* The clock announces an update, or makes it.
LEMMA RtcKeeps ==
  ASSUME ClockInv, ReadInv, TimeInv, PidInv, RtcUipRises \/ RtcUpdate
  PROVE  ClockInv' /\ ReadInv' /\ TimeInv' /\ PidInv'
<1>1. /\ bootStage' = bootStage /\ bootStage \in {"uip", "regs"} /\ cmos' = cmos
      /\ machine' = machine /\ bootPid' = bootPid
  BY DEF RtcUipRises, RtcUpdate
<1>2. PidInv' /\ TimeInv'
  BY <1>1 DEF PidInv, TimeInv, Late
<1>3. /\ clock' = [now |-> clock'.now, uip |-> clock'.uip]
      /\ clock'.now \in clock.now .. Len(Instants) /\ clock'.uip \in 0 .. UipLead
      /\ clock'.uip > 0 => clock'.now < Len(Instants)
  <2>1. CASE RtcUipRises
    BY <2>1, ClockConstants DEF RtcUipRises, ClockInv, RtcBusy
  <2>2. CASE RtcUpdate
    BY <2>2, ClockConstants DEF RtcUpdate, ClockInv
  <2> QED BY <2>1, <2>2
<1>4. ClockInv'
  BY <1>1, <1>3 DEF ClockInv
<1>5. ReadInv'
  <2> SUFFICES ASSUME bootStage = "regs", ~cmos.expired PROVE ReadInv'
    BY <1>1 DEF ReadInv
  <2>1. \A i \in 1 .. Len(cmos.regs) :
          cmos.regs[i] = Encode(Instants[cmos.from], ClockRegs[i], machine.rtc)
    BY DEF ReadInv
  <2>2. Len(cmos.regs) < 7 =>
          clock.now = cmos.from /\ (clock.uip = 0 \/ clock.uip >= UipLead - Len(cmos.regs))
    BY DEF ReadInv
  <2>3. Len(cmos.regs) \in Nat
    BY DEF ClockInv
  <2>4. Len(cmos.regs) < 7 =>
          clock'.now = cmos.from /\ (clock'.uip = 0 \/ clock'.uip >= UipLead - Len(cmos.regs))
    <3>1. CASE RtcUipRises
      BY <2>2, <2>3, <3>1, ClockConstants DEF RtcUipRises, ClockInv
    <3>2. CASE RtcUpdate
      BY <2>2, <2>3, <3>2, ClockConstants DEF RtcUpdate, ClockInv
    <3> QED BY <3>1, <3>2
  <2> QED BY <1>1, <2>1, <2>4 DEF ReadInv
<1> QED BY <1>2, <1>4, <1>5

LEMMA AfterRead ==
  ASSUME ClockInv
  PROVE  /\ ClockAfterRead = [now |-> clock.now, uip |-> ClockAfterRead.uip]
         /\ ClockAfterRead.uip \in 0 .. UipLead
         /\ clock.uip = 0 => ClockAfterRead.uip = 0
         /\ clock.uip > 1 => ClockAfterRead.uip = clock.uip - 1
         /\ clock.uip = 1 => ClockAfterRead.uip = 1
  BY ClockConstants DEF ClockInv, ClockAfterRead

\* A round of the wait; its last one fixes the instant that is read.
LEMMA WaitKeeps ==
  ASSUME ClockInv, ReadInv, TimeInv, PidInv, WaitUip
  PROVE  ClockInv' /\ ReadInv' /\ TimeInv' /\ PidInv'
<1>1. /\ bootStage = "uip" /\ machine' = machine /\ bootPid' = bootPid
      /\ clock' = ClockAfterRead /\ bootStage' \in {"uip", "regs"}
  BY DEF WaitUip
<1>2. /\ clock' = [now |-> clock'.now, uip |-> clock'.uip] /\ clock'.now = clock.now
      /\ clock'.uip \in 0 .. UipLead /\ (clock.uip = 0 => clock'.uip = 0)
      /\ clock'.uip > 0 => clock'.now < Len(Instants)
  BY <1>1, AfterRead, ClockConstants DEF ClockInv
<1>3. PidInv' /\ TimeInv'
  BY <1>1 DEF PidInv, TimeInv, Late
<1>4. PICK g, e, fr :
        /\ cmos' = [guard |-> g, expired |-> e, regs |-> cmos.regs, from |-> fr]
        /\ g \in 0 .. GuardMax /\ fr \in 1 .. clock.now
        /\ bootStage' = "regs" => fr = clock.now /\ (clock.uip # 0 => e)
  <2>1. CASE /\ clock.uip # 0 /\ cmos.guard < GuardMax
             /\ cmos' = [cmos EXCEPT !.guard = @ + 1] /\ UNCHANGED bootStage
    <3>1. /\ cmos' = [guard |-> cmos.guard + 1, expired |-> cmos.expired, regs |-> cmos.regs,
                      from |-> cmos.from]
          /\ cmos.guard + 1 \in 0 .. GuardMax /\ cmos.from \in 1 .. clock.now
      <4>1. cmos' = [cmos EXCEPT !.guard = @ + 1]
        BY <2>1
      <4>2. cmos = [guard |-> cmos.guard, expired |-> cmos.expired, regs |-> cmos.regs,
                    from |-> cmos.from]
        BY DEF ClockInv
      <4>3. cmos' = [guard |-> cmos.guard + 1, expired |-> cmos.expired, regs |-> cmos.regs,
                     from |-> cmos.from]
        BY <4>1, <4>2
      <4> QED BY <2>1, <4>3, ClockConstants DEF ClockInv
    <3>2. bootStage' # "regs"
      BY <1>1, <2>1
    <3> QED BY <3>1, <3>2, Zenon
  <2>2. CASE /\ cmos' = [cmos EXCEPT !.expired = clock.uip # 0, !.from = clock.now]
             /\ bootStage' = "regs"
    <3>1. PICK e : e = (clock.uip # 0)
      OBVIOUS
    <3>2. cmos' = [cmos EXCEPT !.expired = e, !.from = clock.now]
      BY <2>2, <3>1, Zenon
    <3>3. cmos' = [guard |-> cmos.guard, expired |-> e, regs |-> cmos.regs, from |-> clock.now]
      BY <3>2 DEF ClockInv
    <3>4. cmos.guard \in 0 .. GuardMax /\ clock.now \in 1 .. clock.now
      BY ClockConstants DEF ClockInv
    <3>5. clock.uip # 0 => e
      BY <3>1, Zenon
    <3> QED BY <3>3, <3>4, <3>5, Zenon
  <2> QED BY <2>1, <2>2, Zenon DEF WaitUip
<1>5. cmos.regs = <<>> /\ <<>> \in Seq({}) /\ Len(<<>>) = 0
  BY <1>1 DEF ClockInv
<1>6. \E S : cmos'.regs \in Seq(S)
  BY <1>4, <1>5
<1>7. ClockInv'
  BY <1>1, <1>2, <1>4, <1>5, <1>6, ClockConstants DEF ClockInv
<1>8. ReadInv'
  <2> SUFFICES ASSUME bootStage' = "regs", ~cmos'.expired PROVE ReadInv'
    BY DEF ReadInv
  <2>1. cmos'.expired = e /\ cmos'.regs = <<>> /\ cmos'.from = clock.now
    BY <1>4, <1>5
  <2>2. clock.uip = 0
    BY <1>4, <2>1, Zenon
  <2>3. clock'.uip = 0 /\ clock'.now = cmos'.from
    BY <1>2, <2>1, <2>2
  <2> QED BY <1>5, <2>1, <2>3 DEF ReadInv
<1> QED BY <1>3, <1>7, <1>8

\* One register: before an update that is announced in time, only the instant
\* at which the wait ended shows.
LEMMA ReadKeeps ==
  ASSUME ClockInv, ReadInv, TimeInv, PidInv, ReadReg
  PROVE  ClockInv' /\ ReadInv' /\ TimeInv' /\ PidInv'
<1> DEFINE n == Len(cmos.regs)
<1>1. /\ bootStage = "regs" /\ bootStage' = "regs" /\ machine' = machine /\ bootPid' = bootPid
      /\ clock' = ClockAfterRead /\ n < 7
  BY ClockConstants DEF ReadReg
<1>2. /\ clock' = [now |-> clock'.now, uip |-> clock'.uip] /\ clock'.now = clock.now
      /\ clock'.uip \in 0 .. UipLead
      /\ clock'.uip > 0 => clock'.now < Len(Instants)
      /\ clock.uip = 0 => clock'.uip = 0
      /\ clock.uip > 1 => clock'.uip = clock.uip - 1
  BY <1>1, AfterRead, ClockConstants DEF ClockInv
<1>3. PidInv' /\ TimeInv'
  BY <1>1 DEF PidInv, TimeInv, Late
<1>4. PICK now \in Showing :
        cmos' = [cmos EXCEPT !.regs =
                   Append(@, Encode(Instants[now], ClockRegs[Len(@) + 1], machine.rtc))]
  BY Zenon DEF ReadReg
<1>5. PICK v : v = Encode(Instants[now], ClockRegs[n + 1], machine.rtc)
  OBVIOUS
<1>6. cmos' = [cmos EXCEPT !.regs = Append(cmos.regs, v)]
  BY <1>4, <1>5, Zenon
<1>7. PICK S : cmos.regs \in Seq(S)
  BY DEF ClockInv
<1>8. /\ Append(cmos.regs, v) \in Seq(S \cup {v}) /\ Len(Append(cmos.regs, v)) = n + 1
      /\ \A i \in 1 .. n : Append(cmos.regs, v)[i] = cmos.regs[i]
      /\ Append(cmos.regs, v)[n + 1] = v
  <2>1. cmos.regs \in Seq(S \cup {v})
    BY <1>7
  <2> QED BY <2>1, AppendProperties
<1>9. n \in Nat
  BY <1>7
<1>10. cmos' = [guard |-> cmos.guard, expired |-> cmos.expired, regs |-> Append(cmos.regs, v),
                from |-> cmos.from]
  <2>1. cmos = [guard |-> cmos.guard, expired |-> cmos.expired, regs |-> cmos.regs,
                from |-> cmos.from]
    BY DEF ClockInv
  <2> QED BY <1>6, <2>1
<1>11. \E T : cmos'.regs \in Seq(T)
  BY <1>8, <1>10
<1>12. ClockInv'
  BY <1>1, <1>2, <1>8, <1>9, <1>10, <1>11 DEF ClockInv, Early
<1>13. ReadInv'
  <2> SUFFICES ASSUME ~cmos'.expired PROVE ReadInv'
    BY DEF ReadInv
  <2>1. ~cmos.expired
    BY <1>10
  <2>2. /\ \A i \in 1 .. n :
             cmos.regs[i] = Encode(Instants[cmos.from], ClockRegs[i], machine.rtc)
        /\ clock.now = cmos.from /\ (clock.uip = 0 \/ clock.uip >= UipLead - n)
    BY <1>1, <2>1 DEF ReadInv
  <2>3. clock.uip # 1
    BY <1>1, <1>9, <2>2, ClockConstants DEF ClockInv
  <2>4. now = cmos.from
    BY <2>2, <2>3 DEF Showing
  <2>5. ASSUME NEW i \in 1 .. n + 1
        PROVE  cmos'.regs[i] = Encode(Instants[cmos'.from], ClockRegs[i], machine.rtc)
    <3>1. cmos'.regs = Append(cmos.regs, v) /\ cmos'.from = cmos.from
      BY <1>10
    <3>2. CASE i = n + 1
      BY <1>5, <1>8, <2>4, <3>1, <3>2
    <3>3. CASE i \in 1 .. n
      BY <1>8, <2>2, <3>1, <3>3
    <3> QED BY <1>9, <3>2, <3>3
  <2>6. Len(cmos'.regs) = n + 1 /\ cmos'.from = cmos.from
    BY <1>8, <1>10
  <2>7. clock'.now = cmos'.from /\ (n + 1 < 7 => clock'.uip = 0 \/ clock'.uip >= UipLead - (n + 1))
    BY <1>1, <1>2, <1>9, <2>2, <2>3, <2>6, ClockConstants DEF ClockInv
  <2>8. \A i \in 1 .. Len(cmos'.regs) :
          cmos'.regs[i] = Encode(Instants[cmos'.from], ClockRegs[i], machine'.rtc)
    BY <1>1, <2>5, <2>6, Zenon
  <2>9. Len(cmos'.regs) < 7 =>
          clock'.now = cmos'.from /\ (clock'.uip = 0 \/ clock'.uip >= UipLead - Len(cmos'.regs))
    BY <2>6, <2>7, Zenon
  <2> HIDE DEF n
  <2> QED BY <2>8, <2>9 DEF ReadInv
<1> QED BY <1>3, <1>12, <1>13

\* The conversion of what was read, and the projection of it.
LEMMA ConvertKeeps ==
  ASSUME StageInv, ClockInv, ReadInv, TimeInv, PidInv, FinishTime \/ Project, StageInv'
  PROVE  ClockInv' /\ ReadInv' /\ TimeInv' /\ PidInv'
<1>1. clock' = clock /\ cmos' = cmos /\ machine' = machine /\ hw' = hw
  BY DEF FinishTime, Project
<1>2. CASE FinishTime
  <2>1. bootStage = "regs" /\ bootStage' = "proj" /\ bootPid' = bootPid /\ Len(cmos.regs) = 7
    BY <1>2, ClockConstants DEF FinishTime, RowThen, StageInv, Early, Late
  <2>2. ClockInv' /\ ReadInv' /\ PidInv'
    BY <1>1, <2>1 DEF ClockInv, ReadInv, PidInv, Early, Late
  <2>3. TimeInv'
    <3> SUFFICES ASSUME ~cmos.expired PROVE TimeInv'
      BY <1>1 DEF TimeInv
    <3>1. \A i \in 1 .. 7 :
            cmos.regs[i] = Encode(Instants[cmos.from], ClockRegs[i], machine.rtc)
      BY <2>1 DEF ReadInv
    <3>2. machine.rtc \in Modes
      BY <2>1, ClockConstants DEF StageInv
    <3>3. /\ Instants[cmos.from] \in ClockTimes /\ cmos.from \in cmos.from .. clock.now
      <4>1. clock.now \in 1 .. Len(Instants) /\ cmos.from \in 1 .. clock.now
        BY DEF ClockInv
      <4>2. cmos.from \in 1 .. Len(Instants) /\ cmos.from \in cmos.from .. clock.now
        BY <4>1, ClockConstants
      <4> QED BY <4>2, ClockConstants, Zenon
    <3>4. Reads(DecodeClock(cmos.regs, machine.rtc), Instants[cmos.from], machine.rtc)
      BY <3>1, <3>2, <3>3, ClockReads, Zenon
    <3>5. bootTime' = DecodeClock(cmos.regs, machine.rtc)
      BY <1>2 DEF FinishTime
    <3>6. \E k \in cmos'.from .. clock'.now : Reads(bootTime', Instants[k], machine'.rtc)
      BY <1>1, <3>3, <3>4, <3>5, Zenon
    <3> QED BY <3>6, Zenon DEF TimeInv
  <2> QED BY <2>2, <2>3
<1>3. CASE Project
  <2>1. /\ bootStage = "proj" /\ bootStage' = "drivers" /\ bootTime' = bootTime
        /\ bootPid' = <<Project60d(hw.tuple), bootTime>>
    BY <1>3 DEF Project, RowThen, StageInv, Early, Late
  <2>2. ClockInv'
    BY <1>1, <2>1 DEF ClockInv, Early
  <2>3. ReadInv'
    BY <2>1 DEF ReadInv
  <2>4. TimeInv'
    BY <1>1, <2>1 DEF TimeInv
  <2>5. bootPid' = <<Project60d(hw.tuple)', bootTime'>>
    BY <1>1, <2>1, Zenon DEF Project60d, Sha256
  <2>6. PidInv'
    <3>1. bootStage' \in Late
      BY <2>1 DEF Late
    <3> QED BY <2>5, <3>1, Zenon DEF PidInv, Project60d, Sha256
  <2> QED BY <2>2, <2>3, <2>4, <2>6
<1> QED BY <1>2, <1>3

LEMMA TimeStep ==
  ASSUME StageInv, HwInv, ClockInv, ReadInv, TimeInv, PidInv, BootNext
  PROVE  ClockInv' /\ ReadInv' /\ TimeInv' /\ PidInv'
<1>1. StageInv' /\ (bootStage # "off" => machine' = machine)
  BY StageStep
<1>2. bootStage \notin Early => hw' = hw
  BY HwStep
<1>3. CASE RtcUipRises \/ RtcUpdate
  BY <1>3, RtcKeeps
<1>4. CASE WaitUip
  BY <1>4, WaitKeeps
<1>5. CASE ReadReg
  BY <1>5, ReadKeeps
<1>6. CASE FinishTime \/ Project
  BY <1>1, <1>6, ConvertKeeps
<1> DEFINE Allocates == bootStage = "init" /\ \E l \in Layouts : Alloc(l)
           Others == RenderIdentity \/ PowerOn \/ OwnDisplay \/ Diagnose \/ ScanFunction
                       \/ ProbeDrivers \/ HeapUp \/ Allocates
<1>7. CASE Others
  <2>1. UNCHANGED <<clock, cmos, bootTime, bootPid>>
    BY <1>7 DEF RenderIdentity, PowerOn, OwnDisplay, Diagnose, ScanFunction, ProbeDrivers, HeapUp, Alloc
  <2>2. machine' = machine \/ bootStage \in Early
    BY <1>1 DEF Early
  <2>3. bootStage' \in Early \cup {"uip", "regs", "proj"} \cup Late
    BY <1>1 DEF StageInv
  <2>4. /\ bootStage' \in Early \cup {"uip"} => bootStage \in Early \cup {"uip"}
        /\ bootStage' = "regs" => bootStage = "regs"
        /\ bootStage' \in {"proj"} \cup Late =>
             /\ bootStage \in {"proj"} \cup Late
             /\ bootStage' \in Late <=> bootStage \in Late
    BY <1>7 DEF RenderIdentity, PowerOn, OwnDisplay, Diagnose, ScanFunction, ProbeDrivers, HeapUp,
       Alloc, RowThen, Early, Late
  <2>5. bootStage' \in {"proj"} \cup Late => hw' = hw
    BY <1>2, <2>4 DEF Early, Late
  <2> QED BY <2>1, <2>2, <2>3, <2>4, <2>5, TimeFrame
<1>8. RtcUipRises \/ RtcUpdate \/ WaitUip \/ ReadReg \/ FinishTime \/ Project \/ Others
  BY Zenon DEF BootNext
<1> HIDE DEF Others
<1> QED BY <1>3, <1>4, <1>5, <1>6, <1>7, <1>8

-----------------------------------------------------------------------------
(* The heap and the screen *)

HeapInv ==
  /\ heap = [end |-> heap.end, next |-> heap.next]
  /\ bootStage = "init" =>
       heap.end = HeapStart + HeapSize /\ heap.next \in HeapStart .. HeapStart + HeapSize
  /\ bootStage # "init" => grants = <<>>
  /\ grants \in Seq([ptr : Nat, size : Nat, align : Nat \ {0}]) /\ Len(grants) <= MaxGrants
  /\ \A i \in DOMAIN grants : grants[i].ptr # 0 => grants[i].ptr + grants[i].size <= heap.next
  /\ GrantsApart

PaintInv ==
  /\ obs = [uefi |-> obs.uefi, conOut |-> obs.conOut, bs |-> obs.bs, gop |-> obs.gop,
            fb |-> obs.fb, sb |-> obs.sb, loader |-> obs.loader]
  /\ PixelsInside

LEMMA SpaceInitial == BootInit => HeapInv /\ PaintInv
<1> SUFFICES ASSUME BootInit PROVE HeapInv /\ PaintInv
  OBVIOUS
<1>1. bootStage = "off" /\ heap = [end |-> 0, next |-> 0] /\ grants = <<>> /\ painted = {}
  BY DEF BootInit
<1>2. MaxGrants \in Nat
  BY BootAssumption, Zenon
<1>3. HeapInv
  BY <1>1, <1>2 DEF HeapInv, GrantsApart
<1>4. PICK a, b, c, d, e :
        obs = [uefi |-> a, conOut |-> b, bs |-> c, gop |-> d, fb |-> e, sb |-> "unknown",
               loader |-> "unknown"]
  BY Zenon DEF BootInit
<1>5. PaintInv
  BY <1>1, <1>4 DEF PaintInv, PixelsInside
<1> QED BY <1>3, <1>5

\* The mask of BumpAllocator::alloc rounds up to a multiple of the alignment.
LEMMA AlignUp ==
  ASSUME NEW x \in Nat, NEW a \in Nat \ {0}
  PROVE  LET y == ((x + a - 1) \div a) * a IN y \in Nat /\ y >= x /\ y % a = 0
<1> DEFINE z == x + a - 1
           q == z \div a
           r == z % a
<1>1. z \in Nat
  OBVIOUS
<1> HIDE DEF z
<1>2. q \in Nat /\ r \in 0 .. a - 1 /\ z = a * q + r
  BY <1>1, Z3
<1> HIDE DEF q, r
<1>3. q * a \in Nat /\ a * q = q * a
  BY <1>2, Z3
<1>4. \A p \in Nat : z = p + r => p >= x
  BY <1>2 DEF z
<1>5. q * a >= x
  BY <1>2, <1>3, <1>4
<1>6. (q * a) % a = 0
  BY <1>2, Z3
<1> QED BY <1>3, <1>5, <1>6 DEF q, z

\* A grant begins at or after the end of the ones before it.
LEMMA AllocKeeps ==
  ASSUME HeapInv, bootStage = "init", NEW l \in Layouts, Alloc(l)
  PROVE  HeapInv'
<1> DEFINE x == heap.next
           aligned == ((heap.next + l.align - 1) \div l.align) * l.align
           fits == aligned + l.size <= heap.end
           g == [ptr |-> IF fits THEN aligned ELSE 0, size |-> l.size, align |-> l.align]
           G == [ptr : Nat, size : Nat, align : Nat \ {0}]
<1>1. l.size \in Nat /\ l.align \in Nat \ {0}
  BY BootAssumption, Zenon
<1>2. HeapStart \in Nat /\ HeapSize \in Nat /\ MaxGrants \in Nat
  BY BootAssumption, Zenon
<1>3. /\ heap.end = HeapStart + HeapSize /\ x \in HeapStart .. HeapStart + HeapSize
      /\ heap = [end |-> heap.end, next |-> x] /\ grants \in Seq(G)
      /\ \A i \in DOMAIN grants : grants[i].ptr # 0 => grants[i].ptr + grants[i].size <= x
  BY DEF HeapInv
<1>4. x \in Nat
  BY <1>2, <1>3
<1>5. aligned \in Nat /\ aligned >= x /\ aligned % l.align = 0
  BY <1>1, <1>4, AlignUp, Zenon
<1>6. /\ Len(grants) < MaxGrants /\ grants' = Append(grants, g) /\ bootStage' = "init"
      /\ heap' = IF fits THEN [heap EXCEPT !.next = aligned + l.size] ELSE heap
  BY Zenon DEF Alloc
<1> HIDE DEF aligned
<1>7. /\ heap' = [end |-> heap'.end, next |-> heap'.next] /\ heap'.end = HeapStart + HeapSize
      /\ heap'.next \in x .. HeapStart + HeapSize /\ (fits => heap'.next = aligned + l.size)
  <2>1. CASE fits
    <3>1. heap' = [end |-> heap.end, next |-> aligned + l.size]
      BY <1>3, <1>6, <2>1
    <3> QED BY <1>1, <1>2, <1>3, <1>5, <2>1, <3>1
  <2>2. CASE ~fits
    <3>1. heap' = heap
      BY <1>6, <2>2
    <3> QED BY <1>2, <1>3, <1>4, <2>2, <3>1
  <2> QED BY <2>1, <2>2
<1>8. g \in G /\ g.size = l.size /\ g.align = l.align /\ g.ptr = (IF fits THEN aligned ELSE 0)
  BY <1>1, <1>5
<1> HIDE DEF g, fits
<1>9. /\ grants' \in Seq(G) /\ Len(grants') = Len(grants) + 1 /\ Len(grants) \in Nat
      /\ DOMAIN grants = 1 .. Len(grants) /\ DOMAIN grants' = 1 .. Len(grants) + 1
      /\ \A i \in 1 .. Len(grants) : grants'[i] = grants[i] /\ grants[i] \in G
      /\ grants'[Len(grants) + 1] = g
  <2> HIDE DEF G
  <2>1. /\ Append(grants, g) \in Seq(G) /\ Len(Append(grants, g)) = Len(grants) + 1
        /\ \A i \in 1 .. Len(grants) : Append(grants, g)[i] = grants[i]
        /\ Append(grants, g)[Len(grants) + 1] = g
    BY <1>3, <1>8, AppendProperties
  <2> QED BY <1>3, <1>6, <2>1
<1>10. g.ptr # 0 => /\ g.ptr % g.align = 0 /\ x <= g.ptr
                    /\ g.ptr + g.size = heap'.next
  BY <1>5, <1>7, <1>8
<1>11. ASSUME NEW i \in DOMAIN grants', grants'[i].ptr # 0
       PROVE  grants'[i].ptr + grants'[i].size <= heap'.next
  <2>0. heap'.next \in Nat /\ x <= heap'.next
    BY <1>2, <1>4, <1>7
  <2>1. CASE i = Len(grants) + 1
    <3>1. grants'[i] = g
      BY <1>9, <2>1, Zenon
    <3>2. g.ptr # 0
      BY <1>11, <3>1, Zenon
    <3>3. g.ptr + g.size = heap'.next
      BY <1>10, <3>2, Zenon
    <3> HIDE DEF x
    <3> QED BY <2>0, <3>1, <3>3
  <2>2. CASE i \in 1 .. Len(grants)
    <3>1. grants'[i] = grants[i] /\ i \in DOMAIN grants /\ grants[i] \in G
      BY <1>9, <2>2, Zenon
    <3>2. grants[i].ptr # 0
      BY <1>11, <3>1, Zenon
    <3>3. grants[i].ptr + grants[i].size <= x
      BY <1>3, <3>1, <3>2, Zenon
    <3>4. grants[i].ptr \in Nat /\ grants[i].size \in Nat
      BY <3>1
    <3> HIDE DEF x, G
    <3> QED BY <1>4, <2>0, <3>1, <3>3, <3>4
  <2> QED BY <1>9, <2>1, <2>2
<1>12. GrantsApart'
  <2> SUFFICES ASSUME NEW i \in DOMAIN grants', grants'[i].ptr # 0
               PROVE  /\ grants'[i].ptr % grants'[i].align = 0
                      /\ HeapStart <= grants'[i].ptr
                      /\ grants'[i].ptr + grants'[i].size <= HeapStart + HeapSize
                      /\ \A j \in DOMAIN grants' : j < i /\ grants'[j].ptr # 0 =>
                           grants'[j].ptr + grants'[j].size <= grants'[i].ptr
    BY Zenon DEF GrantsApart
  <2>1. CASE i = Len(grants) + 1
    <3>1. grants'[i] = g
      BY <1>9, <2>1
    <3>2. g.ptr % g.align = 0 /\ HeapStart <= g.ptr /\ g.ptr + g.size <= HeapStart + HeapSize
      BY <1>2, <1>3, <1>7, <1>8, <1>10, <3>1, <1>4
    <3>3. ASSUME NEW j \in DOMAIN grants', j < i, grants'[j].ptr # 0
          PROVE  grants'[j].ptr + grants'[j].size <= g.ptr
      <4>1. j \in 1 .. Len(grants)
        BY <1>9, <2>1, <3>3
      <4>2. grants[j] \in G /\ grants'[j] = grants[j] /\ j \in DOMAIN grants
        BY <1>9, <4>1, Zenon
      <4>3. grants[j].ptr # 0
        BY <3>3, <4>2, Zenon
      <4>4. grants[j].ptr + grants[j].size <= x
        BY <1>3, <4>2, <4>3, Zenon
      <4>5. g.ptr # 0
        BY <2>1, <3>1, Zenon
      <4>6. x <= g.ptr
        BY <1>10, <4>5, Zenon
      <4>7. grants[j].ptr \in Nat /\ grants[j].size \in Nat /\ g.ptr \in Nat
        BY <1>8, <4>2
      <4> HIDE DEF x, G
      <4> QED BY <1>4, <4>2, <4>4, <4>6, <4>7
    <3> QED BY <3>1, <3>2, <3>3, Zenon
  <2>2. CASE i \in 1 .. Len(grants)
    <3>1. grants'[i] = grants[i] /\ i \in DOMAIN grants
      BY <1>9, <2>2
    <3>2. ASSUME NEW j \in DOMAIN grants', j < i PROVE j \in DOMAIN grants /\ grants'[j] = grants[j]
      <4>1. Len(grants) \in Nat /\ j \in 1 .. Len(grants) + 1
        BY <1>9, Zenon
      <4>2. j \in 1 .. Len(grants)
        BY <2>2, <3>2, <4>1
      <4> QED BY <1>9, <4>2, Zenon
    <3> HIDE DEF x, G
    <3> QED BY <3>1, <3>2 DEF HeapInv, GrantsApart
  <2> QED BY <1>9, <2>1, <2>2
<1>13. heap'.next \in HeapStart .. HeapStart + HeapSize
  BY <1>2, <1>3, <1>7
<1>14. Len(grants') <= MaxGrants
  BY <1>2, <1>6, <1>9
<1> QED BY <1>6, <1>7, <1>9, <1>11, <1>12, <1>13, <1>14 DEF HeapInv

LEMMA DisplayKeeps ==
  ASSUME StageInv, PaintInv, OwnDisplay
  PROVE  PaintInv'
<1> DEFINE fw == machine.fw
           seen == fw.table /\ fw.bs /\ fw.gop
           mode == fw.mode[1]
           fb == IF seen /\ fw.mode # <<>> THEN ObserveFramebuffer(mode) ELSE NoFramebuffer
<1>1. bootStage = "entry" /\ machine \in Machines
  BY DEF OwnDisplay, StageInv
<1>2. PICK a, b, c, d :
        obs' = [obs EXCEPT !.uefi = a, !.conOut = b, !.bs = c, !.gop = d, !.fb = fb]
  BY Zenon DEF OwnDisplay
<1>3. painted' = IF MayPaint(fb) THEN PaintScreen(mode) ELSE {}
  BY Zenon DEF OwnDisplay
<1> HIDE DEF fb
<1>4. obs' = [uefi |-> a, conOut |-> b, bs |-> c, gop |-> d, fb |-> fb, sb |-> obs.sb,
              loader |-> obs.loader]
  BY <1>2 DEF PaintInv
<1>5. ASSUME MayPaint(fb) PROVE \A p \in PaintScreen(mode) : 4 * (p + 1) <= fb.bytes
  <2>1. fb # NoFramebuffer
    BY <1>5 DEF MayPaint, NoFramebuffer, IsDirectFormat
  <2>2. fw.mode # <<>> /\ fb = ObserveFramebuffer(mode)
    BY <2>1, Zenon DEF fb
  <2>3. mode.w \in Nat /\ mode.h \in Nat /\ mode.pps \in Nat /\ mode.bytes \in Nat
    <3>1. \A n \in {mode.w, mode.h, mode.pps, mode.bytes} : n \in Nat
      BY <1>1, <2>2, BootAssumption, Zenon
    <3> QED BY <3>1, Zenon
  <2>4. PICK layout :
          /\ layout = (mode.pps >= mode.w /\ mode.bytes >= mode.pps * mode.h * 4)
          /\ fb = [width |-> mode.w, height |-> mode.h, format |-> mode.format,
                   bytes |-> mode.bytes, base |-> mode.base, layout |-> layout]
    BY <2>2, Zenon DEF ObserveFramebuffer
  <2>5. fb.layout = layout /\ fb.width = mode.w /\ fb.height = mode.h /\ fb.bytes = mode.bytes
    BY <2>4
  <2>6. layout /\ fb.width >= 320 /\ fb.height >= 200
    BY <1>5, <2>5, Zenon DEF MayPaint
  <2>7. mode.pps >= mode.w /\ mode.bytes >= mode.pps * mode.h * 4
    BY <2>4, <2>6, Zenon
  <2>8. mode.w >= 320 /\ mode.h >= 200
    BY <2>5, <2>6
  <2> QED BY <2>3, <2>5, <2>7, <2>8, PaintFits, Zenon
<1>6. obs'.fb = fb
  BY <1>4
<1>7. PixelsInside'
  <2>1. CASE MayPaint(fb)
    BY <1>3, <1>5, <1>6, <2>1, Zenon DEF PixelsInside
  <2>2. CASE ~MayPaint(fb)
    BY <1>3, <2>2, Zenon DEF PixelsInside
  <2> QED BY <2>1, <2>2
<1> QED BY <1>4, <1>7 DEF PaintInv

LEMMA SpaceStep ==
  ASSUME StageInv, HeapInv, PaintInv, BootNext
  PROVE  HeapInv' /\ PaintInv'
<1>1. CASE OwnDisplay
  <2>1. heap' = heap /\ grants' = grants /\ bootStage = "entry" /\ bootStage' = "diag"
    BY <1>1 DEF OwnDisplay
  <2>2. HeapInv'
    BY <2>1 DEF HeapInv, GrantsApart
  <2> QED BY <1>1, <2>2, DisplayKeeps
<1>2. CASE HeapUp
  <2>1. /\ heap' = [end |-> HeapStart + HeapSize, next |-> HeapStart] /\ grants' = grants
        /\ bootStage = "heap" /\ bootStage' = "init" /\ obs' = obs /\ painted' = painted
    BY <1>2 DEF HeapUp
  <2>2. PaintInv'
    BY <2>1 DEF PaintInv, PixelsInside
  <2>3. HeapStart \in Nat /\ HeapSize \in Nat
    BY BootAssumption, Zenon
  <2>4. grants = <<>>
    BY <2>1 DEF HeapInv
  <2>5. HeapInv'
    BY <2>1, <2>3, <2>4 DEF HeapInv, GrantsApart
  <2> QED BY <2>2, <2>5
<1> DEFINE Allocates == bootStage = "init" /\ \E l \in Layouts : Alloc(l)
<1>3. CASE Allocates
  <2>1. PICK l \in Layouts : bootStage = "init" /\ Alloc(l)
    BY <1>3, Zenon
  <2>2. obs' = obs /\ painted' = painted
    BY <2>1 DEF Alloc
  <2>3. PaintInv'
    BY <2>2 DEF PaintInv, PixelsInside
  <2> QED BY <2>1, <2>3, AllocKeeps
<1>4. CASE ~OwnDisplay /\ ~HeapUp /\ ~Allocates
  <2>1. heap' = heap /\ grants' = grants /\ obs' = obs /\ painted' = painted
    BY <1>4 DEF BootNext, RenderIdentity, PowerOn, Diagnose, ScanFunction, RtcUipRises, RtcUpdate,
       WaitUip, ReadReg, FinishTime, Project, ProbeDrivers
  <2>2. bootStage # "init" /\ bootStage' # "init"
    BY <1>4 DEF BootNext, RenderIdentity, PowerOn, Diagnose, ScanFunction, RtcUipRises, RtcUpdate,
       WaitUip, ReadReg, FinishTime, Project, ProbeDrivers, RowThen
  <2> QED BY <2>1, <2>2 DEF HeapInv, GrantsApart, PaintInv, PixelsInside
<1> QED BY <1>1, <1>2, <1>3, <1>4

-----------------------------------------------------------------------------
(* Lines: what was observed has its type, and every line is a rendered one *)

Rendered == {[pieces |-> s, cap |-> cap, line |-> RenderLine(s, cap)] : s \in Seq(Nat), cap \in Nat}

LinesInv ==
  /\ obs.fb.format \in PixelFormats /\ obs.sb \in SecureBootStates /\ obs.loader \in LoaderPaths
  /\ lines \in Seq(Rendered)

LEMMA LinesInitial == BootInit => LinesInv
<1> SUFFICES ASSUME BootInit PROVE LinesInv
  OBVIOUS
<1>1. PICK a, b, c, d : obs = [uefi |-> a, conOut |-> b, bs |-> c, gop |-> d, fb |-> NoFramebuffer,
                               sb |-> "unknown", loader |-> "unknown"]
  BY Zenon DEF BootInit
<1>2. obs.fb.format = "unknown" /\ obs.sb = "unknown" /\ obs.loader = "unknown"
  BY <1>1 DEF NoFramebuffer
<1>3. lines \in Seq(Rendered)
  BY DEF BootInit
<1> QED BY <1>2, <1>3 DEF LinesInv, PixelFormats, SecureBootStates, LoaderPaths

LEMMA LinesStep ==
  ASSUME StageInv, PaintInv, LinesInv, BootNext
  PROVE  LinesInv'
<1>1. CASE OwnDisplay
  <2> DEFINE fw == machine.fw
             seen == fw.table /\ fw.bs /\ fw.gop
             mode == fw.mode[1]
             fb == IF seen /\ fw.mode # <<>> THEN ObserveFramebuffer(mode) ELSE NoFramebuffer
  <2>1. machine \in Machines /\ lines' = lines
    BY <1>1 DEF OwnDisplay, StageInv
  <2>2. PICK a, b, c, d :
          obs' = [obs EXCEPT !.uefi = a, !.conOut = b, !.bs = c, !.gop = d, !.fb = fb]
    BY <1>1, Zenon DEF OwnDisplay
  <2>3. fb.format \in PixelFormats
    <3>1. CASE seen /\ fw.mode # <<>>
      <4>1. mode.format \in PixelFormats
        BY <2>1, <3>1, BootAssumption, Zenon
      <4>2. fb.format = mode.format
        BY <3>1 DEF ObserveFramebuffer
      <4> QED BY <4>1, <4>2
    <3>2. CASE ~ (seen /\ fw.mode # <<>>)
      <4>1. fb = NoFramebuffer
        BY <3>2, Zenon
      <4> HIDE DEF fb
      <4> QED BY <4>1 DEF NoFramebuffer, PixelFormats
    <3> QED BY <3>1, <3>2
  <2> HIDE DEF fb
  <2>4. obs'.fb = fb /\ obs'.sb = obs.sb /\ obs'.loader = obs.loader
    BY <2>2 DEF PaintInv
  <2> QED BY <2>1, <2>3, <2>4 DEF LinesInv
<1>2. CASE Diagnose
  <2> DEFINE x == [pieces |-> StatusLine(obs), cap |-> 384, line |-> RenderLine(StatusLine(obs), 384)]
  <2>1. lines' = Append(lines, x) /\ obs' = obs
    BY <1>2, Zenon DEF Diagnose
  <2>2. x \in Rendered
    BY StatusPieces DEF LinesInv, Rendered
  <2> HIDE DEF x
  <2> QED BY <2>1, <2>2 DEF LinesInv
<1>3. CASE RenderIdentity
  <2>1. PICK id \in Identities, cap \in LineCaps :
          lines' = <<[pieces |-> IdentityLine(id), cap |-> cap, line |-> RenderLine(IdentityLine(id), cap)]>>
    BY <1>3, Zenon DEF RenderIdentity
  <2> DEFINE x == [pieces |-> IdentityLine(id), cap |-> cap, line |-> RenderLine(IdentityLine(id), cap)]
  <2>2. cap \in Nat
    BY LineAssumption, Zenon
  <2>3. x \in Rendered
    BY <2>2, IdentityPieces DEF Rendered
  <2>4. lines' = <<x>> /\ obs' = obs
    BY <1>3, <2>1 DEF RenderIdentity
  <2> HIDE DEF x
  <2> QED BY <2>3, <2>4 DEF LinesInv
<1>4. CASE ~OwnDisplay /\ ~Diagnose /\ ~RenderIdentity
  <2>1. lines' = lines /\ obs' = obs
    BY <1>4 DEF BootNext, PowerOn, ScanFunction, RtcUipRises, RtcUpdate, WaitUip, ReadReg,
       FinishTime, Project, ProbeDrivers, HeapUp, Alloc
  <2> QED BY <2>1 DEF LinesInv
<1> QED BY <1>1, <1>2, <1>3, <1>4

LEMMA LinesTell == LinesInv => LinesReport
<1> SUFFICES ASSUME LinesInv, NEW i \in DOMAIN lines
             PROVE  LET whole == Sums(lines[i].pieces)[Len(lines[i].pieces)]
                    IN  /\ lines[i].line.ok = (whole <= lines[i].cap)
                        /\ lines[i].line.required = whole
                        /\ lines[i].line.written = Min2(whole, lines[i].cap)
  BY Zenon DEF LinesReport
<1>1. lines[i] \in Rendered
  BY DEF LinesInv
<1> DEFINE x == lines[i]
<1>2. PICK s \in Seq(Nat), cap \in Nat :
        x = [pieces |-> s, cap |-> cap, line |-> RenderLine(s, cap)]
  <2> HIDE DEF x
  <2>1. x \in {[pieces |-> s, cap |-> cap, line |-> RenderLine(s, cap)] : s \in Seq(Nat), cap \in Nat}
    BY <1>1 DEF x, Rendered
  <2> QED BY <2>1
<1>3. x.pieces = s /\ x.cap = cap /\ x.line = RenderLine(s, cap)
  <2> DEFINE y == RenderLine(s, cap)
  <2>1. x = [pieces |-> s, cap |-> cap, line |-> y]
    BY <1>2, Zenon
  <2> HIDE DEF x, y
  <2>2. x.pieces = s /\ x.cap = cap /\ x.line = y
    BY ONLY <2>1
  <2> QED BY <2>2, Zenon DEF y
<1>4. LET whole == Sums(s)[Len(s)]
      IN  /\ x.line.ok = (whole <= cap) /\ x.line.required = whole
          /\ x.line.written = Min2(whole, cap)
  <2> HIDE DEF x
  <2> QED BY <1>3, RenderReports
<1> QED BY <1>3, <1>4

-----------------------------------------------------------------------------
(* The theorems *)

BootInv ==
  /\ StageInv /\ HwInv /\ ClockInv /\ ReadInv /\ TimeInv /\ PidInv /\ HeapInv /\ PaintInv
  /\ LinesInv

LEMMA BootStep == BootInv /\ [Next]_serviceVars => BootInv'
<1> SUFFICES ASSUME BootInv, [Next]_serviceVars PROVE BootInv'
  OBVIOUS
<1>1. CASE BootNext
  BY <1>1, StageStep, HwStep, TimeStep, SpaceStep, LinesStep DEF BootInv
<1>2. CASE UNCHANGED bootVars
  <2>1. StageInv' /\ HwInv' /\ ClockInv'
    BY <1>2 DEF bootVars, BootInv, StageInv, HwInv, ClockInv
  <2>2. ReadInv' /\ TimeInv'
    BY <1>2 DEF bootVars, BootInv, ReadInv, TimeInv
  <2>3. PidInv'
    BY <1>2, Zenon DEF bootVars, BootInv, PidInv, Project60d, Sha256
  <2>4. HeapInv' /\ PaintInv'
    BY <1>2 DEF bootVars, BootInv, HeapInv, GrantsApart, PaintInv, PixelsInside
  <2>5. LinesInv'
    BY <1>2 DEF bootVars, BootInv, LinesInv
  <2> QED BY <2>1, <2>2, <2>3, <2>4, <2>5 DEF BootInv
<1> QED BY <1>1, <1>2, BootProject

LEMMA BootInvariant == Spec => []BootInv
<1>1. Init => BootInv
  BY StageInitial, HwInitial, TimeInitial, SpaceInitial, LinesInitial DEF Init, BootInv
<1> QED BY <1>1, BootStep, PTL DEF Spec

\* Whatever the machine, the seat label, the clock and the heap: no row outgrows
\* its buffer, so the boot never ends in the panic handler; a rendered line is
\* whole or reports how long it would have been; no pixel is painted outside the
\* framebuffer; and what the allocator gives out is aligned, inside the heap and
\* disjoint (put_bytes, push_bytes and finish of both line writers, fb_fill,
\* fb_string, BumpAllocator::alloc).
THEOREM BootKeepsBounds == Spec => []BootStaysInBounds
<1>1. BootInv => bootStage # "panicked" /\ PixelsInside /\ GrantsApart /\ LinesReport
  BY LinesTell DEF BootInv, StageInv, Early, Late, HeapInv, PaintInv
<1>2. BootInv => BootStaysInBounds
  BY <1>1 DEF BootStaysInBounds
<1> QED BY <1>2, BootInvariant, PTL

\* The blocks of the coordinate are told apart by their counter, which a tuple
\* that leaves four bytes free never loses.
LEMMA BlocksApart ==
  ASSUME NEW t, 6 * Len(t) + 4 <= TupleCap, NEW j \in 0 .. 3, NEW k \in 0 .. 3, j # k
  PROVE  Project60d(t)[j] # Project60d(t)[k]
<1>1. Project60d(t)[j] = Sha256(t, j) /\ Project60d(t)[k] = Sha256(t, k)
  BY Zenon DEF Project60d
<1>2. Sha256(t, j) = <<t, j>> /\ Sha256(t, k) = <<t, k>>
  BY Zenon DEF Sha256
<1> QED BY <1>1, <1>2

\* The identity a boot mints is sound, for every PCI tree and scan cap, every
\* clock mode and every moment at which the clock moves on
\* (pci_scan, HwTuple::push, project_60d, read_boot_time, bootproj::emit).
THEOREM BootIdentityIsSound == Spec => []BootIdentitySound
<1>1. BootInv => BootIdentitySound
  <2> SUFFICES ASSUME BootInv, bootPid # <<>> PROVE BootIdentitySound
    BY DEF BootIdentitySound
  <2>1. bootStage \in Late /\ bootPid = <<Project60d(hw.tuple), bootTime>>
    BY DEF BootInv, PidInv
  <2>2. bootPid[1] = Project60d(hw.tuple) /\ bootPid[2] = bootTime
    BY <2>1
  <2>3. Len(hw.tuple) = hw.count /\ 6 * Len(hw.tuple) + 4 <= TupleCap
    BY BootAssumption DEF BootInv, HwInv
  <2>4. \A j, k \in 0 .. 3 : j # k => bootPid[1][j] # bootPid[1][k]
    BY <2>2, <2>3, BlocksApart, Zenon
  <2>5. ASSUME ~cmos.expired
        PROVE  \E k \in cmos.from .. clock.now :
                 \/ bootPid[2] = Instants[k]
                 \/ /\ ~ machine.rtc.century /\ Instants[k].year < 2000
                    /\ [bootPid[2] EXCEPT !.year = Instants[k].year] = Instants[k]
    <3>1. PICK k \in cmos.from .. clock.now : Reads(bootTime, Instants[k], machine.rtc)
      BY <2>1, <2>5, Zenon DEF BootInv, TimeInv
    <3>2. Reads(bootPid[2], Instants[k], machine.rtc)
      BY <2>2, <3>1
    <3>3. \/ bootPid[2] = Instants[k]
          \/ /\ ~ machine.rtc.century /\ Instants[k].year < 2000
             /\ [bootPid[2] EXCEPT !.year = Instants[k].year] = Instants[k]
      BY <3>2 DEF Reads
    <3> QED BY <3>1, <3>3
  <2> QED BY <2>3, <2>4, <2>5, Zenon DEF BootIdentitySound
<1> QED BY <1>1, BootInvariant, PTL

\* Every service of the composition keeps the shape of its state: the peer's
\* history is a path of legal transitions, the chain's counters agree, the
\* transit numbers run on, the clock and its reads stay in range.
THEOREM TypeCorrect == Spec => []TypeOK
<1> DEFINE Whole == /\ service \in Services
                    /\ PeerInv /\ RegistryInv /\ ChainInv /\ GateInv /\ LinkInv /\ RouteInv
<1>1. Init => Whole
  BY PeerInitial, RegistryInitial, ChainInitial, GatesInitial, LinkInitial, RouteInitial DEF Init
<1>2. Whole /\ [Next]_serviceVars => Whole'
  <2> SUFFICES ASSUME Whole, [Next]_serviceVars PROVE Whole'
    OBVIOUS
  <2>1. service' = service
    BY DEF Next, serviceVars
  <2>2. PeerInv' /\ RegistryInv' /\ ChainInv'
    BY StepsProject, PeerStep, RegistryStep, ChainStep
  <2>3. GateInv' /\ LinkInv' /\ RouteInv'
    BY DecisionsProject, GatesStep, LinkStep, RouteStep
  <2> QED BY <2>1, <2>2, <2>3
<1>3. Whole /\ BootInv => TypeOK
  <2> SUFFICES ASSUME Whole, BootInv PROVE TypeOK
    OBVIOUS
  <2>1. RegistryTypeOK
    BY DEF RegistryInv, EntriesInv, RegistryTypeOK
  <2>2. ChainTypeOK
    BY DEF ChainInv, LinksInv, CountsInv, ChainTypeOK
  <2>3. GatesTypeOK
    BY DEF GateInv, TransitInv, RunInv, RunCounts, DecisionInv, Gates, GatesTypeOK
  <2>4. LinkTypeOK /\ RouteTypeOK
    BY DEF LinkInv, RouteInv
  <2>5. BootTypeOK
    BY DEF BootInv, StageInv, Early, Late, HwInv, ClockInv, HeapInv, BootTypeOK
  <2> QED BY <2>1, <2>2, <2>3, <2>4, <2>5, PeerTypes DEF TypeOK
<1> HIDE DEF Whole
<1> QED BY <1>1, <1>2, <1>3, BootInvariant, PTL DEF Spec
=============================================================================
