------------------------- MODULE KernelTablesProofs -------------------------
(***************************************************************************)
(* Proofs about KernelTables for any number of callers, any pool, table    *)
(* and registry size.  The three parts share nothing but the callers, so   *)
(* each has an inductive invariant of its own.  Only GrantsDisjoint needs  *)
(* an assumption on the inputs, NoWrap; without it the run of              *)
(* MCFrameWrap.cfg shows the opposite.                                     *)
(***************************************************************************)
EXTENDS KernelTables, TLAPS

USE FrameConstants, FdConstants, ChildConstants

-----------------------------------------------------------------------------
\* The frame allocator.

\* Whole pages.
Aligned(x) == \E k \in Nat : x = k * PageBytes

\* What a caller knows of the watermark is old, never new.
WatermarkInv ==
  \A c \in Callers : Allocating(c) => request[c].current <= next_virtual_base

\* The strengthening of GrantsDisjoint: the watermark is a page boundary of the
\* pool above everything returned, and a request is in whole pages and covers
\* its length.
PoolInv ==
  /\ next_virtual_base >= VirtualBaseStart
  /\ next_virtual_base <= VirtualBaseEnd
  /\ Aligned(next_virtual_base)
  /\ \A c \in Callers : Allocating(c) =>
       request[c].len <= request[c].bytes_needed /\ Aligned(request[c].bytes_needed)
  /\ \A i \in 1 .. Len(grants) : grants[i].ptr + grants[i].len <= next_virtual_base

\* What appending to a sequence does.
LEMMA AppendFacts ==
  ASSUME NEW S, NEW s \in Seq(S), NEW e \in S
  PROVE  /\ Append(s, e) \in Seq(S)
         /\ Len(s) \in Nat
         /\ Len(Append(s, e)) = Len(s) + 1
         /\ \A i \in 1 .. Len(s) : Append(s, e)[i] = s[i] /\ s[i] \in S
         /\ Append(s, e)[Len(s) + 1] = e
  OBVIOUS

\* Division rounds down by less than the divisor.
LEMMA DivBounds ==
  ASSUME NEW a \in Nat, NEW p \in Nat, p > 0
  PROVE  (a \div p) \in Nat /\ (a \div p) * p <= a /\ a < (a \div p) * p + p
  BY Z3

\* A remainder is a natural number, and a number below the modulus is its own.
LEMMA ModBounds ==
  ASSUME NEW a \in Nat, NEW m \in Nat, m > 0
  PROVE  a % m \in Nat /\ (a < m => a % m = a)
  BY Z3

\* A multiple of the page size leaves no remainder, and two of them add up to one.
LEMMA AlignedFacts ==
  /\ \A x : Aligned(x) => x % PageBytes = 0
  /\ \A x, y : Aligned(x) /\ Aligned(y) => Aligned(x + y)
<1>1. \A k \in Nat : (k * PageBytes) % PageBytes = 0
  BY Z3
<1>2. ASSUME NEW k \in Nat, NEW l \in Nat
      PROVE  k * PageBytes + l * PageBytes = (k + l) * PageBytes /\ k + l \in Nat
  BY Z3
<1>3. ASSUME NEW x, NEW y, Aligned(x), Aligned(y) PROVE Aligned(x + y)
  <2>1. PICK k \in Nat : x = k * PageBytes
    BY <1>3 DEF Aligned
  <2>2. PICK l \in Nat : y = l * PageBytes
    BY <1>3 DEF Aligned
  <2>3. x + y = (k + l) * PageBytes /\ k + l \in Nat
    BY <1>2, <2>1, <2>2
  <2> QED
    BY <2>3 DEF Aligned
<1>4. \A x : Aligned(x) => x % PageBytes = 0
  BY <1>1 DEF Aligned
<1> QED
  BY <1>3, <1>4

\* bytes_needed is a natural number of whole pages, and covers the length as
\* long as the rounding does not wrap.
LEMMA RoundUpFacts ==
  ASSUME NEW len \in Lens
  PROVE  /\ len \in Nat \ {0}
         /\ RoundUp(len) \in Nat
         /\ Aligned(RoundUp(len))
         /\ NoWrap => RoundUp(len) >= len
<1> DEFINE a == (len + PageBytes - 1) % UsizeModulus
<1>1. len \in Nat \ {0} /\ len + PageBytes - 1 \in Nat /\ UsizeModulus > 0
  OBVIOUS
<1>2. a \in Nat /\ (len + PageBytes - 1 < UsizeModulus => a = len + PageBytes - 1)
  BY <1>1, ModBounds
<1> HIDE DEF a
<1>3. (a \div PageBytes) \in Nat /\ a < (a \div PageBytes) * PageBytes + PageBytes
  BY <1>2, DivBounds
<1>4. RoundUp(len) = (a \div PageBytes) * PageBytes
  BY DEF RoundUp, a
<1>5. RoundUp(len) \in Nat
  BY <1>3, <1>4, Z3
<1>6. ASSUME NoWrap PROVE RoundUp(len) >= len
  <2>1. a = len + PageBytes - 1
    BY <1>2, <1>6 DEF NoWrap
  <2> QED
    BY <1>1, <1>3, <1>4, <1>5, <2>1
<1> QED
  BY <1>1, <1>3, <1>4, <1>5, <1>6 DEF Aligned

\* The pool is made of whole pages.
LEMMA PoolBounds ==
  /\ VirtualBaseStart \in Nat /\ VirtualBaseEnd \in Nat
  /\ VirtualBaseStart <= VirtualBaseEnd
  /\ Aligned(VirtualBaseStart)
<1>1. PoolPages * PageBytes \in Nat /\ PageBytes = 1 * PageBytes
  BY Z3
<1> QED
  BY <1>1 DEF VirtualBaseStart, VirtualBaseEnd, Aligned

\* Every step of the allocator keeps the types and what callers know.
LEMMA FrameStepTypes ==
  ASSUME FrameTypeOK, WatermarkInv, [FrameNext]_frameVars
  PROVE  FrameTypeOK' /\ WatermarkInv'
<1>1. CASE UNCHANGED frameVars
  BY <1>1 DEF frameVars, FrameTypeOK, WatermarkInv, Allocating
<1>2. ASSUME NEW c \in Callers, NEW len \in Lens, AllocCall(c, len)
      PROVE  FrameTypeOK' /\ WatermarkInv'
  BY <1>2, RoundUpFacts DEF AllocCall, FrameTypeOK, WatermarkInv, Allocating
<1>3. ASSUME NEW c \in Callers, AllocExhausted(c)
      PROVE  FrameTypeOK' /\ WatermarkInv'
  BY <1>3 DEF AllocExhausted, NoRequest, FrameTypeOK, WatermarkInv, Allocating
<1>4. ASSUME NEW c \in Callers, AllocAdvance(c)
      PROVE  FrameTypeOK' /\ WatermarkInv'
  <2>1. /\ request[c].len \in Nat /\ request[c].bytes_needed \in Nat
        /\ next_virtual_base' = next_virtual_base + request[c].bytes_needed
        /\ next_virtual_base' \in Nat
    BY <1>4 DEF AllocAdvance, NewNext, FrameTypeOK
  <2>2. request' \in [Callers -> [len : Nat, bytes_needed : Nat, current : Nat]]
    BY <1>4 DEF AllocAdvance, NoRequest, FrameTypeOK
  <2>3. grants' \in Seq([ptr : Nat, len : Nat])
    BY <1>4, <2>1 DEF AllocAdvance, FrameTypeOK
  <2>4. WatermarkInv'
    BY <1>4, <2>1 DEF AllocAdvance, NoRequest, FrameTypeOK, WatermarkInv, Allocating
  <2> QED
    BY <2>1, <2>2, <2>3, <2>4 DEF FrameTypeOK
<1>5. ASSUME NEW c \in Callers, AllocRetry(c)
      PROVE  FrameTypeOK' /\ WatermarkInv'
  <2>1. FrameTypeOK'
    BY <1>5 DEF AllocRetry, FrameTypeOK
  <2>2. WatermarkInv'
    BY <1>5 DEF AllocRetry, FrameTypeOK, WatermarkInv, Allocating
  <2> QED
    BY <2>1, <2>2
<1> QED
  BY <1>1, <1>2, <1>3, <1>4, <1>5 DEF FrameNext, AllocStep

\* Every step of the allocator keeps the pool in order if no length wraps.
LEMMA FrameStepPool ==
  ASSUME NoWrap, FrameTypeOK, PoolInv, GrantsDisjoint, [FrameNext]_frameVars
  PROVE  PoolInv' /\ GrantsDisjoint'
<1> USE DEF Allocating
<1>1. CASE UNCHANGED frameVars
  BY <1>1 DEF frameVars, PoolInv, GrantsDisjoint
<1>2. ASSUME NEW c \in Callers, NEW len \in Lens, AllocCall(c, len)
      PROVE  PoolInv' /\ GrantsDisjoint'
  BY <1>2, RoundUpFacts DEF AllocCall, FrameTypeOK, PoolInv, GrantsDisjoint
<1>3. ASSUME NEW c \in Callers, AllocExhausted(c)
      PROVE  PoolInv' /\ GrantsDisjoint'
  BY <1>3 DEF AllocExhausted, NoRequest, FrameTypeOK, PoolInv, GrantsDisjoint
<1>4. ASSUME NEW c \in Callers, AllocAdvance(c)
      PROVE  PoolInv' /\ GrantsDisjoint'
  <2> DEFINE g == [ptr |-> request[c].current, len |-> request[c].len]
             n == Len(grants)
  <2>1. /\ request[c].len \in Nat /\ request[c].bytes_needed \in Nat
        /\ next_virtual_base \in Nat /\ g \in [ptr : Nat, len : Nat]
        /\ n \in Nat
    BY DEF FrameTypeOK
  <2>2. /\ g.ptr = next_virtual_base /\ g.len <= request[c].bytes_needed
        /\ next_virtual_base' = next_virtual_base + request[c].bytes_needed
        /\ next_virtual_base' <= VirtualBaseEnd
    BY <1>4 DEF AllocAdvance, NewNext, Fits, PoolInv
  <2>3. Aligned(next_virtual_base') /\ g.ptr % PageBytes = 0
    BY <1>4, <2>2, AlignedFacts DEF AllocAdvance, PoolInv
  <2>4. /\ grants' = Append(grants, g) /\ Len(grants') = n + 1
        /\ \A i \in 1 .. n : grants'[i] = grants[i] /\ grants[i] \in [ptr : Nat, len : Nat]
        /\ grants'[n + 1] = g
    <3>1. grants \in Seq([ptr : Nat, len : Nat]) /\ grants' = Append(grants, g)
      BY <1>4 DEF AllocAdvance, FrameTypeOK
    <3> DEFINE R == [ptr : Nat, len : Nat]
    <3>2. grants \in Seq(R) /\ g \in R
      BY <2>1, <3>1
    <3> HIDE DEF g, R
    <3>3. /\ Len(Append(grants, g)) = Len(grants) + 1
          /\ \A i \in 1 .. Len(grants) : Append(grants, g)[i] = grants[i] /\ grants[i] \in R
          /\ Append(grants, g)[Len(grants) + 1] = g
      BY <3>2, AppendFacts
    <3> QED
      BY <3>1, <3>3 DEF R
  <2> HIDE DEF g, n
  <2>5. g.ptr + g.len <= next_virtual_base' /\ g.ptr >= VirtualBaseStart
    BY <2>1, <2>2 DEF PoolInv
  <2>6. \A i \in 1 .. n : /\ grants[i].ptr + grants[i].len <= g.ptr
                           /\ grants[i].ptr + grants[i].len <= next_virtual_base'
    <3> SUFFICES ASSUME NEW i \in 1 .. n
                 PROVE  /\ grants[i].ptr + grants[i].len <= g.ptr
                        /\ grants[i].ptr + grants[i].len <= next_virtual_base'
      OBVIOUS
    <3>1. grants[i].ptr + grants[i].len <= next_virtual_base
      BY DEF PoolInv, n
    <3>2. grants[i].ptr \in Nat /\ grants[i].len \in Nat
      BY <2>4
    <3> QED
      BY <2>1, <2>2, <3>1, <3>2
  <2>7. \A i \in 1 .. n + 1 : grants'[i].ptr + grants'[i].len <= next_virtual_base'
    BY <2>1, <2>4, <2>5, <2>6
  <2>8. \A d \in Callers : request'[d].len # 0 =>
          request'[d].len <= request'[d].bytes_needed /\ Aligned(request'[d].bytes_needed)
    BY <1>4 DEF AllocAdvance, NoRequest, PoolInv, FrameTypeOK
  <2>9. PoolInv'
    BY <2>1, <2>2, <2>3, <2>4, <2>7, <2>8, PoolBounds DEF PoolInv
  <2>10. \A i \in 1 .. n + 1 :
           /\ grants'[i].ptr >= VirtualBaseStart
           /\ grants'[i].ptr % PageBytes = 0
           /\ grants'[i].ptr + grants'[i].len <= VirtualBaseEnd
    BY <2>1, <2>2, <2>3, <2>4, <2>5, PoolBounds DEF GrantsDisjoint, n
  <2>11. \A i \in 1 .. n + 1 : \A j \in i + 1 .. n + 1 :
           grants'[i].ptr + grants'[i].len <= grants'[j].ptr
    BY <2>1, <2>4, <2>6 DEF GrantsDisjoint, n
  <2> QED
    BY <2>4, <2>9, <2>10, <2>11 DEF GrantsDisjoint
<1>5. ASSUME NEW c \in Callers, AllocRetry(c)
      PROVE  PoolInv' /\ GrantsDisjoint'
  BY <1>5 DEF AllocRetry, FrameTypeOK, PoolInv, GrantsDisjoint
<1> QED
  BY <1>1, <1>2, <1>3, <1>4, <1>5 DEF FrameNext, AllocStep

-----------------------------------------------------------------------------
\* The descriptor table.

\* A caller is not inside vfs_open and inside a read or write.
OneFdCall == \A c \in Callers : open[c] = NoOpen \/ io[c] = NoIo

FdInv ==
  FdTypeOK /\ OneFdCall /\ DescriptorsUnique /\ LowestFreeUnlessClosed /\ BusThroughBoundFd

\* Every step on the descriptor table keeps its invariant.
LEMMA FdStepInv ==
  ASSUME FdInv, [FdNext]_fdVars
  PROVE  FdInv'
<1> USE DEF FdInv, OneFdCall, FdTypeOK, Fds, NoOpen, NoIo, FdIdle, AllBindings
<1>1. CASE UNCHANGED fdVars
  BY <1>1 DEF fdVars, DescriptorsUnique, LowestFreeUnlessClosed, BusThroughBoundFd
<1>2. ASSUME NEW c \in Callers, NEW k \in Bindings, OpenCall(c, k)
      PROVE  FdInv'
  <2>1. FdTypeOK' /\ OneFdCall'
    BY <1>2 DEF OpenCall
  <2>2. DescriptorsUnique' /\ BusThroughBoundFd'
    BY <1>2 DEF OpenCall, DescriptorsUnique, BusThroughBoundFd
  <2>3. LowestFreeUnlessClosed'
    BY <1>2 DEF OpenCall, LowestFreeUnlessClosed
  <2> QED
    BY <2>1, <2>2, <2>3
<1>3. ASSUME NEW c \in Callers, OpenClaim(c)
      PROVE  FdInv'
  <2>1. FdTypeOK' /\ OneFdCall'
    BY <1>3 DEF OpenClaim
  <2>2. DescriptorsUnique'
    <3> SUFFICES ASSUME NEW fd \in Fds
                 PROVE  live'[fd] = IF fd_state'[fd] = "Free" THEN 0 ELSE 1
      BY DEF DescriptorsUnique
    <3>1. live[fd] = IF fd_state[fd] = "Free" THEN 0 ELSE 1
      BY DEF DescriptorsUnique
    <3>2. open[c].kind # "Free"
      <4>1. open[c] # NoOpen
        BY <1>3 DEF OpenClaim
      <4>2. open[c].kind \in AllBindings
        BY <4>1
      <4> QED
        BY <4>2
    <3>3. CASE fd = open[c].fd
      <4>1. fd_state[fd] = "Free" /\ live'[fd] = live[fd] + 1 /\ fd_state'[fd] = open[c].kind
        BY <1>3, <3>3 DEF OpenClaim, SlotFree
      <4> QED
        BY <3>1, <3>2, <4>1
    <3>4. CASE fd # open[c].fd
      <4>1. live'[fd] = live[fd] /\ fd_state'[fd] = fd_state[fd]
        BY <1>3, <3>4 DEF OpenClaim
      <4> QED
        BY <3>1, <4>1
    <3> QED
      BY <3>3, <3>4
  <2>3. LowestFreeUnlessClosed'
    BY <1>3 DEF OpenClaim, SlotFree, LowestFreeUnlessClosed
  <2>4. BusThroughBoundFd'
    <3> SUFFICES ASSUME NEW d \in Callers, io[d] # NoIo, d \notin disturbed'
                 PROVE  fd_state'[io[d].fd] = "BusEnvelope"
      BY <1>3 DEF OpenClaim, BusThroughBoundFd
    <3>1. d # c \/ io[c] = NoIo
      BY <1>3 DEF OpenClaim
    <3>2. d \notin disturbed
      BY <1>3, <3>1 DEF OpenClaim
    <3>3. fd_state[io[d].fd] = "BusEnvelope" /\ io[d].fd # open[c].fd
      BY <1>3, <3>2 DEF OpenClaim, SlotFree, BusThroughBoundFd
    <3> QED
      BY <1>3, <3>3 DEF OpenClaim
  <2> QED
    BY <2>1, <2>2, <2>3, <2>4
<1>4. ASSUME NEW c \in Callers, OpenNext(c)
      PROVE  FdInv'
  <2>1. FdTypeOK' /\ OneFdCall'
    <3>1. open[c] \in [fd : 3 .. FdTableSize, kind : AllBindings] /\ open[c].fd + 1 \in 3 .. FdTableSize
      BY <1>4 DEF OpenNext
    <3>2. [open[c] EXCEPT !.fd = @ + 1] \in [fd : 3 .. FdTableSize, kind : AllBindings]
      BY <3>1
    <3>3. open' = [open EXCEPT ![c] = [open[c] EXCEPT !.fd = @ + 1]]
      BY <1>4 DEF OpenNext
    <3> QED
      BY <1>4, <3>1, <3>2, <3>3 DEF OpenNext
  <2>2. DescriptorsUnique' /\ BusThroughBoundFd'
    BY <1>4 DEF OpenNext, DescriptorsUnique, BusThroughBoundFd
  <2>3. LowestFreeUnlessClosed'
    <3> SUFFICES ASSUME NEW d \in Callers, open'[d] # NoOpen, d \notin disturbed,
                        NEW fd \in 3 .. open'[d].fd - 1
                 PROVE  fd_state[fd] # "Free"
      BY <1>4 DEF OpenNext, LowestFreeUnlessClosed
    <3>1. CASE d # c
      <4>1. open'[d] = open[d]
        BY <1>4, <3>1 DEF OpenNext
      <4> QED
        BY <4>1 DEF LowestFreeUnlessClosed
    <3>2. CASE d = c
      <4>1. /\ open[c] # NoOpen /\ open'[c].fd = open[c].fd + 1 /\ open[c].fd \in Int
            /\ fd_state[open[c].fd] # "Free"
        BY <1>4 DEF OpenNext, SlotFree
      <4>2. fd = open[c].fd \/ fd \in 3 .. open[c].fd - 1
        BY <3>2, <4>1
      <4> QED
        BY <3>2, <4>1, <4>2 DEF LowestFreeUnlessClosed
    <3> QED
      BY <3>1, <3>2
  <2> QED
    BY <2>1, <2>2, <2>3
<1>5. ASSUME NEW c \in Callers, OpenFull(c)
      PROVE  FdInv'
  <2>1. FdTypeOK' /\ OneFdCall'
    BY <1>5 DEF OpenFull
  <2>2. DescriptorsUnique' /\ LowestFreeUnlessClosed'
    BY <1>5 DEF OpenFull, DescriptorsUnique, LowestFreeUnlessClosed
  <2>3. BusThroughBoundFd'
    BY <1>5 DEF OpenFull, BusThroughBoundFd
  <2> QED
    BY <2>1, <2>2, <2>3
<1>6. ASSUME NEW c \in Callers, NEW fd \in Fds, Close(c, fd)
      PROVE  FdInv'
  <2>1. FdTypeOK' /\ OneFdCall'
    BY <1>6 DEF Close
  <2>2. DescriptorsUnique'
    BY <1>6 DEF Close, DescriptorsUnique
  <2>3. LowestFreeUnlessClosed'
    BY <1>6 DEF Close, LowestFreeUnlessClosed
  <2>4. BusThroughBoundFd'
    BY <1>6 DEF Close, BusThroughBoundFd
  <2> QED
    BY <2>1, <2>2, <2>3, <2>4
<1>7. ASSUME NEW c \in Callers, NEW fd \in Fds, NEW op \in {"read", "write"}, IoLoad(c, fd, op)
      PROVE  FdInv'
  <2>1. FdTypeOK' /\ OneFdCall'
    BY <1>7 DEF IoLoad
  <2>2. DescriptorsUnique' /\ LowestFreeUnlessClosed'
    BY <1>7 DEF IoLoad, DescriptorsUnique, LowestFreeUnlessClosed
  <2>3. BusThroughBoundFd'
    BY <1>7 DEF IoLoad, BusThroughBoundFd
  <2> QED
    BY <2>1, <2>2, <2>3
<1>8. ASSUME NEW c \in Callers, IoBus(c)
      PROVE  FdInv'
  <2>1. FdTypeOK' /\ OneFdCall'
    BY <1>8 DEF IoBus
  <2>2. DescriptorsUnique' /\ LowestFreeUnlessClosed'
    BY <1>8 DEF IoBus, DescriptorsUnique, LowestFreeUnlessClosed
  <2>3. BusThroughBoundFd'
    BY <1>8 DEF IoBus, BusThroughBoundFd
  <2> QED
    BY <2>1, <2>2, <2>3
<1> HIDE DEF FdInv, OneFdCall, FdTypeOK, Fds, FdIdle, NoOpen, NoIo, AllBindings
<1> QED
  BY <1>1, <1>2, <1>3, <1>4, <1>5, <1>6, <1>7, <1>8 DEF FdNext, FdStep, FdCall

-----------------------------------------------------------------------------
\* The child handles.

\* While the counter is above the handles, or a refused fork is on its way, all
\* handles are gone.
ChildInv ==
  /\ ChildTypeOK /\ HandlesDense /\ CountSettles
  /\ spawn_child_counter > Len(minted) \/ refused # {} => Len(minted) = AgentRegistryMax

\* Every step of a fork keeps the invariant of the handles.
LEMMA ChildStepInv ==
  ASSUME ChildInv, [ChildNext]_childVars
  PROVE  ChildInv'
<1> USE DEF ChildInv, ChildTypeOK, HandlesDense, CountSettles
<1>1. CASE UNCHANGED childVars
  BY <1>1 DEF childVars
<1>2. ASSUME NEW c \in Callers, SpawnChild(c), AtMaximum
      PROVE  ChildInv'
  BY <1>2 DEF SpawnChild, AtMaximum
<1>3. ASSUME NEW c \in Callers, SpawnChild(c), ~ AtMaximum
      PROVE  ChildInv'
  <2>1. /\ minted \in Seq(Nat) /\ spawn_child_counter = Len(minted)
        /\ spawn_child_counter + 1 \in Nat /\ spawn_child_counter < AgentRegistryMax
        /\ refused = {} /\ anyRefused = FALSE
    BY <1>3 DEF AtMaximum
  <2>2. /\ spawn_child_counter' = Len(minted) + 1 /\ refused' = {} /\ anyRefused' = FALSE
        /\ minted' = Append(minted, Len(minted) + 1)
    BY <1>3, <2>1 DEF SpawnChild
  <2>3. /\ minted' \in Seq(Nat) /\ Len(minted') = Len(minted) + 1
        /\ \A i \in 1 .. Len(minted) : minted'[i] = minted[i]
        /\ minted'[Len(minted) + 1] = Len(minted) + 1
    BY <2>1, <2>2, AppendFacts
  <2>4. ChildTypeOK'
    <3>1. spawn_child_counter' \in Nat /\ refused' \subseteq Callers
      BY <2>1, <2>2
    <3>2. anyRefused' \in BOOLEAN
      BY <2>2
    <3> HIDE DEF ChildInv, ChildTypeOK, HandlesDense, CountSettles
    <3> QED
      BY <2>3, <3>1, <3>2, Zenon DEF ChildTypeOK
  <2>5. HandlesDense'
    <3>1. ASSUME NEW i \in 1 .. Len(minted) + 1 PROVE minted'[i] = i
      <4>1. CASE i \in 1 .. Len(minted)
        BY <2>3, <4>1
      <4>2. CASE i = Len(minted) + 1
        BY <2>3, <4>2
      <4> QED
        BY <2>1, <4>1, <4>2
    <3>2. Len(minted) + 1 <= AgentRegistryMax
      BY <2>1
    <3> QED
      BY <2>2, <2>3, <3>1, <3>2
  <2> QED
    BY <2>1, <2>2, <2>3, <2>4, <2>5
<1>4. ASSUME NEW c \in Callers, SpawnRollBack(c)
      PROVE  ChildInv'
  BY <1>4 DEF SpawnRollBack
<1> HIDE DEF ChildInv, ChildTypeOK, HandlesDense, CountSettles
<1> QED
  BY <1>1, <1>2, <1>3, <1>4 DEF ChildNext

-----------------------------------------------------------------------------
\* The system calls together.

TablesInv == FrameTypeOK /\ WatermarkInv /\ FdInv /\ ChildInv

\* TablesInv is an inductive invariant of the three tables.
LEMMA TablesInvariant == Spec => []TablesInv
<1>1. Init => TablesInv
  <2>1. FrameInit => FrameTypeOK /\ WatermarkInv
    BY PoolBounds DEF FrameInit, FrameTypeOK, WatermarkInv, Allocating, NoRequest
  <2>2. FdInit => FdInv
    <3> SUFFICES ASSUME FdInit PROVE FdInv
      OBVIOUS
    <3> USE DEF FdInit
    <3>1. FdTypeOK
      <4>1. bus \in BOOLEAN
        OBVIOUS
      <4>2. /\ fd_state \in [Fds -> AllBindings \cup {"Free"}]
            /\ live \in [Fds -> Int] /\ disturbed \subseteq Callers
        OBVIOUS
      <4>3. /\ open \in [Callers -> [fd : 3 .. FdTableSize, kind : AllBindings] \cup {NoOpen}]
            /\ io \in [Callers -> [fd : Fds, op : {"read", "write"}] \cup {NoIo}]
        OBVIOUS
      <4> QED
        BY <4>1, <4>2, <4>3 DEF FdTypeOK
    <3>2. OneFdCall /\ LowestFreeUnlessClosed /\ BusThroughBoundFd
      BY DEF OneFdCall, LowestFreeUnlessClosed, BusThroughBoundFd
    <3>3. DescriptorsUnique
      BY DEF DescriptorsUnique
    <3> QED
      BY <3>1, <3>2, <3>3 DEF FdInv
  <2>3. ChildInit => ChildInv
    <3> SUFFICES ASSUME ChildInit PROVE ChildInv
      OBVIOUS
    <3>1. anyRefused \in BOOLEAN /\ ~ anyRefused
      BY DEF ChildInit
    <3>2. /\ minted \in Seq(Nat) /\ Len(minted) = 0 /\ refused = {}
          /\ spawn_child_counter = 0
      BY DEF ChildInit
    <3>3. ChildTypeOK
      BY <3>1, <3>2 DEF ChildTypeOK
    <3>4. HandlesDense /\ CountSettles
      BY <3>1, <3>2 DEF HandlesDense, CountSettles
    <3> QED
      BY <3>2, <3>3, <3>4 DEF ChildInv
  <2> QED
    BY <2>1, <2>2, <2>3 DEF Init, TablesInv
<1>2. TablesInv /\ [Next]_vars => TablesInv'
  <2> SUFFICES ASSUME TablesInv, [Next]_vars PROVE TablesInv'
    OBVIOUS
  <2>1. [FrameNext]_frameVars /\ [FdNext]_fdVars /\ [ChildNext]_childVars
    BY DEF Next, vars, FrameNext, FdNext, ChildNext
  <2> QED
    BY <2>1, FrameStepTypes, FdStepInv, ChildStepInv DEF TablesInv
<1> QED
  BY <1>1, <1>2, PTL DEF Spec

\* The state of frame_alloc, vfs and the child handles keeps its type.
THEOREM TypeCorrect == Spec => []TypeOK
<1>1. TablesInv => TypeOK
  BY DEF TablesInv, TypeOK, FdInv, ChildInv
<1> QED
  BY <1>1, TablesInvariant, PTL

\* alloc_pages never returns overlapping ranges, for callers that ask for no
\* length within a page of usize::MAX.
THEOREM GrantsNeverOverlap ==
  ASSUME NoWrap
  PROVE  Spec => []GrantsDisjoint
<1>1. Init => PoolInv /\ GrantsDisjoint
  BY PoolBounds DEF Init, FrameInit, PoolInv, GrantsDisjoint, Allocating, NoRequest
<1>2. TablesInv /\ PoolInv /\ GrantsDisjoint /\ [Next]_vars => (PoolInv /\ GrantsDisjoint)'
  <2> SUFFICES ASSUME TablesInv, PoolInv, GrantsDisjoint, [Next]_vars
               PROVE  (PoolInv /\ GrantsDisjoint)'
    OBVIOUS
  <2>1. [FrameNext]_frameVars
    BY DEF Next, vars, FrameNext, FdNext, ChildNext
  <2> QED
    BY <2>1, NoWrap, FrameStepPool DEF TablesInv
<1> QED
  BY <1>1, <1>2, TablesInvariant, PTL DEF Spec

\* Every returned range has the length asked for, which is not zero.
GrantsHold == \A i \in 1 .. Len(grants) : grants[i].len >= 1

\* The scope of the finding of frame_wrap: "Hands out unique non-null pointers"
\* holds of alloc_pages for every length but those within a page of usize::MAX,
\* whatever the callers, their interleaving and the pool.
THEOREM PointersAreUnique ==
  ASSUME NoWrap
  PROVE  Spec => []PointersUnique
<1>1. Init => GrantsHold
  BY DEF Init, FrameInit, GrantsHold
<1>2. TablesInv /\ GrantsHold /\ [Next]_vars => GrantsHold'
  <2> SUFFICES ASSUME TablesInv, GrantsHold, [Next]_vars PROVE GrantsHold'
    OBVIOUS
  <2>1. CASE grants' = grants
    BY <2>1 DEF GrantsHold
  <2>2. CASE grants' # grants
    <3>1. PICK c \in Callers : AllocAdvance(c)
      BY <2>2 DEF Next, vars, FrameNext, FdNext, ChildNext, frameVars, AllocCall, AllocStep,
         AllocExhausted, AllocRetry
    <3> DEFINE R == [ptr : Nat, len : Nat]
               g == [ptr |-> request[c].current, len |-> request[c].len]
    <3>2. grants \in Seq(R) /\ g \in R /\ g.len >= 1 /\ grants' = Append(grants, g)
      BY <3>1 DEF TablesInv, FrameTypeOK, AllocAdvance, Allocating
    <3> HIDE DEF R, g
    <3> QED
      BY <3>2, AppendFacts DEF GrantsHold
  <2> QED
    BY <2>1, <2>2
<1>3. TablesInv /\ GrantsHold /\ GrantsDisjoint => PointersUnique
  <2> SUFFICES ASSUME TablesInv, GrantsHold, GrantsDisjoint,
                      NEW i \in 1 .. Len(grants), NEW j \in 1 .. Len(grants),
                      grants[i].ptr = grants[j].ptr
               PROVE  i = j
    BY DEF PointersUnique
  <2>1. /\ grants[i].ptr \in Nat /\ grants[i].len \in Nat /\ grants[i].len >= 1
        /\ grants[j].ptr \in Nat /\ grants[j].len \in Nat /\ grants[j].len >= 1
        /\ Len(grants) \in Nat
    <3> DEFINE R == [ptr : Nat, len : Nat]
    <3>1. grants \in Seq(R)
      BY DEF TablesInv, FrameTypeOK
    <3> HIDE DEF R
    <3>2. grants[i] \in R /\ grants[j] \in R /\ Len(grants) \in Nat
      BY <3>1
    <3>3. \A x \in R : x.ptr \in Nat /\ x.len \in Nat
      BY DEF R
    <3> QED
      BY <3>2, <3>3 DEF GrantsHold
  <2>2. /\ j \in i + 1 .. Len(grants) => grants[i].ptr + grants[i].len <= grants[j].ptr
        /\ i \in j + 1 .. Len(grants) => grants[j].ptr + grants[j].len <= grants[i].ptr
    BY DEF GrantsDisjoint
  <2> QED
    BY <2>1, <2>2
<1> QED
  BY <1>1, <1>2, <1>3, NoWrap, GrantsNeverOverlap, TablesInvariant, PTL DEF Spec

\* alloc_pages returns PoolExhausted only when the pool cannot hold the request.
THEOREM RefusalsAreJustified == Spec => RefusalsJustified
<1>1. TablesInv => [\A c \in Callers : AllocExhausted(c) =>
        next_virtual_base + request[c].bytes_needed > VirtualBaseEnd]_frameVars
  BY PoolBounds DEF TablesInv, FrameTypeOK, WatermarkInv, AllocExhausted, Fits, NewNext
<1> QED
  BY <1>1, TablesInvariant, PTL DEF RefusalsJustified

\* vfs_open and vfs_close of one descriptor alternate.
THEOREM DescriptorsAlwaysUnique == Spec => []DescriptorsUnique
<1>1. TablesInv => DescriptorsUnique
  BY DEF TablesInv, FdInv
<1> QED
  BY <1>1, TablesInvariant, PTL

\* The scan of vfs_open passes a free slot only if something is closed meanwhile.
THEOREM ScanFindsLowest == Spec => []LowestFreeUnlessClosed
<1>1. TablesInv => LowestFreeUnlessClosed
  BY DEF TablesInv, FdInv
<1> QED
  BY <1>1, TablesInvariant, PTL

\* vfs_read and vfs_write use the bus through a descriptor that is bound to it,
\* unless something is closed meanwhile.
THEOREM BusUseIsBound == Spec => []BusThroughBoundFd
<1>1. TablesInv => BusThroughBoundFd
  BY DEF TablesInv, FdInv
<1> QED
  BY <1>1, TablesInvariant, PTL

\* spawn_child_agent hands out 1, 2, 3, ... each once, up to the maximum.
THEOREM HandlesAlwaysDense == Spec => []HandlesDense
<1>1. TablesInv => HandlesDense
  BY DEF TablesInv, ChildInv
<1> QED
  BY <1>1, TablesInvariant, PTL

\* spawn_child_agent_count() is right whenever no fork is being refused.
THEOREM CountAlwaysSettles == Spec => []CountSettles
<1>1. TablesInv => CountSettles
  BY DEF TablesInv, ChildInv
<1> QED
  BY <1>1, TablesInvariant, PTL

-----------------------------------------------------------------------------
(* Every call is over after a bounded number of its own steps. *)

\* The watermark and what callers know of it are page boundaries of the pool,
\* also when the rounding of a length wraps.
PagesInv ==
  /\ next_virtual_base \in Nat /\ Aligned(next_virtual_base)
  /\ next_virtual_base >= VirtualBaseStart /\ next_virtual_base <= VirtualBaseEnd
  /\ \A c \in Callers : Allocating(c) =>
       /\ Aligned(request[c].bytes_needed)
       /\ Aligned(request[c].current)
       /\ request[c].current >= VirtualBaseStart /\ request[c].current <= VirtualBaseEnd

\* An alloc_pages in its loop works on a watermark inside the pool and a
\* vfs_open in its scan on a descriptor of the table, or one past the last.
LoopsAreBounded ==
  /\ \A c \in Callers : Allocating(c) => request[c].current \in VirtualBaseStart .. VirtualBaseEnd
  /\ \A c \in Callers : open[c] # NoOpen => open[c].fd \in 3 .. FdTableSize

\* A step of a call ends it or moves its loop on: a lost compare-exchange of
\* alloc_pages continues at least a page higher, a taken slot sends vfs_open to
\* the next one; a bus access and the roll-back of a fork end their calls.
\* Steps of other callers leave a call where it is.
LoopsMoveOn ==
  \A c \in Callers :
    /\ Allocating(c) =>
         IF AllocStep(c)
         THEN ~ Allocating(c)' \/ request'[c].current >= request[c].current + PageBytes
         ELSE request'[c] = request[c]
    /\ open[c] # NoOpen =>
         IF OpenClaim(c) \/ OpenNext(c) \/ OpenFull(c)
         THEN open'[c] = NoOpen \/ open'[c].fd = open[c].fd + 1
         ELSE open'[c] = open[c]
    /\ io[c] # NoIo => IF IoBus(c) THEN io'[c] = NoIo ELSE io'[c] = io[c]
    /\ c \in refused => (SpawnRollBack(c) <=> c \notin refused')

\* A multiple of the page size above another one is at least a page above it.
LEMMA AlignedGap ==
  ASSUME NEW x, NEW y, Aligned(x), Aligned(y), x < y
  PROVE  x + PageBytes <= y
<1>1. PICK k \in Nat : x = k * PageBytes
  BY DEF Aligned
<1>2. PICK l \in Nat : y = l * PageBytes
  BY DEF Aligned
<1>3. k < l
  <2>1. l <= k => l * PageBytes <= k * PageBytes
    BY Z3
  <2> QED
    BY <1>1, <1>2, <2>1, Z3
<1>4. (k + 1) * PageBytes <= l * PageBytes /\ (k + 1) * PageBytes = k * PageBytes + PageBytes
  BY <1>3, Z3
<1> QED
  BY <1>1, <1>2, <1>4

\* PagesInv is inductive.
LEMMA PagesStep == TablesInv /\ PagesInv /\ [Next]_vars => PagesInv'
<1> SUFFICES ASSUME TablesInv, PagesInv, [Next]_vars PROVE PagesInv'
  OBVIOUS
<1> USE DEF PagesInv, Allocating
<1>0. request \in [Callers -> [len : Nat, bytes_needed : Nat, current : Nat]]
  BY DEF TablesInv, FrameTypeOK
<1>1. CASE UNCHANGED frameVars
  BY <1>1 DEF frameVars
<1>2. ASSUME NEW c \in Callers, NEW len \in Lens, AllocCall(c, len) PROVE PagesInv'
  BY <1>0, <1>2, RoundUpFacts DEF AllocCall
<1>3. ASSUME NEW c \in Callers, AllocExhausted(c) PROVE PagesInv'
  BY <1>0, <1>3 DEF AllocExhausted, NoRequest
<1>4. ASSUME NEW c \in Callers, AllocAdvance(c) PROVE PagesInv'
  <2>1. /\ Aligned(NewNext(c)) /\ NewNext(c) \in Nat
        /\ NewNext(c) >= VirtualBaseStart /\ NewNext(c) <= VirtualBaseEnd
    BY <1>0, <1>4, AlignedFacts, PoolBounds DEF AllocAdvance, NewNext, Fits
  <2> QED
    BY <1>0, <1>4, <2>1 DEF AllocAdvance, NoRequest
<1>5. ASSUME NEW c \in Callers, AllocRetry(c) PROVE PagesInv'
  BY <1>0, <1>5 DEF AllocRetry
<1> QED
  BY <1>1, <1>2, <1>3, <1>4, <1>5 DEF Next, FrameNext, FdNext, ChildNext, AllocStep, vars

\* The loop of alloc_pages.
LEMMA AllocMoves ==
  ASSUME TablesInv, PagesInv, [Next]_vars, NEW c \in Callers, Allocating(c)
  PROVE  IF AllocStep(c)
         THEN ~ Allocating(c)' \/ request'[c].current >= request[c].current + PageBytes
         ELSE request'[c] = request[c]
<1>0. request \in [Callers -> [len : Nat, bytes_needed : Nat, current : Nat]]
  BY DEF TablesInv, FrameTypeOK
<1>1. CASE AllocExhausted(c) \/ AllocAdvance(c)
  BY <1>0, <1>1 DEF AllocExhausted, AllocAdvance, NoRequest, Allocating, AllocStep
<1>2. CASE AllocRetry(c)
  <2>1. request[c].current < next_virtual_base
    BY <1>0, <1>2 DEF AllocRetry, TablesInv, WatermarkInv, FrameTypeOK
  <2>2. request[c].current + PageBytes <= next_virtual_base
    BY <2>1, AlignedGap DEF PagesInv
  <2> QED
    BY <1>0, <1>2, <2>2 DEF AllocRetry, AllocStep
<1>3. CASE ~ AllocStep(c)
  <2>1. ASSUME NEW d \in Callers, AllocStep(d) PROVE request'[c] = request[c]
    BY <1>0, <1>3, <2>1 DEF AllocStep, AllocExhausted, AllocAdvance, AllocRetry
  <2>2. ASSUME NEW d \in Callers, NEW len \in Lens, AllocCall(d, len) PROVE request'[c] = request[c]
    BY <1>0, <2>2 DEF AllocCall
  <2> QED
    BY <1>3, <2>1, <2>2 DEF Next, FrameNext, FdNext, ChildNext, vars, frameVars
<1> QED
  BY <1>1, <1>2, <1>3 DEF AllocStep

\* The scan of vfs_open and the bus access of vfs_read and vfs_write.
LEMMA DescriptorCallsMove ==
  ASSUME TablesInv, [Next]_vars, NEW c \in Callers
  PROVE  /\ open[c] # NoOpen =>
              IF OpenClaim(c) \/ OpenNext(c) \/ OpenFull(c)
              THEN open'[c] = NoOpen \/ open'[c].fd = open[c].fd + 1
              ELSE open'[c] = open[c]
         /\ io[c] # NoIo => IF IoBus(c) THEN io'[c] = NoIo ELSE io'[c] = io[c]
<1>0. /\ DOMAIN open = Callers /\ DOMAIN io = Callers
      /\ open \in [Callers -> [fd : 3 .. FdTableSize, kind : AllBindings] \cup {NoOpen}]
  BY DEF TablesInv, FdInv, FdTypeOK
<1>1. OpenClaim(c) \/ OpenFull(c) => open'[c] = NoOpen
  BY <1>0 DEF OpenClaim, OpenFull
<1>2. OpenNext(c) => open'[c].fd = open[c].fd + 1
  <2> SUFFICES ASSUME OpenNext(c) PROVE open'[c].fd = open[c].fd + 1
    OBVIOUS
  <2>1. open[c] \in [fd : 3 .. FdTableSize, kind : AllBindings]
    BY <1>0 DEF OpenNext, NoOpen, Fds
  <2> QED
    BY <1>0, <2>1 DEF OpenNext
<1>3. IoBus(c) => io'[c] = NoIo
  BY <1>0 DEF IoBus
<1>4. ASSUME NEW d \in Callers, FdStep(d), d # c PROVE open'[c] = open[c] /\ io'[c] = io[c]
  BY <1>0, <1>4 DEF FdStep, OpenClaim, OpenNext, OpenFull, IoBus
<1>5. ASSUME NEW d \in Callers, FdCall(d)
      PROVE  (open[c] # NoOpen => open'[c] = open[c]) /\ (io[c] # NoIo => io'[c] = io[c])
  BY <1>0, <1>5 DEF FdCall, OpenCall, Close, IoLoad, FdIdle
<1>6. FdStep(c) => IF IoBus(c) THEN open'[c] = open[c] ELSE io'[c] = io[c]
  BY DEF FdStep, OpenClaim, OpenNext, OpenFull, IoBus
<1> QED
  BY <1>1, <1>2, <1>3, <1>4, <1>5, <1>6 DEF Next, FrameNext, FdNext, ChildNext, vars, fdVars, FdStep

\* The roll-back of a refused fork.
LEMMA RollBackMoves ==
  ASSUME [Next]_vars, NEW c \in Callers, c \in refused
  PROVE  SpawnRollBack(c) <=> c \notin refused'
<1>1. ASSUME NEW d \in Callers, SpawnChild(d) PROVE c \in refused'
  BY <1>1 DEF SpawnChild
<1>2. ASSUME NEW d \in Callers, SpawnRollBack(d), d # c PROVE c \in refused'
  BY <1>2 DEF SpawnRollBack
<1>3. SpawnRollBack(c) => c \notin refused'
  BY DEF SpawnRollBack
<1> QED
  BY <1>1, <1>2, <1>3 DEF Next, FrameNext, FdNext, ChildNext, vars, childVars

\* alloc_pages loses its race at most once for every page of the pool, whatever
\* lengths are asked for; vfs_open tries every descriptor at most once; no
\* caller waits for another.
THEOREM CallsAreBounded == Spec => []LoopsAreBounded /\ [][LoopsMoveOn]_vars
<1>1. Init => PagesInv
  BY PoolBounds DEF Init, FrameInit, PagesInv, Allocating, NoRequest
<1>2. Spec => [](TablesInv /\ PagesInv)
  BY <1>1, PagesStep, TablesInvariant, PTL DEF Spec
<1>3. TablesInv /\ PagesInv => LoopsAreBounded
  <2> SUFFICES ASSUME TablesInv, PagesInv PROVE LoopsAreBounded
    OBVIOUS
  <2>1. ASSUME NEW c \in Callers, Allocating(c)
        PROVE  request[c].current \in VirtualBaseStart .. VirtualBaseEnd
    BY <2>1, PoolBounds DEF TablesInv, FrameTypeOK, PagesInv
  <2>2. ASSUME NEW c \in Callers, open[c] # NoOpen PROVE open[c].fd \in 3 .. FdTableSize
    BY <2>2 DEF TablesInv, FdInv, FdTypeOK
  <2> QED
    BY <2>1, <2>2 DEF LoopsAreBounded
<1>4. TablesInv /\ PagesInv /\ [Next]_vars => LoopsMoveOn
  BY AllocMoves, DescriptorCallsMove, RollBackMoves DEF LoopsMoveOn
<1> QED
  BY <1>2, <1>3, <1>4, PTL DEF Spec
=============================================================================
