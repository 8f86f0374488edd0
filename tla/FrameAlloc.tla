----------------------------- MODULE FrameAlloc -----------------------------
(***************************************************************************)
(* kernel/core/src/frame_alloc/mod.rs: alloc_pages, the compare-exchange   *)
(* loop that advances NEXT_VIRTUAL_BASE, run by any number of callers      *)
(* (sys_mmap).  free_pages checks its arguments and changes nothing, so it *)
(* is not an action.  Lengths are rounded at the width of usize, as in the *)
(* release build, where overflow wraps.                                    *)
(***************************************************************************)
EXTENDS Naturals, Sequences, KernelCallers

CONSTANTS
  PageBytes,          \* PAGE_BYTES
  PoolPages,          \* POOL_PAGES
  UsizeModulus,       \* usize::MAX + 1
  Lens                \* the lengths that callers ask for

VirtualBaseStart == PageBytes
VirtualBaseEnd == VirtualBaseStart + PoolPages * PageBytes

\* sys_mmap and alloc_pages refuse a length of zero.
ASSUME FrameConstants ==
  /\ PageBytes \in Nat \ {0}
  /\ PoolPages \in Nat
  /\ UsizeModulus \in Nat
  /\ VirtualBaseEnd < UsizeModulus
  /\ Lens \subseteq 1 .. UsizeModulus - 1

VARIABLES
  next_virtual_base,  \* NEXT_VIRTUAL_BASE
  request,            \* the call each caller is in: len, bytes_needed and current
  grants              \* history: what alloc_pages has returned, in order

frameVars == <<next_virtual_base, request, grants>>

NoRequest == [len |-> 0, bytes_needed |-> 0, current |-> 0]

Allocating(c) == request[c].len # 0

FrameInit ==
  /\ next_virtual_base = VirtualBaseStart
  /\ request = [c \in Callers |-> NoRequest]
  /\ grants = <<>>

\* (len + PAGE_BYTES - 1) / PAGE_BYTES * PAGE_BYTES.
RoundUp(len) == (((len + PageBytes - 1) % UsizeModulus) \div PageBytes) * PageBytes

\* The call up to the first load of the watermark.
AllocCall(c, len) ==
  /\ ~ Allocating(c)
  /\ request' = [request EXCEPT ![c] =
       [len |-> len, bytes_needed |-> RoundUp(len), current |-> next_virtual_base]]
  /\ UNCHANGED <<next_virtual_base, grants>>

NewNext(c) == request[c].current + request[c].bytes_needed

\* Mutant: the last page of the pool is out of reach.
FitsBelowEnd(c) == NewNext(c) < VirtualBaseEnd

\* new_next <= VIRTUAL_BASE_END.  The saturating_add only matters for sums that
\* are above the end of the pool anyway.
Fits(c) == NewNext(c) <= VirtualBaseEnd

AllocExhausted(c) ==
  /\ Allocating(c)
  /\ ~ Fits(c)
  /\ request' = [request EXCEPT ![c] = NoRequest]
  /\ UNCHANGED <<next_virtual_base, grants>>

\* Mutant: a store in place of the compare_exchange.
AllocStore(c) ==
  /\ Allocating(c)
  /\ Fits(c)
  /\ next_virtual_base' = NewNext(c)
  /\ grants' = Append(grants, [ptr |-> request[c].current, len |-> request[c].len])
  /\ request' = [request EXCEPT ![c] = NoRequest]

\* The compare_exchange succeeds.
AllocAdvance(c) ==
  /\ Allocating(c)
  /\ Fits(c)
  /\ next_virtual_base = request[c].current
  /\ next_virtual_base' = NewNext(c)
  /\ grants' = Append(grants, [ptr |-> request[c].current, len |-> request[c].len])
  /\ request' = [request EXCEPT ![c] = NoRequest]

\* Mutant: the value that the failed exchange returned is not used.
AllocRetrySame(c) ==
  /\ Allocating(c)
  /\ Fits(c)
  /\ next_virtual_base # request[c].current
  /\ UNCHANGED frameVars

\* It fails: another caller was faster; try again from what it left.
AllocRetry(c) ==
  /\ Allocating(c)
  /\ Fits(c)
  /\ next_virtual_base # request[c].current
  /\ request' = [request EXCEPT ![c].current = next_virtual_base]
  /\ UNCHANGED <<next_virtual_base, grants>>

AllocStep(c) == AllocExhausted(c) \/ AllocAdvance(c) \/ AllocRetry(c)

FrameTypeOK ==
  /\ next_virtual_base \in Nat
  /\ request \in [Callers -> [len : Nat, bytes_needed : Nat, current : Nat]]
  /\ grants \in Seq([ptr : Nat, len : Nat])

-----------------------------------------------------------------------------
\* Every range alloc_pages has returned starts on a page inside the pool, is as
\* long as was asked for, and lies below every range returned later, however
\* many callers race for the watermark.
GrantsDisjoint ==
  \A i \in 1 .. Len(grants) :
    /\ grants[i].ptr >= VirtualBaseStart
    /\ grants[i].ptr % PageBytes = 0
    /\ grants[i].ptr + grants[i].len <= VirtualBaseEnd
    /\ \A j \in i + 1 .. Len(grants) : grants[i].ptr + grants[i].len <= grants[j].ptr

\* PoolExhausted is never returned on the strength of a stale watermark: when a
\* caller gives up, its request does not fit the pool as it then is.
RefusalsJustified ==
  [][\A c \in Callers : AllocExhausted(c) =>
       next_virtual_base + request[c].bytes_needed > VirtualBaseEnd]_frameVars

\* Lock-freedom bounded by the pool: a caller that keeps losing the race still
\* returns, since every loss is another caller's grant.
EveryAllocReturns == \A c \in Callers : Allocating(c) ~> ~ Allocating(c)

\* "Hands out unique non-null pointers": no address is returned twice.
PointersUnique ==
  \A i, j \in 1 .. Len(grants) : grants[i].ptr = grants[j].ptr => i = j

\* For the proofs: no length in Lens makes the rounding wrap.
NoWrap == \A len \in Lens : len + PageBytes - 1 < UsizeModulus
=============================================================================
