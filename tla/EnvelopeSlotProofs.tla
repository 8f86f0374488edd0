------------------------- MODULE EnvelopeSlotProofs -------------------------
(***************************************************************************)
(* Proofs about EnvelopeSlot for any callers, envelopes and slot size:     *)
(* the inductive invariant IInv, the safety properties that follow from it *)
(* and the refinement of EnvelopeMailbox.                                  *)
(***************************************************************************)
EXTENDS EnvelopeSlot, TLAPS

USE SlotBytesAssumption, EnvelopesAssumption, CallsAssumption

\* The empty slot of a fresh kernel satisfies the inductive invariant.
LEMMA InitInv == Init => IInv
<1> SUFFICES ASSUME Init PROVE IInv
  OBVIOUS
<1> USE DEF Init
<1>1. TypeOK
  BY DEF TypeOK, Bytes, ZeroByte, Blank, Index
<1>2. SingleOwner /\ WriterInv /\ SlotInv /\ ReaderInv /\ ExactlyOnce
  BY DEF SingleOwner, WriterInv, SlotInv, ReaderInv, ExactlyOnce, Writing, Reading
<1> QED
  BY <1>1, <1>2 DEF IInv

\* A call of dispatch_enqueue_bytes preserves the invariant.
LEMMA EnqueueCallInv ==
  ASSUME IInv, NEW p \in Producers, NEW e \in Envelopes, EnqueueCall(p, e)
  PROVE  IInv'
<1> USE DEF IInv, EnqueueCall, slotVars, prodVars, consVars, histVars
<1>1. TypeOK'
  BY DEF TypeOK, Bytes, ZeroByte, Blank, Index, WriterInv, ReaderInv
<1>2. SingleOwner'
  BY DEF TypeOK, SingleOwner, Writing, Reading
<1>3. WriterInv'
  BY DEF TypeOK, SingleOwner, WriterInv, Writing, Reading, SlotInv, Index
<1>4. SlotInv'
  BY DEF TypeOK, SingleOwner, WriterInv, SlotInv, Writing, Reading, Index
<1>5. ReaderInv'
  BY DEF TypeOK, SingleOwner, SlotInv, ReaderInv, Writing, Reading, Whole, Index
<1>6. ExactlyOnce'
  BY DEF TypeOK, ExactlyOnce, WriterInv, SlotInv, ReaderInv, Whole
<1> QED
  BY <1>1, <1>2, <1>3, <1>4, <1>5, <1>6

\* EnqueueClaim preserves the invariant.
LEMMA EnqueueClaimInv ==
  ASSUME IInv, NEW p \in Producers, EnqueueClaim(p)
  PROVE  IInv'
<1> USE DEF IInv, EnqueueClaim, slotVars, prodVars, consVars, histVars
<1>1. TypeOK'
  BY DEF TypeOK, Bytes, ZeroByte, Blank, Index, WriterInv, ReaderInv
<1>2. SingleOwner'
  BY DEF TypeOK, SingleOwner, Writing, Reading
<1>3. WriterInv'
  BY DEF TypeOK, SingleOwner, WriterInv, Writing, Reading, SlotInv, Index
<1>4. SlotInv'
  BY DEF TypeOK, SingleOwner, WriterInv, SlotInv, Writing, Reading, Index
<1>5. ReaderInv'
  BY DEF TypeOK, SingleOwner, SlotInv, ReaderInv, Writing, Reading, Whole, Index
<1>6. ExactlyOnce'
  BY DEF TypeOK, ExactlyOnce, WriterInv, SlotInv, ReaderInv, Whole
<1> QED
  BY <1>1, <1>2, <1>3, <1>4, <1>5, <1>6

\* EnqueueFull preserves the invariant.
LEMMA EnqueueFullInv ==
  ASSUME IInv, NEW p \in Producers, EnqueueFull(p)
  PROVE  IInv'
<1> USE DEF IInv, EnqueueFull, slotVars, prodVars, consVars, histVars
<1>1. TypeOK'
  BY DEF TypeOK, Bytes, ZeroByte, Blank, Index, WriterInv, ReaderInv
<1>2. SingleOwner'
  BY DEF TypeOK, SingleOwner, Writing, Reading
<1>3. WriterInv'
  BY DEF TypeOK, SingleOwner, WriterInv, Writing, Reading, SlotInv, Index
<1>4. SlotInv'
  BY DEF TypeOK, SingleOwner, WriterInv, SlotInv, Writing, Reading, Index
<1>5. ReaderInv'
  BY DEF TypeOK, SingleOwner, SlotInv, ReaderInv, Writing, Reading, Whole, Index
<1>6. ExactlyOnce'
  BY DEF TypeOK, ExactlyOnce, WriterInv, SlotInv, ReaderInv, Whole
<1> QED
  BY <1>1, <1>2, <1>3, <1>4, <1>5, <1>6

\* EnqueueByte preserves the invariant.
LEMMA EnqueueByteInv ==
  ASSUME IInv, NEW p \in Producers, EnqueueByte(p)
  PROVE  IInv'
<1> USE DEF IInv, EnqueueByte, slotVars, prodVars, consVars, histVars
<1>1. TypeOK'
  <2>0. env[p] \in Envelopes /\ wpos[p] <= EnvLen[env[p]] /\ EnvLen[env[p]] <= SlotBytes
    BY DEF WriterInv
  <2>1. wpos[p] \in Index /\ env[p] \in Envelopes
    BY <2>0 DEF TypeOK, Index
  <2>2. <<env[p], wpos[p]>> \in Bytes
    BY <2>1 DEF Bytes
  <2>3. slotBytes' \in [Index -> Bytes]
    BY <2>1, <2>2 DEF TypeOK
  <2> QED
    BY <2>3 DEF TypeOK
<1>2. SingleOwner'
  BY DEF TypeOK, SingleOwner, Writing, Reading
<1>3. WriterInv'
  BY DEF TypeOK, SingleOwner, WriterInv, Writing, Reading, SlotInv, Index
<1>4. SlotInv'
  BY DEF TypeOK, SingleOwner, WriterInv, SlotInv, Writing, Reading, Index
<1>5. ReaderInv'
  BY DEF TypeOK, SingleOwner, SlotInv, ReaderInv, Writing, Reading, Whole, Index
<1>6. ExactlyOnce'
  BY DEF TypeOK, ExactlyOnce, WriterInv, SlotInv, ReaderInv, Whole
<1> QED
  BY <1>1, <1>2, <1>3, <1>4, <1>5, <1>6

\* EnqueueLen preserves the invariant.
LEMMA EnqueueLenInv ==
  ASSUME IInv, NEW p \in Producers, EnqueueLen(p)
  PROVE  IInv'
<1> USE DEF IInv, EnqueueLen, slotVars, prodVars, consVars, histVars
<1>1. TypeOK'
  BY DEF TypeOK, Bytes, ZeroByte, Blank, Index, WriterInv, ReaderInv
<1>2. SingleOwner'
  BY DEF TypeOK, SingleOwner, Writing, Reading
<1>3. WriterInv'
  BY DEF TypeOK, SingleOwner, WriterInv, Writing, Reading, SlotInv, Index
<1>4. SlotInv'
  BY DEF TypeOK, SingleOwner, WriterInv, SlotInv, Writing, Reading, Index
<1>5. ReaderInv'
  BY DEF TypeOK, SingleOwner, SlotInv, ReaderInv, Writing, Reading, Whole, Index
<1>6. ExactlyOnce'
  BY DEF TypeOK, ExactlyOnce, WriterInv, SlotInv, ReaderInv, Whole
<1> QED
  BY <1>1, <1>2, <1>3, <1>4, <1>5, <1>6

\* EnqueueRoute preserves the invariant.
LEMMA EnqueueRouteInv ==
  ASSUME IInv, NEW p \in Producers, EnqueueRoute(p)
  PROVE  IInv'
<1> USE DEF IInv, EnqueueRoute, slotVars, prodVars, consVars, histVars
<1>1. TypeOK'
  BY DEF TypeOK, Bytes, ZeroByte, Blank, Index, WriterInv, ReaderInv
<1>2. SingleOwner'
  BY DEF TypeOK, SingleOwner, Writing, Reading
<1>3. WriterInv'
  BY DEF TypeOK, SingleOwner, WriterInv, Writing, Reading, SlotInv, Index
<1>4. SlotInv'
  BY DEF TypeOK, SingleOwner, WriterInv, SlotInv, Writing, Reading, Index
<1>5. ReaderInv'
  BY DEF TypeOK, SingleOwner, SlotInv, ReaderInv, Writing, Reading, Whole, Index
<1>6. ExactlyOnce'
  BY DEF TypeOK, ExactlyOnce, WriterInv, SlotInv, ReaderInv, Whole
<1> QED
  BY <1>1, <1>2, <1>3, <1>4, <1>5, <1>6

\* EnqueueDepth preserves the invariant.
LEMMA EnqueueDepthInv ==
  ASSUME IInv, NEW p \in Producers, EnqueueDepth(p)
  PROVE  IInv'
<1> USE DEF IInv, EnqueueDepth, slotVars, prodVars, consVars, histVars
<1>1. TypeOK'
  BY DEF TypeOK, Bytes, ZeroByte, Blank, Index, WriterInv, ReaderInv
<1>2. SingleOwner'
  BY DEF TypeOK, SingleOwner, Writing, Reading
<1>3. WriterInv'
  BY DEF TypeOK, SingleOwner, WriterInv, Writing, Reading, SlotInv, Index
<1>4. SlotInv'
  BY DEF TypeOK, SingleOwner, WriterInv, SlotInv, Writing, Reading, Index
<1>5. ReaderInv'
  BY DEF TypeOK, SingleOwner, SlotInv, ReaderInv, Writing, Reading, Whole, Index
<1>6. ExactlyOnce'
  BY DEF TypeOK, ExactlyOnce, WriterInv, SlotInv, ReaderInv, Whole
<1> QED
  BY <1>1, <1>2, <1>3, <1>4, <1>5, <1>6

\* EnqueuePublish preserves the invariant.
LEMMA EnqueuePublishInv ==
  ASSUME IInv, NEW p \in Producers, EnqueuePublish(p)
  PROVE  IInv'
<1> USE DEF IInv, EnqueuePublish, slotVars, prodVars, consVars, histVars
<1>1. TypeOK'
  BY SMTT(30) DEF TypeOK, Bytes, ZeroByte, Blank, Index, WriterInv, ReaderInv
<1>2. SingleOwner'
  BY DEF TypeOK, SingleOwner, Writing, Reading
<1>3. WriterInv'
  BY DEF TypeOK, SingleOwner, WriterInv, Writing, Reading, SlotInv, Index
<1>4. SlotInv'
  BY DEF TypeOK, SingleOwner, WriterInv, SlotInv, Writing, Reading, Index
<1>5. ReaderInv'
  BY DEF TypeOK, SingleOwner, SlotInv, ReaderInv, Writing, Reading, Whole, Index
<1>6. ExactlyOnce'
  BY DEF TypeOK, ExactlyOnce, WriterInv, SlotInv, ReaderInv, Whole
<1> QED
  BY <1>1, <1>2, <1>3, <1>4, <1>5, <1>6

\* A call of dispatch_dequeue_bytes preserves the invariant.
LEMMA DequeueCallInv ==
  ASSUME IInv, NEW c \in Consumers, NEW n \in BufLens, NEW b \in Budgets, DequeueCall(c, n, b)
  PROVE  IInv'
<1> USE DEF IInv, DequeueCall, slotVars, prodVars, consVars, histVars
<1>1. TypeOK'
  <2>1. want' \in [Consumers -> [len : Nat, budget : Nat \ {0}]]
    BY DEF TypeOK
  <2>2. Blank \in [Index -> Bytes]
    BY DEF Blank, Bytes
  <2>3. buf' \in [Consumers -> [Index -> Bytes]]
    BY <2>2 DEF TypeOK
  <2> QED
    BY <2>1, <2>3 DEF TypeOK
<1>2. SingleOwner'
  BY DEF TypeOK, SingleOwner, Writing, Reading
<1>3. WriterInv'
  BY DEF WriterInv
<1>4. SlotInv'
  BY DEF TypeOK, SingleOwner, WriterInv, SlotInv, Writing, Reading, Index
<1>5. ReaderInv'
  <2>1. cpc'[c] = "claim" /\ rpos'[c] = 1
    BY DEF TypeOK
  <2>2. \A d \in Consumers : d # c =>
          cpc'[d] = cpc[d] /\ rpos'[d] = rpos[d] /\ buf'[d] = buf[d]
    BY DEF TypeOK
  <2> QED
    BY <2>1, <2>2 DEF ReaderInv, Whole
<1>6. ExactlyOnce'
  BY DEF TypeOK, ExactlyOnce, WriterInv, SlotInv, ReaderInv, Whole
<1> QED
  BY <1>1, <1>2, <1>3, <1>4, <1>5, <1>6

\* DequeueClaim preserves the invariant.
LEMMA DequeueClaimInv ==
  ASSUME IInv, NEW c \in Consumers, DequeueClaim(c)
  PROVE  IInv'
<1> USE DEF IInv, DequeueClaim, slotVars, prodVars, consVars, histVars
<1>1. TypeOK'
  BY DEF TypeOK, Bytes, ZeroByte, Blank, Index, WriterInv, ReaderInv
<1>2. SingleOwner'
  BY DEF TypeOK, SingleOwner, Writing, Reading
<1>3. WriterInv'
  BY DEF TypeOK, SingleOwner, WriterInv, Writing, Reading, SlotInv, Index
<1>4. SlotInv'
  BY DEF TypeOK, SingleOwner, WriterInv, SlotInv, Writing, Reading, Index
<1>5. ReaderInv'
  BY DEF TypeOK, SingleOwner, SlotInv, ReaderInv, Writing, Reading, Whole, Index
<1>6. ExactlyOnce'
  BY DEF TypeOK, ExactlyOnce, WriterInv, SlotInv, ReaderInv, Whole
<1> QED
  BY <1>1, <1>2, <1>3, <1>4, <1>5, <1>6

\* DequeueSpin preserves the invariant.
LEMMA DequeueSpinInv ==
  ASSUME IInv, NEW c \in Consumers, DequeueSpin(c)
  PROVE  IInv'
<1> USE DEF IInv, DequeueSpin, slotVars, prodVars, consVars, histVars
<1>1. TypeOK'
  <2>1. tries' \in [Consumers -> Nat]
    BY DEF TypeOK
  <2>2. cpc' \in [Consumers -> {"idle", "claim", "load", "restore", "copy",
                              "clearLen", "clearDepth", "release"}]
    BY DEF TypeOK
  <2> QED
    BY <2>1, <2>2 DEF TypeOK
<1>2. SingleOwner'
  BY DEF TypeOK, SingleOwner, Writing, Reading
<1>3. WriterInv'
  BY SMTT(30) DEF TypeOK, SingleOwner, WriterInv, Writing, Reading, SlotInv, Index
<1>4. SlotInv'
  BY DEF TypeOK, SingleOwner, WriterInv, SlotInv, Writing, Reading, Index
<1>5. ReaderInv'
  <2>1. cpc'[c] \in {"idle", "claim"} /\ \A d \in Consumers : d # c => cpc'[d] = cpc[d]
    BY DEF TypeOK
  <2> QED
    BY <2>1 DEF ReaderInv, Whole
<1>6. ExactlyOnce'
  BY DEF TypeOK, ExactlyOnce, WriterInv, SlotInv, ReaderInv, Whole
<1> QED
  BY <1>1, <1>2, <1>3, <1>4, <1>5, <1>6

\* DequeueLoad preserves the invariant.
LEMMA DequeueLoadInv ==
  ASSUME IInv, NEW c \in Consumers, DequeueLoad(c)
  PROVE  IInv'
<1> USE DEF IInv, DequeueLoad, slotVars, prodVars, consVars, histVars
<1>1. TypeOK'
  BY DEF TypeOK, Bytes, ZeroByte, Blank, Index, WriterInv, ReaderInv
<1>2. SingleOwner'
  BY DEF TypeOK, SingleOwner, Writing, Reading
<1>3. WriterInv'
  BY DEF TypeOK, SingleOwner, WriterInv, Writing, Reading, SlotInv, Index
<1>4. SlotInv'
  BY DEF TypeOK, SingleOwner, WriterInv, SlotInv, Writing, Reading, Index
<1>5. ReaderInv'
  BY DEF TypeOK, SingleOwner, SlotInv, ReaderInv, Writing, Reading, Whole, Index
<1>6. ExactlyOnce'
  BY DEF TypeOK, ExactlyOnce, WriterInv, SlotInv, ReaderInv, Whole
<1> QED
  BY <1>1, <1>2, <1>3, <1>4, <1>5, <1>6

\* DequeueRestore preserves the invariant.
LEMMA DequeueRestoreInv ==
  ASSUME IInv, NEW c \in Consumers, DequeueRestore(c)
  PROVE  IInv'
<1> USE DEF IInv, DequeueRestore, slotVars, prodVars, consVars, histVars
<1>1. TypeOK'
  BY DEF TypeOK, Bytes, ZeroByte, Blank, Index, WriterInv, ReaderInv
<1>2. SingleOwner'
  BY DEF TypeOK, SingleOwner, Writing, Reading
<1>3. WriterInv'
  BY DEF TypeOK, SingleOwner, WriterInv, Writing, Reading, SlotInv, Index
<1>4. SlotInv'
  BY DEF TypeOK, SingleOwner, WriterInv, SlotInv, ReaderInv, Writing, Reading
<1>5. ReaderInv'
  BY DEF TypeOK, SingleOwner, SlotInv, ReaderInv, Writing, Reading, Whole, Index
<1>6. ExactlyOnce'
  BY DEF TypeOK, ExactlyOnce, WriterInv, SlotInv, ReaderInv, Whole
<1> QED
  BY <1>1, <1>2, <1>3, <1>4, <1>5, <1>6

\* DequeueCopy preserves the invariant.
LEMMA DequeueCopyInv ==
  ASSUME IInv, NEW c \in Consumers, DequeueCopy(c)
  PROVE  IInv'
<1> USE DEF IInv, DequeueCopy, slotVars, prodVars, consVars, histVars
<1>1. TypeOK'
  <2>1. rpos[c] \in Index
    BY DEF TypeOK, ReaderInv, SlotInv, SingleOwner, Reading, Index
  <2>2. slotBytes[rpos[c]] \in Bytes
    BY <2>1 DEF TypeOK
  <2>3. buf' \in [Consumers -> [Index -> Bytes]]
    BY <2>1, <2>2 DEF TypeOK
  <2> QED
    BY <2>3 DEF TypeOK
<1>2. SingleOwner'
  BY DEF TypeOK, SingleOwner, Writing, Reading
<1>3. WriterInv'
  BY DEF TypeOK, SingleOwner, WriterInv, Writing, Reading, SlotInv, Index
<1>4. SlotInv'
  BY DEF TypeOK, SingleOwner, WriterInv, SlotInv, Writing, Reading, Index
<1>5. ReaderInv'
  <2>1. rpos[c] \in Index /\ slotBytes[rpos[c]] = <<box, rpos[c]>>
    BY DEF TypeOK, ReaderInv, SlotInv, SingleOwner, Reading, Index
  <2>2. \A i \in 1 .. rpos[c] : buf'[c][i] = <<box, i>>
    BY <2>1 DEF TypeOK, ReaderInv, Index
  <2>3. \A d \in Consumers : d # c => buf'[d] = buf[d] /\ cpc'[d] = cpc[d] /\ rpos'[d] = rpos[d]
    BY DEF TypeOK
  <2>4. rpos'[c] = rpos[c] + 1 /\ cpc'[c] = IF rpos[c] < got[c] THEN "copy" ELSE "clearLen"
    BY DEF TypeOK
  <2>5. got[c] \in Nat /\ rpos[c] \in Nat \ {0}
    BY DEF TypeOK
  <2> QED
    BY <2>1, <2>2, <2>3, <2>4, <2>5 DEF ReaderInv, Whole
<1>6. ExactlyOnce'
  BY DEF TypeOK, ExactlyOnce, WriterInv, SlotInv, ReaderInv, Whole
<1> QED
  BY <1>1, <1>2, <1>3, <1>4, <1>5, <1>6

\* DequeueClearLen preserves the invariant.
LEMMA DequeueClearLenInv ==
  ASSUME IInv, NEW c \in Consumers, DequeueClearLen(c)
  PROVE  IInv'
<1> USE DEF IInv, DequeueClearLen, slotVars, prodVars, consVars, histVars
<1>1. TypeOK'
  BY DEF TypeOK, Bytes, ZeroByte, Blank, Index, WriterInv, ReaderInv
<1>2. SingleOwner'
  BY DEF TypeOK, SingleOwner, Writing, Reading
<1>3. WriterInv'
  BY DEF TypeOK, SingleOwner, WriterInv, Writing, Reading, SlotInv, Index
<1>4. SlotInv'
  BY DEF TypeOK, SingleOwner, WriterInv, SlotInv, Writing, Reading, Index
<1>5. ReaderInv'
  BY DEF TypeOK, SingleOwner, SlotInv, ReaderInv, Writing, Reading, Whole, Index
<1>6. ExactlyOnce'
  BY DEF TypeOK, ExactlyOnce, WriterInv, SlotInv, ReaderInv, Whole
<1> QED
  BY <1>1, <1>2, <1>3, <1>4, <1>5, <1>6

\* DequeueClearDepth preserves the invariant.
LEMMA DequeueClearDepthInv ==
  ASSUME IInv, NEW c \in Consumers, DequeueClearDepth(c)
  PROVE  IInv'
<1> USE DEF IInv, DequeueClearDepth, slotVars, prodVars, consVars, histVars
<1>1. TypeOK'
  BY DEF TypeOK, Bytes, ZeroByte, Blank, Index, WriterInv, ReaderInv
<1>2. SingleOwner'
  BY DEF TypeOK, SingleOwner, Writing, Reading
<1>3. WriterInv'
  BY DEF TypeOK, SingleOwner, WriterInv, Writing, Reading, SlotInv, Index
<1>4. SlotInv'
  BY DEF TypeOK, SingleOwner, WriterInv, SlotInv, Writing, Reading, Index
<1>5. ReaderInv'
  BY DEF TypeOK, SingleOwner, SlotInv, ReaderInv, Writing, Reading, Whole, Index
<1>6. ExactlyOnce'
  BY DEF TypeOK, ExactlyOnce, WriterInv, SlotInv, ReaderInv, Whole
<1> QED
  BY <1>1, <1>2, <1>3, <1>4, <1>5, <1>6

\* DequeueRelease preserves the invariant.
LEMMA DequeueReleaseInv ==
  ASSUME IInv, NEW c \in Consumers, DequeueRelease(c)
  PROVE  IInv'
<1> USE DEF IInv, DequeueRelease, slotVars, prodVars, consVars, histVars
<1>1. TypeOK'
  <2>1. delivered' \in [Envelopes -> Nat]
    BY DEF TypeOK
  <2> QED
    BY <2>1 DEF TypeOK
<1>2. SingleOwner'
  BY DEF TypeOK, SingleOwner, Writing, Reading
<1>3. WriterInv'
  BY DEF TypeOK, SingleOwner, WriterInv, Writing, Reading, SlotInv, Index
<1>4. SlotInv'
  BY DEF TypeOK, SingleOwner, WriterInv, SlotInv, ReaderInv, Writing, Reading
<1>5. ReaderInv'
  BY DEF TypeOK, SingleOwner, SlotInv, ReaderInv, Writing, Reading, Whole, Index
<1>6. ExactlyOnce'
  BY DEF TypeOK, ExactlyOnce, WriterInv, SlotInv, ReaderInv, Whole
<1> QED
  BY <1>1, <1>2, <1>3, <1>4, <1>5, <1>6

\* Every step of the slot preserves the inductive invariant.
LEMMA NextInv == IInv /\ [Next]_vars => IInv'
<1> SUFFICES ASSUME IInv, [Next]_vars PROVE IInv'
  OBVIOUS
<1>1. ASSUME NEW p \in Producers, ProducerStep(p) PROVE IInv'
  BY <1>1, EnqueueClaimInv, EnqueueFullInv, EnqueueByteInv, EnqueueLenInv, EnqueueRouteInv, EnqueueDepthInv, EnqueuePublishInv DEF ProducerStep
<1>2. ASSUME NEW p \in Producers, NEW e \in Envelopes, EnqueueCall(p, e) PROVE IInv'
  BY <1>2, EnqueueCallInv
<1>3. ASSUME NEW c \in Consumers, ConsumerStep(c) PROVE IInv'
  BY <1>3, DequeueClaimInv, DequeueSpinInv, DequeueLoadInv, DequeueRestoreInv, DequeueCopyInv, DequeueClearLenInv, DequeueClearDepthInv, DequeueReleaseInv DEF ConsumerStep
<1>4. ASSUME NEW c \in Consumers, ConsumerCall(c) PROVE IInv'
  BY <1>4, DequeueCallInv DEF ConsumerCall
<1>5. CASE UNCHANGED vars
  BY <1>5 DEF vars, slotVars, prodVars, consVars, histVars, IInv, TypeOK, SingleOwner, WriterInv,
     SlotInv, ReaderInv, ExactlyOnce, Writing, Reading, Whole
<1> QED
  BY <1>1, <1>2, <1>3, <1>4, <1>5 DEF Next

\* IInv is an invariant of the slot, for every set of callers and envelopes.
THEOREM Invariance == Spec => []IInv
BY InitInv, NextInv, PTL DEF Spec

\* Type correctness of the slot model.
THEOREM TypeCorrect == Spec => []TypeOK
<1>1. IInv => TypeOK
  BY DEF IInv
<1> QED
  BY <1>1, Invariance, PTL

\* At most one caller of dispatch_enqueue_bytes or dispatch_dequeue_bytes owns
\* the slot, and SLOT_STATE says so.
THEOREM OwnershipIsExclusive == Spec => []SingleOwner
<1>1. IInv => SingleOwner
  BY DEF IInv
<1> QED
  BY <1>1, Invariance, PTL

\* No dequeue returns a mix of envelopes, however the callers interleave.
THEOREM DeliveryIsWhole == Spec => []NoTornDelivery
<1>1. IInv => NoTornDelivery
  BY DEF IInv, NoTornDelivery, ReaderInv, SlotInv, SingleOwner, Reading
<1> QED
  BY <1>1, Invariance, PTL

\* Every envelope accepted by dispatch_enqueue_bytes is delivered at most once
\* and is never lost.
THEOREM DeliveryIsExactlyOnce == Spec => []ExactlyOnce
<1>1. IInv => ExactlyOnce
  BY DEF IInv
<1> QED
  BY <1>1, Invariance, PTL

\* queue_depth() agrees with an unowned slot.
THEOREM DepthIsRight == Spec => []DepthTracksSlot
<1>1. IInv => DepthTracksSlot
  BY DEF IInv, DepthTracksSlot, SlotInv, TypeOK
<1> QED
  BY <1>1, Invariance, PTL


-----------------------------------------------------------------------------
(* Refinement *)

\* A step of the slot is a step of the mailbox: EnqueuePublish puts,
\* DequeueRelease takes, every other access leaves the mailbox as it is.
LEMMA StepRefines == IInv /\ [Next]_vars => [Mailbox!Next]_(Mailbox!mailboxVars)
<1> SUFFICES ASSUME IInv, [Next]_vars PROVE [Mailbox!Next]_(Mailbox!mailboxVars)
  OBVIOUS
<1> USE DEF slotVars, prodVars, consVars, histVars, Mailbox!mailboxVars
<1>1. ASSUME NEW p \in Producers, EnqueuePublish(p) PROVE Mailbox!Next
  <2>1. env[p] \in Envelopes /\ env[p] \notin published
    BY <1>1 DEF EnqueuePublish, IInv, WriterInv
  <2>2. box = NoEnv
    BY <1>1 DEF EnqueuePublish, IInv, SingleOwner, Writing, SlotInv
  <2>3. Mailbox!Put(env[p])
    BY <1>1, <2>1, <2>2 DEF EnqueuePublish, Mailbox!Put
  <2> QED
    BY <2>1, <2>3 DEF Mailbox!Next
<1>2. ASSUME NEW c \in Consumers, DequeueRelease(c) PROVE Mailbox!Next
  <2>1. box \in published /\ box # NoEnv /\ box \in Envelopes
    BY <1>2 DEF DequeueRelease, IInv, SingleOwner, Reading, SlotInv, TypeOK
  <2>2. Whole(c, box)
    BY <1>2 DEF DequeueRelease, IInv, ReaderInv
  <2>3. \A e \in Envelopes : Whole(c, e) => e = box
    <3>1. got[c] \in Nat \ {0} /\ buf[c][1] = <<box, 1>>
      BY <2>1, <2>2 DEF Whole
    <3> QED
      BY <3>1 DEF Whole
  <2>4. delivered[box] = 0
    BY <2>1 DEF IInv, ExactlyOnce
  <2>5. delivered' = [delivered EXCEPT ![box] = 1]
    <3>1. \A e \in Envelopes : delivered'[e] = IF e = box THEN 1 ELSE delivered[e]
      BY <1>2, <2>1, <2>2, <2>3, <2>4 DEF DequeueRelease
    <3>2. delivered' = [e \in Envelopes |-> delivered'[e]]
      BY <1>2 DEF DequeueRelease
    <3> QED
      BY <3>1, <3>2 DEF IInv, TypeOK
  <2> QED
    BY <1>2, <2>1, <2>4, <2>5 DEF DequeueRelease, Mailbox!Take, Mailbox!Next
<1>3. ASSUME NEW p \in Producers, ProducerStep(p), ~ EnqueuePublish(p)
      PROVE  UNCHANGED Mailbox!mailboxVars
  BY <1>3 DEF ProducerStep, EnqueueClaim, EnqueueFull, EnqueueByte, EnqueueLen, EnqueueRoute,
     EnqueueDepth
<1>4. ASSUME NEW c \in Consumers, ConsumerStep(c), ~ DequeueRelease(c)
      PROVE  UNCHANGED Mailbox!mailboxVars
  BY <1>4 DEF ConsumerStep, DequeueClaim, DequeueSpin, DequeueLoad, DequeueRestore, DequeueCopy,
     DequeueClearLen, DequeueClearDepth
<1>5. ASSUME NEW p \in Producers, NEW e \in Envelopes, EnqueueCall(p, e)
      PROVE  UNCHANGED Mailbox!mailboxVars
  BY <1>5 DEF EnqueueCall
<1>6. ASSUME NEW c \in Consumers, ConsumerCall(c)
      PROVE  UNCHANGED Mailbox!mailboxVars
  BY <1>6 DEF ConsumerCall, DequeueCall
<1>7. CASE UNCHANGED vars
  BY <1>7 DEF vars
<1> QED
  BY <1>1, <1>2, <1>3, <1>4, <1>5, <1>6, <1>7 DEF Next

\* The atomics-only slot implements the one-place mailbox its callers assume.
THEOREM SlotImplementsMailbox == Spec => ImplementsMailbox
<1>1. Init => Mailbox!Init
  BY DEF Init, Mailbox!Init
<1> QED
  BY <1>1, StepRefines, Invariance, PTL DEF Spec, ImplementsMailbox, Mailbox!Spec

-----------------------------------------------------------------------------
(* Wait-freedom: every call is over after a bounded number of its own steps. *)

\* The atomic accesses that producer p still makes before its call returns:
\* the bytes left, then len, route, depth and the publishing store.
EnqueueLeft(p) ==
  CASE ppc[p] = "idle" -> 0
    [] ppc[p] = "claim" -> EnvLen[env[p]] + 5
    [] ppc[p] = "bytes" -> EnvLen[env[p]] - wpos[p] + 5
    [] ppc[p] = "len" -> 4
    [] ppc[p] = "route" -> 3
    [] ppc[p] = "depth" -> 2
    [] OTHER -> 1

\* The most accesses that consumer c still makes: the spins left, the load of
\* the length, the bytes left, and the stores that free the slot.
DequeueLeft(c) ==
  CASE cpc[c] = "idle" -> 0
    [] cpc[c] = "claim" -> (want[c].budget - tries[c]) + SlotBytes + 4
    [] cpc[c] = "load" -> SlotBytes + 4
    [] cpc[c] = "copy" -> got[c] - rpos[c] + 4
    [] cpc[c] = "clearLen" -> 3
    [] cpc[c] = "clearDepth" -> 2
    [] OTHER -> 1

\* A consumer that is still claiming has a spin left.
SpinsLeft == \A c \in Consumers : cpc[c] = "claim" => tries[c] < want[c].budget

\* A call is over exactly when it has nothing left to do, and what it has left
\* is bounded by its own arguments and the size of the slot, never by the others.
CallsAreBounded ==
  /\ \A p \in Producers :
       /\ EnqueueLeft(p) \in 0 .. SlotBytes + 5
       /\ EnqueueLeft(p) = 0 <=> ppc[p] = "idle"
  /\ \A c \in Consumers :
       /\ DequeueLeft(c) \in 0 .. want[c].budget + SlotBytes + 4
       /\ DequeueLeft(c) = 0 <=> cpc[c] = "idle"

\* A step of a call brings its own return nearer, also when the claim fails;
\* a step of another caller leaves it exactly where it was.
CallsMoveOn ==
  /\ \A p \in Producers : ppc[p] # "idle" =>
       IF ProducerStep(p) THEN EnqueueLeft(p)' < EnqueueLeft(p)
                          ELSE EnqueueLeft(p)' = EnqueueLeft(p)
  /\ \A c \in Consumers : cpc[c] # "idle" =>
       IF ConsumerStep(c) THEN DequeueLeft(c)' < DequeueLeft(c)
                          ELSE DequeueLeft(c)' = DequeueLeft(c)

\* DequeueSpin gives up on the last try of the budget.
LEMMA SpinsStep == IInv /\ SpinsLeft /\ [Next]_vars => SpinsLeft'
<1> SUFFICES ASSUME IInv, SpinsLeft, [Next]_vars, NEW c \in Consumers, cpc'[c] = "claim"
             PROVE  tries'[c] < want'[c].budget
  BY DEF SpinsLeft
<1> USE DEF IInv, TypeOK, SpinsLeft
<1>1. ASSUME NEW p \in Producers, ProducerStep(p) PROVE UNCHANGED consVars
  BY <1>1 DEF ProducerStep, EnqueueClaim, EnqueueFull, EnqueueByte, EnqueueLen, EnqueueRoute,
     EnqueueDepth, EnqueuePublish
<1>2. ASSUME NEW p \in Producers, NEW e \in Envelopes, EnqueueCall(p, e) PROVE UNCHANGED consVars
  BY <1>2 DEF EnqueueCall
<1>3. ASSUME NEW d \in Consumers, ConsumerStep(d) PROVE tries'[c] < want'[c].budget
  BY <1>3 DEF ConsumerStep, DequeueClaim, DequeueSpin, DequeueLoad, DequeueRestore, DequeueCopy,
     DequeueClearLen, DequeueClearDepth, DequeueRelease
<1>4. ASSUME NEW d \in Consumers, ConsumerCall(d) PROVE tries'[c] < want'[c].budget
  BY <1>4 DEF ConsumerCall, DequeueCall
<1>5. CASE UNCHANGED consVars
  BY <1>5 DEF consVars
<1> QED
  BY <1>1, <1>2, <1>3, <1>4, <1>5 DEF Next, vars

\* What the invariant says of the distance to the return.
LEMMA CallsBound == IInv /\ SpinsLeft => CallsAreBounded
<1> SUFFICES ASSUME IInv, SpinsLeft PROVE CallsAreBounded
  OBVIOUS
<1> USE DEF IInv, TypeOK
<1>1. ASSUME NEW p \in Producers
      PROVE  EnqueueLeft(p) \in 0 .. SlotBytes + 5 /\ (EnqueueLeft(p) = 0 <=> ppc[p] = "idle")
  <2>1. ppc[p] # "idle" => EnvLen[env[p]] \in 1 .. SlotBytes
    BY DEF WriterInv
  <2>2. ppc[p] = "bytes" => wpos[p] \in 1 .. EnvLen[env[p]]
    BY <2>1 DEF WriterInv
  <2> QED
    BY <2>1, <2>2 DEF EnqueueLeft
<1>2. ASSUME NEW c \in Consumers
      PROVE  /\ DequeueLeft(c) \in 0 .. want[c].budget + SlotBytes + 4
             /\ DequeueLeft(c) = 0 <=> cpc[c] = "idle"
  <2>1. want[c].budget \in Nat \ {0} /\ tries[c] \in Nat
    OBVIOUS
  <2>2. cpc[c] = "claim" => tries[c] < want[c].budget
    BY DEF SpinsLeft
  <2>3. cpc[c] = "copy" => got[c] \in 1 .. SlotBytes /\ rpos[c] \in 1 .. got[c]
    <3> SUFFICES ASSUME cpc[c] = "copy"
                 PROVE  got[c] \in 1 .. SlotBytes /\ rpos[c] \in 1 .. got[c]
      OBVIOUS
    <3>1. box \in Envelopes
      BY DEF SingleOwner, Reading, SlotInv
    <3> QED
      BY <3>1 DEF ReaderInv, SlotInv
  <2> QED
    BY <2>1, <2>2, <2>3 DEF DequeueLeft
<1> QED
  BY <1>1, <1>2 DEF CallsAreBounded

\* Own steps of an enqueue decrease what it has left.
LEMMA EnqueueMoves ==
  ASSUME IInv, NEW p \in Producers, ProducerStep(p)
  PROVE  EnqueueLeft(p)' < EnqueueLeft(p)
<1> USE DEF IInv, TypeOK
<1>1. ppc[p] # "idle" => EnvLen[env[p]] \in 1 .. SlotBytes
  BY DEF WriterInv
<1>2. ppc[p] = "bytes" => wpos[p] \in 1 .. EnvLen[env[p]]
  BY <1>1 DEF WriterInv
<1>3. CASE EnqueueClaim(p)
  BY <1>1, <1>3 DEF EnqueueClaim, EnqueueLeft, WriterInv
<1>4. CASE EnqueueByte(p)
  BY <1>1, <1>2, <1>4 DEF EnqueueByte, EnqueueLeft
<1>5. CASE EnqueueFull(p) \/ EnqueueLen(p) \/ EnqueueRoute(p) \/ EnqueueDepth(p) \/ EnqueuePublish(p)
  BY <1>1, <1>5 DEF EnqueueFull, EnqueueLen, EnqueueRoute, EnqueueDepth, EnqueuePublish, EnqueueLeft
<1> QED
  BY <1>3, <1>4, <1>5 DEF ProducerStep

\* Own steps of a dequeue decrease what it has left.
LEMMA DequeueMoves ==
  ASSUME IInv, SpinsLeft, NEW c \in Consumers, ConsumerStep(c)
  PROVE  DequeueLeft(c)' < DequeueLeft(c)
<1> USE DEF IInv, TypeOK
<1>1. want[c].budget \in Nat \ {0} /\ tries[c] \in Nat /\ (cpc[c] = "claim" => tries[c] < want[c].budget)
  BY DEF SpinsLeft
<1>2. cpc[c] \in {"load", "copy"} => slotLen \in 1 .. SlotBytes
  <2> SUFFICES ASSUME cpc[c] \in {"load", "copy"} PROVE slotLen \in 1 .. SlotBytes
    OBVIOUS
  <2>1. box \in Envelopes
    BY DEF SingleOwner, Reading, SlotInv
  <2> QED
    BY <2>1 DEF ReaderInv, SlotInv
<1>3. cpc[c] = "copy" => got[c] \in Nat /\ rpos[c] \in 1 .. got[c]
  BY DEF ReaderInv
<1>4. CASE DequeueClaim(c) \/ DequeueSpin(c)
  BY <1>1, <1>4 DEF DequeueClaim, DequeueSpin, DequeueLeft
<1>5. CASE DequeueLoad(c)
  BY <1>2, <1>5 DEF DequeueLoad, DequeueLeft, ReaderInv
<1>6. CASE DequeueCopy(c)
  BY <1>3, <1>6 DEF DequeueCopy, DequeueLeft
<1>7. CASE DequeueRestore(c) \/ DequeueClearLen(c) \/ DequeueClearDepth(c) \/ DequeueRelease(c)
  BY <1>7 DEF DequeueRestore, DequeueClearLen, DequeueClearDepth, DequeueRelease, DequeueLeft
<1> QED
  BY <1>4, <1>5, <1>6, <1>7 DEF ConsumerStep

\* No caller touches what another caller's call has left.
LEMMA CallsStep == IInv /\ SpinsLeft /\ [Next]_vars => CallsMoveOn
<1> SUFFICES ASSUME IInv, SpinsLeft, [Next]_vars PROVE CallsMoveOn
  OBVIOUS
<1> USE DEF IInv, TypeOK
<1>1. ASSUME NEW p \in Producers, ppc[p] # "idle", ~ProducerStep(p)
      PROVE  EnqueueLeft(p)' = EnqueueLeft(p)
  <2>1. ppc'[p] = ppc[p] /\ env'[p] = env[p] /\ wpos'[p] = wpos[p]
    <3>1. ASSUME NEW q \in Producers, ProducerStep(q)
          PROVE  ppc'[p] = ppc[p] /\ env'[p] = env[p] /\ wpos'[p] = wpos[p]
      <4>1. q # p
        BY <1>1, <3>1
      <4> QED
        BY <3>1, <4>1 DEF ProducerStep, EnqueueClaim, EnqueueFull, EnqueueByte, EnqueueLen,
           EnqueueRoute, EnqueueDepth, EnqueuePublish
    <3>2. ASSUME NEW q \in Producers, NEW e \in Envelopes, EnqueueCall(q, e)
          PROVE  ppc'[p] = ppc[p] /\ env'[p] = env[p] /\ wpos'[p] = wpos[p]
      BY <1>1, <3>2 DEF EnqueueCall
    <3>3. ASSUME NEW c \in Consumers, ConsumerStep(c) \/ ConsumerCall(c) PROVE UNCHANGED prodVars
      BY <3>3 DEF ConsumerStep, ConsumerCall, DequeueCall, DequeueClaim, DequeueSpin, DequeueLoad,
         DequeueRestore, DequeueCopy, DequeueClearLen, DequeueClearDepth, DequeueRelease
    <3> QED
      BY <3>1, <3>2, <3>3 DEF Next, vars, prodVars
  <2> QED
    BY <2>1 DEF EnqueueLeft
<1>2. ASSUME NEW c \in Consumers, cpc[c] # "idle", ~ConsumerStep(c)
      PROVE  DequeueLeft(c)' = DequeueLeft(c)
  <2>1. /\ cpc'[c] = cpc[c] /\ want'[c] = want[c] /\ tries'[c] = tries[c]
        /\ got'[c] = got[c] /\ rpos'[c] = rpos[c]
    <3>1. ASSUME NEW d \in Consumers, ConsumerStep(d)
          PROVE  /\ cpc'[c] = cpc[c] /\ want'[c] = want[c] /\ tries'[c] = tries[c]
                 /\ got'[c] = got[c] /\ rpos'[c] = rpos[c]
      <4>1. d # c
        BY <1>2, <3>1
      <4> QED
        BY <3>1, <4>1 DEF ConsumerStep, DequeueClaim, DequeueSpin, DequeueLoad, DequeueRestore,
           DequeueCopy, DequeueClearLen, DequeueClearDepth, DequeueRelease
    <3>2. ASSUME NEW d \in Consumers, ConsumerCall(d)
          PROVE  /\ cpc'[c] = cpc[c] /\ want'[c] = want[c] /\ tries'[c] = tries[c]
                 /\ got'[c] = got[c] /\ rpos'[c] = rpos[c]
      BY <1>2, <3>2 DEF ConsumerCall, DequeueCall
    <3>3. ASSUME NEW p \in Producers, ProducerStep(p) \/ \E e \in Envelopes : EnqueueCall(p, e)
          PROVE  UNCHANGED consVars
      BY <3>3 DEF ProducerStep, EnqueueCall, EnqueueClaim, EnqueueFull, EnqueueByte, EnqueueLen,
         EnqueueRoute, EnqueueDepth, EnqueuePublish
    <3> QED
      BY <3>1, <3>2, <3>3 DEF Next, vars, consVars
  <2> QED
    BY <2>1 DEF DequeueLeft
<1> QED
  BY <1>1, <1>2, EnqueueMoves, DequeueMoves DEF CallsMoveOn

\* dispatch_enqueue_bytes and dispatch_dequeue_bytes are wait-free: however the
\* callers interleave, a call has a bounded number of accesses left, each one
\* it makes lowers that number, and nobody else can raise it.
THEOREM CallsAreWaitFree == Spec => []CallsAreBounded /\ [][CallsMoveOn]_vars
<1>1. Init => SpinsLeft
  BY DEF Init, SpinsLeft
<1>2. Spec => [](IInv /\ SpinsLeft)
  BY <1>1, InitInv, NextInv, SpinsStep, PTL DEF Spec
<1> QED
  BY <1>2, CallsBound, CallsStep, PTL DEF Spec

\* A dequeue backs off with PayloadOversize only from an envelope that is
\* larger than its buffer, so one that fits is never put back by a reader.
OnlyOversizeIsPutBack ==
  \A c \in Consumers : cpc[c] = "restore" => box # NoEnv /\ EnvLen[box] > want[c].len

\* DequeueLoad decides on the length of the envelope that the slot still
\* carries when DequeueRestore puts it back.
LEMMA PutBackStep == IInv /\ OnlyOversizeIsPutBack /\ [Next]_vars => OnlyOversizeIsPutBack'
<1> SUFFICES ASSUME IInv, OnlyOversizeIsPutBack, [Next]_vars,
                    NEW c \in Consumers, cpc'[c] = "restore"
             PROVE  box' # NoEnv /\ EnvLen[box'] > want'[c].len
  BY DEF OnlyOversizeIsPutBack
<1> USE DEF IInv, TypeOK, OnlyOversizeIsPutBack
<1>1. ASSUME NEW p \in Producers, ProducerStep(p) PROVE box' # NoEnv /\ EnvLen[box'] > want'[c].len
  <2>1. UNCHANGED consVars
    BY <1>1 DEF ProducerStep, EnqueueClaim, EnqueueFull, EnqueueByte, EnqueueLen, EnqueueRoute,
       EnqueueDepth, EnqueuePublish
  <2>2. ~Writing(p)
    BY <2>1 DEF consVars, SingleOwner, Reading
  <2>3. UNCHANGED box
    BY <1>1, <2>2 DEF ProducerStep, EnqueueClaim, EnqueueFull, EnqueueByte, EnqueueLen, EnqueueRoute,
       EnqueueDepth, EnqueuePublish, Writing, histVars
  <2> QED
    BY <2>1, <2>3 DEF consVars
<1>2. ASSUME NEW p \in Producers, NEW e \in Envelopes, EnqueueCall(p, e)
      PROVE  box' # NoEnv /\ EnvLen[box'] > want'[c].len
  BY <1>2 DEF EnqueueCall, consVars, histVars
<1>3. ASSUME NEW d \in Consumers, ConsumerStep(d)
      PROVE  box' # NoEnv /\ EnvLen[box'] > want'[c].len
  <2>1. CASE DequeueLoad(d)
    <3>1. d = c => box # NoEnv /\ slotLen = EnvLen[box]
      BY <2>1 DEF DequeueLoad, SingleOwner, Reading, SlotInv, ReaderInv
    <3> QED
      BY <2>1, <3>1 DEF DequeueLoad, histVars
  <2>2. CASE DequeueRelease(d)
    BY <2>2 DEF DequeueRelease, SingleOwner, Reading
  <2>3. CASE \/ DequeueClaim(d) \/ DequeueSpin(d) \/ DequeueRestore(d) \/ DequeueCopy(d)
             \/ DequeueClearLen(d) \/ DequeueClearDepth(d)
    BY <2>3 DEF DequeueClaim, DequeueSpin, DequeueRestore, DequeueCopy, DequeueClearLen,
       DequeueClearDepth, histVars
  <2> QED
    BY <1>3, <2>1, <2>2, <2>3 DEF ConsumerStep
<1>4. ASSUME NEW d \in Consumers, ConsumerCall(d) PROVE box' # NoEnv /\ EnvLen[box'] > want'[c].len
  BY <1>4 DEF ConsumerCall, DequeueCall, histVars
<1>5. CASE UNCHANGED vars
  BY <1>5 DEF vars, consVars, histVars
<1> QED
  BY <1>1, <1>2, <1>3, <1>4, <1>5 DEF Next

\* A reader that claimed the slot puts its envelope back only when the buffer
\* is too small; with SlotImplementsMailbox, a fitting envelope that is claimed
\* is the one delivered.
THEOREM FittingIsNotPutBack == Spec => []OnlyOversizeIsPutBack
<1>1. Init => OnlyOversizeIsPutBack
  BY DEF Init, OnlyOversizeIsPutBack
<1> QED
  BY <1>1, PutBackStep, Invariance, PTL DEF Spec
=============================================================================
