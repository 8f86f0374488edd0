---------------------------- MODULE EnvelopeSlot ----------------------------
(***************************************************************************)
(* The single-slot byte queue of kernel/core/src/envelope/mod.rs, one      *)
(* action per atomic access.  Any number of callers may run                *)
(* dispatch_enqueue_bytes and dispatch_dequeue_bytes at the same time.     *)
(*                                                                         *)
(* Data abstraction.  The i-th byte of envelope e is the pair <<e, i>>, so *)
(* a buffer that mixes two envelopes, or holds bytes in the wrong place,   *)
(* differs from every envelope.  route_hint is named by its envelope.      *)
(* The relaxed stores are ordered by the Release store that publishes or   *)
(* frees the slot and the Acquire CAS that claims it, so steps are taken   *)
(* in program order.                                                       *)
(***************************************************************************)
EXTENDS Naturals

CONSTANTS
  Producers,   \* callers of dispatch_enqueue_bytes
  Consumers,   \* callers of dispatch_dequeue_bytes
  Envelopes,   \* distinct envelopes that callers may send
  EnvLen,      \* EnvLen[e] = env.len()
  SlotBytes,   \* ENVELOPE_SLOT_BYTES
  BufLens,     \* the lengths of the buffers that consumers pass
  Budgets,     \* the spin budgets, max_wait_ns after the 1 .. 1_000_000 clamp
  NoEnv

ASSUME SlotBytesAssumption == SlotBytes \in Nat \ {0}

\* Every caller passes at least one byte: vfs_write rejects an empty buffer,
\* sys_exec and sys_envelope_send want MIN_ENVELOPE_BYTES.
ASSUME EnvelopesAssumption ==
  /\ EnvLen \in [Envelopes -> Nat \ {0}]
  /\ NoEnv \notin Envelopes

ASSUME CallsAssumption ==
  /\ BufLens \subseteq Nat
  /\ Budgets \subseteq Nat \ {0}

VARIABLES
  slotState,   \* SLOT_STATE
  slotLen,     \* SLOT_LEN
  slotRoute,   \* SLOT_ROUTE, named by the envelope it belongs to
  slotBytes,   \* SLOT_BYTES
  slotDepth,   \* SLOT_DEPTH
  ppc,         \* where each producer is in dispatch_enqueue_bytes
  env,         \* the argument of its call
  wpos,        \* the next byte it stores
  cpc,         \* where each consumer is in dispatch_dequeue_bytes
  want,        \* the arguments of its call: buffer length and spin budget
  tries,       \* failed claims so far
  got,         \* n, the length it loaded
  rpos,        \* the next byte it copies
  buf,         \* its buffer
  box,         \* history: the envelope whose bytes the slot carries
  published,   \* history: envelopes whose enqueue returned Ok
  delivered    \* history: how many dequeues returned each envelope whole

slotVars == <<slotState, slotLen, slotRoute, slotBytes, slotDepth>>
prodVars == <<ppc, env, wpos>>
consVars == <<cpc, want, tries, got, rpos, buf>>
histVars == <<box, published, delivered>>
vars == <<slotVars, prodVars, consVars, histVars>>

Index == 1 .. SlotBytes
ZeroByte == <<NoEnv, 0>>
Bytes == (Envelopes \X Index) \cup {ZeroByte}
Blank == [i \in Index |-> ZeroByte]

\* The owner of the slot: the caller that moved it to WRITING or READING.
Writing(p) == ppc[p] \in {"bytes", "len", "route", "depth", "publish"}
Reading(c) == cpc[c] \in {"load", "restore", "copy", "clearLen", "clearDepth", "release"}

Init ==
  /\ slotState = "EMPTY"
  /\ slotLen = 0
  /\ slotRoute = NoEnv
  /\ slotBytes = Blank
  /\ slotDepth = 0
  /\ ppc = [p \in Producers |-> "idle"]
  /\ env = [p \in Producers |-> NoEnv]
  /\ wpos = [p \in Producers |-> 1]
  /\ cpc = [c \in Consumers |-> "idle"]
  /\ want = [c \in Consumers |-> [len |-> 0, budget |-> 1]]
  /\ tries = [c \in Consumers |-> 0]
  /\ got = [c \in Consumers |-> 0]
  /\ rpos = [c \in Consumers |-> 1]
  /\ buf = [c \in Consumers |-> Blank]
  /\ box = NoEnv
  /\ published = {}
  /\ delivered = [e \in Envelopes |-> 0]

-----------------------------------------------------------------------------
(* dispatch_enqueue_bytes *)

\* A call.  An envelope is one caller's and is not sent again once a send of
\* it succeeded; a send that failed may be retried.  One longer than the slot
\* fails with PayloadOversize before the slot is touched.
EnqueueCall(p, e) ==
  /\ ppc[p] = "idle"
  /\ e \notin published
  /\ \A q \in Producers : env[q] # e
  /\ EnvLen[e] <= SlotBytes
  /\ ppc' = [ppc EXCEPT ![p] = "claim"]
  /\ env' = [env EXCEPT ![p] = e]
  /\ wpos' = [wpos EXCEPT ![p] = 1]
  /\ UNCHANGED <<slotVars, consVars, histVars>>

\* Mutant: a plain store in place of the compare_exchange.
EnqueueClaimByStore(p) ==
  /\ ppc[p] = "claim"
  /\ slotState' = "WRITING"
  /\ ppc' = [ppc EXCEPT ![p] = "bytes"]
  /\ UNCHANGED <<slotLen, slotRoute, slotBytes, slotDepth, env, wpos, consVars, histVars>>

\* compare_exchange(EMPTY, WRITING); QueueFull when it fails.
EnqueueClaim(p) ==
  /\ ppc[p] = "claim"
  /\ slotState = "EMPTY"
  /\ slotState' = "WRITING"
  /\ ppc' = [ppc EXCEPT ![p] = "bytes"]
  /\ UNCHANGED <<slotLen, slotRoute, slotBytes, slotDepth, env, wpos, consVars, histVars>>

EnqueueFull(p) ==
  /\ ppc[p] = "claim"
  /\ slotState # "EMPTY"
  /\ ppc' = [ppc EXCEPT ![p] = "idle"]
  /\ env' = [env EXCEPT ![p] = NoEnv]
  /\ UNCHANGED <<slotVars, wpos, consVars, histVars>>

EnqueueByte(p) ==
  /\ ppc[p] = "bytes"
  /\ slotBytes' = [slotBytes EXCEPT ![wpos[p]] = <<env[p], wpos[p]>>]
  /\ wpos' = [wpos EXCEPT ![p] = @ + 1]
  /\ ppc' = [ppc EXCEPT ![p] = IF wpos[p] < EnvLen[env[p]] THEN "bytes" ELSE "len"]
  /\ UNCHANGED <<slotState, slotLen, slotRoute, slotDepth, env, consVars, histVars>>

EnqueueLen(p) ==
  /\ ppc[p] = "len"
  /\ slotLen' = EnvLen[env[p]]
  /\ ppc' = [ppc EXCEPT ![p] = "route"]
  /\ UNCHANGED <<slotState, slotRoute, slotBytes, slotDepth, env, wpos, consVars, histVars>>

EnqueueRoute(p) ==
  /\ ppc[p] = "route"
  /\ slotRoute' = env[p]
  /\ ppc' = [ppc EXCEPT ![p] = "depth"]
  /\ UNCHANGED <<slotState, slotLen, slotBytes, slotDepth, env, wpos, consVars, histVars>>

\* Mutant: the depth counts bytes.
EnqueueDepthInBytes(p) ==
  /\ ppc[p] = "depth"
  /\ slotDepth' = EnvLen[env[p]]
  /\ ppc' = [ppc EXCEPT ![p] = "publish"]
  /\ UNCHANGED <<slotState, slotLen, slotRoute, slotBytes, env, wpos, consVars, histVars>>

EnqueueDepth(p) ==
  /\ ppc[p] = "depth"
  /\ slotDepth' = 1
  /\ ppc' = [ppc EXCEPT ![p] = "publish"]
  /\ UNCHANGED <<slotState, slotLen, slotRoute, slotBytes, env, wpos, consVars, histVars>>

\* store(FULL), Ok(()).
EnqueuePublish(p) ==
  /\ ppc[p] = "publish"
  /\ slotState' = "FULL"
  /\ ppc' = [ppc EXCEPT ![p] = "idle"]
  /\ env' = [env EXCEPT ![p] = NoEnv]
  /\ box' = env[p]
  /\ published' = published \cup {env[p]}
  /\ UNCHANGED <<slotLen, slotRoute, slotBytes, slotDepth, wpos, consVars, delivered>>

-----------------------------------------------------------------------------
(* dispatch_dequeue_bytes *)

DequeueCall(c, n, b) ==
  /\ cpc[c] = "idle"
  /\ cpc' = [cpc EXCEPT ![c] = "claim"]
  /\ want' = [want EXCEPT ![c] = [len |-> n, budget |-> b]]
  /\ tries' = [tries EXCEPT ![c] = 0]
  /\ rpos' = [rpos EXCEPT ![c] = 1]
  /\ buf' = [buf EXCEPT ![c] = Blank]
  /\ UNCHANGED <<slotVars, prodVars, got, histVars>>

\* compare_exchange(FULL, READING).
DequeueClaim(c) ==
  /\ cpc[c] = "claim"
  /\ slotState = "FULL"
  /\ slotState' = "READING"
  /\ cpc' = [cpc EXCEPT ![c] = "load"]
  /\ UNCHANGED <<slotLen, slotRoute, slotBytes, slotDepth, prodVars, want, tries, got, rpos, buf, histVars>>

\* Mutant: a busy slot is not counted against the budget.
DequeueSpinForever(c) ==
  /\ cpc[c] = "claim"
  /\ slotState # "FULL"
  /\ UNCHANGED vars

\* A failed claim: spin, or QueueEmpty once the budget is used up.
DequeueSpin(c) ==
  /\ cpc[c] = "claim"
  /\ slotState # "FULL"
  /\ tries' = [tries EXCEPT ![c] = @ + 1]
  /\ cpc' = [cpc EXCEPT ![c] = IF tries[c] + 1 >= want[c].budget THEN "idle" ELSE "claim"]
  /\ UNCHANGED <<slotVars, prodVars, want, got, rpos, buf, histVars>>

\* Mutant: >= in place of >.
DequeueLoadStrict(c) ==
  /\ cpc[c] = "load"
  /\ got' = [got EXCEPT ![c] = slotLen]
  /\ cpc' = [cpc EXCEPT ![c] = IF slotLen >= want[c].len THEN "restore"
                               ELSE IF slotLen = 0 THEN "clearLen" ELSE "copy"]
  /\ UNCHANGED <<slotVars, prodVars, want, tries, rpos, buf, histVars>>

DequeueLoad(c) ==
  /\ cpc[c] = "load"
  /\ got' = [got EXCEPT ![c] = slotLen]
  /\ cpc' = [cpc EXCEPT ![c] = IF slotLen > want[c].len THEN "restore"
                               ELSE IF slotLen = 0 THEN "clearLen" ELSE "copy"]
  /\ UNCHANGED <<slotVars, prodVars, want, tries, rpos, buf, histVars>>

\* Mutant: the slot is freed when the buffer is too small.
DequeueDropOversize(c) ==
  /\ cpc[c] = "restore"
  /\ slotState' = "EMPTY"
  /\ cpc' = [cpc EXCEPT ![c] = "idle"]
  /\ box' = NoEnv
  /\ UNCHANGED <<slotLen, slotRoute, slotBytes, slotDepth, prodVars, want, tries, got, rpos, buf, published, delivered>>

\* store(FULL), Err(PayloadOversize): the envelope stays for a larger buffer.
DequeueRestore(c) ==
  /\ cpc[c] = "restore"
  /\ slotState' = "FULL"
  /\ cpc' = [cpc EXCEPT ![c] = "idle"]
  /\ UNCHANGED <<slotLen, slotRoute, slotBytes, slotDepth, prodVars, want, tries, got, rpos, buf, histVars>>

\* Mutant: the copy stops one byte short.
DequeueCopyShort(c) ==
  /\ cpc[c] = "copy"
  /\ buf' = [buf EXCEPT ![c][rpos[c]] = slotBytes[rpos[c]]]
  /\ rpos' = [rpos EXCEPT ![c] = @ + 1]
  /\ cpc' = [cpc EXCEPT ![c] = IF rpos[c] + 1 < got[c] THEN "copy" ELSE "clearLen"]
  /\ UNCHANGED <<slotVars, prodVars, want, tries, got, histVars>>

DequeueCopy(c) ==
  /\ cpc[c] = "copy"
  /\ buf' = [buf EXCEPT ![c][rpos[c]] = slotBytes[rpos[c]]]
  /\ rpos' = [rpos EXCEPT ![c] = @ + 1]
  /\ cpc' = [cpc EXCEPT ![c] = IF rpos[c] < got[c] THEN "copy" ELSE "clearLen"]
  /\ UNCHANGED <<slotVars, prodVars, want, tries, got, histVars>>

DequeueClearLen(c) ==
  /\ cpc[c] = "clearLen"
  /\ slotLen' = 0
  /\ cpc' = [cpc EXCEPT ![c] = "clearDepth"]
  /\ UNCHANGED <<slotState, slotRoute, slotBytes, slotDepth, prodVars, want, tries, got, rpos, buf, histVars>>

\* Mutant: SLOT_DEPTH is not reset.
DequeueKeepDepth(c) ==
  /\ cpc[c] = "clearDepth"
  /\ cpc' = [cpc EXCEPT ![c] = "release"]
  /\ UNCHANGED <<slotVars, prodVars, want, tries, got, rpos, buf, histVars>>

DequeueClearDepth(c) ==
  /\ cpc[c] = "clearDepth"
  /\ slotDepth' = 0
  /\ cpc' = [cpc EXCEPT ![c] = "release"]
  /\ UNCHANGED <<slotState, slotLen, slotRoute, slotBytes, prodVars, want, tries, got, rpos, buf, histVars>>

\* The buffer holds envelope e and nothing else.
Whole(c, e) ==
  /\ got[c] = EnvLen[e]
  /\ \A i \in 1 .. got[c] : buf[c][i] = <<e, i>>

\* store(EMPTY), Ok(n).
DequeueRelease(c) ==
  /\ cpc[c] = "release"
  /\ slotState' = "EMPTY"
  /\ cpc' = [cpc EXCEPT ![c] = "idle"]
  /\ box' = NoEnv
  /\ delivered' = [e \in Envelopes |-> IF Whole(c, e) THEN delivered[e] + 1 ELSE delivered[e]]
  /\ UNCHANGED <<slotLen, slotRoute, slotBytes, slotDepth, prodVars, want, tries, got, rpos, buf, published>>

-----------------------------------------------------------------------------
ProducerStep(p) ==
  \/ EnqueueClaim(p) \/ EnqueueFull(p) \/ EnqueueByte(p) \/ EnqueueLen(p)
  \/ EnqueueRoute(p) \/ EnqueueDepth(p) \/ EnqueuePublish(p)

ConsumerStep(c) ==
  \/ DequeueClaim(c) \/ DequeueSpin(c) \/ DequeueLoad(c) \/ DequeueRestore(c)
  \/ DequeueCopy(c) \/ DequeueClearLen(c) \/ DequeueClearDepth(c) \/ DequeueRelease(c)

ConsumerCall(c) == \E n \in BufLens, b \in Budgets : DequeueCall(c, n, b)

Next ==
  \/ \E p \in Producers : ProducerStep(p) \/ \E e \in Envelopes : EnqueueCall(p, e)
  \/ \E c \in Consumers : ConsumerStep(c) \/ ConsumerCall(c)

Spec == Init /\ [][Next]_vars

\* A caller inside either function is never blocked by another one, so a
\* running processor finishes its call.  The init shell's receive loop
\* (boot/src/init.rs, run) calls again forever.  No sender is obliged to send.
Fairness ==
  /\ \A p \in Producers : WF_vars(ProducerStep(p))
  /\ \A c \in Consumers : WF_vars(ConsumerStep(c)) /\ WF_vars(ConsumerCall(c))

FairSpec == Spec /\ Fairness

-----------------------------------------------------------------------------
TypeOK ==
  /\ slotState \in {"EMPTY", "WRITING", "FULL", "READING"}
  /\ slotLen \in Nat
  /\ slotRoute \in Envelopes \cup {NoEnv}
  /\ slotBytes \in [Index -> Bytes]
  /\ slotDepth \in {0, 1}
  /\ ppc \in [Producers -> {"idle", "claim", "bytes", "len", "route", "depth", "publish"}]
  /\ env \in [Producers -> Envelopes \cup {NoEnv}]
  /\ wpos \in [Producers -> Nat \ {0}]
  /\ cpc \in [Consumers -> {"idle", "claim", "load", "restore", "copy",
                            "clearLen", "clearDepth", "release"}]
  /\ want \in [Consumers -> [len : Nat, budget : Nat \ {0}]]
  /\ tries \in [Consumers -> Nat]
  /\ got \in [Consumers -> Nat]
  /\ rpos \in [Consumers -> Nat \ {0}]
  /\ buf \in [Consumers -> [Index -> Bytes]]
  /\ box \in Envelopes \cup {NoEnv}
  /\ published \subseteq Envelopes
  /\ delivered \in [Envelopes -> Nat]

\* "Transitions are CAS-guarded; bytes / route / len fields are only touched
\* while owning the WRITING or READING state": whenever a caller is inside its
\* critical section the slot is in that caller's state and no other caller is
\* inside one, and a slot in an owned state has an owner.
SingleOwner ==
  /\ \A p, q \in Producers : Writing(p) /\ Writing(q) => p = q
  /\ \A c, d \in Consumers : Reading(c) /\ Reading(d) => c = d
  /\ slotState = "WRITING" <=> \E p \in Producers : Writing(p)
  /\ slotState = "READING" <=> \E c \in Consumers : Reading(c)

\* What dispatch_dequeue_bytes is about to return with Ok(n) is one whole
\* envelope, the one the slot carries: never a mix of two envelopes, a stale
\* tail of an earlier longer one, or a wrong length.
NoTornDelivery ==
  \A c \in Consumers :
    cpc[c] \in {"clearLen", "clearDepth", "release"} => box # NoEnv /\ Whole(c, box)

\* An envelope whose enqueue returned Ok is either still in the slot or has
\* been returned by exactly one dequeue; nothing else is ever returned.  A
\* reader that backs off with PayloadOversize neither loses nor copies it.
ExactlyOnce ==
  \A e \in Envelopes :
    delivered[e] = IF e \in published /\ e # box THEN 1 ELSE 0

\* What queue_depth() reads without claiming the slot: SLOT_DEPTH as stored is
\* never wrong about a slot that nobody owns, and LEN and ROUTE then describe
\* the same envelope.
DepthTracksSlot ==
  /\ slotState = "EMPTY" => slotDepth = 0 /\ slotLen = 0 /\ box = NoEnv
  /\ slotState = "FULL" =>
       box # NoEnv /\ slotDepth = 1 /\ slotLen = EnvLen[box] /\ slotRoute = box

Mailbox == INSTANCE EnvelopeMailbox WITH
  box <- box, published <- published, delivered <- delivered

\* The slot implements the one-place mailbox: publication is the Put, the
\* store that frees the slot is the Take, every other access is invisible.
ImplementsMailbox == Mailbox!Spec

\* Every call returns, whatever the other callers do: the claim loops are
\* bounded and no caller waits for another one's release.
EveryCallReturns ==
  /\ \A p \in Producers : ppc[p] # "idle" ~> ppc[p] = "idle"
  /\ \A c \in Consumers : cpc[c] # "idle" ~> cpc[c] = "idle"

\* An envelope that fits every reader's buffer is eventually delivered, also
\* when readers race for it and give up.
FittingEnvelopeDelivered ==
  \A e \in Envelopes :
    (\A n \in BufLens : EnvLen[e] <= n) => (e \in published ~> delivered[e] = 1)

-----------------------------------------------------------------------------
(* The inductive invariant: what each owner has already done to the slot. *)

\* A producer in its call carries an unpublished envelope that fits the slot
\* and that no other producer carries; the prefix it has stored is in place.
WriterInv ==
  /\ \A p \in Producers :
       /\ ppc[p] # "idle" =>
            env[p] \in Envelopes \ published /\ EnvLen[env[p]] <= SlotBytes
       /\ ppc[p] = "claim" => wpos[p] = 1
       /\ ppc[p] = "bytes" =>
            /\ wpos[p] <= EnvLen[env[p]]
            /\ \A i \in 1 .. wpos[p] - 1 : slotBytes[i] = <<env[p], i>>
       /\ ppc[p] \in {"len", "route", "depth", "publish"} =>
            \A i \in 1 .. EnvLen[env[p]] : slotBytes[i] = <<env[p], i>>
       /\ ppc[p] \in {"route", "depth", "publish"} => slotLen = EnvLen[env[p]]
       /\ ppc[p] \in {"depth", "publish"} => slotRoute = env[p]
       /\ ppc[p] = "publish" => slotDepth = 1
  /\ \A p, q \in Producers : p # q /\ env[p] # NoEnv => env[p] # env[q]

\* A slot that is full or being read carries a published envelope, intact.
SlotInv ==
  /\ box = NoEnv <=> slotState \in {"EMPTY", "WRITING"}
  /\ box # NoEnv =>
       /\ box \in published
       /\ EnvLen[box] <= SlotBytes
       /\ \A i \in 1 .. EnvLen[box] : slotBytes[i] = <<box, i>>
       /\ slotRoute = box
  /\ slotState = "EMPTY" => slotDepth = 0 /\ slotLen = 0
  /\ slotState = "FULL" => slotDepth = 1 /\ slotLen = EnvLen[box]

\* A reader that owns the slot has copied a prefix of that envelope.
ReaderInv ==
  \A c \in Consumers :
    /\ cpc[c] \in {"claim", "load"} => rpos[c] = 1
    /\ cpc[c] \in {"load", "restore", "copy", "clearLen"} =>
         slotLen = EnvLen[box] /\ slotDepth = 1
    /\ cpc[c] \in {"clearDepth", "release"} => slotLen = 0
    /\ cpc[c] = "release" => slotDepth = 0
    /\ cpc[c] = "copy" =>
         /\ got[c] = EnvLen[box]
         /\ rpos[c] <= got[c]
         /\ \A i \in 1 .. rpos[c] - 1 : buf[c][i] = <<box, i>>
    /\ cpc[c] \in {"clearLen", "clearDepth", "release"} => Whole(c, box)

IInv == TypeOK /\ SingleOwner /\ WriterInv /\ SlotInv /\ ReaderInv /\ ExactlyOnce
=============================================================================
