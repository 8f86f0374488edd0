----------------------------- MODULE InitShell -----------------------------
(***************************************************************************)
(* The init process of kernel/boot/src/init.rs: an envelope REPL over the  *)
(* kernel's one-place mailbox (EnvelopeMailbox, which EnvelopeSlot         *)
(* implements), with the hookwall before and after every dispatch          *)
(* (core/src/hookwall, through sys_hookwall_pre and sys_hookwall_post).    *)
(* Clients share the mailbox: they send requests and may receive too, and  *)
(* init's own envelopes go through the same slot.                          *)
(*                                                                         *)
(* An envelope is its 4-letter type, its length and its origin.  A refused *)
(* send or a receive from an empty mailbox (WouldBlock) changes nothing    *)
(* and is not an action.  Every send uses ROUTE_HINT_LOCAL.                *)
(***************************************************************************)
EXTENDS Naturals

CONSTANTS
  Requests,              \* the envelopes that clients may send, each once
  ReqType,               \* the type of each request
  ReqLen,                \* its length in bytes
  InitEnvelopeMax,       \* INIT_ENVELOPE_MAX
  RecvFailureThreshold,  \* RECV_FAILURE_THRESHOLD
  HookwallSlotCount,     \* HOOKWALL_SLOT_COUNT
  SlotBytes,             \* ENVELOPE_SLOT_BYTES
  SeqModulus,            \* 2^64, where seq.wrapping_add and fetch_add wrap
  NoEnv

MinEnvelopeBytes == 32
Own == "init"           \* origin of what init emits
Executed == "exec"      \* origin of a payload that EXEC put on the bus

ASSUME InitConstants ==
  /\ HookwallSlotCount \in Nat
  /\ InitEnvelopeMax \in Nat /\ InitEnvelopeMax >= MinEnvelopeBytes
  /\ SlotBytes \in Nat /\ SlotBytes >= MinEnvelopeBytes
  /\ RecvFailureThreshold \in Nat \ {0}
  /\ SeqModulus \in Nat \ {0, 1}
  /\ ReqLen \in [Requests -> 1 .. SlotBytes]
  /\ Own \notin Requests /\ Executed \notin Requests

\* The first byte of each type prefix.  A client may also send an envelope
\* whose first byte is not a letter: RAW.
FirstByte ==
  [PING |-> 80, EXEC |-> 69, SHTD |-> 83, VERS |-> 86, PIDA |-> 80,
   INIT |-> 73, PONG |-> 80, BLOK |-> 66, HOLD |-> 72, UNKN |-> 85,
   EERR |-> 69, EOKx |-> 69, FINI |-> 70, SOS |-> 83, RAW |-> 7]

ASSUME TypesAssumption == ReqType \in [Requests -> DOMAIN FirstByte]

Envelope(from, type, len) == [from |-> from, type |-> type, len |-> len]
Envelopes == [from : Requests \cup {Own, Executed}, type : DOMAIN FirstByte, len : 1 .. SlotBytes]

ASSUME NoEnvAssumption == NoEnv \notin Envelopes

VARIABLES
  box,          \* the mailbox
  phase,        \* where init is in its loop
  cur,          \* the envelope it is dispatching
  reply,        \* the type of the envelope it is about to emit
  seq,          \* its sequence number
  fails,        \* consecutive_failures
  status,       \* "running", or the argument of sys_exit
  rows,         \* APPEND_SEQ_COUNTER: rows appended to the cosign chain
  sent,         \* history: requests the mailbox accepted
  taken,        \* history: requests another reader received
  ignored,      \* history: requests dropped as malformed
  answers       \* history: how many times init replied to each request

busVars == <<sent, taken, ignored, answers>>
vars == <<box, phase, cur, reply, seq, fails, status, rows, busVars>>

Init ==
  /\ box = NoEnv
  /\ phase = "boot"
  /\ cur = NoEnv
  /\ reply = "INIT"
  /\ seq = 1
  /\ fails = 0
  /\ status = "running"
  /\ rows = 0
  /\ sent = {}
  /\ taken = {}
  /\ ignored = {}
  /\ answers = [r \in Requests |-> 0]

-----------------------------------------------------------------------------
(* Clients *)

\* sys_envelope_send, or vfs_write on the bus for fewer than 32 bytes.
Send(r) ==
  /\ box = NoEnv
  /\ r \notin sent
  /\ box' = Envelope(r, ReqType[r], ReqLen[r])
  /\ sent' = sent \cup {r}
  /\ UNCHANGED <<phase, cur, reply, seq, fails, status, rows, taken, ignored, answers>>

\* A client waiting for a reply receives whatever the mailbox holds.
ClientRecv ==
  /\ box # NoEnv
  /\ box' = NoEnv
  /\ taken' = taken \cup ({box.from} \cap Requests)
  /\ UNCHANGED <<phase, cur, reply, seq, fails, status, rows, sent, ignored, answers>>

-----------------------------------------------------------------------------
(* The hookwall *)

\* sys_hookwall_pre: byte 0 is the slot; a slot out of range is an error, which
\* dispatch_envelope takes for Block; tier Micro proceeds.
Verdict(type) == IF FirstByte[type] < HookwallSlotCount THEN "Proceed" ELSE "Block"

\* sys_hookwall_post appends a verdict row, or fails on the same slot check.
HookwallPost(type) ==
  rows' = IF FirstByte[type] < HookwallSlotCount THEN (rows + 1) % SeqModulus ELSE rows

-----------------------------------------------------------------------------
(* init *)

\* A best-effort send: the envelope is dropped when the mailbox is occupied.
BestEffort(e) == box' = IF box = NoEnv THEN e ELSE box

EmitInitReady ==
  /\ phase = "boot"
  /\ BestEffort(Envelope(Own, "INIT", 32))
  /\ HookwallPost("INIT")
  /\ phase' = "recv"
  /\ UNCHANGED <<cur, reply, seq, fails, status, busVars>>

\* Mutant: the envelope is read without being taken.
RecvPeeks ==
  /\ phase = "recv" /\ box # NoEnv
  /\ box.len <= InitEnvelopeMax /\ box.len >= 4
  /\ fails' = 0
  /\ cur' = box
  /\ phase' = "dispatch"
  /\ UNCHANGED <<box, reply, seq, status, rows, busVars>>

RecvOk ==
  /\ phase = "recv" /\ box # NoEnv
  /\ box.len <= InitEnvelopeMax /\ box.len >= 4
  /\ fails' = 0
  /\ cur' = box
  /\ box' = NoEnv
  /\ phase' = "dispatch"
  /\ UNCHANGED <<reply, seq, status, rows, busVars>>

RecvMalformed ==
  /\ phase = "recv" /\ box # NoEnv
  /\ box.len < 4
  /\ box' = NoEnv
  /\ ignored' = ignored \cup ({box.from} \cap Requests)
  /\ UNCHANGED <<phase, cur, reply, seq, fails, status, rows, sent, taken, answers>>

\* Mutants: a malformed envelope counts as a failure too; failures do not add up.
RecvAnyFailure ==
  /\ phase = "recv" /\ box # NoEnv
  /\ box.len > InitEnvelopeMax \/ box.len < 4
  /\ fails' = fails + 1
  /\ phase' = IF fails + 1 >= RecvFailureThreshold THEN "sos" ELSE "recv"
  /\ UNCHANGED <<box, cur, reply, seq, status, rows, busVars>>

RecvOversizeForgets ==
  /\ phase = "recv" /\ box # NoEnv
  /\ box.len > InitEnvelopeMax
  /\ UNCHANGED vars

\* PayloadOversize: the envelope stays in the slot.
RecvOversize ==
  /\ phase = "recv" /\ box # NoEnv
  /\ box.len > InitEnvelopeMax
  /\ fails' = fails + 1
  /\ phase' = IF fails + 1 >= RecvFailureThreshold THEN "sos" ELSE "recv"
  /\ UNCHANGED <<box, cur, reply, seq, status, rows, busVars>>

\* handle_exec puts the payload (all but 12 bytes) on the bus before it replies.
ExecAccepted ==
  /\ cur.len >= 12 + MinEnvelopeBytes
  /\ box = NoEnv

ReplyType(type) ==
  CASE type = "PING" -> "PONG"
    [] type = "EXEC" -> IF ExecAccepted THEN "EOKx" ELSE "EERR"
    [] type = "SHTD" -> "FINI"
    [] type \in {"VERS", "PIDA"} -> type
    [] OTHER -> "UNKN"

Dispatch ==
  /\ phase = "dispatch"
  /\ IF Verdict(cur.type) = "Block"
     THEN reply' = "BLOK" /\ UNCHANGED box
     ELSE /\ reply' = ReplyType(cur.type)
          /\ box' = IF cur.type = "EXEC" /\ ExecAccepted
                    THEN Envelope(Executed, "RAW", cur.len - 12) ELSE box
  /\ phase' = "emit"
  /\ UNCHANGED <<cur, seq, fails, status, rows, busVars>>

\* Mutant: the sequence number does not wrap.
EmitUnbounded ==
  /\ phase = "emit"
  /\ BestEffort(Envelope(Own, reply, MinEnvelopeBytes))
  /\ seq' = seq + 1
  /\ answers' = [r \in Requests |-> IF r = cur.from THEN answers[r] + 1 ELSE answers[r]]
  /\ phase' = "post"
  /\ UNCHANGED <<cur, reply, fails, status, rows, sent, taken, ignored>>

\* emit_envelope.  Every reply init composes is padded to at least 32 bytes and
\* is far below INIT_ENVELOPE_MAX.
Emit ==
  /\ phase = "emit"
  /\ BestEffort(Envelope(Own, reply, MinEnvelopeBytes))
  /\ seq' = (seq + 1) % SeqModulus
  /\ answers' = [r \in Requests |-> IF r = cur.from THEN answers[r] + 1 ELSE answers[r]]
  /\ phase' = "post"
  /\ UNCHANGED <<cur, reply, fails, status, rows, sent, taken, ignored>>

\* hookwall_post; after FINI also the cosign row "init-shutdown", which at 13
\* bytes is below MIN_COSIGN_ROW_BYTES and refused, and sys_exit(0).
Post ==
  /\ phase = "post"
  /\ HookwallPost(cur.type)
  /\ status' = IF reply = "FINI" THEN "exit0" ELSE status
  /\ phase' = IF reply = "FINI" THEN "halt" ELSE "recv"
  /\ cur' = NoEnv
  /\ UNCHANGED <<box, reply, seq, fails, busVars>>

\* The final SOS and sys_exit(2).
SelfHalt ==
  /\ phase = "sos"
  /\ BestEffort(Envelope(Own, "SOS", 32))
  /\ seq' = (seq + 1) % SeqModulus
  /\ status' = "exit2"
  /\ phase' = "halt"
  /\ UNCHANGED <<cur, reply, fails, rows, busVars>>

InitStep ==
  \/ EmitInitReady \/ RecvOk \/ RecvMalformed \/ RecvOversize
  \/ Dispatch \/ Emit \/ Post \/ SelfHalt

Next == InitStep \/ ClientRecv \/ \E r \in Requests : Send(r)

Spec == Init /\ [][Next]_vars

\* init runs on its own loop; clients owe nothing.
FairSpec == Spec /\ WF_vars(InitStep)

-----------------------------------------------------------------------------
TypeOK ==
  /\ box \in Envelopes \cup {NoEnv}
  /\ phase \in {"boot", "recv", "dispatch", "emit", "post", "sos", "halt"}
  /\ cur \in Envelopes \cup {NoEnv}
  /\ (phase \in {"dispatch", "emit", "post"}) = (cur # NoEnv)
  /\ reply \in DOMAIN FirstByte
  /\ seq \in 0 .. SeqModulus - 1
  /\ fails \in 0 .. RecvFailureThreshold
  /\ status \in {"running", "exit0", "exit2"}
  /\ (phase = "halt") = (status # "running")
  /\ rows \in 0 .. SeqModulus - 1
  /\ sent \subseteq Requests /\ taken \subseteq sent /\ ignored \subseteq sent
  /\ answers \in [Requests -> Nat]

\* An accepted request is in exactly one place: in the mailbox, in init's hands
\* before its reply, answered once, ignored once, or taken by another reader.
\* Losing races for the one slot may drop a reply, never a request, and never
\* makes init answer a request twice or answer one that another reader has.
OnePlacePerRequest ==
  LET inBox == {r \in Requests : box # NoEnv /\ box.from = r}
      inHand == {r \in Requests : phase \in {"dispatch", "emit"} /\ cur.from = r}
      answered == {r \in Requests : answers[r] > 0}
  IN  /\ \A r \in Requests : answers[r] <= 1
      /\ sent = inBox \cup inHand \cup answered \cup taken \cup ignored
      /\ inBox \cap (inHand \cup answered \cup taken \cup ignored) = {}
      /\ inHand \cap (answered \cup taken \cup ignored) = {}
      /\ answered \cap (taken \cup ignored) = {}
      /\ taken \cap ignored = {}

\* init gives up only on a bus it cannot read: sys_exit(2) follows receives
\* that met an envelope larger than its buffer, never traffic it can read, a
\* malformed envelope, its own echoed replies or an idle bus.
HaltsForCause ==
  phase = "sos" \/ status = "exit2" =>
    \E r \in sent : ReqLen[r] > InitEnvelopeMax /\ answers[r] = 0

\* Every accepted request is eventually answered, ignored as malformed or read
\* by someone else, or init has halted: one that init can never read does not
\* leave it spinning, and its echoes of its own replies do not starve requests.
EveryRequestSettled ==
  \A r \in Requests :
    r \in sent ~> \/ answers[r] > 0 \/ r \in taken \/ r \in ignored
                  \/ status # "running"

\* The protocol of the module's header, for requests that reach a reply:
\* "PING" -> "PONG", "SHTD" -> shutdown, "VERS", "PIDA", others -> "UNKN".
RepliesFollowProtocol ==
  phase = "emit" /\ cur.from \in Requests =>
    CASE cur.type = "PING" -> reply = "PONG"
      [] cur.type = "EXEC" -> reply \in {"EOKx", "EERR"}
      [] cur.type = "SHTD" -> reply = "FINI"
      [] cur.type \in {"VERS", "PIDA"} -> reply = cur.type
      [] OTHER -> reply = "UNKN"
=============================================================================
