-------------------------- MODULE InitShellProofs --------------------------
(***************************************************************************)
(* Proofs about InitShell for any requests, buffer sizes, slot count and   *)
(* failure threshold.                                                      *)
(***************************************************************************)
EXTENDS InitShell, TLAPS

USE InitConstants, TypesAssumption, NoEnvAssumption

-----------------------------------------------------------------------------
\* The parts of the inductive invariant that are not properties of InitShell.

\* Where a request can be, one predicate for each of the two moving places.
InBox(r) == box # NoEnv /\ box.from = r
InHand(r) == phase \in {"dispatch", "emit"} /\ cur.from = r

\* OnePlacePerRequest, request by request.
PlaceInv ==
  \A r \in Requests :
    /\ answers[r] <= 1
    /\ r \in sent <=> InBox(r) \/ InHand(r) \/ answers[r] > 0 \/ r \in taken \/ r \in ignored
    /\ InBox(r) => ~InHand(r) /\ answers[r] = 0 /\ r \notin taken /\ r \notin ignored
    /\ InHand(r) => answers[r] = 0 /\ r \notin taken /\ r \notin ignored
    /\ answers[r] > 0 => r \notin taken /\ r \notin ignored
    /\ r \in taken => r \notin ignored

\* What is in the mailbox is a request as it was sent, or an envelope that init
\* made and can read back.
BoxInv ==
  box # NoEnv =>
    IF box.from \in Requests THEN box.len = ReqLen[box.from] ELSE box.len <= InitEnvelopeMax

\* What init holds fitted its buffer.
CurInv ==
  cur # NoEnv =>
    /\ cur.len <= InitEnvelopeMax
    /\ cur.from \in Requests => cur.len = ReqLen[cur.from]

\* A request init cannot read, which therefore it has not answered.
Unreadable == \E r \in sent : ReqLen[r] > InitEnvelopeMax /\ answers[r] = 0

\* Failures are counted only for such a request; below the threshold init goes on.
FailInv ==
  /\ fails > 0 \/ phase = "sos" \/ status = "exit2" => Unreadable
  /\ phase \notin {"sos", "halt"} => fails < RecvFailureThreshold

IInv == TypeOK /\ PlaceInv /\ BoxInv /\ CurInv /\ FailInv

-----------------------------------------------------------------------------
LEMMA TypeNames ==
  DOMAIN FirstByte = {"PING", "EXEC", "SHTD", "VERS", "PIDA", "INIT", "PONG", "BLOK", "HOLD",
                      "UNKN", "EERR", "EOKx", "FINI", "SOS", "RAW"}
  BY DEF FirstByte

\* What init puts on the bus is an envelope it can read back.
LEMMA OwnEnvelopes ==
  ASSUME NEW t \in DOMAIN FirstByte
  PROVE  /\ Envelope(Own, t, 32) \in Envelopes
         /\ Envelope(Own, t, 32) # NoEnv
         /\ Envelope(Own, t, 32).from = Own
         /\ Envelope(Own, t, 32).len = 32
  BY DEF Envelope, Envelopes, MinEnvelopeBytes

LEMMA ReplyNames ==
  ASSUME NEW t PROVE ReplyType(t) \in DOMAIN FirstByte
  BY TypeNames DEF ReplyType

LEMMA ModRange ==
  ASSUME NEW n \in 0 .. SeqModulus - 1
  PROVE  (n + 1) % SeqModulus \in 0 .. SeqModulus - 1
  BY Z3

LEMMA PostKeepsRows ==
  ASSUME NEW t, rows \in 0 .. SeqModulus - 1, HookwallPost(t)
  PROVE  rows' \in 0 .. SeqModulus - 1
  BY ModRange DEF HookwallPost

LEMMA InitIInv == Init => IInv
<1> SUFFICES ASSUME Init PROVE IInv
  OBVIOUS
<1>1. TypeOK
  BY TypeNames DEF Init, TypeOK
<1>2. ASSUME NEW r \in Requests
      PROVE  /\ answers[r] = 0 /\ ~InBox(r) /\ ~InHand(r)
             /\ r \notin sent /\ r \notin taken /\ r \notin ignored
  BY DEF Init, InBox, InHand
<1>3. PlaceInv
  <2> SUFFICES ASSUME NEW r \in Requests
               PROVE  /\ answers[r] <= 1
                      /\ r \in sent <=> \/ InBox(r) \/ InHand(r) \/ answers[r] > 0
                                        \/ r \in taken \/ r \in ignored
                      /\ InBox(r) => ~InHand(r) /\ answers[r] = 0 /\ r \notin taken /\ r \notin ignored
                      /\ InHand(r) => answers[r] = 0 /\ r \notin taken /\ r \notin ignored
                      /\ answers[r] > 0 => r \notin taken /\ r \notin ignored
                      /\ r \in taken => r \notin ignored
    BY DEF PlaceInv
  <2> QED
    BY <1>2
<1> QED
  BY <1>1, <1>3 DEF IInv, Init, BoxInv, CurInv, FailInv

-----------------------------------------------------------------------------
\* One lemma per group of actions.

LEMMA SendStep ==
  ASSUME IInv, NEW r \in Requests, Send(r) PROVE IInv'
<1> USE DEF IInv, Send, TypeOK
<1>1. /\ box' = [from |-> r, type |-> ReqType[r], len |-> ReqLen[r]]
      /\ box' \in Envelopes /\ box' # NoEnv /\ box'.from = r /\ box'.len = ReqLen[r]
  BY DEF Envelope, Envelopes
<1>2. TypeOK'
  BY <1>1
<1>3. PlaceInv'
  BY <1>1 DEF PlaceInv, InBox, InHand
<1>4. BoxInv' /\ CurInv'
  BY <1>1 DEF BoxInv, CurInv
<1>5. FailInv'
  BY DEF FailInv, Unreadable
<1> QED
  BY <1>2, <1>3, <1>4, <1>5

LEMMA ClientRecvStep ==
  ASSUME IInv, ClientRecv PROVE IInv'
<1> USE DEF IInv, ClientRecv, TypeOK
<1>0. box.from \in Requests => box.from \in sent
  BY DEF PlaceInv, InBox
<1>2. TypeOK'
  BY <1>0
<1>3. PlaceInv'
  BY DEF PlaceInv, InBox, InHand
<1>4. BoxInv' /\ CurInv' /\ FailInv'
  BY DEF BoxInv, CurInv, FailInv, Unreadable
<1> QED
  BY <1>2, <1>3, <1>4

\* A best-effort send leaves a request in the mailbox where it is and adds none.
LEMMA BestEffortFacts ==
  ASSUME TypeOK, NEW t \in DOMAIN FirstByte, BestEffort(Envelope(Own, t, 32))
  PROVE  /\ box' \in Envelopes \cup {NoEnv}
         /\ \A r \in Requests : (box' # NoEnv /\ box'.from = r) <=> InBox(r)
         /\ BoxInv => BoxInv'
<1>1. CASE box = NoEnv
  <2>1. box' = Envelope(Own, t, 32)
    BY <1>1 DEF BestEffort
  <2> QED
    BY <1>1, <2>1, OwnEnvelopes DEF InBox, BoxInv, MinEnvelopeBytes
<1>2. CASE box # NoEnv
  <2>1. box' = box
    BY <1>2 DEF BestEffort
  <2> QED
    BY <1>2, <2>1 DEF TypeOK, InBox, BoxInv
<1> QED
  BY <1>1, <1>2

LEMMA EmitInitReadyStep ==
  ASSUME IInv, EmitInitReady PROVE IInv'
<1> USE DEF IInv, EmitInitReady
<1>1. /\ box' \in Envelopes \cup {NoEnv}
      /\ \A r \in Requests : (box' # NoEnv /\ box'.from = r) <=> InBox(r)
      /\ BoxInv'
  BY BestEffortFacts, TypeNames
<1>2. TypeOK'
  BY <1>1, PostKeepsRows DEF TypeOK, busVars
<1>3. PlaceInv'
  BY <1>1 DEF PlaceInv, InBox, InHand, TypeOK, busVars
<1>4. CurInv' /\ FailInv'
  BY DEF CurInv, FailInv, Unreadable, busVars
<1> QED
  BY <1>1, <1>2, <1>3, <1>4

LEMMA RecvStep ==
  ASSUME IInv, RecvOk \/ RecvMalformed \/ RecvOversize PROVE IInv'
<1> USE DEF IInv, busVars
<1>0. box.from \in Requests /\ box # NoEnv => box.from \in sent
  BY DEF PlaceInv, InBox
<1>1. CASE RecvOk
  <2>1. TypeOK'
    BY <1>1 DEF RecvOk, TypeOK
  <2>2. PlaceInv'
    BY <1>1 DEF RecvOk, PlaceInv, InBox, InHand, TypeOK
  <2>3. BoxInv' /\ CurInv'
    BY <1>1 DEF RecvOk, BoxInv, CurInv, TypeOK, Envelopes
  <2>4. FailInv'
    BY <1>1 DEF RecvOk, FailInv, Unreadable, TypeOK
  <2> QED
    BY <2>1, <2>2, <2>3, <2>4
<1>2. CASE RecvMalformed
  <2>1. TypeOK'
    BY <1>0, <1>2 DEF RecvMalformed, TypeOK
  <2>2. PlaceInv'
    BY <1>2 DEF RecvMalformed, PlaceInv, InBox, InHand, TypeOK
  <2> QED
    BY <1>2, <2>1, <2>2 DEF RecvMalformed, BoxInv, CurInv, FailInv, Unreadable
<1>3. CASE RecvOversize
  <2>1. TypeOK'
    BY <1>3 DEF RecvOversize, TypeOK, FailInv
  <2>2. PlaceInv'
    BY <1>3 DEF RecvOversize, PlaceInv, InBox, InHand, TypeOK
  <2>3. box \in Envelopes /\ box.len > InitEnvelopeMax
    BY <1>3 DEF RecvOversize, TypeOK
  <2>4. box.from \in sent /\ ReqLen[box.from] > InitEnvelopeMax
    BY <1>0, <2>3 DEF BoxInv, Envelopes
  <2>5. answers[box.from] = 0
    BY <2>3, <2>4 DEF PlaceInv, InBox, TypeOK
  <2>6. FailInv'
    BY <1>3, <2>4, <2>5 DEF RecvOversize, FailInv, Unreadable, TypeOK
  <2> QED
    BY <1>3, <2>1, <2>2, <2>6 DEF RecvOversize, BoxInv, CurInv
<1> QED
  BY <1>1, <1>2, <1>3

LEMMA DispatchStep ==
  ASSUME IInv, Dispatch PROVE IInv'
<1> USE DEF IInv, Dispatch, busVars
<1>0. cur \in Envelopes /\ cur # NoEnv /\ cur.len \in 1 .. SlotBytes
  BY DEF TypeOK, Envelopes
<1>1. reply' \in DOMAIN FirstByte
  BY ReplyNames, TypeNames
<1>2. CASE box' = box
  <2>1. TypeOK'
    BY <1>1, <1>2 DEF TypeOK
  <2>2. PlaceInv'
    BY <1>2 DEF PlaceInv, InBox, InHand
  <2> QED
    BY <1>2, <2>1, <2>2 DEF BoxInv, CurInv, FailInv, Unreadable
<1>3. CASE box' # box
  <2>1. box = NoEnv /\ cur.len >= 44 /\ box' = Envelope(Executed, "RAW", cur.len - 12)
    BY <1>3 DEF ExecAccepted, MinEnvelopeBytes
  <2>2. box' \in Envelopes /\ box' # NoEnv /\ box'.from = Executed /\ box'.len = cur.len - 12
    BY <1>0, <2>1, TypeNames DEF Envelope, Envelopes
  <2>3. TypeOK'
    BY <1>1, <2>2 DEF TypeOK
  <2>4. PlaceInv'
    BY <2>1, <2>2 DEF PlaceInv, InBox, InHand
  <2>5. BoxInv'
    BY <1>0, <2>2 DEF BoxInv, CurInv
  <2> QED
    BY <2>3, <2>4, <2>5 DEF CurInv, FailInv, Unreadable
<1> QED
  BY <1>2, <1>3

LEMMA EmitStep ==
  ASSUME IInv, Emit PROVE IInv'
<1> USE DEF IInv, Emit
<1>1. /\ box' \in Envelopes \cup {NoEnv}
      /\ \A r \in Requests : (box' # NoEnv /\ box'.from = r) <=> InBox(r)
      /\ BoxInv'
  BY BestEffortFacts DEF TypeOK, MinEnvelopeBytes
<1>2. cur \in Envelopes /\ cur # NoEnv
  BY DEF TypeOK
<1>3. TypeOK'
  BY <1>1, ModRange DEF TypeOK
<1>4. PlaceInv'
  <2> SUFFICES ASSUME NEW r \in Requests
               PROVE  /\ answers'[r] <= 1
                      /\ r \in sent <=> InBox(r) \/ answers'[r] > 0 \/ r \in taken \/ r \in ignored
                      /\ InBox(r) => answers'[r] = 0 /\ r \notin taken /\ r \notin ignored
                      /\ answers'[r] > 0 => r \notin taken /\ r \notin ignored
                      /\ r \in taken => r \notin ignored
    BY <1>1 DEF PlaceInv, InBox, InHand
  <2>1. answers[r] \in Nat /\ answers'[r] = IF r = cur.from THEN answers[r] + 1 ELSE answers[r]
    BY DEF TypeOK
  <2> QED
    BY <2>1 DEF PlaceInv, InHand
<1>5. CurInv'
  BY DEF CurInv
<1>6. FailInv'
  <2>1. Unreadable => Unreadable'
    BY <1>2 DEF Unreadable, CurInv, TypeOK
  <2> QED
    BY <2>1 DEF FailInv
<1> QED
  BY <1>1, <1>3, <1>4, <1>5, <1>6

LEMMA PostStep ==
  ASSUME IInv, Post PROVE IInv'
<1> USE DEF IInv, Post, busVars
<1>1. TypeOK'
  BY PostKeepsRows DEF TypeOK
<1>2. PlaceInv'
  BY DEF PlaceInv, InBox, InHand
<1> QED
  BY <1>1, <1>2 DEF BoxInv, CurInv, FailInv, Unreadable

LEMMA SelfHaltStep ==
  ASSUME IInv, SelfHalt PROVE IInv'
<1> USE DEF IInv, SelfHalt, busVars
<1>1. /\ box' \in Envelopes \cup {NoEnv}
      /\ \A r \in Requests : (box' # NoEnv /\ box'.from = r) <=> InBox(r)
      /\ BoxInv'
  BY BestEffortFacts, TypeNames
<1>2. TypeOK'
  BY <1>1, ModRange DEF TypeOK
<1>3. PlaceInv'
  BY <1>1 DEF PlaceInv, InBox, InHand
<1> QED
  BY <1>1, <1>2, <1>3 DEF CurInv, FailInv, Unreadable

LEMMA NextIInv == IInv /\ [Next]_vars => IInv'
<1> SUFFICES ASSUME IInv, [Next]_vars PROVE IInv'
  OBVIOUS
<1>1. CASE UNCHANGED vars
  BY <1>1 DEF vars, busVars, IInv, TypeOK, PlaceInv, InBox, InHand, BoxInv, CurInv, FailInv,
              Unreadable
<1>2. CASE Next
  BY <1>2, SendStep, ClientRecvStep, EmitInitReadyStep, RecvStep, DispatchStep, EmitStep,
     PostStep, SelfHaltStep DEF Next, InitStep
<1> QED
  BY <1>1, <1>2

LEMMA Invariance == Spec => []IInv
<1>1. Init => IInv
  BY InitIInv
<1>2. IInv /\ [Next]_vars => IInv'
  BY NextIInv
<1> QED
  BY <1>1, <1>2, PTL DEF Spec

-----------------------------------------------------------------------------
\* init's counters, its phase and what it holds agree in every state of the
\* loop of run: it holds an envelope exactly while it dispatches one, and it has
\* left the loop exactly when it has exited.
THEOREM TypeCorrect == Spec => []TypeOK
<1>1. IInv => TypeOK
  BY DEF IInv
<1> QED
  BY <1>1, Invariance, PTL

\* No request accepted by the slot is lost or answered twice, for any number of
\* clients that send and receive on the same slot while run dispatches.
THEOREM RequestsHaveOnePlace == Spec => []OnePlacePerRequest
<1>1. ASSUME IInv PROVE OnePlacePerRequest
  <2>1. sent \subseteq Requests /\ taken \subseteq Requests /\ ignored \subseteq Requests
    BY <1>1 DEF IInv, TypeOK
  <2>2. \A r \in Requests : InBox(r) <=> box # NoEnv /\ box.from = r
    BY DEF InBox
  <2>3. \A r \in Requests : InHand(r) <=> phase \in {"dispatch", "emit"} /\ cur.from = r
    BY DEF InHand
  <2>4. \A r \in Requests : answers[r] \in Nat
    BY <1>1 DEF IInv, TypeOK
  <2> QED
    BY <1>1, <2>1, <2>2, <2>3, <2>4 DEF IInv, PlaceInv, OnePlacePerRequest
<1> QED
  BY <1>1, Invariance, PTL

\* run leaves with sys_exit(2) only after receives that met a request larger
\* than its buffer, whatever the threshold.
THEOREM HaltHasCause == Spec => []HaltsForCause
<1>1. IInv => HaltsForCause
  BY DEF IInv, FailInv, Unreadable, HaltsForCause
<1> QED
  BY <1>1, Invariance, PTL

-----------------------------------------------------------------------------
(* How long a request waits, in steps of init. *)

\* The outcomes that EveryRequestSettled allows.
Settled(r) == answers[r] > 0 \/ r \in taken \/ r \in ignored \/ status # "running"

\* Steps before init is back at its receive.
ToReceive ==
  [sos |-> 0, halt |-> 0, recv |-> 1, post |-> 2, boot |-> 2, emit |-> 3, dispatch |-> 4]

\* The most steps of init before request r is settled: for one in init's hands
\* the dispatch and the reply; for one in the mailbox also the rest of the
\* dispatch in progress and the receives that may still fail.
RequestLeft(r) ==
  IF Settled(r) THEN 0
  ELSE IF InHand(r) THEN (IF phase = "dispatch" THEN 2 ELSE 1)
  ELSE 3 + (RecvFailureThreshold - fails) + ToReceive[phase]

\* An accepted request is at most RecvFailureThreshold + 7 steps of init away
\* from being settled.
WaitsAreBounded ==
  \A r \in sent :
    /\ RequestLeft(r) \in 0 .. RecvFailureThreshold + 7
    /\ RequestLeft(r) = 0 <=> Settled(r)

\* Every step of init's loop brings every waiting request nearer to being
\* settled, whichever envelope it handles; clients never delay one; settled
\* requests stay settled.
WaitsShrink ==
  \A r \in sent :
    /\ Settled(r) => Settled(r)'
    /\ ~ Settled(r) =>
         IF InitStep THEN RequestLeft(r)' < RequestLeft(r) ELSE RequestLeft(r)' <= RequestLeft(r)

\* The measure is a number in its range.
LEMMA WaitBound ==
  ASSUME IInv, NEW r \in sent
  PROVE  /\ RequestLeft(r) \in 0 .. RecvFailureThreshold + 7
         /\ RequestLeft(r) = 0 <=> Settled(r)
         /\ ToReceive[phase] \in 0 .. 4 /\ fails \in 0 .. RecvFailureThreshold
<1>1. fails \in 0 .. RecvFailureThreshold
  BY DEF IInv, TypeOK
<1>2. ToReceive[phase] \in 0 .. 4
  BY DEF IInv, TypeOK, ToReceive
<1>3. Settled(r) \in BOOLEAN
  BY DEF Settled
<1> QED
  BY <1>1, <1>2, <1>3 DEF RequestLeft

\* A request that is sent and not settled is in the mailbox or in init's hands,
\* and init runs.
LEMMA WaitingPlace ==
  ASSUME IInv, NEW r \in sent, ~ Settled(r)
  PROVE  /\ r \in Requests
         /\ InBox(r) \/ InHand(r)
         /\ InBox(r) => ~ InHand(r)
         /\ status = "running" /\ answers[r] \in Nat
         /\ InBox(r) => box \in Envelopes /\ box # NoEnv /\ box.from = r
  BY DEF IInv, TypeOK, PlaceInv, Settled, InBox

\* A step of init that leaves the mailbox and the outcomes alone.
LEMMA LoopMoves ==
  ASSUME IInv, NEW r \in sent, ~ Settled(r), InBox(r) \/ Dispatch,
         EmitInitReady \/ Dispatch \/ Post \/ SelfHalt
  PROVE  RequestLeft(r)' < RequestLeft(r)
<1> USE WaitingPlace DEF RequestLeft, Settled, InHand, ToReceive
<1>1. fails \in 0 .. RecvFailureThreshold /\ RecvFailureThreshold \in Nat
  BY DEF IInv, TypeOK
<1>2. CASE EmitInitReady
  BY <1>1, <1>2 DEF EmitInitReady, busVars, IInv, TypeOK
<1>3. CASE Dispatch
  BY <1>1, <1>3 DEF Dispatch, busVars
<1>4. CASE Post
  BY <1>1, <1>4 DEF Post, busVars
<1>5. CASE SelfHalt
  BY <1>1, <1>5, WaitBound DEF SelfHalt, busVars
<1> QED
  BY <1>2, <1>3, <1>4, <1>5

\* Init's receive and its reply.
LEMMA ReceiveMoves ==
  ASSUME IInv, NEW r \in sent, ~ Settled(r), RecvOk \/ RecvMalformed \/ RecvOversize \/ Emit
  PROVE  RequestLeft(r)' < RequestLeft(r)
<1> USE WaitingPlace
<1>1. fails \in 0 .. RecvFailureThreshold /\ RecvFailureThreshold \in Nat
  BY DEF IInv, TypeOK
<1>2. CASE RecvOk
  <2>1. InBox(r) /\ phase = "recv" /\ RequestLeft(r) >= 4
    BY <1>1, <1>2 DEF RecvOk, InHand, RequestLeft, ToReceive
  <2>2. InHand(r)' /\ phase' = "dispatch"
    BY <1>2, <2>1 DEF RecvOk, InHand, InBox
  <2>3. RequestLeft(r)' \in {0, 2}
    BY <2>2 DEF RequestLeft
  <2>4. RequestLeft(r) \in Nat
    BY WaitBound
  <2> QED
    BY <2>1, <2>3, <2>4
<1>3. CASE RecvMalformed
  <2>1. InBox(r) /\ ~ InHand(r) /\ phase = "recv" /\ RequestLeft(r) >= 4
    BY <1>1, <1>3 DEF RecvMalformed, InHand, RequestLeft, ToReceive
  <2>2. Settled(r)'
    BY <1>3, <2>1 DEF RecvMalformed, Settled
  <2> QED
    BY <1>1, <2>1, <2>2 DEF RequestLeft, ToReceive
<1>4. CASE RecvOversize
  <2>1. InBox(r) /\ ~ InHand(r) /\ ~ InHand(r)' /\ phase = "recv" /\ phase' \in {"recv", "sos"}
    BY <1>4 DEF RecvOversize, InHand
  <2>2. fails' = fails + 1 /\ ~ Settled(r)'
    BY <1>4 DEF RecvOversize, Settled, busVars
  <2> QED
    BY <1>1, <2>1, <2>2 DEF RequestLeft, ToReceive
<1>5. CASE Emit
  <2>1. CASE InHand(r)
    <3>1. Settled(r)'
      BY <1>5, <2>1 DEF Emit, InHand, Settled
    <3> QED
      BY <1>5, <2>1, <3>1 DEF RequestLeft, Emit
  <2>2. CASE ~ InHand(r)
    <3>1. ~ Settled(r)' /\ ~ InHand(r)' /\ fails' = fails /\ phase' = "post" /\ phase = "emit"
      BY <1>5, <2>2 DEF Emit, InHand, Settled
    <3> QED
      BY <1>1, <2>2, <3>1 DEF RequestLeft, ToReceive
  <2> QED
    BY <2>1, <2>2
<1> QED
  BY <1>2, <1>3, <1>4, <1>5

\* What clients do to a waiting request: nothing, or they read it.
LEMMA ClientsDoNotDelay ==
  ASSUME IInv, NEW r \in sent, ~ Settled(r),
         ClientRecv \/ (\E q \in Requests : Send(q)) \/ UNCHANGED vars
  PROVE  RequestLeft(r)' <= RequestLeft(r)
<1>1. /\ UNCHANGED <<phase, cur, fails, status, answers, ignored>>
      /\ taken \subseteq taken'
  BY DEF ClientRecv, Send, vars, busVars
<1>2. RequestLeft(r) \in Nat
  BY WaitBound
<1>3. CASE Settled(r)'
  BY <1>2, <1>3 DEF RequestLeft
<1>4. CASE ~ Settled(r)'
  <2>1. RequestLeft(r)' = RequestLeft(r)
    BY <1>1, <1>4 DEF RequestLeft, InHand, ToReceive
  <2> QED
    BY <1>2, <2>1
<1> QED
  BY <1>3, <1>4

\* No step takes an outcome back.
LEMMA SettledStays ==
  ASSUME IInv, [Next]_vars, NEW r \in sent, Settled(r)
  PROVE  Settled(r)'
<1>1. r \in Requests /\ answers[r] \in Nat /\ (status # "running" => phase = "halt")
  BY DEF IInv, TypeOK
<1>2. CASE ClientRecv \/ (\E q \in Requests : Send(q)) \/ UNCHANGED vars
  BY <1>2 DEF ClientRecv, Send, vars, busVars, Settled
<1>3. CASE InitStep
  <2>1. answers'[r] = answers[r] \/ answers'[r] = answers[r] + 1
    BY <1>1, <1>3 DEF InitStep, EmitInitReady, RecvOk, RecvMalformed, RecvOversize, Dispatch, Emit,
       Post, SelfHalt, busVars
  <2>2. taken' = taken /\ ignored \subseteq ignored'
    BY <1>3 DEF InitStep, EmitInitReady, RecvOk, RecvMalformed, RecvOversize, Dispatch, Emit,
       Post, SelfHalt, busVars
  <2>3. phase # "halt"
    BY <1>3 DEF InitStep, EmitInitReady, RecvOk, RecvMalformed, RecvOversize, Dispatch, Emit,
       Post, SelfHalt
  <2> QED
    BY <1>1, <2>1, <2>2, <2>3 DEF Settled
<1> QED
  BY <1>2, <1>3 DEF Next

\* init settles every request within RecvFailureThreshold + 7 of its own steps:
\* neither clients nor the echoes of its own replies can put a request off.
THEOREM RequestsSettleInBoundedSteps == Spec => []WaitsAreBounded /\ [][WaitsShrink]_vars
<1>1. IInv => WaitsAreBounded
  BY WaitBound DEF WaitsAreBounded
<1>2. IInv /\ [Next]_vars => WaitsShrink
  <2> SUFFICES ASSUME IInv, [Next]_vars, NEW r \in sent, ~ Settled(r)
               PROVE  IF InitStep THEN RequestLeft(r)' < RequestLeft(r)
                                  ELSE RequestLeft(r)' <= RequestLeft(r)
    BY SettledStays DEF WaitsShrink
  <2>1. CASE ~ InitStep
    BY <2>1, ClientsDoNotDelay DEF Next
  <2>2. CASE RecvOk \/ RecvMalformed \/ RecvOversize \/ Emit
    BY <2>2, ReceiveMoves DEF InitStep
  <2>3. CASE EmitInitReady \/ Dispatch \/ Post \/ SelfHalt
    <3>1. InBox(r) \/ Dispatch
      BY <2>3, WaitingPlace DEF InHand, EmitInitReady, Post, SelfHalt
    <3> QED
      BY <2>3, <3>1, LoopMoves DEF InitStep
  <2> QED
    BY <2>1, <2>2, <2>3 DEF InitStep
<1> QED
  BY <1>1, <1>2, Invariance, PTL DEF Spec
-----------------------------------------------------------------------------
(* Which replies the hookwall lets through. *)

\* The reply that the module's header gives for a request of type t.
ProtocolReplies(t) ==
  CASE t = "PING" -> {"PONG"}
    [] t = "EXEC" -> {"EOKx", "EERR"}
    [] t = "SHTD" -> {"FINI"}
    [] t \in {"VERS", "PIDA"} -> {t}
    [] OTHER -> {"UNKN"}

\* Whatever the number of hookwall slots: a dispatch of an envelope whose first
\* byte is a slot gives the protocol's reply, every other gives BLOK, and init
\* shuts down on request only if the S of SHTD is a slot.
RepliesBySlot ==
  /\ phase \in {"emit", "post"} =>
       reply \in IF FirstByte[cur.type] < HookwallSlotCount THEN ProtocolReplies(cur.type) ELSE {"BLOK"}
  /\ status = "exit0" => FirstByte["SHTD"] < HookwallSlotCount

LEMMA DispatchReplies ==
  ASSUME NEW t PROVE ReplyType(t) \in ProtocolReplies(t)
  BY DEF ReplyType, ProtocolReplies

LEMMA OnlyShutdownFinishes ==
  ASSUME NEW t \in DOMAIN FirstByte, "FINI" \in ProtocolReplies(t) PROVE t = "SHTD"
  BY DEF ProtocolReplies

LEMMA RepliesStep == IInv /\ RepliesBySlot /\ [Next]_vars => RepliesBySlot'
<1> SUFFICES ASSUME IInv, RepliesBySlot, [Next]_vars PROVE RepliesBySlot'
  OBVIOUS
<1>0. phase \in {"dispatch", "emit", "post"} => cur \in Envelopes /\ cur.type \in DOMAIN FirstByte
  BY DEF IInv, TypeOK, Envelopes
<1>1. CASE UNCHANGED vars \/ ClientRecv \/ \E r \in Requests : Send(r)
  BY <1>1 DEF vars, ClientRecv, Send, RepliesBySlot
<1>2. CASE EmitInitReady \/ RecvOk \/ RecvMalformed \/ RecvOversize
  BY <1>2 DEF EmitInitReady, RecvOk, RecvMalformed, RecvOversize, RepliesBySlot
<1>3. CASE Dispatch
  BY <1>3, DispatchReplies DEF Dispatch, Verdict, RepliesBySlot
<1>4. CASE Emit
  BY <1>4 DEF Emit, RepliesBySlot
<1>5. CASE Post
  <2>1. CASE reply = "FINI"
    <3>1. FirstByte[cur.type] < HookwallSlotCount /\ "FINI" \in ProtocolReplies(cur.type)
      BY <1>5, <2>1 DEF Post, RepliesBySlot
    <3>2. cur.type = "SHTD"
      BY <1>0, <1>5, <3>1, OnlyShutdownFinishes DEF Post
    <3> QED
      BY <1>5, <2>1, <3>1, <3>2 DEF Post, RepliesBySlot
  <2>2. CASE reply # "FINI"
    BY <1>5, <2>2 DEF Post, RepliesBySlot
  <2> QED
    BY <2>1, <2>2
<1>6. CASE SelfHalt
  BY <1>6 DEF SelfHalt, RepliesBySlot
<1> QED
  BY <1>1, <1>2, <1>3, <1>4, <1>5, <1>6 DEF Next, InitStep

\* The scope of the finding of init_protocol: what dispatch_envelope replies is
\* decided by the slot count alone.  With the 64 slots of the code every
\* envelope that starts with a letter is answered BLOK and SHTD never ends init;
\* the protocol of the header needs more slots than the V of VERS.
THEOREM RepliesDependOnSlots ==
  Spec => []( /\ RepliesBySlot
              /\ HookwallSlotCount <= 64 =>
                   /\ phase = "emit" /\ cur.type # "RAW" => reply = "BLOK"
                   /\ status # "exit0"
              /\ HookwallSlotCount > 86 => RepliesFollowProtocol )
<1> DEFINE Scope ==
      /\ RepliesBySlot
      /\ HookwallSlotCount <= 64 =>
           /\ phase = "emit" /\ cur.type # "RAW" => reply = "BLOK"
           /\ status # "exit0"
      /\ HookwallSlotCount > 86 => RepliesFollowProtocol
<1>1. Init => RepliesBySlot
  BY DEF Init, RepliesBySlot
<1>2. IInv /\ RepliesBySlot => Scope
  <2> SUFFICES ASSUME IInv, RepliesBySlot PROVE Scope
    OBVIOUS
  <2>1. phase = "emit" => cur.type \in DOMAIN FirstByte
    BY DEF IInv, TypeOK, Envelopes
  <2>2. \A t \in DOMAIN FirstByte :
          FirstByte[t] \in 0 .. 86 /\ (t # "RAW" => FirstByte[t] > 64)
    BY TypeNames DEF FirstByte
  <2>3. ASSUME HookwallSlotCount <= 64
        PROVE  (phase = "emit" /\ cur.type # "RAW" => reply = "BLOK") /\ status # "exit0"
    <3>1. FirstByte["SHTD"] > 64 /\ FirstByte["SHTD"] \in 0 .. 86
      BY <2>2, TypeNames
    <3>2. status # "exit0"
      BY <2>3, <3>1 DEF RepliesBySlot
    <3>3. ASSUME phase = "emit", cur.type # "RAW" PROVE reply = "BLOK"
      <4>1. ~ FirstByte[cur.type] < HookwallSlotCount
        BY <2>1, <2>2, <2>3, <3>3
      <4> QED BY <3>3, <4>1 DEF RepliesBySlot
    <3> QED BY <3>2, <3>3
  <2>4. ASSUME HookwallSlotCount > 86 PROVE RepliesFollowProtocol
    <3> SUFFICES ASSUME phase = "emit" PROVE RepliesFollowProtocol
      BY DEF RepliesFollowProtocol
    <3>1. FirstByte[cur.type] < HookwallSlotCount
      BY <2>1, <2>2, <2>4
    <3>2. reply \in ProtocolReplies(cur.type)
      BY <3>1 DEF RepliesBySlot
    <3> QED BY <3>2 DEF ProtocolReplies, RepliesFollowProtocol
  <2> QED BY <2>3, <2>4
<1> QED
  BY <1>1, <1>2, RepliesStep, Invariance, PTL DEF Spec
=============================================================================
