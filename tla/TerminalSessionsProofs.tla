----------------------- MODULE TerminalSessionsProofs -----------------------
(***************************************************************************)
(* Proofs about TerminalSessions for any number of connections, sessions,  *)
(* bytes and pipe sizes.  The argument is about who can still insert an    *)
(* id, who holds the map's mutex and which children still run.             *)
(***************************************************************************)
EXTENDS TerminalSessions, SequenceTheorems, FiniteSetTheorems, TLAPS

USE TerminalAssumption

-----------------------------------------------------------------------------
(* The inductive invariant *)

\* A value with the fields of a request.
IsRequest(x) ==
  x = [pc |-> x.pc, kind |-> x.kind, id |-> x.id, left |-> x.left, offset |-> x.offset,
       chunk |-> x.chunk, alive |-> x.alive, ticks |-> x.ticks, sent |-> x.sent,
       reply |-> x.reply]

IsSession(x) ==
  x = [child |-> x.child, pipe |-> x.pipe, written |-> x.written, pumped |-> x.pumped,
       out |-> x.out]

ShapeInv ==
  /\ DOMAIN req = Requests /\ \A r \in Requests : IsRequest(req[r])
  /\ DOMAIN session = Ids /\ \A i \in Ids : IsSession(session[i])

\* A spawn has taken id i and not inserted it yet.
Pending(i) == \E r \in Requests : At(r, "spawn", "insert") /\ req[r].id = i

\* Id i was handed out and nobody will insert it any more.
Settled(i) == i \in Ids /\ i < nextId /\ ~Pending(i)

Dead(i) == Settled(i) /\ i \notin map /\ session[i].child # "running"

\* Ids are handed out once: those to come have no child, those in the map are
\* settled, and an id is inserted by one spawn at most.
IdInv ==
  /\ nextId \in Nat
  /\ \A i \in Ids : i >= nextId => session[i].child = "absent"
  /\ \A i \in map : Settled(i)
  /\ \A r \in Requests : At(r, "spawn", "insert") => req[r].id \in Ids /\ req[r].id < nextId
  /\ \A r, q \in Requests :
       At(r, "spawn", "insert") /\ At(q, "spawn", "insert") /\ req[r].id = req[q].id => r = q

\* The map's mutex is held exactly by the input that writes and the kill that
\* has removed its session.
Holds(r) == At(r, "input", "write") \/ At(r, "kill", "kill")

LockInv == lock \in Requests \cup {Free} /\ \A r \in Requests : Holds(r) <=> lock = r

InStream(x) == x.kind = "stream" /\ x.pc \in {"chunk", "alive", "send"}

\* What one request may be sure of: a stream that its id is settled, and that
\* the child is dead once it has seen the session gone.
Sure(x) ==
  /\ InStream(x) => Settled(x.id)
  /\ x.kind = "stream" /\ x.pc = "send" /\ ~x.alive => Dead(x.id)
  /\ x.reply = <<"end">> => Dead(x.id)
  /\ x.pc # "done" => x.reply = <<>>

StreamInv == \A r \in Requests : Sure(req[r])

Inv == ShapeInv /\ IdInv /\ LockInv /\ StreamInv /\ ChildrenReachable

-----------------------------------------------------------------------------
(* Steps of one request *)

\* Only r's thread moves.
OnlyMoves(r) ==
  /\ DOMAIN req' = Requests /\ IsRequest(req'[r])
  /\ \A q \in Requests : q # r => req'[q] = req[q]

\* What a reply leaves of a request.
LEMMA RespondFacts ==
  ASSUME ShapeInv, NEW r \in Requests, NEW reply, Respond(r, reply)
  PROVE  /\ OnlyMoves(r) /\ req'[r].pc = "done" /\ req'[r].kind = req[r].kind
         /\ req'[r].id = req[r].id /\ req'[r].sent = req[r].sent
         /\ req'[r].reply = reply /\ req'[r].chunk = <<>> /\ req'[r].offset = 0
<1> DEFINE Idle(t) == [pc |-> "idle", kind |-> "none", id |-> 0, left |-> 0, offset |-> 0,
                       chunk |-> <<>>, alive |-> t, ticks |-> 0, sent |-> <<>>,
                       reply |-> <<>>]
           x == [IdleRequest EXCEPT !.pc = "done", !.kind = req[r].kind, !.id = req[r].id,
                                    !.sent = req[r].sent, !.reply = reply]
<1>0. PICK t : IdleRequest = Idle(t)
  BY Zenon DEF IdleRequest
<1> DEFINE x1 == [IdleRequest EXCEPT !.pc = "done"]
           x2 == [x1 EXCEPT !.kind = req[r].kind]
           x3 == [x2 EXCEPT !.id = req[r].id]
           x4 == [x3 EXCEPT !.sent = req[r].sent]
           x5 == [x4 EXCEPT !.reply = reply]
<1>a. x = x5
  BY Zenon
<1>b. IsRequest(IdleRequest) /\ IdleRequest.chunk = <<>> /\ IdleRequest.offset = 0
  <2>1. IsRequest(Idle(t)) /\ Idle(t).chunk = <<>> /\ Idle(t).offset = 0
    BY ONLY DEF IsRequest
  <2> QED BY ONLY <1>0, <2>1, Zenon
<1> HIDE DEF Idle
<1>c. IsRequest(x1) /\ x1.chunk = <<>> /\ x1.offset = 0 /\ x1.pc = "done"
  BY ONLY <1>b DEF IsRequest
<1> HIDE DEF x1
<1>d. IsRequest(x2) /\ x2.chunk = <<>> /\ x2.offset = 0 /\ x2.pc = "done" /\ x2.kind = req[r].kind
  BY ONLY <1>c DEF IsRequest
<1> HIDE DEF x2
<1>e. IsRequest(x3) /\ x3.chunk = <<>> /\ x3.offset = 0 /\ x3.pc = "done" /\ x3.kind = req[r].kind /\ x3.id = req[r].id
  BY ONLY <1>d DEF IsRequest
<1> HIDE DEF x3
<1>f. /\ IsRequest(x4) /\ x4.chunk = <<>> /\ x4.offset = 0 /\ x4.pc = "done" /\ x4.kind = req[r].kind /\ x4.id = req[r].id
      /\ x4.sent = req[r].sent
  BY ONLY <1>e DEF IsRequest
<1> HIDE DEF x4
<1>g. /\ IsRequest(x5) /\ x5.chunk = <<>> /\ x5.offset = 0 /\ x5.pc = "done" /\ x5.kind = req[r].kind /\ x5.id = req[r].id
      /\ x5.sent = req[r].sent /\ x5.reply = reply
  BY ONLY <1>f DEF IsRequest
<1> HIDE DEF x5, x
<1>1. /\ IsRequest(x) /\ x.chunk = <<>> /\ x.offset = 0 /\ x.pc = "done" /\ x.kind = req[r].kind /\ x.id = req[r].id
      /\ x.sent = req[r].sent /\ x.reply = reply
  BY <1>a, <1>g, Zenon
<1>2. req' = [req EXCEPT ![r] = x]
  BY Zenon DEF Respond, x
<1>3. DOMAIN req = Requests
  BY DEF ShapeInv
<1>4. DOMAIN req' = Requests /\ req'[r] = x /\ \A q \in Requests : q # r => req'[q] = req[q]
  BY <1>2, <1>3
<1> QED BY <1>1, <1>4 DEF OnlyMoves

\* A step that neither takes an id, nor inserts one, nor takes or gives back the
\* mutex, nor touches a child.
Quiet(r) ==
  /\ UNCHANGED <<nextId, map, lock, session>> /\ OnlyMoves(r)
  /\ ~At(r, "spawn", "insert") /\ ~At(r, "spawn", "insert")'
  /\ ~Holds(r) /\ ~Holds(r)'

LEMMA QuietKeeps ==
  ASSUME Inv, NEW r \in Requests, Quiet(r), Sure(req'[r])
  PROVE  Inv'
<1>1. /\ UNCHANGED <<nextId, map, lock, session>> /\ DOMAIN req' = Requests
      /\ IsRequest(req'[r]) /\ \A q \in Requests : q # r => req'[q] = req[q]
  BY DEF Quiet, OnlyMoves
<1>2. /\ ~At(r, "spawn", "insert") /\ ~At(r, "spawn", "insert")'
      /\ ~Holds(r) /\ ~Holds(r)'
  BY DEF Quiet
<1>3. \A q \in Requests : /\ At(q, "spawn", "insert")' <=> At(q, "spawn", "insert")
                          /\ At(q, "kill", "kill")' <=> At(q, "kill", "kill")
                          /\ Holds(q)' <=> Holds(q)
                          /\ At(q, "spawn", "insert") \/ At(q, "kill", "kill") => req'[q] = req[q]
  BY <1>1, <1>2 DEF At, Holds
<1>4. \A i : Pending(i)' <=> Pending(i)
  BY <1>3 DEF Pending
<1>5. \A i : (Settled(i)' <=> Settled(i)) /\ (Dead(i)' <=> Dead(i))
  BY <1>1, <1>4 DEF Settled, Dead
<1>6. ShapeInv'
  BY <1>1 DEF Inv, ShapeInv
<1>7. IdInv'
  BY <1>1, <1>3, <1>5 DEF Inv, IdInv
<1>8. LockInv'
  BY <1>1, <1>3 DEF Inv, LockInv
<1>9. StreamInv'
  <2> SUFFICES ASSUME NEW q \in Requests PROVE Sure(req[q])'
    BY DEF StreamInv
  <2>1. Sure(req'[q])
    BY <1>1 DEF Inv, StreamInv
  <2> QED BY <1>5, <2>1 DEF Sure
<1>10. ChildrenReachable'
  BY <1>1, <1>3 DEF Inv, ChildrenReachable
<1> QED BY <1>6, <1>7, <1>8, <1>9, <1>10 DEF Inv

-----------------------------------------------------------------------------
(* What no step undoes *)

\* Ids are only handed out in order, inserted by the spawn that took them, and
\* a child that was started and does not run never runs again.
Forward ==
  /\ nextId' \in Nat /\ nextId <= nextId'
  /\ \A q \in Requests : At(q, "spawn", "insert")' =>
       (At(q, "spawn", "insert") /\ req'[q].id = req[q].id) \/ req'[q].id = nextId
  /\ \A i \in map' : i \in map \/ Pending(i)
  /\ \A i \in Ids : i < nextId /\ session'[i].child = "running" => session[i].child = "running"

LEMMA DeadStaysDead ==
  ASSUME Inv, Forward
  PROVE  \A i : (Settled(i) => Settled(i)') /\ (Dead(i) => Dead(i)')
<1>1. nextId \in Nat
  BY DEF Inv, IdInv
<1> TAKE i
<1>2. Settled(i) => Settled(i)'
  <2> SUFFICES ASSUME Settled(i) PROVE ~Pending(i)' /\ i < nextId'
    BY DEF Settled, Ids
  <2>1. i \in Nat /\ i < nextId
    BY DEF Settled, Ids
  <2> QED BY <1>1, <2>1 DEF Forward, Settled, Pending
<1>3. Dead(i) => Dead(i)'
  BY <1>2 DEF Forward, Dead, Settled
<1> QED BY <1>2, <1>3

\* The streams' knowledge survives a step of r that is sure of itself.
LEMMA OthersStaySure ==
  ASSUME Inv, Forward, NEW r \in Requests, OnlyMoves(r), Sure(req[r])'
  PROVE  StreamInv'
<1> SUFFICES ASSUME NEW q \in Requests PROVE Sure(req[q])'
  BY DEF StreamInv
<1>1. \A i : (Settled(i) => Settled(i)') /\ (Dead(i) => Dead(i)')
  BY DeadStaysDead
<1>2. Sure(req[q])
  BY DEF Inv, StreamInv
<1>3. CASE q = r
  BY <1>3
<1>4. CASE q # r
  <2>1. req'[q] = req[q]
    BY <1>4 DEF OnlyMoves
  <2> QED BY <1>1, <1>2, <2>1 DEF Sure
<1> QED BY <1>3, <1>4

-----------------------------------------------------------------------------
(* The initial state and the quiet actions *)

LEMMA InitHolds == TInit => Inv
<1> SUFFICES ASSUME TInit PROVE Inv
  OBVIOUS
<1>1. /\ \A r \in Requests : req[r] = IdleRequest /\ req[r].pc = "idle" /\ req[r].reply = <<>>
      /\ \A i \in Ids : session[i] = NoSession /\ session[i].child = "absent"
  BY DEF TInit, IdleRequest, NoSession
<1>2. ShapeInv
  <2>1. \A r \in Requests : IsRequest(req[r])
    BY <1>1 DEF IdleRequest, IsRequest
  <2>2. \A i \in Ids : IsSession(session[i])
    BY <1>1 DEF NoSession, IsSession
  <2> QED BY <2>1, <2>2 DEF TInit, ShapeInv
<1>3. IdInv
  BY <1>1 DEF TInit, IdInv, At
<1>4. LockInv
  BY <1>1 DEF TInit, LockInv, Holds, At
<1>5. StreamInv
  <2>1. <<>> # <<"end">>
    OBVIOUS
  <2> QED BY <1>1, <2>1, Zenon DEF StreamInv, Sure, InStream
<1>6. ChildrenReachable
  BY <1>1 DEF ChildrenReachable
<1> QED BY <1>2, <1>3, <1>4, <1>5, <1>6 DEF Inv

\* A thread that answers anything but "end" without having held the mutex.
LEMMA QuietReply ==
  ASSUME Inv, NEW r \in Requests, NEW reply, Respond(r, reply), reply # <<"end">>,
         UNCHANGED <<nextId, map, lock, session>>,
         ~At(r, "spawn", "insert"), ~Holds(r)
  PROVE  Inv'
<1>1. OnlyMoves(r) /\ req'[r].pc = "done" /\ req'[r].reply = reply
  BY RespondFacts DEF Inv
<1>2. Quiet(r)
  BY <1>1 DEF Quiet, At, Holds
<1>3. Sure(req'[r])
  BY <1>1 DEF Sure, InStream
<1> QED BY <1>2, <1>3, QuietKeeps

LEMMA IdleSteps ==
  ASSUME Inv, NEW r \in Requests, DropConnection(r) \/ Accept(r) \/ ServeStatic(r)
  PROVE  Inv'
<1>1. /\ req[r].pc = "idle" /\ ~At(r, "spawn", "insert") /\ ~Holds(r)
      /\ UNCHANGED <<nextId, map, lock, session>> /\ req[r].reply = <<>>
      /\ IsRequest(req[r]) /\ DOMAIN req = Requests
  BY DEF Inv, DropConnection, Accept, ServeStatic, At, Holds, StreamInv, Sure, ShapeInv
<1>2. CASE DropConnection(r)
  BY <1>1, <1>2, QuietReply DEF DropConnection
<1>3. CASE Accept(r)
  <2>1. PICK k \in {"spawn", "input", "kill", "stream"}, q \in Queries :
         req' = [req EXCEPT ![r].pc = "start", ![r].kind = k,
                            ![r].id = IF k = "spawn" THEN 0 ELSE QueryId(q),
                            ![r].left = IF k = "input" THEN BodyLen ELSE 0]
    BY <1>3 DEF Accept
  <2>2. OnlyMoves(r) /\ req'[r].pc = "start" /\ req'[r].reply = <<>>
    BY <1>1, <2>1 DEF OnlyMoves, IsRequest
  <2>3. Quiet(r) /\ Sure(req'[r])
    BY <1>1, <2>2 DEF Quiet, At, Holds, Sure, InStream
  <2> QED BY <2>3, QuietKeeps
<1>4. CASE ServeStatic(r)
  <2>1. PICK e \in Envs, p \in Probes :
         \/ Respond(r, <<"page", SeatName(e)>>)
         \/ Respond(r, LiveStatus(e, p))
         \/ \E env \in {"sandbox", "explorer", "failed"} : Respond(r, <<"launch", env>>)
         \/ Respond(r, <<"404">>)
    BY <1>4, Zenon DEF ServeStatic
  <2>2. PICK reply : Respond(r, reply) /\ reply # <<"end">>
    <3>1. LiveStatus(e, p) # <<"end">>
      BY DEF LiveStatus
    <3>2. \A u, v : <<u, v>> # <<"end">>
      OBVIOUS
    <3>3. <<"404">> # <<"end">>
      OBVIOUS
    <3> QED BY <2>1, <3>1, <3>2, <3>3, Zenon
  <2> QED BY <1>1, <2>2, QuietReply
<1> QED BY <1>2, <1>3, <1>4

\* A stream opens on a session in the map, so on a settled id; what it sees
\* gone under a free mutex is dead: nobody is between removing and killing it.
LEMMA StreamSteps ==
  ASSUME Inv, NEW r \in Requests,
         StreamOpen(r) \/ StreamChunk(r) \/ StreamAlive(r) \/ StreamSend(r)
  PROVE  Inv'
<1>1. /\ req[r].kind = "stream" /\ req[r].pc \in {"start", "chunk", "alive", "send"}
      /\ UNCHANGED <<nextId, map, lock, session>> /\ req[r].reply = <<>>
      /\ IsRequest(req[r]) /\ DOMAIN req = Requests
      /\ Sure(req[r])
  BY DEF Inv, StreamOpen, StreamChunk, StreamAlive, StreamSend, At, StreamInv, Sure, ShapeInv
<1>2. ~At(r, "spawn", "insert") /\ ~Holds(r)
  BY <1>1 DEF At, Holds
<1>3. \A m : OnlyMoves(r) /\ req'[r].kind = "stream" /\ req'[r].pc = m => Quiet(r)
  BY <1>1, <1>2 DEF Quiet, At, Holds
<1>4. CASE StreamOpen(r)
  <2>1. CASE req[r].id \in map /\ req' = [req EXCEPT ![r].pc = "chunk"]
    <3>1. /\ OnlyMoves(r) /\ req'[r].pc = "chunk" /\ req'[r].kind = "stream"
          /\ req'[r].id = req[r].id /\ req'[r].reply = <<>>
      BY <1>1, <2>1 DEF OnlyMoves, IsRequest
    <3>2. Settled(req[r].id)
      BY <2>1 DEF Inv, IdInv
    <3>3. Sure(req'[r])
      BY <3>1, <3>2 DEF Sure
    <3> QED BY <1>3, <3>1, <3>3, QuietKeeps
  <2>2. CASE Respond(r, <<"broken">>)
    BY <1>1, <1>2, <2>2, QuietReply
  <2>3. CASE Respond(r, <<"404">>)
    BY <1>1, <1>2, <2>3, QuietReply
  <2> QED BY <1>4, <2>1, <2>2, <2>3 DEF StreamOpen
<1>5. CASE StreamChunk(r)
  <2>1. /\ OnlyMoves(r) /\ req'[r].pc = "alive" /\ req'[r].kind = "stream"
        /\ req'[r].id = req[r].id /\ req'[r].reply = <<>>
    BY <1>1, <1>5 DEF StreamChunk, OnlyMoves, IsRequest
  <2>2. Settled(req[r].id)
    BY <1>1, <1>5 DEF StreamChunk, At, Sure, InStream
  <2>3. Sure(req'[r])
    BY <2>1, <2>2 DEF Sure
  <2> QED BY <1>3, <2>1, <2>3, QuietKeeps
<1>6. CASE StreamAlive(r)
  <2>1. /\ OnlyMoves(r) /\ req'[r].pc = "send" /\ req'[r].kind = "stream"
        /\ req'[r].id = req[r].id /\ req'[r].reply = <<>>
        /\ req'[r].alive = (req[r].id \in map)
    BY <1>1, <1>6 DEF StreamAlive, OnlyMoves, IsRequest
  <2>2. Settled(req[r].id)
    BY <1>1, <1>6 DEF StreamAlive, At, Sure, InStream
  <2>3. req[r].id \notin map => Dead(req[r].id)
    <3>1. \A q \in Requests : ~At(q, "kill", "kill")
      BY <1>6 DEF StreamAlive, Inv, LockInv, Holds
    <3> QED BY <2>2, <3>1 DEF Inv, ChildrenReachable, Dead, Settled, Pending
  <2>4. Sure(req'[r])
    <3>1. ~req'[r].alive => req[r].id \notin map
      BY <2>1, Zenon
    <3> QED BY <2>1, <2>2, <2>3, <3>1 DEF Sure
  <2> QED BY <1>3, <2>1, <2>4, QuietKeeps
<1>7. CASE StreamSend(r)
  <2>0. req[r].pc = "send" /\ Settled(req[r].id) /\ (~req[r].alive => Dead(req[r].id))
    BY <1>1, <1>7 DEF StreamSend, At, Sure, InStream
  <2>1. CASE req' = [req EXCEPT ![r].pc = "chunk", ![r].ticks = 0, ![r].chunk = <<>>,
                                ![r].sent = @ \o Atob(Base64(req[r].chunk))]
    <3>1. /\ OnlyMoves(r) /\ req'[r].pc = "chunk" /\ req'[r].kind = "stream"
          /\ req'[r].id = req[r].id /\ req'[r].reply = <<>>
      BY <1>1, <2>1 DEF OnlyMoves, IsRequest
    <3>2. Sure(req'[r])
      BY <2>0, <3>1 DEF Sure
    <3> QED BY <1>3, <3>1, <3>2, QuietKeeps
  <2>2. CASE req' = [req EXCEPT ![r].pc = "chunk", ![r].ticks = (@ + 1) % KeepAlive]
    <3>1. /\ OnlyMoves(r) /\ req'[r].pc = "chunk" /\ req'[r].kind = "stream"
          /\ req'[r].id = req[r].id /\ req'[r].reply = <<>>
      BY <1>1, <2>2 DEF OnlyMoves, IsRequest
    <3>2. Sure(req'[r])
      BY <2>0, <3>1 DEF Sure
    <3> QED BY <1>3, <3>1, <3>2, QuietKeeps
  <2>3. CASE Respond(r, <<"broken">>)
    BY <1>1, <1>2, <2>3, QuietReply
  <2>4. CASE ~req[r].alive /\ Respond(r, <<"end">>)
    <3>1. /\ OnlyMoves(r) /\ req'[r].pc = "done" /\ req'[r].kind = "stream"
          /\ req'[r].id = req[r].id
      BY <1>1, <2>4, RespondFacts DEF Inv
    <3>2. Sure(req'[r])
      BY <2>0, <2>4, <3>1 DEF Sure, InStream
    <3> QED BY <1>3, <3>1, <3>2, QuietKeeps
  <2> QED BY <1>7, <2>1, <2>2, <2>3, <2>4, Zenon DEF StreamSend
<1> QED BY <1>4, <1>5, <1>6, <1>7

-----------------------------------------------------------------------------
(* The actions that move ids, the mutex or a child *)

LEMMA SpawnSteps ==
  ASSUME Inv, NEW r \in Requests, SpawnChild(r) \/ SpawnInsert(r)
  PROVE  Inv'
<1>1. /\ req[r].kind = "spawn" /\ req[r].reply = <<>> /\ IsRequest(req[r])
      /\ DOMAIN req = Requests /\ nextId \in Nat /\ DOMAIN session = Ids
      /\ \A i \in Ids : IsSession(session[i])
  BY DEF Inv, SpawnChild, SpawnInsert, At, StreamInv, Sure, ShapeInv, IdInv
<1>2. CASE SpawnChild(r)
  <2>1. /\ OnlyMoves(r) /\ req'[r].pc = "insert" /\ req'[r].kind = "spawn"
        /\ req'[r].id = nextId /\ req'[r].reply = <<>>
    BY <1>1, <1>2 DEF SpawnChild, OnlyMoves, IsRequest
  <2>2. /\ nextId \in Ids /\ nextId' = nextId + 1 /\ map' = map /\ lock' = lock
        /\ req[r].pc = "start"
    BY <1>2 DEF SpawnChild, At
  <2>3. /\ DOMAIN session' = Ids /\ IsSession(session'[nextId])
        /\ \A i \in Ids : i # nextId => session'[i] = session[i]
    <3>1. CASE session' = [session EXCEPT ![nextId].child = "running"]
      BY <1>1, <2>2, <3>1 DEF IsSession
    <3>2. CASE session' = [session EXCEPT ![nextId].child = "failed",
                                          ![nextId].out = SpawnError]
      BY <1>1, <2>2, <3>2 DEF IsSession
    <3> QED BY <1>2, <3>1, <3>2 DEF SpawnChild
  <2>4. \A q \in Requests : /\ At(q, "spawn", "insert")' <=> At(q, "spawn", "insert") \/ q = r
                            /\ At(q, "kill", "kill")' <=> At(q, "kill", "kill")
                            /\ Holds(q)' <=> Holds(q)
                            /\ q # r => req'[q] = req[q]
                            /\ ~At(r, "spawn", "insert") /\ ~At(r, "kill", "kill")
    BY <1>1, <2>1, <2>2 DEF At, Holds, OnlyMoves
  <2>5. Forward
    BY <1>1, <2>1, <2>2, <2>3, <2>4 DEF Forward, Ids
  <2>6. ShapeInv'
    BY <1>1, <2>1, <2>3 DEF OnlyMoves, Inv, ShapeInv
  <2>7. IdInv'
    <3>1. \A i \in map' : Settled(i)'
      BY <2>2, <2>5, DeadStaysDead DEF Inv, IdInv
    <3>2. \A q \in Requests : At(q, "spawn", "insert") => req[q].id \in Ids /\ req[q].id < nextId
      BY DEF Inv, IdInv
    <3>3. \A q \in Requests : At(q, "spawn", "insert")' => req'[q].id \in Ids /\ req'[q].id < nextId'
      BY <1>1, <2>1, <2>2, <2>4, <3>2 DEF Ids
    <3>4. \A p, q \in Requests :
            At(p, "spawn", "insert")' /\ At(q, "spawn", "insert")' /\ req'[p].id = req'[q].id => p = q
      <4> SUFFICES ASSUME NEW p \in Requests, NEW q \in Requests, At(p, "spawn", "insert")',
                          At(q, "spawn", "insert")', req'[p].id = req'[q].id, p # q
                   PROVE  FALSE
        OBVIOUS
      <4>1. CASE p # r /\ q # r
        BY <2>4, <4>1 DEF Inv, IdInv
      <4>2. CASE p = r
        BY <1>1, <2>1, <2>4, <3>2, <4>2 DEF Ids
      <4>3. CASE q = r
        BY <1>1, <2>1, <2>4, <3>2, <4>3 DEF Ids
      <4> QED BY <4>1, <4>2, <4>3
    <3>5. \A i \in Ids : i >= nextId' => session'[i].child = "absent"
      BY <1>1, <2>2, <2>3 DEF Inv, IdInv, Ids
    <3> QED BY <1>1, <2>2, <3>1, <3>3, <3>4, <3>5 DEF IdInv
  <2>8. LockInv'
    BY <2>2, <2>4 DEF Inv, LockInv
  <2>9. StreamInv'
    <3>1. Sure(req[r])'
      BY <2>1 DEF Sure, InStream
    <3> QED BY <2>1, <2>5, <3>1, OthersStaySure
  <2>10. ChildrenReachable'
    <3> SUFFICES ASSUME NEW i \in Ids, session'[i].child = "running"
                 PROVE  \/ i \in map'
                        \/ \E q \in Requests : At(q, "spawn", "insert")' /\ req'[q].id = i
                        \/ \E q \in Requests : At(q, "kill", "kill")' /\ req'[q].id = i
      BY DEF ChildrenReachable
    <3>1. CASE i = nextId
      BY <2>1, <2>4, <3>1
    <3>2. CASE i # nextId
      <4>1. session[i].child = "running"
        BY <2>3, <3>2
      <4> QED BY <2>2, <2>4, <4>1 DEF Inv, ChildrenReachable
    <3> QED BY <3>1, <3>2
  <2> QED BY <2>6, <2>7, <2>8, <2>9, <2>10 DEF Inv
<1>3. CASE SpawnInsert(r)
  <2>1. /\ OnlyMoves(r) /\ req'[r].pc = "done" /\ req'[r].kind = "spawn"
        /\ req'[r].id = req[r].id /\ req'[r].reply = <<"id", req[r].id>>
    BY <1>1, <1>3, RespondFacts DEF Inv, SpawnInsert
  <2>2. /\ nextId' = nextId /\ lock' = lock /\ session' = session
        /\ map' = map \cup {req[r].id} /\ At(r, "spawn", "insert")
    BY <1>3 DEF SpawnInsert
  <2>3. \A q \in Requests : /\ At(q, "spawn", "insert")' <=> At(q, "spawn", "insert") /\ q # r
                            /\ At(q, "kill", "kill")' <=> At(q, "kill", "kill")
                            /\ Holds(q)' <=> Holds(q)
                            /\ q # r => req'[q] = req[q]
                            /\ ~At(r, "kill", "kill")
    BY <1>1, <2>1, <2>2 DEF At, Holds, OnlyMoves
  <2>4. Forward
    BY <1>1, <2>1, <2>2, <2>3 DEF Forward, Pending
  <2>5. ShapeInv'
    BY <1>1, <2>1, <2>2 DEF OnlyMoves, Inv, ShapeInv
  <2>6. IdInv'
    <3>1. \A i : i = req[r].id => Settled(i)'
      <4> SUFFICES ASSUME NEW i, i = req[r].id PROVE Settled(i)'
        OBVIOUS
      <4>1. i \in Ids /\ i < nextId'
        BY <2>2 DEF Inv, IdInv
      <4>2. ~Pending(i)'
        <5> SUFFICES ASSUME NEW q \in Requests, At(q, "spawn", "insert")', req'[q].id = i
                     PROVE  FALSE
          BY DEF Pending
        <5> QED BY <2>2, <2>3 DEF Inv, IdInv
      <4> QED BY <4>1, <4>2 DEF Settled
    <3>2. \A i \in map' : Settled(i)'
      <4>1. \A i \in map : Settled(i)'
        BY <2>4, DeadStaysDead DEF Inv, IdInv
      <4> QED BY <2>2, <3>1, <4>1
    <3> QED BY <1>1, <2>2, <2>3, <3>2 DEF Inv, IdInv
  <2>7. LockInv'
    BY <2>2, <2>3 DEF Inv, LockInv
  <2>8. StreamInv'
    <3>1. Sure(req[r])'
      BY <2>1 DEF Sure, InStream
    <3> QED BY <2>1, <2>4, <3>1, OthersStaySure
  <2>9. ChildrenReachable'
    BY <2>2, <2>3 DEF Inv, ChildrenReachable
  <2> QED BY <2>5, <2>6, <2>7, <2>8, <2>9 DEF Inv
<1> QED BY <1>2, <1>3

\* An input or kill request takes or gives back the mutex: nothing pending
\* changes, and the only child it can touch is the one it kills.
LockMove(r) ==
  /\ OnlyMoves(r) /\ nextId' = nextId /\ map' \subseteq map
  /\ req[r].kind \in {"input", "kill"} /\ req'[r].kind = req[r].kind /\ req'[r].id = req[r].id
  /\ req'[r].reply # <<"end">> /\ (req'[r].pc # "done" => req'[r].reply = <<>>)
  /\ DOMAIN session' = Ids
  /\ \A i \in Ids : /\ IsSession(session'[i])
                    /\ session'[i].child = "running" => session[i].child = "running"
                    /\ session[i].child = "absent" => session'[i].child = "absent"
                    /\ session'[i].child = "running" /\ i \in map =>
                         i \in map' \/ (At(r, "kill", "kill")' /\ req'[r].id = i)
                    /\ session'[i].child = "running" => ~(At(r, "kill", "kill") /\ req[r].id = i)

LEMMA LockMoveKeeps ==
  ASSUME Inv, NEW r \in Requests, LockMove(r), LockInv'
  PROVE  Inv'
<1>1. /\ OnlyMoves(r) /\ nextId' = nextId /\ map' \subseteq map /\ nextId \in Nat
      /\ req[r].kind \in {"input", "kill"} /\ req'[r].kind = req[r].kind
      /\ req'[r].id = req[r].id
  BY DEF LockMove, Inv, IdInv
<1>2. \A q \in Requests : /\ At(q, "spawn", "insert")' <=> At(q, "spawn", "insert")
                          /\ q # r => req'[q] = req[q]
                          /\ q # r => (At(q, "kill", "kill")' <=> At(q, "kill", "kill"))
                          /\ At(q, "spawn", "insert") => q # r
  BY <1>1 DEF At, OnlyMoves
<1>3. Forward
  BY <1>1, <1>2 DEF Forward, LockMove
<1>4. ShapeInv'
  BY <1>1, <1>2 DEF OnlyMoves, Inv, ShapeInv, LockMove
<1>5. IdInv'
  <2>1. \A i \in map' : Settled(i)'
    BY <1>1, <1>3, DeadStaysDead DEF Inv, IdInv
  <2>2. \A i \in Ids : i >= nextId' => session'[i].child = "absent"
    BY <1>1 DEF Inv, IdInv, LockMove
  <2> QED BY <1>1, <1>2, <2>1, <2>2 DEF Inv, IdInv
<1>6. StreamInv'
  <2>1. Sure(req[r])'
    BY <1>1 DEF Sure, InStream, LockMove
  <2> QED BY <1>1, <1>3, <2>1, OthersStaySure
<1>7. ChildrenReachable'
  <2> SUFFICES ASSUME NEW i \in Ids, session'[i].child = "running"
               PROVE  \/ i \in map'
                      \/ \E q \in Requests : At(q, "spawn", "insert")' /\ req'[q].id = i
                      \/ \E q \in Requests : At(q, "kill", "kill")' /\ req'[q].id = i
    BY DEF ChildrenReachable
  <2>1. session[i].child = "running" /\ ~(At(r, "kill", "kill") /\ req[r].id = i)
    BY DEF LockMove
  <2>2. CASE i \in map
    BY <2>2 DEF LockMove
  <2>3. CASE i \notin map
    <3>1. \/ \E q \in Requests : At(q, "spawn", "insert") /\ req[q].id = i
          \/ \E q \in Requests : At(q, "kill", "kill") /\ req[q].id = i
      BY <2>1, <2>3 DEF Inv, ChildrenReachable
    <3> QED BY <1>2, <2>1, <3>1
  <2> QED BY <2>2, <2>3
<1> QED BY <1>4, <1>5, <1>6, <1>7 DEF Inv

LEMMA InputSteps ==
  ASSUME Inv, NEW r \in Requests, InputLookup(r) \/ InputWrite(r)
  PROVE  Inv'
<1>1. /\ req[r].kind = "input" /\ req[r].reply = <<>> /\ IsRequest(req[r])
      /\ DOMAIN req = Requests /\ nextId' = nextId /\ map' = map /\ DOMAIN session = Ids
      /\ (\A i \in Ids : IsSession(session[i])) /\ req[r].pc \in {"start", "write"}
  BY DEF Inv, InputLookup, InputWrite, At, StreamInv, Sure, ShapeInv
<1>2. <<"ok">> # <<"end">> /\ <<>> # <<"end">>
  OBVIOUS
<1>3. \A q \in Requests : Holds(q) <=> lock = q
  BY DEF Inv, LockInv
<1>4. CASE InputLookup(r)
  <2>1. lock = Free /\ session' = session /\ req[r].pc = "start"
    BY <1>4 DEF InputLookup, At
  <2>2. CASE lock' = r /\ req' = [req EXCEPT ![r].pc = "write"]
    <3>1. /\ OnlyMoves(r) /\ req'[r].pc = "write" /\ req'[r].kind = "input"
          /\ req'[r].id = req[r].id /\ req'[r].reply = <<>>
      BY <1>1, <2>2 DEF OnlyMoves, IsRequest
    <3>2. \A q \in Requests : Holds(q)' <=> q = r
      BY <1>3, <2>1, <3>1 DEF Holds, At, OnlyMoves
    <3>3. LockInv'
      BY <2>2, <3>2 DEF LockInv
    <3>4. LockMove(r)
      BY <1>1, <1>2, <2>1, <3>1 DEF LockMove, At
    <3> QED BY <3>3, <3>4, LockMoveKeeps
  <2>3. CASE Respond(r, <<"ok">>) /\ lock' = lock
    <3>1. ~At(r, "spawn", "insert") /\ ~Holds(r)
      BY <1>1, <2>1 DEF At, Holds
    <3> QED BY <1>1, <1>2, <2>1, <2>3, <3>1, QuietReply
  <2> QED BY <1>4, <2>2, <2>3 DEF InputLookup
<1>5. CASE InputWrite(r)
  <2>1. Holds(r) /\ lock = r
    BY <1>3, <1>5 DEF InputWrite, Holds
  <2>2. CASE /\ session' = [session EXCEPT ![req[r].id].pipe = @ + 1]
             /\ req' = [req EXCEPT ![r].left = @ - 1] /\ lock' = lock
    <3>1. /\ OnlyMoves(r) /\ req'[r].pc = req[r].pc /\ req'[r].kind = "input"
          /\ req'[r].id = req[r].id /\ req'[r].reply = <<>>
      BY <1>1, <2>2 DEF OnlyMoves, IsRequest
    <3>2. /\ DOMAIN session' = Ids
          /\ \A i \in Ids : IsSession(session'[i]) /\ session'[i].child = session[i].child
      BY <1>1, <2>2 DEF IsSession
    <3>3. \A q \in Requests : Holds(q)' <=> Holds(q)
      BY <1>1, <3>1 DEF Holds, At, OnlyMoves
    <3>4. LockInv'
      BY <2>2, <3>3 DEF Inv, LockInv
    <3>5. LockMove(r)
      BY <1>1, <1>2, <3>1, <3>2 DEF LockMove, At
    <3> QED BY <3>4, <3>5, LockMoveKeeps
  <2>3. CASE lock' = Free /\ Respond(r, <<"ok">>) /\ session' = session
    <3>1. /\ OnlyMoves(r) /\ req'[r].pc = "done" /\ req'[r].kind = "input"
          /\ req'[r].id = req[r].id /\ req'[r].reply = <<"ok">>
      BY <1>1, <2>3, RespondFacts DEF Inv
    <3>2. \A q \in Requests : ~Holds(q)'
      BY <1>3, <2>1, <3>1 DEF Holds, At, OnlyMoves
    <3>3. LockInv'
      BY <2>3, <3>2 DEF LockInv
    <3>4. LockMove(r)
      BY <1>1, <1>2, <2>3, <3>1 DEF LockMove, At
    <3> QED BY <3>3, <3>4, LockMoveKeeps
  <2> QED BY <1>5, <2>2, <2>3 DEF InputWrite
<1> QED BY <1>4, <1>5

LEMMA KillSteps ==
  ASSUME Inv, NEW r \in Requests, KillRemove(r) \/ KillChild(r)
  PROVE  Inv'
<1>1. /\ req[r].kind = "kill" /\ req[r].reply = <<>> /\ IsRequest(req[r])
      /\ DOMAIN req = Requests /\ nextId' = nextId /\ DOMAIN session = Ids
      /\ (\A i \in Ids : IsSession(session[i])) /\ req[r].pc \in {"start", "kill"}
  BY DEF Inv, KillRemove, KillChild, At, StreamInv, Sure, ShapeInv
<1>2. <<"ok">> # <<"end">> /\ <<>> # <<"end">>
  OBVIOUS
<1>3. \A q \in Requests : Holds(q) <=> lock = q
  BY DEF Inv, LockInv
<1>4. CASE KillRemove(r)
  <2>1. lock = Free /\ session' = session /\ req[r].pc = "start"
    BY <1>4 DEF KillRemove, At
  <2>2. CASE map' = map \ {req[r].id} /\ lock' = r /\ req' = [req EXCEPT ![r].pc = "kill"]
    <3>1. /\ OnlyMoves(r) /\ req'[r].pc = "kill" /\ req'[r].kind = "kill"
          /\ req'[r].id = req[r].id /\ req'[r].reply = <<>>
      BY <1>1, <2>2 DEF OnlyMoves, IsRequest
    <3>2. \A q \in Requests : Holds(q)' <=> q = r
      BY <1>3, <2>1, <3>1 DEF Holds, At, OnlyMoves
    <3>3. LockInv'
      BY <2>2, <3>2 DEF LockInv
    <3>4. LockMove(r)
      BY <1>1, <1>2, <2>1, <2>2, <3>1 DEF LockMove, At
    <3> QED BY <3>3, <3>4, LockMoveKeeps
  <2>3. CASE Respond(r, <<"ok">>) /\ lock' = lock /\ map' = map
    <3>1. ~At(r, "spawn", "insert") /\ ~Holds(r)
      BY <1>1, <2>1 DEF At, Holds
    <3> QED BY <1>1, <1>2, <2>1, <2>3, <3>1, QuietReply
  <2> QED BY <1>4, <2>2, <2>3 DEF KillRemove
<1>5. CASE KillChild(r)
  <2>1. Holds(r) /\ lock = r /\ lock' = Free /\ map' = map
    BY <1>3, <1>5 DEF KillChild, Holds
  <2>2. /\ OnlyMoves(r) /\ req'[r].pc = "done" /\ req'[r].kind = "kill"
        /\ req'[r].id = req[r].id /\ req'[r].reply = <<"ok">>
    BY <1>1, <1>5, RespondFacts DEF Inv, KillChild
  <2>3. /\ DOMAIN session' = Ids
        /\ \A i \in Ids : /\ IsSession(session'[i])
                          /\ i # req[r].id => session'[i] = session[i]
                          /\ session[i].child # "running" => session'[i].child = session[i].child
                          /\ i = req[r].id => session'[i].child # "running"
    BY <1>1, <1>5 DEF KillChild, IsSession
  <2>4. \A q \in Requests : ~Holds(q)'
    BY <1>3, <2>1, <2>2 DEF Holds, At, OnlyMoves
  <2>5. LockInv'
    BY <2>1, <2>4 DEF LockInv
  <2>6. LockMove(r)
    BY <1>1, <1>2, <2>1, <2>2, <2>3 DEF LockMove, At
  <2> QED BY <2>5, <2>6, LockMoveKeeps
<1> QED BY <1>4, <1>5

LEMMA ChildSteps ==
  ASSUME Inv, NEW i \in Ids,
         ChildWrite(i) \/ ChildRead(i) \/ ChildExit(i) \/ \E s \in Sources : Pump(i, s)
  PROVE  Inv'
<1>1. /\ UNCHANGED <<nextId, map, lock, req>> /\ DOMAIN session = Ids /\ nextId \in Nat
      /\ \A j \in Ids : IsSession(session[j])
  BY DEF Inv, ChildWrite, ChildRead, ChildExit, Pump, ShapeInv, IdInv
<1>2. /\ DOMAIN session' = Ids
      /\ \A j \in Ids : /\ IsSession(session'[j])
                        /\ session'[j].child = "running" => session[j].child = "running"
                        /\ session[j].child = "absent" => session'[j].child = "absent"
  <2>1. CASE ChildWrite(i)
    BY <1>1, <2>1 DEF ChildWrite, IsSession
  <2>2. CASE ChildRead(i)
    BY <1>1, <2>2 DEF ChildRead, IsSession
  <2>3. CASE ChildExit(i)
    BY <1>1, <2>3 DEF ChildExit, IsSession
  <2>4. CASE \E s \in Sources : Pump(i, s)
    <3>0. PICK s \in Sources : Pump(i, s)
      BY <2>4
    <3>1. PICK n : session' = [session EXCEPT
                ![i].out = @ \o SubSeq(Emits[s], session[i].pumped[s] + 1, n),
                ![i].pumped[s] = n]
      BY <3>0, Zenon DEF Pump
    <3>2. PICK out, pumped : session' = [session EXCEPT ![i].out = out, ![i].pumped = pumped]
      <4> WITNESS session[i].out \o SubSeq(Emits[s], session[i].pumped[s] + 1, n),
                  [session[i].pumped EXCEPT ![s] = n]
      <4> QED BY <1>1, <3>1 DEF IsSession
    <3> DEFINE y == [session[i] EXCEPT !.out = out, !.pumped = pumped]
    <3>3. IsSession(y) /\ y.child = session[i].child
      <4> DEFINE x == session[i]
                 w == [x EXCEPT !.out = out]
      <4>1. IsSession(x)
        BY <1>1
      <4>2. y = [w EXCEPT !.pumped = pumped]
        BY Zenon
      <4> HIDE DEF x, y
      <4>3. IsSession(w) /\ w.child = x.child
        BY ONLY <4>1 DEF IsSession
      <4> HIDE DEF w
      <4>4. IsSession(y) /\ y.child = w.child
        BY ONLY <4>2, <4>3 DEF IsSession
      <4> QED BY <4>3, <4>4 DEF x
    <3>4. session' = [session EXCEPT ![i] = y]
      BY <3>2, Zenon
    <3> HIDE DEF y
    <3> QED BY <1>1, <3>3, <3>4
  <2> QED BY <2>1, <2>2, <2>3, <2>4
<1>3. \A q \in Requests : \A k, m : (At(q, k, m)' <=> At(q, k, m)) /\ (Holds(q)' <=> Holds(q))
  BY <1>1 DEF At, Holds
<1>4. Forward
  BY <1>1, <1>2, <1>3 DEF Forward
<1>5. \A j : (Settled(j) => Settled(j)') /\ (Dead(j) => Dead(j)')
  BY <1>4, DeadStaysDead
<1>6. ShapeInv'
  BY <1>1, <1>2 DEF Inv, ShapeInv
<1>7. IdInv'
  BY <1>1, <1>2, <1>3, <1>5 DEF Inv, IdInv
<1>8. LockInv'
  BY <1>1, <1>3 DEF Inv, LockInv
<1>9. StreamInv'
  BY <1>1, <1>5 DEF Inv, StreamInv, Sure
<1>10. ChildrenReachable'
  BY <1>1, <1>2, <1>3 DEF Inv, ChildrenReachable
<1> QED BY <1>6, <1>7, <1>8, <1>9, <1>10 DEF Inv

LEMMA NextKeeps == Inv /\ [TNext]_tvars => Inv'
<1> SUFFICES ASSUME Inv, [TNext]_tvars PROVE Inv'
  OBVIOUS
<1>1. CASE UNCHANGED tvars
  <2>1. UNCHANGED <<nextId, map, lock, session, req>>
    BY <1>1 DEF tvars
  <2>2. \A q \in Requests : \A k, m : (At(q, k, m)' <=> At(q, k, m)) /\ (Holds(q)' <=> Holds(q))
    BY <2>1 DEF At, Holds
  <2>3. \A j : (Settled(j)' <=> Settled(j)) /\ (Dead(j)' <=> Dead(j))
    BY <2>1, <2>2 DEF Settled, Dead, Pending
  <2>4. ShapeInv' /\ LockInv' /\ ChildrenReachable'
    BY <2>1, <2>2 DEF Inv, ShapeInv, LockInv, ChildrenReachable
  <2>5. IdInv' /\ StreamInv'
    BY <2>1, <2>2, <2>3 DEF Inv, IdInv, StreamInv, Sure
  <2> QED BY <2>4, <2>5 DEF Inv
<1>2. ASSUME NEW r \in Requests, WithoutMap(r) \/ TakesMap(r) PROVE Inv'
  BY <1>2, IdleSteps, StreamSteps, SpawnSteps, InputSteps, KillSteps DEF WithoutMap, TakesMap
<1>3. ASSUME NEW i \in Ids,
             ChildWrite(i) \/ ChildRead(i) \/ ChildExit(i) \/ \E s \in Sources : Pump(i, s)
      PROVE  Inv'
  BY <1>3, ChildSteps
<1> QED BY <1>1, <1>2, <1>3 DEF TNext

-----------------------------------------------------------------------------
(* The theorems *)

\* A stream says "end" only once the session's child is dead, for any number
\* of streams and kills (stream_session, /term/kill).
THEOREM EndIsAfterTheKill == TSpec => []EndMeansDead
<1>1. Inv => EndMeansDead
  BY DEF Inv, StreamInv, Sure, Dead, EndMeansDead
<1> QED BY <1>1, InitHolds, NextKeeps, PTL DEF TSpec

\* No running child is lost: it is in the map, about to be inserted or being
\* killed (spawn_session, /term/kill).
THEOREM NoChildIsLost == TSpec => []ChildrenReachable
<1>1. Inv => ChildrenReachable
  BY DEF Inv
<1> QED BY <1>1, InitHolds, NextKeeps, PTL DEF TSpec

-----------------------------------------------------------------------------
(* What a client reads back *)

Byte == 0 .. 255

\* The four digits of a group of three bytes, and the bytes back from them.
LEMMA GroupArith ==
  ASSUME NEW a \in Byte, NEW b \in Byte, NEW c \in Byte
  PROVE  /\ a \div 4 \in 0 .. 63 /\ (a % 4) * 16 + b \div 16 \in 0 .. 63
         /\ (b % 16) * 4 + c \div 64 \in 0 .. 63 /\ c % 64 \in 0 .. 63
         /\ (a \div 4) * 4 + ((a % 4) * 16 + b \div 16) \div 16 = a
         /\ (((a % 4) * 16 + b \div 16) % 16) * 16 + ((b % 16) * 4 + c \div 64) \div 4 = b
         /\ (((b % 16) * 4 + c \div 64) % 4) * 64 + (c % 64) = c
<1>1. \A n \in Byte :
        /\ n \div 4 \in 0 .. 63 /\ n % 4 \in 0 .. 3 /\ n = 4 * (n \div 4) + (n % 4)
        /\ n \div 16 \in 0 .. 15 /\ n % 16 \in 0 .. 15 /\ n = 16 * (n \div 16) + (n % 16)
        /\ n \div 64 \in 0 .. 3 /\ n % 64 \in 0 .. 63 /\ n = 64 * (n \div 64) + (n % 64)
  BY Z3 DEF Byte
<1>2. \A u \in 0 .. 3, v \in 0 .. 15 : (u * 16 + v) \div 16 = u /\ (u * 16 + v) % 16 = v
  BY Z3
<1>3. \A u \in 0 .. 15, v \in 0 .. 3 : (u * 4 + v) \div 4 = u /\ (u * 4 + v) % 4 = v
  BY Z3
<1> DEFINE a0 == a % 4
           a1 == a \div 4
           b0 == b % 16
           b1 == b \div 16
           c0 == c % 64
           c1 == c \div 64
<1>5. /\ a1 \in 0 .. 63 /\ a0 \in 0 .. 3 /\ a = 4 * a1 + a0
      /\ b1 \in 0 .. 15 /\ b0 \in 0 .. 15 /\ b = 16 * b1 + b0
      /\ c1 \in 0 .. 3 /\ c0 \in 0 .. 63 /\ c = 64 * c1 + c0
  BY <1>1
<1>6. /\ a1 \in 0 .. 63 /\ a0 * 16 + b1 \in 0 .. 63 /\ b0 * 4 + c1 \in 0 .. 63
      /\ c0 \in 0 .. 63 /\ a1 * 4 + a0 = a /\ b1 * 16 + b0 = b /\ c1 * 64 + c0 = c
  <2> HIDE DEF a0, a1, b0, b1, c0, c1
  <2> QED BY <1>5
<1>7. /\ (a0 * 16 + b1) \div 16 = a0 /\ (a0 * 16 + b1) % 16 = b1
      /\ (b0 * 4 + c1) \div 4 = b0 /\ (b0 * 4 + c1) % 4 = c1
  <2> HIDE DEF a0, a1, b0, b1, c0, c1
  <2> QED BY <1>2, <1>3, <1>5
<1> QED BY <1>6, <1>7

\* Position j of group q in a row of groups of w.
LEMMA GroupIndex ==
  ASSUME NEW q \in Nat, NEW j \in 0 .. 3
  PROVE  /\ (4 * q + j) \div 4 = q /\ (4 * q + j) % 4 = j
         /\ j < 3 => (3 * q + j) \div 3 = q /\ (3 * q + j) % 3 = j
  BY Z3

LEMMA IndexGroup ==
  ASSUME NEW i \in Nat
  PROVE  /\ i \div 3 \in Nat /\ i % 3 \in 0 .. 2 /\ i = 3 * (i \div 3) + (i % 3)
         /\ i \div 4 \in Nat /\ i % 4 \in 0 .. 3 /\ i = 4 * (i \div 4) + (i % 4)
<1>1. i \div 3 \in Nat /\ i % 3 \in 0 .. 2
  BY Z3
<1>2. i = 3 * (i \div 3) + (i % 3)
  BY Z3
<1>3. i \div 4 \in Nat /\ i % 4 \in 0 .. 3
  BY Z3
<1>4. i = 4 * (i \div 4) + (i % 4)
  BY Z3
<1> QED BY <1>1, <1>2, <1>3, <1>4

\* The digits of the group that starts after byte 3 q.
ByteAt(data, i) == IF i <= Len(data) THEN data[i] ELSE 0

LEMMA Base64Digits ==
  ASSUME NEW data \in Seq(Byte), NEW q \in Nat, 3 * q < Len(data)
  PROVE  LET e == Base64(data)
             a == ByteAt(data, 3 * q + 1)
             b == ByteAt(data, 3 * q + 2)
             c == ByteAt(data, 3 * q + 3)
         IN  /\ e[4 * q + 1] = a \div 4
             /\ e[4 * q + 2] = (a % 4) * 16 + b \div 16
             /\ e[4 * q + 3] = IF 3 * q + 2 <= Len(data) THEN (b % 16) * 4 + c \div 64 ELSE Pad
             /\ e[4 * q + 4] = IF 3 * q + 3 <= Len(data) THEN c % 64 ELSE Pad
<1> DEFINE m == (Len(data) + 2) \div 3
           D(g, z) ==
            LET b0 == ByteAt(data, g + 1)
                b1 == ByteAt(data, g + 2)
                b2 == ByteAt(data, g + 3)
            IN  CASE z = 0 -> b0 \div 4
                  [] z = 1 -> (b0 % 4) * 16 + b1 \div 16
                  [] z = 2 -> IF g + 2 <= Len(data) THEN (b1 % 16) * 4 + b2 \div 64 ELSE Pad
                  [] OTHER -> IF g + 3 <= Len(data) THEN b2 % 64 ELSE Pad
           Digit(k) == D(3 * ((k - 1) \div 4), (k - 1) % 4)
<1>1. Base64(data) = [k \in 1 .. 4 * m |-> Digit(k)]
  BY Zenon DEF Base64, ByteAt
<1>2. Len(data) \in Nat
  OBVIOUS
<1>3. m \in Nat /\ q < m
  BY <1>2, Z3
<1> HIDE DEF m
<1>4. \A j \in 0 .. 3 : 4 * q + (j + 1) \in 1 .. 4 * m /\ (4 * q + (j + 1)) - 1 = 4 * q + j
  BY <1>3
<1>5. \A j \in 0 .. 3 : Base64(data)[4 * q + (j + 1)] = Digit(4 * q + (j + 1))
  BY <1>1, <1>4, Zenon
<1>6. \A j \in 0 .. 3 : /\ ((4 * q + (j + 1)) - 1) \div 4 = q
                       /\ ((4 * q + (j + 1)) - 1) % 4 = j
  BY <1>4, GroupIndex
<1> DEFINE a == ByteAt(data, 3 * q + 1)
           b == ByteAt(data, 3 * q + 2)
           c == ByteAt(data, 3 * q + 3)
<1>7. /\ D(3 * q, 0) = a \div 4 /\ D(3 * q, 1) = (a % 4) * 16 + b \div 16
      /\ D(3 * q, 2) = IF 3 * q + 2 <= Len(data) THEN (b % 16) * 4 + c \div 64 ELSE Pad
      /\ D(3 * q, 3) = IF 3 * q + 3 <= Len(data) THEN c % 64 ELSE Pad
  BY DEF a, b, c
<1> HIDE DEF D, a, b, c
<1>8. \A j \in 0 .. 3 : Digit(4 * q + (j + 1)) = D(3 * q, j)
  BY <1>6
<1> HIDE DEF Digit
<1>9. 0 + 1 = 1 /\ 1 + 1 = 2 /\ 2 + 1 = 3 /\ 3 + 1 = 4 /\ {0, 1, 2, 3} \subseteq 0 .. 3
  OBVIOUS
<1>10. /\ Base64(data)[4 * q + 1] = D(3 * q, 0) /\ Base64(data)[4 * q + 2] = D(3 * q, 1)
       /\ Base64(data)[4 * q + 3] = D(3 * q, 2) /\ Base64(data)[4 * q + 4] = D(3 * q, 3)
  BY <1>5, <1>8, <1>9
<1> QED BY <1>7, <1>10, Zenon DEF a, b, c

\* How many groups there are, and that every digit is in one that has a byte.
LEMMA Groups ==
  ASSUME NEW n \in Nat
  PROVE  /\ (n + 2) \div 3 \in Nat
         /\ 3 * ((n + 2) \div 3) - n \in 0 .. 2
         /\ \A q \in Nat : q < (n + 2) \div 3 => 3 * q < n
  BY Z3

LEMMA BytesAreBytes ==
  ASSUME NEW data \in Seq(Byte), NEW i \in Nat \ {0}
  PROVE  ByteAt(data, i) \in Byte
<1>1. CASE i <= Len(data)
  <2>1. i \in 1 .. Len(data)
    BY <1>1
  <2>2. data[i] \in Byte
    BY <2>1, ElementOfSeq
  <2> QED BY <1>1, <2>2 DEF ByteAt
<1>2. CASE ~(i <= Len(data))
  BY <1>2 DEF ByteAt, Byte
<1> QED BY <1>1, <1>2

\* A digit in its group.
LEMMA DigitPlace ==
  ASSUME NEW m \in Nat, NEW k \in 1 .. 4 * m
  PROVE  \E q \in Nat, j \in 0 .. 3 : q < m /\ k = 4 * q + (j + 1)
<1> DEFINE q == (k - 1) \div 4
           j == (k - 1) % 4
<1>1. q \in Nat /\ j \in 0 .. 3 /\ k - 1 = 4 * q + j
  BY IndexGroup
<1> HIDE DEF q, j
<1>2. q < m /\ k = 4 * q + (j + 1)
  BY <1>1
<1> QED BY <1>1, <1>2

LEMMA Base64Shape ==
  ASSUME NEW data \in Seq(Byte)
  PROVE  LET e == Base64(data)
             m == (Len(data) + 2) \div 3
         IN  /\ e \in Seq(0 .. 64) /\ Len(e) = 4 * m /\ DOMAIN e = 1 .. 4 * m
             /\ Cardinality({k \in DOMAIN e : e[k] = Pad}) = 3 * m - Len(data)
<1> DEFINE e == Base64(data)
           n == Len(data)
           m == (n + 2) \div 3
           P == {k \in DOMAIN e : e[k] = Pad}
<1>1. n \in Nat
  OBVIOUS
<1>2. m \in Nat /\ 3 * m - n \in 0 .. 2 /\ \A q \in Nat : q < m => 3 * q < n
  BY <1>1, Groups
<1>3. PICK f : DOMAIN e = 1 .. 4 * m /\ e = [k \in 1 .. 4 * m |-> f[k]]
  <2>1. DOMAIN e = 1 .. 4 * m /\ e = [k \in 1 .. 4 * m |-> e[k]]
    BY DEF Base64
  <2> QED BY <2>1, Zenon
<1>4. ASSUME NEW q \in Nat, q < m
      PROVE  /\ e[4 * q + 1] \in 0 .. 63 /\ e[4 * q + 2] \in 0 .. 63
             /\ (3 * q + 2 <= n => e[4 * q + 3] \in 0 .. 63)
             /\ (~(3 * q + 2 <= n) => e[4 * q + 3] = Pad)
             /\ (3 * q + 3 <= n => e[4 * q + 4] \in 0 .. 63)
             /\ (~(3 * q + 3 <= n) => e[4 * q + 4] = Pad)
  <2> DEFINE a == ByteAt(data, 3 * q + 1)
             b == ByteAt(data, 3 * q + 2)
             c == ByteAt(data, 3 * q + 3)
  <2>1. 3 * q < Len(data)
    BY <1>2, <1>4
  <2>2. /\ e[4 * q + 1] = a \div 4 /\ e[4 * q + 2] = (a % 4) * 16 + b \div 16
        /\ e[4 * q + 3] = IF 3 * q + 2 <= Len(data) THEN (b % 16) * 4 + c \div 64 ELSE Pad
        /\ e[4 * q + 4] = IF 3 * q + 3 <= Len(data) THEN c % 64 ELSE Pad
    BY <2>1, Base64Digits
  <2>3. 3 * q + 1 \in Nat \ {0} /\ 3 * q + 2 \in Nat \ {0} /\ 3 * q + 3 \in Nat \ {0}
    OBVIOUS
  <2>4. a \in Byte /\ b \in Byte /\ c \in Byte
    BY <2>3, BytesAreBytes
  <2> HIDE DEF a, b, c
  <2>5. /\ a \div 4 \in 0 .. 63 /\ (a % 4) * 16 + b \div 16 \in 0 .. 63
        /\ (b % 16) * 4 + c \div 64 \in 0 .. 63 /\ c % 64 \in 0 .. 63
    BY <2>4, GroupArith
  <2> HIDE DEF e
  <2> QED BY <2>2, <2>5, Zenon DEF n
<1> HIDE DEF e, m, n
<1>5. \A k \in 1 .. 4 * m : e[k] \in 0 .. 64
  <2> SUFFICES ASSUME NEW k \in 1 .. 4 * m PROVE e[k] \in 0 .. 64
    OBVIOUS
  <2>1. PICK q \in Nat, j \in 0 .. 3 : q < m /\ k = 4 * q + (j + 1)
    BY <1>2, DigitPlace
  <2>2. k = 4 * q + 1 \/ k = 4 * q + 2 \/ k = 4 * q + 3 \/ k = 4 * q + 4
    BY <2>1
  <2>3. /\ e[4 * q + 1] \in 0 .. 63 /\ e[4 * q + 2] \in 0 .. 63
        /\ (e[4 * q + 3] \in 0 .. 63 \/ e[4 * q + 3] = Pad)
        /\ (e[4 * q + 4] \in 0 .. 63 \/ e[4 * q + 4] = Pad)
    BY <1>4, <2>1, Zenon
  <2>4. e[k] \in 0 .. 63 \/ e[k] = Pad
    BY <2>2, <2>3, Zenon
  <2> QED BY <2>4 DEF Pad
<1>6. e \in Seq(0 .. 64) /\ Len(e) = 4 * m
  BY <1>2, <1>3, <1>5
<1>7. \A k \in 1 .. 4 * m : e[k] = Pad <=> k > 4 * m - (3 * m - n)
  <2> SUFFICES ASSUME NEW k \in 1 .. 4 * m
               PROVE  e[k] = Pad <=> k > 4 * m - (3 * m - n)
    OBVIOUS
  <2>1. PICK q \in Nat, j \in 0 .. 3 : q < m /\ k = 4 * q + (j + 1)
    BY <1>2, DigitPlace
  <2>2. 3 * q < n /\ 3 * m < n + 3 /\ 3 * m >= n
    BY <1>1, <1>2, <2>1
  <2>3. k = 4 * q + 1 \/ k = 4 * q + 2 \/ k = 4 * q + 3 \/ k = 4 * q + 4
    BY <2>1
  <2>a. \A v \in 0 .. 63 : v # Pad
    BY DEF Pad
  <2>b. /\ e[4 * q + 1] # Pad /\ e[4 * q + 2] # Pad
        /\ (e[4 * q + 3] = Pad <=> ~(3 * q + 2 <= n))
        /\ (e[4 * q + 4] = Pad <=> ~(3 * q + 3 <= n))
    BY <1>4, <2>1, <2>a, Zenon
  <2>4. CASE k = 4 * q + 1 \/ k = 4 * q + 2
    <3>1. ~(k > 4 * m - (3 * m - n))
      BY <1>1, <1>2, <2>1, <2>2, <2>4
    <3> QED BY <2>b, <2>4, <3>1, Zenon
  <2>5. CASE k = 4 * q + 3
    <3>1. k > 4 * m - (3 * m - n) <=> ~(3 * q + 2 <= n)
      BY <1>1, <1>2, <2>1, <2>2, <2>5
    <3> QED BY <2>b, <2>5, <3>1, Zenon
  <2>6. CASE k = 4 * q + 4
    <3>1. k > 4 * m - (3 * m - n) <=> ~(3 * q + 3 <= n)
      BY <1>1, <1>2, <2>1, <2>2, <2>6
    <3> QED BY <2>b, <2>6, <3>1, Zenon
  <2> QED BY <2>3, <2>4, <2>5, <2>6
<1>8. P = {k \in 1 .. 4 * m : k > 4 * m - (3 * m - n)}
  BY <1>3, <1>7
<1>9. Cardinality(P) = 3 * m - n
  <2>1. CASE 3 * m - n = 0
    <3>1. P = {}
      BY <1>1, <1>2, <1>8, <2>1
    <3> QED BY <2>1, <3>1, FS_EmptySet
  <2>2. CASE 3 * m - n = 1
    <3>1. P = {4 * m}
      BY <1>1, <1>2, <1>8, <2>2
    <3> QED BY <2>2, <3>1, FS_Singleton
  <2>3. CASE 3 * m - n = 2
    <3>1. P = {4 * m - 1} \cup {4 * m} /\ 4 * m \notin {4 * m - 1}
      BY <1>1, <1>2, <1>8, <2>3
    <3>2. IsFiniteSet({4 * m - 1}) /\ Cardinality({4 * m - 1}) = 1
      BY FS_Singleton
    <3>3. Cardinality({4 * m - 1} \cup {4 * m}) =
            IF 4 * m \in {4 * m - 1} THEN Cardinality({4 * m - 1})
            ELSE Cardinality({4 * m - 1}) + 1
      BY <3>2, FS_AddElement, Zenon
    <3>4. Cardinality(P) = 1 + 1
      BY <3>1, <3>2, <3>3, Zenon
    <3> QED BY <2>3, <3>4
  <2> QED BY <1>2, <2>1, <2>2, <2>3
<1> QED BY <1>3, <1>6, <1>9 DEF e, m, n

\* What base64 writes, atob reads back: no byte of a chunk is lost
\* or changed on its way through an event.
LEMMA EventsAreFaithful ==
  ASSUME NEW data \in Seq(Byte)
  PROVE  Atob(Base64(data)) = data
<1> DEFINE e == Base64(data)
           n == Len(data)
           m == (n + 2) \div 3
           D(k) == IF e[k] = Pad THEN 0 ELSE e[k]
           T(i) == LET g == 4 * ((i - 1) \div 3)
                   IN  CASE (i - 1) % 3 = 0 -> D(g + 1) * 4 + D(g + 2) \div 16
                         [] (i - 1) % 3 = 1 -> (D(g + 2) % 16) * 16 + D(g + 3) \div 4
                         [] OTHER -> (D(g + 3) % 4) * 64 + D(g + 4)
<1>1. n \in Nat /\ data = [i \in 1 .. n |-> data[i]]
  OBVIOUS
<1>2. m \in Nat /\ 3 * m - n \in 0 .. 2
  BY <1>1, Groups
<1>3. Len(e) = 4 * m /\ Cardinality({k \in DOMAIN e : e[k] = Pad}) = 3 * m - n
  BY Base64Shape
<1>4. 3 * (Len(e) \div 4) - Cardinality({k \in DOMAIN e : e[k] = Pad}) = n
  <2>1. (4 * m) \div 4 = m
    BY <1>2, Z3
  <2>2. Len(e) \div 4 = m
    BY <1>3, <2>1, Zenon
  <2>3. 3 * m - (3 * m - n) = n
    <3> HIDE DEF m, n
    <3> QED BY <1>1, <1>2
  <2> QED BY <1>3, <2>2, <2>3, Zenon
<1>5. Atob(e) = [i \in 1 .. n |-> T(i)]
  <2>1. Atob(e) =
          [i \in 1 .. (3 * (Len(e) \div 4) - Cardinality({k \in DOMAIN e : e[k] = Pad})) |-> T(i)]
    BY Zenon DEF Atob
  <2> QED BY <1>4, <2>1, Zenon
<1>6. ASSUME NEW i \in 1 .. n PROVE T(i) = data[i]
  <2> DEFINE q == (i - 1) \div 3
             j == (i - 1) % 3
             a == ByteAt(data, 3 * q + 1)
             b == ByteAt(data, 3 * q + 2)
             c == ByteAt(data, 3 * q + 3)
  <2>1. i - 1 \in Nat /\ q \in Nat /\ j \in 0 .. 2 /\ i - 1 = 3 * q + j
    <3>1. i - 1 \in Nat
      OBVIOUS
    <3> QED BY <3>1, IndexGroup
  <2>2. 3 * q < n
    <3> HIDE DEF q, j
    <3> QED BY <1>1, <2>1
  <2>3. /\ e[4 * q + 1] = a \div 4 /\ e[4 * q + 2] = (a % 4) * 16 + b \div 16
        /\ e[4 * q + 3] = IF 3 * q + 2 <= n THEN (b % 16) * 4 + c \div 64 ELSE Pad
        /\ e[4 * q + 4] = IF 3 * q + 3 <= n THEN c % 64 ELSE Pad
    BY <2>1, <2>2, Base64Digits
  <2>4. 3 * q + 1 \in Nat \ {0} /\ 3 * q + 2 \in Nat \ {0} /\ 3 * q + 3 \in Nat \ {0}
    BY <2>1
  <2>5. a \in Byte /\ b \in Byte /\ c \in Byte
    BY <2>4, BytesAreBytes
  <2> HIDE DEF a, b, c, e
  <2>6. /\ a \div 4 \in 0 .. 63 /\ (a % 4) * 16 + b \div 16 \in 0 .. 63
        /\ (b % 16) * 4 + c \div 64 \in 0 .. 63 /\ c % 64 \in 0 .. 63
    BY <2>5, GroupArith
  <2>7. /\ D(4 * q + 1) = a \div 4 /\ D(4 * q + 2) = (a % 4) * 16 + b \div 16
        /\ (3 * q + 2 <= n => D(4 * q + 3) = (b % 16) * 4 + c \div 64)
        /\ (3 * q + 3 <= n => D(4 * q + 4) = c % 64)
    <3>1. \A x \in 0 .. 63 : x # Pad
      BY DEF Pad
    <3> QED BY <2>3, <2>6, <3>1, Zenon
  <2> HIDE DEF D
  <2>8. CASE j = 0
    <3>1. data[i] = a
      <4> HIDE DEF q, j
      <4> QED BY <1>1, <2>1, <2>8 DEF a, ByteAt
    <3>2. T(i) = D(4 * q + 1) * 4 + D(4 * q + 2) \div 16
      BY <2>8
    <3>3. (a \div 4) * 4 + ((a % 4) * 16 + b \div 16) \div 16 = a
      BY <2>5, GroupArith
    <3> QED BY <2>7, <3>1, <3>2, <3>3, Zenon
  <2>9. CASE j = 1
    <3>1. data[i] = b /\ 3 * q + 2 <= n
      <4> HIDE DEF q, j
      <4> QED BY <1>1, <2>1, <2>9 DEF b, ByteAt
    <3>2. T(i) = (D(4 * q + 2) % 16) * 16 + D(4 * q + 3) \div 4
      BY <2>9
    <3>3. (((a % 4) * 16 + b \div 16) % 16) * 16 + ((b % 16) * 4 + c \div 64) \div 4 = b
      BY <2>5, GroupArith
    <3> QED BY <2>7, <3>1, <3>2, <3>3, Zenon
  <2>10. CASE j = 2
    <3>1. data[i] = c /\ 3 * q + 3 <= n /\ 3 * q + 2 <= n
      <4> HIDE DEF q, j
      <4> QED BY <1>1, <2>1, <2>10 DEF c, ByteAt
    <3>2. T(i) = (D(4 * q + 3) % 4) * 64 + D(4 * q + 4)
      BY <2>10
    <3>3. (((b % 16) * 4 + c \div 64) % 4) * 64 + (c % 64) = c
      BY <2>5, GroupArith
    <3> QED BY <2>7, <3>1, <3>2, <3>3, Zenon
  <2> QED BY <2>1, <2>8, <2>9, <2>10
<1> HIDE DEF T
<1>7. [i \in 1 .. n |-> T(i)] = [i \in 1 .. n |-> data[i]]
  BY <1>6
<1> QED BY <1>1, <1>5, <1>7, Zenon

-----------------------------------------------------------------------------
(* What the streams have told their clients *)

\* A session's buffer holds bytes and its pumps have not overtaken its child;
\* before the spawn there is nothing in it.
Buffered(x) ==
  /\ x.out \in Seq(Byte) /\ x.written \in [Sources -> Nat] /\ x.pumped \in [Sources -> Nat]
  /\ \A s \in Sources : x.pumped[s] <= x.written[s] /\ x.written[s] <= Len(Emits[s])
  /\ x.child = "absent" => x.out = <<>> /\ \A s \in Sources : x.written[s] = 0

BufInv == \A i \in Ids : Buffered(session[i])

\* The locals of a request's thread, whatever its kind.
Tells(x) ==
  /\ x.sent \in Seq(Byte) /\ x.chunk \in Seq(Byte) /\ x.offset \in Nat
  /\ x.pc \notin {"alive", "send"} => x.chunk = <<>>
  /\ x.pc \in {"idle", "start"} => x.sent = <<>> /\ x.offset = 0

\* What the client has and what the thread holds is what the buffer has up to
\* the thread's offset.
Told(x, out) ==
  \E n \in 0 .. Len(out) : /\ x.sent \o x.chunk = SubSeq(out, 1, n)
                           /\ x.pc # "done" => n = x.offset

TellInv ==
  \A r \in Requests :
    /\ Tells(req[r])
    /\ req[r].kind = "stream" /\ req[r].id \in Ids => Told(req[r], session[req[r].id].out)

LEMMA PrefixOfConcat ==
  ASSUME NEW out \in Seq(Byte), NEW t \in Seq(Byte), NEW n \in 0 .. Len(out)
  PROVE  SubSeq(out \o t, 1, n) = SubSeq(out, 1, n) /\ n \in 0 .. Len(out \o t)
<1>1. out \o t \in Seq(Byte) /\ Len(out \o t) = Len(out) + Len(t)
  BY ConcatProperties
<1>2. \A i \in 1 .. n : (out \o t)[i] = out[i]
  BY ConcatProperties
<1> QED BY <1>1, <1>2

LEMMA SplitAnywhere ==
  ASSUME NEW out \in Seq(Byte), NEW n \in 0 .. Len(out)
  PROVE  /\ SubSeq(out, n + 1, Len(out)) \in Seq(Byte)
         /\ SubSeq(out, 1, n) \o SubSeq(out, n + 1, Len(out)) = SubSeq(out, 1, Len(out))
<1> DEFINE u == SubSeq(out, 1, n)
           v == SubSeq(out, n + 1, Len(out))
           w == SubSeq(out, 1, Len(out))
<1>1. u \in Seq(Byte) /\ Len(u) = n /\ \A i \in 1 .. n : u[i] = out[i]
  OBVIOUS
<1>2. /\ v \in Seq(Byte) /\ Len(v) = Len(out) - n
      /\ \A i \in 1 .. Len(out) - n : v[i] = out[n + i]
  OBVIOUS
<1>3. w \in Seq(Byte) /\ Len(w) = Len(out) /\ \A i \in 1 .. Len(out) : w[i] = out[i]
  OBVIOUS
<1> HIDE DEF u, v, w
<1>0. Len(out) \in Nat /\ n \in Nat /\ n <= Len(out)
  OBVIOUS
<1>4. u \o v \in Seq(Byte) /\ Len(u \o v) = Len(out)
  <2>1. u \o v \in Seq(Byte) /\ Len(u \o v) = Len(u) + Len(v)
    BY <1>1, <1>2, ConcatProperties
  <2>2. n + (Len(out) - n) = Len(out)
    BY <1>0
  <2> QED BY <1>1, <1>2, <2>1, <2>2
<1>5. \A i \in 1 .. Len(out) : (u \o v)[i] = out[i]
  <2> SUFFICES ASSUME NEW i \in 1 .. Len(out) PROVE (u \o v)[i] = out[i]
    OBVIOUS
  <2>1. CASE i <= n
    BY <1>1, <1>2, <2>1, ConcatProperties
  <2>2. CASE i > n
    <3>1. (u \o v)[i] = v[i - n]
      BY <1>1, <1>2, <2>2, ConcatProperties
    <3>2. i - n \in 1 .. Len(out) - n /\ n + (i - n) = i
      BY <2>2
    <3> QED BY <1>2, <3>1, <3>2
  <2>3. i <= n \/ i > n
    BY <1>0
  <2> QED BY <2>1, <2>2, <2>3, Zenon
<1>6. u \o v = w
  BY <1>3, <1>4, <1>5, SeqEqual
<1> QED BY <1>2, <1>6 DEF u, v, w

\* The first part of a prefix is a prefix.
LEMMA PrefixOfPrefix ==
  ASSUME NEW out \in Seq(Byte), NEW a \in Seq(Byte), NEW b \in Seq(Byte),
         NEW n \in 0 .. Len(out), a \o b = SubSeq(out, 1, n)
  PROVE  Len(a) \in 0 .. Len(out) /\ a = SubSeq(out, 1, Len(a))
<1>1. Len(a \o b) = Len(a) + Len(b) /\ \A i \in 1 .. Len(a) : (a \o b)[i] = a[i]
  BY ConcatProperties
<1>2. Len(SubSeq(out, 1, n)) = n /\ \A i \in 1 .. n : SubSeq(out, 1, n)[i] = out[i]
  OBVIOUS
<1>3. Len(a) \in Nat /\ Len(b) \in Nat /\ Len(a) + Len(b) = n
  BY <1>1, <1>2
<1>4. \A i \in 1 .. Len(a) : a[i] = out[i]
  BY <1>1, <1>2, <1>3
<1>5. SubSeq(out, 1, Len(a)) \in Seq(Byte) /\ Len(SubSeq(out, 1, Len(a))) = Len(a)
  BY <1>3
<1> QED BY <1>3, <1>4, <1>5, SeqEqual

LEMMA ToldOfMore ==
  ASSUME NEW x, NEW out \in Seq(Byte), NEW t \in Seq(Byte), Told(x, out)
  PROVE  Told(x, out \o t)
  BY PrefixOfConcat DEF Told

LEMMA ToldDone ==
  ASSUME NEW x, NEW y, NEW out \in Seq(Byte), Tells(x), Told(x, out),
         y.sent = x.sent, y.chunk = <<>>, y.pc = "done"
  PROVE  Told(y, out)
<1>1. PICK n \in 0 .. Len(out) : x.sent \o x.chunk = SubSeq(out, 1, n)
  BY DEF Told
<1>2. Len(x.sent) \in 0 .. Len(out) /\ x.sent = SubSeq(out, 1, Len(x.sent))
  BY <1>1, PrefixOfPrefix DEF Tells
<1>3. y.sent \o y.chunk = x.sent
  BY ConcatEmptySeq DEF Tells
<1> QED BY <1>2, <1>3 DEF Told

\* A session's buffer only grows.
Grows ==
  \A i \in Ids : \E t \in Seq(Byte) : session'[i].out = session[i].out \o t

LEMMA SameOut ==
  ASSUME BufInv, \A i \in Ids : session'[i].out = session[i].out
  PROVE  Grows
<1> SUFFICES ASSUME NEW i \in Ids PROVE \E t \in Seq(Byte) : session'[i].out = session[i].out \o t
  BY DEF Grows
<1>1. session[i].out \in Seq(Byte) /\ <<>> \in Seq(Byte)
  BY DEF BufInv, Buffered
<1>2. session[i].out \o <<>> = session[i].out
  BY <1>1, ConcatEmptySeq
<1> QED BY <1>1, <1>2

LEMMA EmitBytes ==
  ASSUME NEW s \in Sources, NEW a \in Nat \ {0}, NEW b \in Nat, b <= Len(Emits[s])
  PROVE  SubSeq(Emits[s], a, b) \in Seq(Byte)
<1>1. Emits[s] \in Seq(Byte)
  BY DEF Byte
<1>2. \A i \in a .. b : Emits[s][i] \in Byte
  BY <1>1
<1> QED BY <1>1, <1>2

LEMMA PumpBuffers ==
  ASSUME Inv, BufInv, NEW i \in Ids, NEW s \in Sources, Pump(i, s)
  PROVE  BufInv' /\ Grows
<1> DEFINE x == session[i]
           got == x.pumped[s]
<1>1. PICK n \in (got + 1) .. x.written[s] :
        session' = [session EXCEPT ![i].out = @ \o SubSeq(Emits[s], got + 1, n),
                                   ![i].pumped[s] = n]
  BY DEF Pump
<1>2. Buffered(x) /\ IsSession(x) /\ DOMAIN session = Ids
  BY DEF BufInv, Inv, ShapeInv
<1>3. /\ got \in Nat /\ n \in Nat /\ n <= x.written[s] /\ n <= Len(Emits[s])
      /\ got + 1 \in Nat \ {0} /\ x.written[s] # 0
  BY <1>2 DEF Buffered
<1> DEFINE t == SubSeq(Emits[s], got + 1, n)
           y == [x EXCEPT !.out = @ \o t, !.pumped[s] = n]
<1>4. t \in Seq(Byte)
  BY <1>3, EmitBytes
<1>5. session' = [session EXCEPT ![i] = y]
  BY <1>1, Zenon
<1> DEFINE o == x.out \o t
           x1 == [x EXCEPT !.out = o]
           p1 == [x.pumped EXCEPT ![s] = n]
<1>6. /\ IsSession(x1) /\ x1.out = x.out \o t /\ x1.pumped = x.pumped
      /\ x1.written = x.written /\ x1.child = x.child
  <2>1. o = x.out \o t
    OBVIOUS
  <2>2. IsSession(x)
    BY <1>2
  <2> HIDE DEF x, t, o
  <2>3. /\ IsSession(x1) /\ x1.out = o /\ x1.pumped = x.pumped
        /\ x1.written = x.written /\ x1.child = x.child
    BY ONLY <2>2 DEF IsSession
  <2> QED BY <2>1, <2>3, Zenon
<1>7. y = [x1 EXCEPT !.pumped = p1]
  <2>1. y = [x1 EXCEPT !.pumped[s] = n]
    BY Zenon
  <2> HIDE DEF x1, y
  <2> QED BY <1>6, <2>1
<1>8. /\ y.out = x.out \o t /\ y.pumped = p1 /\ y.written = x.written /\ y.child = x.child
  <2> HIDE DEF x1, y, x, t, p1
  <2> QED BY ONLY <1>6, <1>7 DEF IsSession
<1>9. p1 \in [Sources -> Nat] /\ \A u \in Sources : p1[u] = IF u = s THEN n ELSE x.pumped[u]
  BY <1>2, <1>3 DEF Buffered
<1> HIDE DEF x, y, t, x1, p1
<1>10. Buffered(y)
  <2>1. y.out \in Seq(Byte)
    BY <1>2, <1>4, <1>8, ConcatProperties DEF Buffered
  <2>2. x.child # "absent"
    BY <1>2, <1>3 DEF Buffered
  <2> QED BY <1>2, <1>3, <1>8, <1>9, <2>1, <2>2 DEF Buffered
<1>11. session'[i] = y /\ \A j \in Ids : j # i => session'[j] = session[j]
  BY <1>2, <1>5
<1>12. BufInv'
  <2> SUFFICES ASSUME NEW j \in Ids PROVE Buffered(session'[j])
    BY Zenon DEF BufInv, Buffered
  <2>1. Buffered(session[j])
    BY DEF BufInv
  <2> QED BY <1>10, <1>11, <2>1, Zenon
<1>13. Grows
  <2> SUFFICES ASSUME NEW j \in Ids
               PROVE  \E u \in Seq(Byte) : session'[j].out = session[j].out \o u
    BY DEF Grows
  <2>1. CASE j = i
    BY <1>4, <1>8, <1>11, <2>1 DEF x
  <2>2. CASE j # i
    <3>1. session[j].out \in Seq(Byte) /\ <<>> \in Seq(Byte)
      BY DEF BufInv, Buffered
    <3>2. session[j].out \o <<>> = session[j].out
      BY <3>1, ConcatEmptySeq
    <3> QED BY <1>11, <2>2, <3>1, <3>2
  <2> QED BY <2>1, <2>2
<1> QED BY <1>12, <1>13

\* No other step writes to a buffer but the spawn that fails.
LEMMA BuffersGrow ==
  ASSUME Inv, BufInv, TNext
  PROVE  BufInv' /\ Grows
<1>0. /\ DOMAIN session = Ids /\ (\A i \in Ids : IsSession(session[i]))
      /\ \A i \in Ids : Buffered(session[i])
  BY DEF Inv, ShapeInv, BufInv
<1>1. ASSUME \A i \in Ids : /\ session'[i].out = session[i].out
                            /\ session'[i].pumped = session[i].pumped
                            /\ session'[i].child = "absent" => session[i].child = "absent"
                            /\ \/ session'[i].written = session[i].written
                               \/ /\ session'[i].written \in [Sources -> Nat]
                                  /\ session[i].child # "absent"
                                  /\ \A s \in Sources :
                                       /\ session[i].written[s] <= session'[i].written[s]
                                       /\ session'[i].written[s] <= Len(Emits[s])
      PROVE  BufInv' /\ Grows
  <2>1. Grows
    BY <1>1, SameOut
  <2>2. BufInv'
    <3> SUFFICES ASSUME NEW i \in Ids PROVE Buffered(session'[i])
      BY Zenon DEF BufInv, Buffered
    <3>1. Buffered(session[i])
      BY <1>0
    <3>2. CASE session'[i].written = session[i].written
      BY <1>1, <3>1, <3>2 DEF Buffered
    <3>3. CASE session'[i].written # session[i].written
      <4>1. /\ session'[i].out = session[i].out /\ session'[i].pumped = session[i].pumped
            /\ session'[i].child # "absent" /\ session'[i].written \in [Sources -> Nat]
            /\ \A s \in Sources : /\ session[i].written[s] <= session'[i].written[s]
                                  /\ session'[i].written[s] <= Len(Emits[s])
        BY <1>1, <3>3
      <4> QED BY <3>1, <4>1 DEF Buffered
    <3> QED BY <3>2, <3>3
  <2> QED BY <2>1, <2>2
<1>2. ASSUME session' = session PROVE BufInv' /\ Grows
  BY <1>1, <1>2
<1>3. ASSUME NEW r \in Requests, SpawnChild(r) PROVE BufInv' /\ Grows
  <2>1. nextId \in Ids /\ session[nextId].child = "absent"
    BY <1>3 DEF SpawnChild, Inv, IdInv
  <2>2. CASE session' = [session EXCEPT ![nextId].child = "running"]
    <3>1. \A i \in Ids : /\ session'[i].out = session[i].out
                         /\ session'[i].pumped = session[i].pumped
                         /\ session'[i].child = "absent" => session[i].child = "absent"
                         /\ session'[i].written = session[i].written
      BY <1>0, <2>1, <2>2 DEF IsSession
    <3> QED BY <1>1, <3>1
  <2>3. CASE session' = [session EXCEPT ![nextId].child = "failed", ![nextId].out = SpawnError]
    <3>1. /\ session'[nextId].out = SpawnError /\ session'[nextId].child = "failed"
          /\ session'[nextId].pumped = session[nextId].pumped
          /\ session'[nextId].written = session[nextId].written
          /\ \A i \in Ids : i # nextId => session'[i] = session[i]
      BY <1>0, <2>1, <2>3 DEF IsSession
    <3>2. SpawnError \in Seq(Byte) /\ <<>> \in Seq(Byte)
      BY DEF SpawnError, Byte
    <3>3. session[nextId].out = <<>>
      BY <1>0, <2>1 DEF Buffered
    <3>4. Grows
      <4> SUFFICES ASSUME NEW i \in Ids
                   PROVE  \E t \in Seq(Byte) : session'[i].out = session[i].out \o t
        BY DEF Grows
      <4>1. session[i].out \o <<>> = session[i].out
        BY <1>0, ConcatEmptySeq DEF Buffered
      <4>2. <<>> \o SpawnError = SpawnError
        BY <3>2, ConcatEmptySeq
      <4> QED BY <3>1, <3>2, <3>3, <4>1, <4>2, Zenon
    <3>5. BufInv'
      <4> SUFFICES ASSUME NEW i \in Ids PROVE Buffered(session'[i])
        BY Zenon DEF BufInv, Buffered
      <4>1. CASE i # nextId
        BY <1>0, <3>1, <4>1, Zenon
      <4>2. CASE i = nextId
        BY <1>0, <3>1, <3>2, <4>2 DEF Buffered
      <4> QED BY <4>1, <4>2
    <3> QED BY <3>4, <3>5
  <2> QED BY <1>3, <2>2, <2>3 DEF SpawnChild
<1>4. ASSUME NEW r \in Requests, InputWrite(r) PROVE BufInv' /\ Grows
  <2>1. CASE session' = session
    BY <1>2, <2>1
  <2>2. CASE session' = [session EXCEPT ![req[r].id].pipe = @ + 1]
    <3>1. \A i \in Ids : /\ session'[i].out = session[i].out
                         /\ session'[i].pumped = session[i].pumped
                         /\ session'[i].child = session[i].child
                         /\ session'[i].written = session[i].written
      BY <1>0, <2>2 DEF IsSession
    <3> QED BY <1>1, <3>1
  <2> QED BY <1>4, <2>1, <2>2 DEF InputWrite
<1>5. ASSUME NEW r \in Requests, KillChild(r) PROVE BufInv' /\ Grows
  <2>1. \A i \in Ids : /\ session'[i].out = session[i].out
                       /\ session'[i].pumped = session[i].pumped
                       /\ session'[i].child = "absent" => session[i].child = "absent"
                       /\ session'[i].written = session[i].written
    BY <1>0, <1>5 DEF KillChild, IsSession
  <2> QED BY <1>1, <2>1
<1>6. ASSUME NEW i \in Ids, ChildWrite(i) PROVE BufInv' /\ Grows
  <2>1. PICK s \in Sources : /\ session[i].child = "running"
                             /\ session[i].written[s] < Len(Emits[s])
                             /\ session' = [session EXCEPT ![i].written[s] = @ + 1]
    BY <1>6 DEF ChildWrite
  <2> DEFINE w == [session[i].written EXCEPT ![s] = @ + 1]
             y == [session[i] EXCEPT !.written = w]
  <2>2. session' = [session EXCEPT ![i] = y]
    BY <1>0, <2>1 DEF IsSession
  <2>3. /\ w \in [Sources -> Nat]
        /\ \A u \in Sources : session[i].written[u] <= w[u] /\ w[u] <= Len(Emits[u])
    BY <1>0, <2>1 DEF Buffered
  <2> HIDE DEF w
  <2>4. /\ y.out = session[i].out /\ y.pumped = session[i].pumped
        /\ y.child = session[i].child /\ y.written = w
    BY <1>0 DEF IsSession
  <2> HIDE DEF y
  <2>5. session'[i] = y /\ \A j \in Ids : j # i => session'[j] = session[j]
    BY <1>0, <2>2
  <2> QED BY <1>1, <2>1, <2>3, <2>4, <2>5
<1>7. ASSUME NEW i \in Ids, ChildRead(i) \/ ChildExit(i) PROVE BufInv' /\ Grows
  <2>1. \A j \in Ids : /\ session'[j].out = session[j].out
                       /\ session'[j].pumped = session[j].pumped
                       /\ session'[j].child = "absent" => session[j].child = "absent"
                       /\ session'[j].written = session[j].written
    BY <1>0, <1>7 DEF ChildRead, ChildExit, IsSession
  <2> QED BY <1>1, <2>1
<1>8. ASSUME NEW i \in Ids, NEW s \in Sources, Pump(i, s) PROVE BufInv' /\ Grows
  BY <1>8, PumpBuffers
<1>9. ASSUME NEW r \in Requests, WithoutMap(r) \/ TakesMap(r) PROVE BufInv' /\ Grows
  <2>1. SpawnChild(r) \/ InputWrite(r) \/ KillChild(r) \/ session' = session
    BY <1>9 DEF WithoutMap, TakesMap, Accept, DropConnection, ServeStatic, StreamChunk,
                StreamSend, SpawnInsert, InputLookup, KillRemove, StreamOpen, StreamAlive
  <2> QED BY <1>2, <1>3, <1>4, <1>5, <2>1
<1> QED BY <1>6, <1>7, <1>8, <1>9 DEF TNext

\* What TellInv says of one request.
ToldOf(x, ses) ==
  Tells(x) /\ (x.kind = "stream" /\ x.id \in Ids => Told(x, ses[x.id].out))

\* A reply ends what the client sees where it is.
LEMMA ReplyTells ==
  ASSUME Inv, BufInv, TellInv, NEW r \in Requests, NEW reply, Respond(r, reply)
  PROVE  ToldOf(req'[r], session) /\ OnlyMoves(r)
<1> DEFINE x == req[r]
           y == req'[r]
<1>1. /\ OnlyMoves(r) /\ y.pc = "done" /\ y.kind = x.kind /\ y.id = x.id
      /\ y.sent = x.sent /\ y.chunk = <<>> /\ y.offset = 0
  BY RespondFacts DEF Inv
<1>2. Tells(x) /\ (x.kind = "stream" /\ x.id \in Ids => Told(x, session[x.id].out))
  BY DEF TellInv
<1>3. \A i \in Ids : session[i].out \in Seq(Byte)
  BY DEF BufInv, Buffered
<1>4. Tells(y)
  BY <1>1, <1>2 DEF Tells
<1>5. ASSUME y.kind = "stream", y.id \in Ids PROVE Told(y, session[y.id].out)
  BY <1>1, <1>2, <1>3, <1>5, ToldDone
<1> QED BY <1>1, <1>4, <1>5 DEF ToldOf

\* A thread that has just its request has told its client nothing.
LEMMA AcceptTells ==
  ASSUME Inv, BufInv, TellInv, NEW r \in Requests, Accept(r)
  PROVE  ToldOf(req'[r], session) /\ OnlyMoves(r)
<1> DEFINE y == req'[r]
<1>1. req[r].pc = "idle" /\ IsRequest(req[r]) /\ DOMAIN req = Requests /\ Tells(req[r])
  BY DEF Accept, Inv, ShapeInv, TellInv
<1>2. PICK k, d, l : req' = [req EXCEPT ![r].pc = "start", ![r].kind = k, ![r].id = d,
                                        ![r].left = l]
  BY Zenon DEF Accept
<1>3. /\ OnlyMoves(r) /\ y.pc = "start" /\ y.sent = req[r].sent /\ y.chunk = req[r].chunk
      /\ y.offset = req[r].offset
  BY <1>1, <1>2 DEF OnlyMoves, IsRequest
<1>4. y.sent = <<>> /\ y.chunk = <<>> /\ y.offset = 0
  BY <1>1, <1>3 DEF Tells
<1>5. Tells(y)
  BY <1>3, <1>4 DEF Tells
<1>6. \A i \in Ids : Told(y, session[i].out)
  <2> SUFFICES ASSUME NEW i \in Ids PROVE Told(y, session[i].out)
    OBVIOUS
  <2> DEFINE out == session[i].out
  <2>1. out \in Seq(Byte)
    BY DEF BufInv, Buffered
  <2> HIDE DEF out
  <2>2. 0 \in 0 .. Len(out) /\ SubSeq(out, 1, 0) = <<>>
    BY <2>1
  <2>3. y.sent \o y.chunk = <<>>
    <3>1. <<>> \in Seq(Byte)
      OBVIOUS
    <3> QED BY <1>4, <3>1, ConcatEmptySeq, Zenon
  <2>4. Told(y, out)
    <3> HIDE DEF y
    <3> QED BY <1>4, <2>2, <2>3 DEF Told
  <2> QED BY <2>4 DEF out
<1> QED BY <1>3, <1>5, <1>6 DEF ToldOf

LEMMA StreamTells ==
  ASSUME Inv, BufInv, TellInv, NEW r \in Requests,
         StreamOpen(r) \/ StreamChunk(r) \/ StreamAlive(r) \/ StreamSend(r)
  PROVE  ToldOf(req'[r], session) /\ OnlyMoves(r)
<1> DEFINE x == req[r]
           y == req'[r]
           out == session[x.id].out
<1>1. IsRequest(x) /\ DOMAIN req = Requests /\ Tells(x) /\ x.kind = "stream"
  BY DEF StreamOpen, StreamChunk, StreamAlive, StreamSend, At, Inv, ShapeInv, TellInv
<1>2. x.id \in Ids => Told(x, out) /\ out \in Seq(Byte)
  BY <1>1 DEF TellInv, BufInv, Buffered
<1>3. x.pc # "start" => x.id \in Ids
  BY DEF Inv, StreamInv, Sure, InStream, Settled, StreamOpen, StreamChunk, StreamAlive,
         StreamSend, At
<1>4. ASSUME NEW reply, Respond(r, reply) PROVE ToldOf(req'[r], session) /\ OnlyMoves(r)
  BY <1>4, ReplyTells
<1>5. ASSUME OnlyMoves(r), y.sent = x.sent, y.chunk = x.chunk, y.offset = x.offset,
             y.kind = x.kind, y.id = x.id, x.pc # "done", y.pc # "done",
             y.pc \notin {"idle", "start"},
             y.pc \notin {"alive", "send"} => y.chunk = <<>>
      PROVE  ToldOf(req'[r], session) /\ OnlyMoves(r)
  <2>1. Tells(y)
    BY <1>1, <1>5 DEF Tells
  <2>2. x.id \in Ids => Told(y, out)
    BY <1>2, <1>5 DEF Told
  <2> QED BY <1>5, <2>1, <2>2 DEF ToldOf
<1>6. CASE StreamOpen(r)
  <2>1. CASE req' = [req EXCEPT ![r].pc = "chunk"]
    <3>1. x.pc = "start" /\ x.chunk = <<>>
      BY <1>1, <1>6 DEF StreamOpen, At, Tells
    <3>2. /\ OnlyMoves(r) /\ y.pc = "chunk" /\ y.kind = x.kind /\ y.id = x.id
          /\ y.sent = x.sent /\ y.chunk = x.chunk /\ y.offset = x.offset
      BY <1>1, <2>1 DEF OnlyMoves, IsRequest
    <3> QED BY <1>5, <3>1, <3>2
  <2> QED BY <1>4, <1>6, <2>1 DEF StreamOpen
<1>7. CASE StreamChunk(r)
  <2>1. x.pc = "chunk" /\ x.chunk = <<>> /\ x.sent \in Seq(Byte)
    BY <1>1, <1>7 DEF StreamChunk, At, Tells
  <2>2. /\ OnlyMoves(r) /\ y.pc = "alive" /\ y.kind = x.kind /\ y.id = x.id
        /\ y.sent = x.sent /\ y.chunk = SubSeq(out, x.offset + 1, Len(out))
        /\ y.offset = Len(out)
    BY <1>1, <1>7 DEF StreamChunk, OnlyMoves, IsRequest
  <2>3. Told(x, out) /\ out \in Seq(Byte)
    BY <1>2, <1>3, <2>1
  <2> HIDE DEF out, x, y
  <2>4. /\ x.offset \in 0 .. Len(out) /\ x.sent \o x.chunk = SubSeq(out, 1, x.offset)
        /\ Len(out) \in Nat
    BY <2>1, <2>3 DEF Told
  <2>5. x.sent = SubSeq(out, 1, x.offset)
    <3>1. x.sent \o <<>> = x.sent
      BY <2>1, ConcatEmptySeq
    <3> QED BY <2>1, <2>4, <3>1
  <2>6. /\ y.chunk \in Seq(Byte)
        /\ y.sent \o y.chunk = SubSeq(out, 1, Len(out))
    BY <2>2, <2>3, <2>4, <2>5, SplitAnywhere
  <2>7. Tells(y)
    BY <2>1, <2>2, <2>4, <2>6 DEF Tells
  <2>8. Told(y, out)
    <3>1. Len(out) \in 0 .. Len(out)
      BY <2>4
    <3> QED BY <2>2, <2>6, <3>1, Zenon DEF Told
  <2>9. out = session[y.id].out
    BY <2>2 DEF out
  <2> QED BY <2>2, <2>7, <2>8, <2>9, Zenon DEF ToldOf, y
<1>8. CASE StreamAlive(r)
  <2>1. x.pc = "alive"
    BY <1>8 DEF StreamAlive, At
  <2>2. PICK v : req' = [req EXCEPT ![r].alive = v, ![r].pc = "send"]
    BY <1>8, Zenon DEF StreamAlive
  <2>3. /\ OnlyMoves(r) /\ y.pc = "send" /\ y.kind = x.kind /\ y.id = x.id
        /\ y.sent = x.sent /\ y.chunk = x.chunk /\ y.offset = x.offset
    BY <1>1, <2>2 DEF OnlyMoves, IsRequest
  <2> QED BY <1>5, <2>1, <2>3
<1>9. CASE StreamSend(r)
  <2>1. x.pc = "send" /\ x.sent \in Seq(Byte) /\ x.chunk \in Seq(Byte)
    BY <1>1, <1>9 DEF StreamSend, At, Tells
  <2>2. CASE req' = [req EXCEPT ![r].pc = "chunk", ![r].ticks = 0, ![r].chunk = <<>>,
                                ![r].sent = @ \o Atob(Base64(req[r].chunk))]
    <3>1. /\ OnlyMoves(r) /\ y.pc = "chunk" /\ y.kind = x.kind /\ y.id = x.id
          /\ y.sent = x.sent \o Atob(Base64(x.chunk)) /\ y.chunk = <<>>
          /\ y.offset = x.offset
      BY <1>1, <2>2 DEF OnlyMoves, IsRequest
    <3>2. y.sent = x.sent \o x.chunk
      BY <2>1, <3>1, EventsAreFaithful
    <3>3. y.sent \in Seq(Byte) /\ y.sent \o y.chunk = x.sent \o x.chunk
      BY <2>1, <3>1, <3>2, ConcatProperties, ConcatEmptySeq
    <3>4. Tells(y)
      BY <1>1, <3>1, <3>3 DEF Tells
    <3>5. Told(y, out)
      BY <1>2, <1>3, <2>1, <3>1, <3>3 DEF Told
    <3> QED BY <3>1, <3>4, <3>5 DEF ToldOf
  <2>3. CASE x.chunk = <<>> /\ req' = [req EXCEPT ![r].pc = "chunk", ![r].ticks = (@ + 1) % KeepAlive]
    <3>1. PICK v : req' = [req EXCEPT ![r].pc = "chunk", ![r].ticks = v]
      BY <2>3, Zenon
    <3>2. /\ OnlyMoves(r) /\ y.pc = "chunk" /\ y.kind = x.kind /\ y.id = x.id
          /\ y.sent = x.sent /\ y.chunk = x.chunk /\ y.offset = x.offset
      BY <1>1, <3>1 DEF OnlyMoves, IsRequest
    <3> QED BY <1>5, <2>1, <2>3, <3>2
  <2> QED BY <1>4, <1>9, <2>2, <2>3, Zenon DEF StreamSend
<1> QED BY <1>6, <1>7, <1>8, <1>9

\* The other requests: no step of theirs writes to a client before its reply.
LEMMA OtherTells ==
  ASSUME Inv, BufInv, TellInv, NEW r \in Requests,
         \/ SpawnChild(r) \/ SpawnInsert(r) \/ InputLookup(r) \/ InputWrite(r)
         \/ KillRemove(r) \/ KillChild(r) \/ DropConnection(r) \/ ServeStatic(r)
  PROVE  \/ OnlyMoves(r) /\ req'[r].kind # "stream" /\ \A ses : ToldOf(req'[r], ses)
         \/ OnlyMoves(r) /\ ToldOf(req'[r], session) /\ session' = session
<1> DEFINE x == req[r]
           y == req'[r]
           Goal == \/ OnlyMoves(r) /\ y.kind # "stream" /\ \A ses : ToldOf(y, ses)
                   \/ OnlyMoves(r) /\ ToldOf(y, session) /\ session' = session
<1>1. IsRequest(x) /\ DOMAIN req = Requests /\ Tells(x)
  BY DEF Inv, ShapeInv, TellInv
<1>2. ASSUME x.kind # "stream", NEW reply, Respond(r, reply) PROVE Goal
  <2>1. /\ OnlyMoves(r) /\ y.kind = x.kind
    BY <1>2, RespondFacts DEF Inv
  <2>2. ToldOf(y, session)
    BY <1>2, ReplyTells
  <2> QED BY <1>2, <2>1, <2>2 DEF ToldOf
<1>3. ASSUME OnlyMoves(r), y.kind = x.kind, x.kind # "stream", y.sent = x.sent,
             y.chunk = x.chunk, y.offset = x.offset,
             y.pc \in {"insert", "write", "kill"}, x.pc \notin {"alive", "send"}
      PROVE  Goal
  <2>1. \A ses : ToldOf(y, ses)
    BY <1>1, <1>3 DEF Tells, ToldOf
  <2> QED BY <1>3, <2>1
<1>4. CASE SpawnChild(r)
  <2>1. x.kind = "spawn" /\ x.pc = "start"
    BY <1>4 DEF SpawnChild, At
  <2>2. /\ OnlyMoves(r) /\ y.pc = "insert" /\ y.kind = x.kind
        /\ y.sent = x.sent /\ y.chunk = x.chunk /\ y.offset = x.offset
    BY <1>1, <1>4 DEF SpawnChild, OnlyMoves, IsRequest
  <2> QED BY <1>3, <2>1, <2>2
<1>5. CASE SpawnInsert(r) \/ KillChild(r)
  <2>1. x.kind # "stream" /\ \E reply : Respond(r, reply)
    BY <1>5 DEF SpawnInsert, KillChild, At
  <2> QED BY <1>2, <2>1
<1>6. CASE InputLookup(r)
  <2>1. x.kind = "input" /\ x.pc = "start"
    BY <1>6 DEF InputLookup, At
  <2>2. CASE req' = [req EXCEPT ![r].pc = "write"]
    <3>1. /\ OnlyMoves(r) /\ y.pc = "write" /\ y.kind = x.kind
          /\ y.sent = x.sent /\ y.chunk = x.chunk /\ y.offset = x.offset
      BY <1>1, <2>2 DEF OnlyMoves, IsRequest
    <3> QED BY <1>3, <2>1, <3>1
  <2>3. CASE Respond(r, <<"ok">>)
    BY <1>2, <2>1, <2>3
  <2> QED BY <1>6, <2>2, <2>3 DEF InputLookup
<1>7. CASE InputWrite(r)
  <2>1. x.kind = "input" /\ x.pc = "write"
    BY <1>7 DEF InputWrite, At
  <2>2. CASE req' = [req EXCEPT ![r].left = @ - 1]
    <3>0. PICK v : req' = [req EXCEPT ![r].left = v]
      BY <2>2, Zenon
    <3>1. /\ OnlyMoves(r) /\ y.pc = x.pc /\ y.kind = x.kind
          /\ y.sent = x.sent /\ y.chunk = x.chunk /\ y.offset = x.offset
      BY <1>1, <3>0 DEF OnlyMoves, IsRequest
    <3> QED BY <1>3, <2>1, <3>1
  <2>3. CASE Respond(r, <<"ok">>)
    BY <1>2, <2>1, <2>3
  <2> QED BY <1>7, <2>2, <2>3 DEF InputWrite
<1>8. CASE KillRemove(r)
  <2>1. x.kind = "kill" /\ x.pc = "start"
    BY <1>8 DEF KillRemove, At
  <2>2. CASE req' = [req EXCEPT ![r].pc = "kill"]
    <3>1. /\ OnlyMoves(r) /\ y.pc = "kill" /\ y.kind = x.kind
          /\ y.sent = x.sent /\ y.chunk = x.chunk /\ y.offset = x.offset
      BY <1>1, <2>2 DEF OnlyMoves, IsRequest
    <3> QED BY <1>3, <2>1, <3>1
  <2>3. CASE Respond(r, <<"ok">>)
    BY <1>2, <2>1, <2>3
  <2> QED BY <1>8, <2>2, <2>3 DEF KillRemove
<1>9. CASE DropConnection(r) \/ ServeStatic(r)
  <2>1. session' = session /\ \E reply : Respond(r, reply)
    BY <1>9 DEF DropConnection, ServeStatic
  <2> QED BY <2>1, ReplyTells
<1> QED BY <1>4, <1>5, <1>6, <1>7, <1>8, <1>9

\* What was told stays a prefix of a buffer that grows.
LEMMA ToldStays ==
  ASSUME BufInv, Grows, NEW r \in Requests, ToldOf(req'[r], session)
  PROVE  ToldOf(req'[r], session')
<1> DEFINE y == req'[r]
<1> SUFFICES ASSUME y.kind = "stream", y.id \in Ids PROVE Told(y, session'[y.id].out)
  BY DEF ToldOf
<1>1. Told(y, session[y.id].out) /\ session[y.id].out \in Seq(Byte)
  BY DEF ToldOf, BufInv, Buffered
<1>2. PICK t \in Seq(Byte) : session'[y.id].out = session[y.id].out \o t
  BY DEF Grows
<1> QED BY <1>1, <1>2, ToldOfMore

LEMMA TellsKept ==
  ASSUME Inv, BufInv, TellInv, TNext
  PROVE  TellInv'
<1>1. Grows
  BY BuffersGrow
<1>2. \A q \in Requests : ToldOf(req[q], session)
  BY DEF TellInv, ToldOf
<1>3. ASSUME NEW r \in Requests, OnlyMoves(r), ToldOf(req'[r], session')
      PROVE  \A q \in Requests : ToldOf(req'[q], session')
  <2> SUFFICES ASSUME NEW q \in Requests, q # r PROVE ToldOf(req'[q], session')
    BY <1>3
  <2>1. ToldOf(req'[q], session)
    BY <1>2, <1>3 DEF OnlyMoves
  <2> QED BY <1>1, <2>1, ToldStays
<1>4. ASSUME NEW r \in Requests, WithoutMap(r) \/ TakesMap(r)
      PROVE  \A q \in Requests : ToldOf(req'[q], session')
  <2>1. CASE Accept(r)
    BY <1>1, <1>3, <2>1, AcceptTells, ToldStays
  <2>2. CASE StreamOpen(r) \/ StreamChunk(r) \/ StreamAlive(r) \/ StreamSend(r)
    BY <1>1, <1>3, <2>2, StreamTells, ToldStays
  <2>3. CASE \/ SpawnChild(r) \/ SpawnInsert(r) \/ InputLookup(r) \/ InputWrite(r)
             \/ KillRemove(r) \/ KillChild(r) \/ DropConnection(r) \/ ServeStatic(r)
    <3>1. OnlyMoves(r) /\ ToldOf(req'[r], session')
      BY <1>1, <2>3, OtherTells, ToldStays
    <3> QED BY <1>3, <3>1
  <2> QED BY <1>4, <2>1, <2>2, <2>3 DEF WithoutMap, TakesMap
<1>5. ASSUME req' = req PROVE \A q \in Requests : ToldOf(req'[q], session')
  <2> SUFFICES ASSUME NEW q \in Requests PROVE ToldOf(req'[q], session')
    OBVIOUS
  <2>1. ToldOf(req'[q], session)
    BY <1>2, <1>5
  <2> QED BY <1>1, <2>1, ToldStays
<1>6. \A q \in Requests : ToldOf(req'[q], session')
  <2>1. (\E r \in Requests : WithoutMap(r) \/ TakesMap(r)) \/ req' = req
    BY DEF TNext, ChildWrite, ChildRead, ChildExit, Pump
  <2> QED BY <1>4, <1>5, <2>1
<1> QED BY <1>6, Zenon DEF TellInv, ToldOf, Tells, Told

LEMMA BuffersInit == TInit => BufInv /\ TellInv
<1> SUFFICES ASSUME TInit PROVE BufInv /\ TellInv
  OBVIOUS
<1>1. <<>> \in Seq(Byte)
  OBVIOUS
<1>2. BufInv
  <2> SUFFICES ASSUME NEW i \in Ids PROVE Buffered(session[i])
    BY DEF BufInv
  <2>1. /\ session[i].out = <<>> /\ session[i].written = [s \in Sources |-> 0]
        /\ session[i].pumped = [s \in Sources |-> 0]
    BY DEF TInit, NoSession
  <2>2. \A s \in Sources : Len(Emits[s]) \in Nat
    OBVIOUS
  <2> QED BY <1>1, <2>1, <2>2 DEF Buffered
<1>3. TellInv
  <2> SUFFICES ASSUME NEW r \in Requests PROVE Tells(req[r]) /\ req[r].kind # "stream"
    BY DEF TellInv
  <2>1. /\ req[r].sent = <<>> /\ req[r].chunk = <<>> /\ req[r].offset = 0
        /\ req[r].pc = "idle" /\ req[r].kind = "none"
    BY DEF TInit, IdleRequest
  <2> QED BY <1>1, <2>1 DEF Tells
<1> QED BY <1>2, <1>3

\* No byte of a session's output is skipped, repeated or reordered in the events
\* a stream sends, for any output, any chunking and any number of streams,
\* however pumps, streams and kills interleave (pump, stream_session, base64).
THEOREM StreamsAreFaithful == TSpec => []StreamsDeliverPrefix
<1> DEFINE J == Inv /\ BufInv /\ TellInv
<1>1. TInit => J
  BY InitHolds, BuffersInit
<1>2. J /\ [TNext]_tvars => J'
  <2> SUFFICES ASSUME J, [TNext]_tvars PROVE J'
    OBVIOUS
  <2>1. Inv'
    BY NextKeeps
  <2>2. CASE TNext
    BY <2>1, <2>2, BuffersGrow, TellsKept
  <2>3. CASE UNCHANGED tvars
    <3>1. session' = session /\ req' = req
      BY <2>3 DEF tvars
    <3>2. BufInv' /\ TellInv'
      BY <3>1, Zenon DEF BufInv, Buffered, TellInv, Tells, Told
    <3> QED BY <2>1, <3>2
  <2> QED BY <2>2, <2>3
<1>3. J => StreamsDeliverPrefix
  <2> SUFFICES ASSUME J, NEW r \in Requests, req[r].kind = "stream", req[r].id \in Ids
               PROVE  IsPrefix(req[r].sent \o req[r].chunk, session[req[r].id].out)
    BY DEF StreamsDeliverPrefix
  <2> DEFINE x == req[r]
             out == session[x.id].out
  <2>1. Tells(x) /\ Told(x, out) /\ out \in Seq(Byte)
    BY DEF TellInv, BufInv, Buffered
  <2> HIDE DEF x, out
  <2>2. PICK n \in 0 .. Len(out) : x.sent \o x.chunk = SubSeq(out, 1, n)
    BY <2>1 DEF Told
  <2>3. n \in Nat /\ SubSeq(out, 1, n) \in Seq(Byte) /\ Len(SubSeq(out, 1, n)) = n /\ n <= Len(out)
    BY <2>1
  <2>4. SubSeq(SubSeq(out, 1, n), 1, n) = SubSeq(out, 1, n)
    BY <2>1, <2>3
  <2>5. IsPrefix(SubSeq(out, 1, n), out)
    BY <2>3, <2>4, Zenon DEF IsPrefix
  <2> QED BY <2>2, <2>5, Zenon DEF x, out
<1> HIDE DEF J
<1> QED BY <1>1, <1>2, <1>3, PTL DEF TSpec

-----------------------------------------------------------------------------
(* How long the map's mutex is held *)

\* What one request needs of its locals: an input has at most its body left to
\* write, and a holder of the mutex works on a session that exists.
Fits(x, n) ==
  /\ x.kind = "input" /\ x.pc \in {"start", "write"} => x.left \in 0 .. BodyLen
  /\ x.kind = "input" /\ x.pc = "write" => x.id \in Ids /\ x.id < n
  /\ x.kind = "kill" /\ x.pc = "kill" => x.id \in Ids /\ x.id < n

HoldInv ==
  /\ \A r \in Requests : Fits(req[r], nextId)
  /\ \A i \in Ids : session[i].pipe \in 0 .. PipeCap

\* The steps that the holder of the mutex still takes before it gives it back:
\* one for each byte left of the body and one for the reply.
HoldLeft(r) == IF At(r, "input", "write") THEN req[r].left + 1 ELSE 1

\* A hold is no longer than the body of one input request, and the pipe that
\* its holder may have to wait for belongs to an existing session.
HoldsAreBounded ==
  \A r \in Requests : lock = r =>
    /\ HoldLeft(r) \in 1 .. BodyLen + 1
    /\ req[r].id \in Ids /\ session[req[r].id].pipe \in 0 .. PipeCap

\* A step of the holder gives the mutex back or shortens the hold.  A step of
\* anyone else leaves the hold as it is, and never adds to what the holder waits
\* for: it does not fill its session's pipe or start a child again.
HoldsMoveOn ==
  \A r \in Requests : lock = r =>
    IF InputWrite(r) \/ KillChild(r)
    THEN lock' = Free \/ (lock' = r /\ HoldLeft(r)' < HoldLeft(r))
    ELSE LET i == req[r].id IN
         /\ lock' = r /\ req'[r] = req[r]
         /\ session'[i].pipe <= session[i].pipe
         /\ session'[i].child = "running" => session[i].child = "running"

\* Requests with their reply need nothing.
LEMMA ReplyFits ==
  ASSUME Inv, NEW r \in Requests, NEW reply, Respond(r, reply)
  PROVE  OnlyMoves(r) /\ Fits(req'[r], nextId)
  BY RespondFacts DEF Inv, Fits

\* A thread of a stream or of a spawn, and one that has no request yet.
LEMMA OthersFit ==
  ASSUME Inv, NEW r \in Requests,
         \/ DropConnection(r) \/ Accept(r) \/ ServeStatic(r) \/ SpawnChild(r) \/ SpawnInsert(r)
         \/ StreamOpen(r) \/ StreamChunk(r) \/ StreamAlive(r) \/ StreamSend(r)
  PROVE  OnlyMoves(r) /\ Fits(req'[r], nextId)
<1>1. IsRequest(req[r]) /\ DOMAIN req = Requests
  BY DEF Inv, ShapeInv
<1>2. CASE \E reply : Respond(r, reply)
  BY <1>2, ReplyFits
<1>3. CASE Accept(r)
  <2>1. PICK k, d : req' = [req EXCEPT ![r].pc = "start", ![r].kind = k, ![r].id = d,
                                       ![r].left = IF k = "input" THEN BodyLen ELSE 0]
    BY <1>3, Zenon DEF Accept
  <2>2. /\ OnlyMoves(r) /\ req'[r].pc = "start" /\ req'[r].kind = k
        /\ req'[r].left = IF k = "input" THEN BodyLen ELSE 0
    BY <1>1, <2>1 DEF OnlyMoves, IsRequest
  <2>3. BodyLen \in 0 .. BodyLen
    OBVIOUS
  <2> QED BY <2>2, <2>3 DEF Fits
<1>4. CASE SpawnChild(r)
  <2>1. OnlyMoves(r) /\ req'[r].kind = "spawn"
    BY <1>1, <1>4 DEF SpawnChild, At, OnlyMoves, IsRequest
  <2> QED BY <2>1 DEF Fits
<1>6. CASE StreamOpen(r) /\ req' = [req EXCEPT ![r].pc = "chunk"]
  <2>1. OnlyMoves(r) /\ req'[r].kind = "stream"
    BY <1>1, <1>6 DEF StreamOpen, At, OnlyMoves, IsRequest
  <2> QED BY <2>1 DEF Fits
<1>7. CASE StreamChunk(r)
  <2>1. PICK c, o : req' = [req EXCEPT ![r].chunk = c, ![r].offset = o, ![r].pc = "alive"]
    BY <1>7, Zenon DEF StreamChunk
  <2>2. OnlyMoves(r) /\ req'[r].kind = "stream"
    BY <1>1, <1>7, <2>1 DEF StreamChunk, At, OnlyMoves, IsRequest
  <2> QED BY <2>2 DEF Fits
<1>8. CASE StreamAlive(r)
  <2>1. PICK a : req' = [req EXCEPT ![r].alive = a, ![r].pc = "send"]
    BY <1>8, Zenon DEF StreamAlive
  <2>2. req[r].kind = "stream"
    BY <1>8 DEF StreamAlive, At
  <2>3. OnlyMoves(r) /\ req'[r].kind = "stream"
    BY <1>1, <2>1, <2>2 DEF OnlyMoves, IsRequest
  <2> QED BY <2>3 DEF Fits
<1>9. CASE StreamSend(r) /\ ~ \E reply : Respond(r, reply)
  <2>0. req[r].kind = "stream"
    BY <1>9 DEF StreamSend, At
  <2>1. \/ \E t, e : req' = [req EXCEPT ![r].pc = "chunk", ![r].ticks = 0, ![r].chunk = t,
                                        ![r].sent = e]
        \/ \E t : req' = [req EXCEPT ![r].pc = "chunk", ![r].ticks = t]
    BY <1>9, Zenon DEF StreamSend
  <2>2. ASSUME NEW t, NEW e, req' = [req EXCEPT ![r].pc = "chunk", ![r].ticks = 0, ![r].chunk = t,
                                                ![r].sent = e]
        PROVE  OnlyMoves(r) /\ req'[r].kind = "stream"
    BY <1>1, <2>0, <2>2 DEF OnlyMoves, IsRequest
  <2>3. ASSUME NEW t, req' = [req EXCEPT ![r].pc = "chunk", ![r].ticks = t]
        PROVE  OnlyMoves(r) /\ req'[r].kind = "stream"
    BY <1>1, <2>0, <2>3 DEF OnlyMoves, IsRequest
  <2> QED BY <2>1, <2>2, <2>3 DEF Fits
<1> QED
  BY <1>2, <1>3, <1>4, <1>6, <1>7, <1>8, <1>9
  DEF DropConnection, ServeStatic, SpawnInsert, StreamOpen

\* A thread that takes the mutex, or has it.
LEMMA HoldersFit ==
  ASSUME Inv, HoldInv, NEW r \in Requests,
         InputLookup(r) \/ InputWrite(r) \/ KillRemove(r) \/ KillChild(r)
  PROVE  OnlyMoves(r) /\ Fits(req'[r], nextId)
<1>1. IsRequest(req[r]) /\ DOMAIN req = Requests /\ Fits(req[r], nextId)
  BY DEF Inv, ShapeInv, HoldInv
<1>2. CASE \E reply : Respond(r, reply)
  BY <1>2, ReplyFits
<1>3. \A i \in map : i \in Ids /\ i < nextId
  BY DEF Inv, IdInv, Settled
<1>5. CASE InputLookup(r) /\ req' = [req EXCEPT ![r].pc = "write"] /\ req[r].id \in map
  <2>1. /\ OnlyMoves(r) /\ req'[r].kind = "input" /\ req'[r].left = req[r].left
        /\ req'[r].id = req[r].id /\ req[r].kind = "input" /\ req[r].pc = "start"
    BY <1>1, <1>5 DEF InputLookup, At, OnlyMoves, IsRequest
  <2> QED BY <1>1, <1>3, <1>5, <2>1 DEF Fits
<1>6. CASE InputWrite(r) /\ req' = [req EXCEPT ![r].left = @ - 1] /\ req[r].left > 0
  <2>1. /\ OnlyMoves(r) /\ req'[r].kind = "input" /\ req'[r].left = req[r].left - 1
        /\ req'[r].id = req[r].id /\ req[r].kind = "input" /\ req[r].pc = "write"
    BY <1>1, <1>6 DEF InputWrite, At, OnlyMoves, IsRequest
  <2>2. req[r].left - 1 \in 0 .. BodyLen /\ req[r].id \in Ids /\ req[r].id < nextId
    BY <1>1, <1>6, <2>1 DEF Fits
  <2> QED BY <2>1, <2>2 DEF Fits
<1>7. CASE KillRemove(r) /\ req' = [req EXCEPT ![r].pc = "kill"] /\ req[r].id \in map
  <2>1. OnlyMoves(r) /\ req'[r].kind = "kill" /\ req'[r].id = req[r].id
    BY <1>1, <1>7 DEF KillRemove, At, OnlyMoves, IsRequest
  <2> QED BY <1>3, <1>7, <2>1 DEF Fits
<1> QED BY <1>2, <1>5, <1>6, <1>7 DEF InputLookup, InputWrite, KillRemove, KillChild

\* Only an input fills a pipe, and not past its end; nobody starts a child
\* whose session is in somebody's hands.
LEMMA PipesStep ==
  ASSUME Inv, HoldInv, [TNext]_tvars
  PROVE  /\ \A i \in Ids : session'[i].pipe \in 0 .. PipeCap
         /\ (\A q \in Requests : ~ InputWrite(q)) =>
              \A i \in Ids : session'[i].pipe <= session[i].pipe
         /\ \A i \in Ids : i < nextId /\ session'[i].child = "running" => session[i].child = "running"
<1> DEFINE Goal == /\ \A i \in Ids : session'[i].pipe \in 0 .. PipeCap
                   /\ (\A q \in Requests : ~ InputWrite(q)) =>
                        \A i \in Ids : session'[i].pipe <= session[i].pipe
                   /\ \A i \in Ids : i < nextId /\ session'[i].child = "running" =>
                        session[i].child = "running"
<1>1. /\ DOMAIN session = Ids /\ nextId \in Nat
      /\ \A i \in Ids : IsSession(session[i]) /\ session[i].pipe \in 0 .. PipeCap
  BY DEF Inv, ShapeInv, HoldInv, IdInv
<1>2. ASSUME session' = session PROVE Goal
  BY <1>1, <1>2
<1>3. ASSUME NEW r \in Requests, SpawnChild(r) PROVE Goal
  <2>1. CASE session' = [session EXCEPT ![nextId].child = "running"]
    BY <1>1, <1>3, <2>1 DEF SpawnChild, IsSession
  <2>2. CASE session' = [session EXCEPT ![nextId].child = "failed", ![nextId].out = SpawnError]
    BY <1>1, <1>3, <2>2 DEF SpawnChild, IsSession
  <2> QED BY <1>3, <2>1, <2>2 DEF SpawnChild
<1>4. ASSUME NEW r \in Requests, InputWrite(r) PROVE Goal
  <2>1. CASE /\ session[req[r].id].pipe < PipeCap
             /\ session' = [session EXCEPT ![req[r].id].pipe = @ + 1]
    <3>1. \A i \in Ids : /\ session'[i].pipe \in 0 .. PipeCap
                         /\ session'[i].child = session[i].child
      BY <1>1, <2>1 DEF IsSession
    <3> QED BY <1>4, <3>1
  <2> QED BY <1>2, <1>4, <2>1 DEF InputWrite
<1>5. ASSUME NEW r \in Requests, KillChild(r) PROVE Goal
  BY <1>1, <1>5 DEF KillChild, IsSession
<1>6. ASSUME NEW i \in Ids, ChildWrite(i) PROVE Goal
  BY <1>1, <1>6 DEF ChildWrite, IsSession
<1>7. ASSUME NEW i \in Ids, ChildRead(i) PROVE Goal
  BY <1>1, <1>7 DEF ChildRead, IsSession
<1>8. ASSUME NEW i \in Ids, ChildExit(i) PROVE Goal
  BY <1>1, <1>8 DEF ChildExit, IsSession
<1>9. ASSUME NEW i \in Ids, NEW s \in Sources, Pump(i, s) PROVE Goal
  <2>1. PICK n : session' = [session EXCEPT
                ![i].out = @ \o SubSeq(Emits[s], session[i].pumped[s] + 1, n),
                ![i].pumped[s] = n]
    BY <1>9, Zenon DEF Pump
  <2>2. PICK out, pumped : session' = [session EXCEPT ![i].out = out, ![i].pumped = pumped]
    <3> WITNESS session[i].out \o SubSeq(Emits[s], session[i].pumped[s] + 1, n),
                [session[i].pumped EXCEPT ![s] = n]
    <3> QED BY <1>1, <2>1 DEF IsSession
  <2>3. \A j \in Ids : session'[j].pipe = session[j].pipe /\ session'[j].child = session[j].child
    BY <1>1, <2>2 DEF IsSession
  <2>4. \A j \in Ids : session'[j].pipe \in 0 .. PipeCap /\ session'[j].pipe <= session[j].pipe
    BY <1>1, <2>3
  <2> QED BY <2>3, <2>4, Zenon
<1>10. ASSUME NEW r \in Requests,
              \/ Accept(r) \/ DropConnection(r) \/ ServeStatic(r) \/ StreamChunk(r)
              \/ StreamSend(r) \/ TakesMap(r)
       PROVE  session' = session
  BY <1>10, Zenon DEF TakesMap, Accept, DropConnection, ServeStatic, StreamChunk, StreamSend,
     SpawnInsert, InputLookup, KillRemove, StreamOpen, StreamAlive
<1>11. UNCHANGED tvars => session' = session
  BY DEF tvars
<1> HIDE DEF Goal
<1>12. ASSUME NEW r \in Requests, WithoutMap(r) \/ TakesMap(r) PROVE Goal
  BY <1>2, <1>3, <1>4, <1>5, <1>10, <1>12 DEF WithoutMap
<1>13. Goal
  BY <1>2, <1>6, <1>7, <1>8, <1>9, <1>11, <1>12 DEF TNext
<1> QED BY <1>13 DEF Goal

\* HoldInv is inductive.
LEMMA HoldStep == Inv /\ HoldInv /\ [TNext]_tvars => HoldInv'
<1> SUFFICES ASSUME Inv, HoldInv, [TNext]_tvars PROVE HoldInv'
  OBVIOUS
<1>0. nextId \in Nat /\ nextId' \in {nextId, nextId + 1}
  BY DEF Inv, IdInv, TNext, tvars, WithoutMap, TakesMap, Accept, DropConnection, ServeStatic,
     SpawnChild, InputWrite, KillChild, StreamChunk, StreamSend, SpawnInsert, InputLookup,
     KillRemove, StreamOpen, StreamAlive, ChildWrite, ChildRead, ChildExit, Pump
<1>1. \A i \in Ids : session'[i].pipe \in 0 .. PipeCap
  BY PipesStep
<1>2. ASSUME NEW r \in Requests, WithoutMap(r) \/ TakesMap(r) PROVE OnlyMoves(r) /\ Fits(req'[r], nextId)
  BY <1>2, OthersFit, HoldersFit DEF WithoutMap, TakesMap
<1>3. ASSUME NEW r \in Requests, WithoutMap(r) \/ TakesMap(r) PROVE \A q \in Requests : Fits(req'[q], nextId)
  BY <1>2, <1>3 DEF OnlyMoves, HoldInv
<1>4. CASE req' = req
  <2>1. \A q \in Requests : Fits(req'[q], nextId')
    BY <1>0, <1>4 DEF Fits, Ids, HoldInv
  <2> QED BY <1>1, <2>1 DEF HoldInv
<1>5. CASE req' # req
  <2>1. PICK r \in Requests : WithoutMap(r) \/ TakesMap(r)
    BY <1>5 DEF TNext, tvars, ChildWrite, ChildRead, ChildExit, Pump
  <2>2. \A q \in Requests : Fits(req'[q], nextId)
    BY <1>3, <2>1
  <2>3. \A q \in Requests : Fits(req'[q], nextId')
    BY <1>0, <2>2 DEF Fits, Ids
  <2> QED BY <1>1, <2>3 DEF HoldInv
<1> QED BY <1>4, <1>5

\* What a step does to a hold.
LEMMA HoldMoves == Inv /\ HoldInv /\ [TNext]_tvars => HoldsMoveOn
<1> SUFFICES ASSUME Inv, HoldInv, [TNext]_tvars, NEW r \in Requests, lock = r
             PROVE  IF InputWrite(r) \/ KillChild(r)
                    THEN lock' = Free \/ (lock' = r /\ HoldLeft(r)' < HoldLeft(r))
                    ELSE /\ lock' = r /\ req'[r] = req[r]
                         /\ session'[req[r].id].pipe <= session[req[r].id].pipe
                         /\ session'[req[r].id].child = "running" =>
                              session[req[r].id].child = "running"
  BY DEF HoldsMoveOn
<1>1. /\ \A q \in Requests : Holds(q) => q = r
      /\ Holds(r) /\ lock # Free /\ Fits(req[r], nextId) /\ req[r].id \in Ids
      /\ req[r].id < nextId /\ IsRequest(req[r]) /\ DOMAIN req = Requests
  BY DEF Inv, LockInv, HoldInv, Fits, Holds, At, ShapeInv
<1>2. CASE InputWrite(r) \/ KillChild(r)
  <2>1. CASE InputWrite(r) /\ lock' # Free
    <3>1. lock' = r /\ req' = [req EXCEPT ![r].left = @ - 1] /\ At(r, "input", "write")
      BY <2>1 DEF InputWrite
    <3>2. req'[r].pc = req[r].pc /\ req'[r].kind = req[r].kind /\ req'[r].left = req[r].left - 1
      BY <1>1, <3>1 DEF IsRequest
    <3>3. req[r].left \in Nat
      BY <1>1, <3>1 DEF Fits, At
    <3> QED BY <1>2, <3>1, <3>2, <3>3 DEF HoldLeft, At
  <2> QED BY <1>2, <2>1 DEF KillChild
<1>3. CASE ~ (InputWrite(r) \/ KillChild(r))
  <2>1. \A q \in Requests : ~ InputWrite(q) /\ ~ KillChild(q)
    BY <1>1, <1>3 DEF InputWrite, KillChild, Holds
  <2>2. \A q \in Requests : ~ TakesMap(q)
    BY <1>1 DEF TakesMap, SpawnInsert, InputLookup, KillRemove, StreamOpen, StreamAlive
  <2>3. lock' = lock
    BY <2>1, <2>2 DEF TNext, tvars, WithoutMap, ChildWrite, ChildRead, ChildExit, Pump, Accept,
       DropConnection, ServeStatic, SpawnChild, StreamChunk, StreamSend
  <2>4. ASSUME NEW q \in Requests, WithoutMap(q) PROVE q # r /\ OnlyMoves(q)
    <3>1. q # r
      BY <1>1, <2>1, <2>4 DEF Holds, At, WithoutMap, Accept, DropConnection, ServeStatic, SpawnChild,
         StreamChunk, StreamSend
    <3> QED BY <2>1, <2>4, <3>1, OthersFit DEF WithoutMap
  <2>5. req'[r] = req[r]
    BY <2>2, <2>4 DEF OnlyMoves, TNext, tvars, ChildWrite, ChildRead, ChildExit, Pump
  <2> QED BY <1>1, <1>3, <2>1, <2>3, <2>5, PipesStep
<1> QED BY <1>2, <1>3

\* The map's mutex is held for at most one step per byte of an input's body and
\* one more of its holder; nothing that other threads or children do makes a hold
\* longer.  What MapReleasedUnlessStarved adds, that the holder takes these steps
\* unless its child does not read, is left to TLC.
THEOREM HoldsEnd == TSpec => []HoldsAreBounded /\ [][HoldsMoveOn]_tvars
<1>1. TInit => HoldInv
  <2> SUFFICES ASSUME TInit PROVE HoldInv
    OBVIOUS
  <2>1. \A r \in Requests : req[r].pc = "idle"
    BY DEF TInit, IdleRequest
  <2>2. \A i \in Ids : session[i].pipe = 0
    BY DEF TInit, NoSession
  <2> QED BY <2>1, <2>2 DEF HoldInv, Fits
<1>2. TSpec => [](Inv /\ HoldInv)
  BY <1>1, InitHolds, NextKeeps, HoldStep, PTL DEF TSpec
<1>3. Inv /\ HoldInv => HoldsAreBounded
  <2> SUFFICES ASSUME Inv, HoldInv, NEW r \in Requests, lock = r
               PROVE  /\ HoldLeft(r) \in 1 .. BodyLen + 1
                      /\ req[r].id \in Ids /\ session[req[r].id].pipe \in 0 .. PipeCap
    BY DEF HoldsAreBounded
  <2>1. Holds(r) /\ Fits(req[r], nextId)
    BY DEF Inv, LockInv, HoldInv
  <2> QED BY <2>1 DEF HoldInv, Fits, Holds, At, HoldLeft
<1> QED BY <1>2, <1>3, HoldMoves, PTL DEF TSpec
=============================================================================
