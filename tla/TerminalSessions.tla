-------------------------- MODULE TerminalSessions --------------------------
(***************************************************************************)
(* The front-end shell's terminal server (src/surface/src/main.rs): one    *)
(* thread per connection, a map of sessions behind one mutex, one child    *)
(* process per session whose stdout and stderr are pumped into a buffer    *)
(* that event streams read.  The mutexes inside a session (stdin, child)   *)
(* are only ever taken by a thread that holds the map's mutex, so the map's *)
(* mutex stands for them; the buffer's mutex is never held across a        *)
(* blocking call, so a step that uses it is atomic.                        *)
(***************************************************************************)
EXTENDS Integers, Sequences, FiniteSets, SequencesExt

CONSTANTS
    Requests,     \* the connections the listener accepts, one request each
    MaxSessions,  \* bound on the ids NEXT_ID hands out
    PipeCap,      \* what the pipe to a child's stdin holds
    BodyLen,      \* length of the body of an input request
    Emits,        \* Emits[s]: the bytes a child writes to its pipe s
    KeepAlive,    \* idle ticks between two keepalive comments (100 in the code)
    Queries,      \* query strings of requests, as sequences of [key, val]
    Envs,         \* what the environment may say of the seat
    Probes        \* what the four local services may answer to http_get

Ids == 1 .. MaxSessions
Sources == {"out", "err"}
Free == "free"        \* the map's mutex has no holder
NotANumber == -1      \* the value of a query key that does not parse as u64
NotSet == "unset"     \* an environment variable or file that does not exist
Blank == "blank"      \* a string that is empty once trimmed
Pad == 64             \* the '=' of base64; 0..63 are its digits

ASSUME TerminalAssumption ==
    /\ MaxSessions \in Nat /\ PipeCap \in Nat \ {0} /\ BodyLen \in Nat
    /\ Emits \in [Sources -> Seq(0 .. 255)] /\ KeepAlive \in Nat \ {0}
    /\ Free \notin Requests

VARIABLES
    nextId,   \* NEXT_ID
    map,      \* the keys of the session map
    lock,     \* holder of the map's mutex
    session,  \* session[id]: the child, its pipes and the output buffer
    req       \* req[r]: the thread that serves connection r

tvars == <<nextId, map, lock, session, req>>

-----------------------------------------------------------------------------
(* Conversions *)

\* query_id: the first id= pair decides; without one, or with one that does
\* not parse, the id is 0, which NEXT_ID never hands out.
QueryId(q) ==
    LET hits == SelectSeq(q, LAMBDA p : p.key = "id")
    IN  IF hits = <<>> \/ hits[1].val = NotANumber THEN 0 ELSE hits[1].val

\* base64: three bytes become four digits, the last group is padded.
Base64(data) ==
    LET n == Len(data)
        Byte(i) == IF i <= n THEN data[i] ELSE 0
    IN  [k \in 1 .. 4 * ((n + 2) \div 3) |->
            LET g == 3 * ((k - 1) \div 4)
                b0 == Byte(g + 1)
                b1 == Byte(g + 2)
                b2 == Byte(g + 3)
            IN  CASE (k - 1) % 4 = 0 -> b0 \div 4
                  [] (k - 1) % 4 = 1 -> (b0 % 4) * 16 + b1 \div 16
                  [] (k - 1) % 4 = 2 ->
                        IF g + 2 <= n THEN (b1 % 16) * 4 + b2 \div 64 ELSE Pad
                  [] OTHER -> IF g + 3 <= n THEN b2 % 64 ELSE Pad]

\* The bytes an event carries: base64 read back, as the browser's atob does.  What
\* the page then makes of the bytes of one event is not modelled.
Atob(e) ==
    LET n == 3 * (Len(e) \div 4) - Cardinality({k \in DOMAIN e : e[k] = Pad})
        D(k) == IF e[k] = Pad THEN 0 ELSE e[k]
    IN  [i \in 1 .. n |->
            LET g == 4 * ((i - 1) \div 3)
            IN  CASE (i - 1) % 3 = 0 -> D(g + 1) * 4 + D(g + 2) \div 16
                  [] (i - 1) % 3 = 1 -> (D(g + 2) % 16) * 16 + D(g + 3) \div 4
                  [] OTHER -> (D(g + 3) % 4) * 64 + D(g + 4)]

\* resolve_ident: a non-blank variable wins, then a non-blank file under a
\* home that is set, then the default.
ResolveIdent(env, home, file, default) ==
    IF env \notin {NotSet, Blank} THEN env
    ELSE IF home \notin {NotSet, ""} /\ file \notin {NotSet, Blank} THEN file
    ELSE default

SeatName(e) == ResolveIdent(e.seat, e.home, e.file, "ASOLARIA-NODE")

\* fabric_port_for_local and fabric_port_for_context: the port follows the
\* seat's name or the host's name.
FabricPort(e) ==
    IF SeatName(e) \in e.lirisNames \/ e.host \in e.lirisNames THEN 4944 ELSE 4949

\* http_get: nothing read (no connection, timeout, early close) is None; a
\* reply without a body is Some of the empty string.
HttpGet(answer) ==
    CASE answer \in {"refused", "silent"} -> "none"
      [] answer = "headers" -> "empty"
      [] OTHER -> "body"

\* live_status: kernel and bus count as up when the body is not empty, the
\* recall vault and the fabric already when there was any answer.
LiveStatus(e, p) ==
    <<"live", FabricPort(e),
      {s \in {"kernel", "bus"} : HttpGet(p[s]) = "body"}
          \cup {s \in {"recall", "fabric"} : HttpGet(p[s]) # "none"}>>

-----------------------------------------------------------------------------
(* State *)

NoSession == [child |-> "absent", pipe |-> 0, written |-> [s \in Sources |-> 0],
              pumped |-> [s \in Sources |-> 0], out |-> <<>>]

IdleRequest == [pc |-> "idle", kind |-> "none", id |-> 0, left |-> 0,
                offset |-> 0, chunk |-> <<>>, alive |-> TRUE, ticks |-> 0,
                sent |-> <<>>, reply |-> <<>>]

TInit ==
    /\ nextId = 1
    /\ map = {}
    /\ lock = Free
    /\ session = [i \in Ids |-> NoSession]
    /\ req = [r \in Requests |-> IdleRequest]

\* The text a session's buffer starts with when its shell cannot be spawned.
SpawnError == <<33>>

At(r, kind, pc) == req[r].kind = kind /\ req[r].pc = pc

\* The reply is written and the thread's locals are gone.
Respond(r, reply) ==
    req' = [req EXCEPT ![r] = [IdleRequest EXCEPT
                                 !.pc = "done", !.kind = req[r].kind, !.id = req[r].id,
                                 !.sent = req[r].sent, !.reply = reply]]

-----------------------------------------------------------------------------
(* handle: main accepts, the thread reads the request and dispatches on the  *)
(* method and the path                                                       *)

\* A connection that closes before its request is whole ends its thread.
DropConnection(r) ==
    /\ req[r].pc = "idle"
    /\ Respond(r, <<"closed">>)
    /\ UNCHANGED <<nextId, map, lock, session>>

Accept(r) ==
    /\ req[r].pc = "idle"
    /\ \E k \in {"spawn", "input", "kill", "stream"}, q \in Queries :
         req' = [req EXCEPT ![r].pc = "start", ![r].kind = k,
                            ![r].id = IF k = "spawn" THEN 0 ELSE QueryId(q),
                            ![r].left = IF k = "input" THEN BodyLen ELSE 0]
    /\ UNCHANGED <<nextId, map, lock, session>>

\* The requests that touch no session, served in one step: the page and
\* /health, the status of the local services, a Windows environment in the
\* first way that starts, and anything unknown.
ServeStatic(r) ==
    /\ req[r].pc = "idle"
    /\ \E e \in Envs, p \in Probes :
         \/ Respond(r, <<"page", SeatName(e)>>)
         \/ Respond(r, LiveStatus(e, p))
         \/ \E env \in {"sandbox", "explorer", "failed"} : Respond(r, <<"launch", env>>)
         \/ Respond(r, <<"404">>)
    /\ UNCHANGED <<nextId, map, lock, session>>

-----------------------------------------------------------------------------
(* POST /term/spawn *)

\* spawn_session up to the insertion: the id is taken, the child runs and its
\* pumps with it, or the spawn fails and the buffer holds the error.
SpawnChild(r) ==
    /\ At(r, "spawn", "start") /\ nextId \in Ids
    /\ nextId' = nextId + 1
    /\ \/ session' = [session EXCEPT ![nextId].child = "running"]
       \/ session' = [session EXCEPT ![nextId].child = "failed",
                                     ![nextId].out = SpawnError]
    /\ req' = [req EXCEPT ![r].pc = "insert", ![r].id = nextId]
    /\ UNCHANGED <<map, lock>>

\* sessions().lock().insert(id, sess), and the reply with the id.
SpawnInsert(r) ==
    /\ At(r, "spawn", "insert") /\ lock = Free
    /\ map' = map \cup {req[r].id}
    /\ Respond(r, <<"id", req[r].id>>)
    /\ UNCHANGED <<nextId, lock, session>>

-----------------------------------------------------------------------------
(* POST /term/input: the guard of the map is a temporary of the `if let`, so *)
(* the mutex is held until the whole body is written                         *)

HasStdin(id) == session[id].child # "failed"

InputLookup(r) ==
    /\ At(r, "input", "start") /\ lock = Free
    /\ \/ /\ req[r].id \in map /\ HasStdin(req[r].id)
          /\ lock' = r
          /\ req' = [req EXCEPT ![r].pc = "write"]
       \/ /\ ~(req[r].id \in map /\ HasStdin(req[r].id))
          /\ Respond(r, <<"ok">>) /\ UNCHANGED lock
    /\ UNCHANGED <<nextId, map, session>>

\* Mutant: a write to a dead child waits like one to a slow child.
InputWriteRetry(r) ==
    /\ At(r, "input", "write")
    /\ \/ /\ req[r].left > 0 /\ session[req[r].id].pipe < PipeCap
          /\ session' = [session EXCEPT ![req[r].id].pipe = @ + 1]
          /\ req' = [req EXCEPT ![r].left = @ - 1]
          /\ UNCHANGED lock
       \/ /\ req[r].left = 0
          /\ lock' = Free
          /\ Respond(r, <<"ok">>)
          /\ UNCHANGED session
    /\ UNCHANGED <<nextId, map>>

\* write_all blocks while the pipe is full and the child lives; a dead child
\* makes it fail, which the handler ignores.
InputWrite(r) ==
    LET i == req[r].id IN
    /\ At(r, "input", "write")
    /\ \/ /\ req[r].left > 0 /\ session[i].child = "running" /\ session[i].pipe < PipeCap
          /\ session' = [session EXCEPT ![i].pipe = @ + 1]
          /\ req' = [req EXCEPT ![r].left = @ - 1]
          /\ UNCHANGED lock
       \/ /\ req[r].left = 0 \/ session[i].child # "running"
          /\ lock' = Free
          /\ Respond(r, <<"ok">>)
          /\ UNCHANGED session
    /\ UNCHANGED <<nextId, map>>

-----------------------------------------------------------------------------
(* POST /term/kill: removal and kill under one hold of the map's mutex       *)

\* Mutant: the session is removed in a statement of its own, so the mutex is
\* free again before the kill.
KillRemoveUnlocked(r) ==
    /\ At(r, "kill", "start") /\ lock = Free
    /\ \/ /\ req[r].id \in map
          /\ map' = map \ {req[r].id}
          /\ req' = [req EXCEPT ![r].pc = "kill"]
       \/ /\ req[r].id \notin map
          /\ Respond(r, <<"ok">>) /\ UNCHANGED map
    /\ UNCHANGED <<nextId, lock, session>>

KillRemove(r) ==
    /\ At(r, "kill", "start") /\ lock = Free
    /\ \/ /\ req[r].id \in map
          /\ map' = map \ {req[r].id}
          /\ lock' = r
          /\ req' = [req EXCEPT ![r].pc = "kill"]
       \/ /\ req[r].id \notin map
          /\ Respond(r, <<"ok">>) /\ UNCHANGED <<map, lock>>
    /\ UNCHANGED <<nextId, session>>

\* Mutant: the session is dropped without killing its child.
KillChildForget(r) ==
    /\ At(r, "kill", "kill")
    /\ lock' = Free
    /\ Respond(r, <<"ok">>)
    /\ UNCHANGED <<nextId, map, session>>

\* ch.kill() does nothing to a child that has exited or was never spawned.
KillChild(r) ==
    /\ At(r, "kill", "kill")
    /\ session' = [session EXCEPT ![req[r].id].child =
                                    IF @ = "running" THEN "killed" ELSE @]
    /\ lock' = Free
    /\ Respond(r, <<"ok">>)
    /\ UNCHANGED <<nextId, map>>

-----------------------------------------------------------------------------
(* GET /term/stream: stream_session *)

StreamOpen(r) ==
    /\ At(r, "stream", "start") /\ lock = Free
    /\ \/ req[r].id \in map /\ req' = [req EXCEPT ![r].pc = "chunk"]
       \/ req[r].id \in map /\ Respond(r, <<"broken">>)
       \/ req[r].id \notin map /\ Respond(r, <<"404">>)
    /\ UNCHANGED <<nextId, map, lock, session>>

\* Mutant: the chunk starts one byte early.
StreamChunkOverlap(r) ==
    LET buf == session[req[r].id].out
        from == IF req[r].offset = 0 THEN 1 ELSE req[r].offset IN
    /\ At(r, "stream", "chunk")
    /\ req' = [req EXCEPT ![r].chunk = SubSeq(buf, from, Len(buf)),
                          ![r].offset = Len(buf), ![r].pc = "alive"]
    /\ UNCHANGED <<nextId, map, lock, session>>

\* Under the buffer's mutex: everything past the offset, which moves to the end.
StreamChunk(r) ==
    LET buf == session[req[r].id].out IN
    /\ At(r, "stream", "chunk")
    /\ req' = [req EXCEPT ![r].chunk = SubSeq(buf, req[r].offset + 1, Len(buf)),
                          ![r].offset = Len(buf), ![r].pc = "alive"]
    /\ UNCHANGED <<nextId, map, lock, session>>

StreamAlive(r) ==
    /\ At(r, "stream", "alive") /\ lock = Free
    /\ req' = [req EXCEPT ![r].alive = req[r].id \in map, ![r].pc = "send"]
    /\ UNCHANGED <<nextId, map, lock, session>>

\* A chunk is sent as one event; without one a dead session ends the stream, a
\* live one counts an idle tick, with a keepalive now and then.  A write to a
\* client that went away ends the thread; a write to one that is connected and
\* does not read waits for it, with no timeout, so this step may never come.
StreamSend(r) ==
    /\ At(r, "stream", "send")
    /\ \/ /\ req[r].chunk # <<>>
          /\ \/ req' = [req EXCEPT ![r].pc = "chunk", ![r].ticks = 0, ![r].chunk = <<>>,
                                   ![r].sent = @ \o Atob(Base64(req[r].chunk))]
             \/ Respond(r, <<"broken">>)
       \/ /\ req[r].chunk = <<>> /\ ~req[r].alive
          /\ Respond(r, <<"end">>)
       \/ /\ req[r].chunk = <<>> /\ req[r].alive
          /\ \/ req' = [req EXCEPT ![r].pc = "chunk", ![r].ticks = (@ + 1) % KeepAlive]
             \/ req[r].ticks + 1 = KeepAlive /\ Respond(r, <<"broken">>)
    /\ UNCHANGED <<nextId, map, lock, session>>

-----------------------------------------------------------------------------
(* The children and their pumps *)

ChildWrite(i) ==
    /\ session[i].child = "running"
    /\ \E s \in Sources :
         /\ session[i].written[s] < Len(Emits[s])
         /\ session' = [session EXCEPT ![i].written[s] = @ + 1]
    /\ UNCHANGED <<nextId, map, lock, req>>

ChildRead(i) ==
    /\ session[i].child = "running" /\ session[i].pipe > 0
    /\ session' = [session EXCEPT ![i].pipe = @ - 1]
    /\ UNCHANGED <<nextId, map, lock, req>>

ChildExit(i) ==
    /\ session[i].child = "running"
    /\ session' = [session EXCEPT ![i].child = "exited"]
    /\ UNCHANGED <<nextId, map, lock, req>>

\* pump: what the pipe holds is appended to the buffer, also after the child
\* has gone.
Pump(i, s) ==
    LET got == session[i].pumped[s]
    IN  \E n \in (got + 1) .. session[i].written[s] :
          /\ session' = [session EXCEPT
                           ![i].out = @ \o SubSeq(Emits[s], got + 1, n),
                           ![i].pumped[s] = n]
          /\ UNCHANGED <<nextId, map, lock, req>>

-----------------------------------------------------------------------------
WithoutMap(r) ==
    \/ Accept(r) \/ DropConnection(r) \/ ServeStatic(r) \/ SpawnChild(r)
    \/ InputWrite(r) \/ KillChild(r) \/ StreamChunk(r) \/ StreamSend(r)

TakesMap(r) ==
    \/ SpawnInsert(r) \/ InputLookup(r) \/ KillRemove(r) \/ StreamOpen(r)
    \/ StreamAlive(r)

TNext ==
    \/ \E r \in Requests : WithoutMap(r) \/ TakesMap(r)
    \/ \E i \in Ids :
         \/ ChildWrite(i) \/ ChildRead(i) \/ ChildExit(i)
         \/ \E s \in Sources : Pump(i, s)

\* A thread that holds the map's mutex runs, and that is all.  A thread that waits
\* for the mutex may lose it to others for ever (std's Mutex is not fair and a
\* stream with output retakes it without a pause), a write to a client may wait
\* for ever, and a child need not read.
TSpec ==
    /\ TInit /\ [][TNext]_tvars
    /\ \A r \in Requests : WF_tvars(InputWrite(r)) /\ WF_tvars(KillChild(r))

-----------------------------------------------------------------------------
(* Properties *)

\* The bytes carried by the events of a stream, followed by the chunk in the
\* thread's hands, are a prefix of the session's output: no byte is skipped,
\* repeated or reordered however pumps, streams and kills interleave, and base64
\* loses none (stream_session, base64, pump).  Chunks end anywhere, also inside a
\* character.
StreamsDeliverPrefix ==
    \A r \in Requests :
        req[r].kind = "stream" /\ req[r].id \in Ids
          => IsPrefix(req[r].sent \o req[r].chunk, session[req[r].id].out)

\* A stream says "end" only once the session's child is dead: kill holds the
\* map's mutex from the removal to ch.kill(), so no stream sees the removal
\* before the kill is done.
EndMeansDead ==
    \A r \in Requests :
        req[r].reply = <<"end">> => /\ req[r].id \notin map
                                /\ session[req[r].id].child # "running"

\* A running child can be killed: its session is in the map, or the spawn that
\* started it is about to insert it, or a kill of it is under way.
ChildrenReachable ==
    \A i \in Ids : session[i].child = "running" =>
        \/ i \in map
        \/ \E r \in Requests : At(r, "spawn", "insert") /\ req[r].id = i
        \/ \E r \in Requests : At(r, "kill", "kill") /\ req[r].id = i

\* The holder's write waits for a live child that does not read.
Starved(r) ==
    /\ At(r, "input", "write") /\ req[r].left > 0
    /\ session[req[r].id].child = "running" /\ session[req[r].id].pipe = PipeCap

\* The only hold of the map's mutex that never ends is one whose write to a
\* running child waits, from some point on, for a reader that does not come; a
\* child that exits, a broken pipe, a kill or a client that does not read cannot
\* keep the map from the other requests (handle).
MapReleasedUnlessStarved ==
    \A r \in Requests : <>[](lock = r) => <>[]Starved(r)
=============================================================================
