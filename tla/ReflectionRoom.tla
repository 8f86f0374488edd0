--------------------------- MODULE ReflectionRoom ---------------------------
(***************************************************************************)
(* kernel/core/src/reflection_room/mod.rs: RoomWriter and its two-phase    *)
(* prepare / commit, the bounded active window and the sealing of full     *)
(* windows.  Several rooms and several callers: a PreparedEvent is a Copy  *)
(* value, so a caller may hold any number of them while the room moves on, *)
(* and hand each of them to any RoomWriter, more than once.                *)
(*                                                                         *)
(* SHA-256 is taken to be collision-free: a digest is the tuple of what is *)
(* hashed.  The draft's content fields (handles, pids, body, selector) are *)
(* abstracted to the checks validate_draft makes of them.                  *)
(***************************************************************************)
EXTENDS Naturals, Sequences, FiniteSets

CONSTANTS
  Rooms,            \* the full room identities
  Keys,             \* idempotency keys
  Forms,            \* the forms of drafts that callers submit (see FormType)
  Products,         \* distilled-product digests, NoProduct included
  NoProduct,        \* the all-zero digest
  Window,           \* ACTIVE_ENVELOPE_WINDOW
  GulpsPerCheckpoint,
  CheckpointsPerSuperGulp,
  U64Max,           \* u64::MAX
  MaxInFlight       \* bound: prepared events held by callers at one time

ASSUME RoomConstants ==
  /\ Window \in Nat \ {0}
  /\ GulpsPerCheckpoint \in Nat \ {0}
  /\ CheckpointsPerSuperGulp \in Nat \ {0}
  /\ U64Max \in Nat \ {0}

\* What validate_draft looks at: complete says that body, body digest, key and
\* selector are present and the selector has MIN_SELECTOR_DIMS dimensions.
FormType == [complete : BOOLEAN,
             access : {"Public", "Federation", "OwnerPrivate"},
             pii : {"None", "KeyedConsented", "Unknown"},
             owner : BOOLEAN]

ASSUME FormsAssumption == Forms \subseteq FormType

VARIABLES
  next_sequence, head_sha256, recent, total_events, total_gulps,  \* RoomWriter, per room
  prepared,         \* PreparedEvents that callers hold
  log,              \* history: every event committed in the room, sealed ones too
  seals             \* history: the GulpSeals the room has issued

roomVars == <<next_sequence, head_sha256, recent, total_events, total_gulps>>
vars == <<roomVars, prepared, log, seals>>

Genesis == <<>>

\* RoomEventKind, as requires_parent splits it: TaskIn, WorkNote, ToolResult
\* and SupervisorControl stand alone; TranslatedNote, SelfReflection,
\* PeerReview and FinalResult name a parent.
Kinds == {"alone", "child"}

\* event_sha256.
EventSha(e) == <<e.room, e.sequence, e.previous, e.draft>>

Init ==
  /\ next_sequence = [r \in Rooms |-> 1]
  /\ head_sha256 = [r \in Rooms |-> Genesis]
  /\ recent = [r \in Rooms |-> <<>>]
  /\ total_events = [r \in Rooms |-> 0]
  /\ total_gulps = [r \in Rooms |-> 0]
  /\ prepared = {}
  /\ log = [r \in Rooms |-> <<>>]
  /\ seals = [r \in Rooms |-> <<>>]

InWindow(r, sha) == \E i \in 1 .. Len(recent[r]) : EventSha(recent[r][i]) = sha
KeyInWindow(r, key) == \E i \in 1 .. Len(recent[r]) : recent[r][i].draft.key = key

FormAdmitted(f) ==
  /\ f.complete
  /\ f.access # "OwnerPrivate" => f.pii = "None"
  /\ f.access = "OwnerPrivate" => f.owner

\* Mutant: any non-zero digest is taken for a parent.
validate_draft_any_parent(r, d) ==
  /\ FormAdmitted(d.form)
  /\ d.kind = "child" => d.parent # Genesis

validate_draft(r, d) ==
  /\ FormAdmitted(d.form)
  /\ d.kind = "child" =>
       /\ d.parent # Genesis
       /\ d.parent = head_sha256[r] \/ InWindow(r, d.parent)

\* Mutant: the exhausted sequence is not refused.
PrepareAtMax(r, d) ==
  /\ Cardinality(prepared) < MaxInFlight
  /\ validate_draft(r, d)
  /\ Len(recent[r]) < Window \/ KeyInWindow(r, d.key)
  /\ prepared' = prepared \cup
       {[sequence |-> next_sequence[r], room |-> r, previous |-> head_sha256[r], draft |-> d]}
  /\ UNCHANGED <<roomVars, log, seals>>

\* prepare borrows the room read-only: its errors change nothing.
Prepare(r, d) ==
  /\ Cardinality(prepared) < MaxInFlight
  /\ validate_draft(r, d)
  /\ Len(recent[r]) < Window \/ KeyInWindow(r, d.key)
  /\ next_sequence[r] # U64Max
  /\ prepared' = prepared \cup
       {[sequence |-> next_sequence[r], room |-> r, previous |-> head_sha256[r], draft |-> d]}
  /\ UNCHANGED <<roomVars, log, seals>>

\* A caller gives up a prepared event (or is done with it).
Abandon(e) ==
  /\ prepared' = prepared \ {e}
  /\ UNCHANGED <<roomVars, log, seals>>

\* Mutants: no look-up of the key; no check that the head has not moved.
CommitAdmitsDuplicate(r, e) ==
  /\ Len(recent[r]) < Window
  /\ e.sequence = next_sequence[r]
  /\ e.previous = head_sha256[r]

CommitAdmitsStale(r, e) ==
  /\ ~ KeyInWindow(r, e.draft.key)
  /\ Len(recent[r]) < Window

\* A key already in the window returns Duplicate, a full window
\* ActiveWindowFull, a moved head StalePreparedEvent, all without a change.
CommitAdmits(r, e) ==
  /\ ~ KeyInWindow(r, e.draft.key)
  /\ Len(recent[r]) < Window
  /\ e.sequence = next_sequence[r]
  /\ e.previous = head_sha256[r]

\* The path of commit that publishes.  The two checked_adds come after the
\* push: were the first to fail, the event would be in the window and
\* total_events behind.
Commit(r, e) ==
  /\ CommitAdmits(r, e)
  /\ recent' = [recent EXCEPT ![r] = Append(@, e)]
  /\ head_sha256' = [head_sha256 EXCEPT ![r] = EventSha(e)]
  /\ log' = [log EXCEPT ![r] = Append(@, e)]
  /\ IF next_sequence[r] < U64Max
     THEN /\ next_sequence' = [next_sequence EXCEPT ![r] = @ + 1]
          /\ total_events' = [total_events EXCEPT ![r] = @ + 1]
     ELSE UNCHANGED <<next_sequence, total_events>>
  /\ UNCHANGED <<total_gulps, prepared, seals>>

SuperDivisor == GulpsPerCheckpoint * CheckpointsPerSuperGulp

\* Mutant: the smaller divisor is tried first.
TierSmallFirst(gulp_index) ==
  IF gulp_index % GulpsPerCheckpoint = 0 THEN "Checkpoint10k"
  ELSE IF gulp_index % SuperDivisor = 0 THEN "SuperGulp50k" ELSE "Gulp2k"

Tier(gulp_index) ==
  IF gulp_index % SuperDivisor = 0 THEN "SuperGulp50k"
  ELSE IF gulp_index % GulpsPerCheckpoint = 0 THEN "Checkpoint10k" ELSE "Gulp2k"

\* Mutant: sealing restarts the sequence.
SealGulpRestarts(r, product) ==
  /\ Len(recent[r]) = Window
  /\ product # NoProduct
  /\ next_sequence' = [next_sequence EXCEPT ![r] = 0]
  /\ recent' = [recent EXCEPT ![r] = <<>>]
  /\ UNCHANGED <<head_sha256, total_events, total_gulps, prepared, log, seals>>

\* GulpNotReady and DistilledProductMissing change nothing.
SealGulp(r, product) ==
  /\ Len(recent[r]) = Window
  /\ product # NoProduct
  /\ LET gulp_index == total_gulps[r] + 1
     IN  /\ seals' = [seals EXCEPT ![r] = Append(@,
              [tier |-> Tier(gulp_index),
               cumulative_events |-> total_events[r],
               gulp_index |-> gulp_index,
               checkpoint_index |-> gulp_index \div GulpsPerCheckpoint,
               super_gulp_index |-> gulp_index \div SuperDivisor,
               room_head_sha256 |-> head_sha256[r],
               product |-> product])]
         /\ total_gulps' = [total_gulps EXCEPT ![r] = gulp_index]
  /\ recent' = [recent EXCEPT ![r] = <<>>]
  /\ UNCHANGED <<next_sequence, head_sha256, total_events, prepared, log>>

\* The digests a caller can name as a parent: those it has seen.
Committed == UNION {{log[r][i] : i \in 1 .. Len(log[r])} : r \in Rooms}
KnownShas == {Genesis} \cup {EventSha(e) : e \in Committed \cup prepared}

Drafts == [kind : {"alone"}, parent : {Genesis}, key : Keys, form : Forms]
            \cup [kind : {"child"}, parent : KnownShas, key : Keys, form : Forms]

Next ==
  \/ \E r \in Rooms, d \in Drafts : Prepare(r, d)
  \/ \E e \in prepared : Abandon(e)
  \/ \E r \in Rooms, e \in prepared : Commit(r, e)
  \/ \E r \in Rooms, product \in Products : SealGulp(r, product)

Spec == Init /\ [][Next]_vars

-----------------------------------------------------------------------------
EventType(e) ==
  /\ e.sequence \in Nat
  /\ e.room \in Rooms
  /\ e.draft.kind \in Kinds
  /\ e.draft.key \in Keys
  /\ e.draft.form \in Forms

TypeOK ==
  /\ next_sequence \in [Rooms -> 1 .. U64Max]
  /\ total_events \in [Rooms -> Nat]
  /\ total_gulps \in [Rooms -> Nat]
  /\ DOMAIN head_sha256 = Rooms
  /\ \A e \in prepared : EventType(e)
  /\ \A r \in Rooms : \A i \in 1 .. Len(log[r]) : EventType(log[r][i])

\* The counters of RoomHead, the active window and the committed history agree
\* after any mix of commits, refused commits and seals, up to and including
\* the u64::MAX boundary: no event is counted twice, dropped, or left behind.
CountersAgree ==
  \A r \in Rooms :
    /\ total_events[r] = Window * total_gulps[r] + Len(recent[r])
    /\ next_sequence[r] = total_events[r] + 1
    /\ Len(log[r]) = total_events[r]
    /\ Len(recent[r]) <= Window

\* The committed history is one chain without fork or gap: each event carries
\* its position and the digest of the event before it, whichever of several
\* competing preparations won, and the head is the digest of the last one.
OneChain ==
  \A r \in Rooms :
    /\ \A i \in 1 .. Len(log[r]) :
         /\ log[r][i].sequence = i
         /\ log[r][i].previous = IF i = 1 THEN Genesis ELSE EventSha(log[r][i - 1])
    /\ head_sha256[r] = IF log[r] = <<>> THEN Genesis ELSE EventSha(log[r][Len(log[r])])

\* Every committed event passed validate_draft, and the parent it names was
\* committed before it in the same room, also when the window holding the
\* parent was sealed between prepare and commit, or the event was prepared by
\* another RoomWriter.
ParentsPrecede ==
  \A r \in Rooms : \A i \in 1 .. Len(log[r]) :
    /\ FormAdmitted(log[r][i].draft.form)
    /\ log[r][i].draft.kind = "child" =>
         \E j \in 1 .. i - 1 : EventSha(log[r][j]) = log[r][i].draft.parent

\* Within the active window an idempotency key is committed once, and the
\* window is the tail of the history.
WindowKeysUnique ==
  \A r \in Rooms : \A i, j \in 1 .. Len(recent[r]) :
    /\ recent[r][i].draft.key = recent[r][j].draft.key => i = j
    /\ recent[r][i] = log[r][Len(log[r]) - Len(recent[r]) + i]

\* The k-th seal covers exactly the first k windows, and the indices count the
\* seals of each tier that a reader of the history would count.
SealsCoverHistory ==
  \A r \in Rooms :
    /\ Len(seals[r]) = total_gulps[r]
    /\ \A k \in 1 .. Len(seals[r]) :
         LET s == seals[r][k]
             higher == {m \in 1 .. k : seals[r][m].tier # "Gulp2k"}
             top == {m \in 1 .. k : seals[r][m].tier = "SuperGulp50k"}
         IN  /\ s.gulp_index = k
             /\ s.cumulative_events = k * Window
             /\ s.room_head_sha256 = EventSha(log[r][k * Window])
             /\ s.checkpoint_index = Cardinality(higher)
             /\ s.super_gulp_index = Cardinality(top)

\* "Duplicate idempotency keys resolve to the original commit": a room never
\* commits two events with the same idempotency key.
DuplicateKeysResolve ==
  \A r \in Rooms : \A i, j \in 1 .. Len(log[r]) :
    log[r][i].draft.key = log[r][j].draft.key => i = j

\* "The full room SHA owns identity": a room's history holds the events that
\* were prepared for that room.
RoomOwnsItsEvents ==
  \A r \in Rooms : \A i \in 1 .. Len(log[r]) : log[r][i].room = r

-----------------------------------------------------------------------------
(* The parts of the inductive invariant that are not properties above. *)

\* The history of room r up to its position e.sequence - 1 is what e was
\* prepared on top of, and holds the parent of e.
Extends(e, r) ==
  /\ e.sequence <= Len(log[r]) + 1
  /\ e.previous = IF e.sequence = 1 THEN Genesis ELSE EventSha(log[r][e.sequence - 1])
  /\ e.draft.kind = "child" =>
       \E j \in 1 .. e.sequence - 1 : EventSha(log[r][j]) = e.draft.parent

PreparedInv ==
  \A e \in prepared :
    /\ e.sequence \in 1 .. U64Max - 1
    /\ FormAdmitted(e.draft.form)
    /\ \E r \in Rooms : Extends(e, r)

\* Two histories that share a digest share everything before it.
PrefixesAgree ==
  \A r, s \in Rooms : \A i \in 1 .. Len(log[r]), j \in 1 .. Len(log[s]) :
    EventSha(log[r][i]) = EventSha(log[s][j]) =>
      /\ i = j
      /\ \A k \in 1 .. i : EventSha(log[r][k]) = EventSha(log[s][k])
=============================================================================
