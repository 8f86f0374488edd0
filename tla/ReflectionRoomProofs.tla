------------------------ MODULE ReflectionRoomProofs ------------------------
(***************************************************************************)
(* Proofs about ReflectionRoom for any rooms, keys, window size and        *)
(* counter width: the counters agree with the history, the history is one  *)
(* chain, and every parent precedes its children in the same room even     *)
(* though commit does not look at the room an event was prepared for.      *)
(***************************************************************************)
EXTENDS ReflectionRoom, FiniteSetTheorems, TLAPS

USE RoomConstants

IsSeq(s) == \E S : s \in Seq(S)

\* The parts of the state are functions on the rooms, the histories sequences.
ShapeOK ==
  /\ DOMAIN recent = Rooms
  /\ DOMAIN log = Rooms
  /\ DOMAIN seals = Rooms
  /\ \A r \in Rooms : IsSeq(recent[r]) /\ IsSeq(log[r]) /\ IsSeq(seals[r])

\* The window is the tail of the history.
WindowIsTail ==
  \A r \in Rooms : \A i \in 1 .. Len(recent[r]) :
    recent[r][i] = log[r][Len(log[r]) - Len(recent[r]) + i]

WindowKeys ==
  \A r \in Rooms : \A i, j \in 1 .. Len(recent[r]) :
    recent[r][i].draft.key = recent[r][j].draft.key => i = j

IInv ==
  /\ ShapeOK /\ TypeOK /\ CountersAgree /\ OneChain /\ WindowIsTail /\ WindowKeys
  /\ PreparedInv /\ PrefixesAgree /\ ParentsPrecede

-----------------------------------------------------------------------------
\* What appending an event to a history does, whatever its events are.
LEMMA AppendSeq ==
  ASSUME NEW s, IsSeq(s), NEW e
  PROVE  /\ IsSeq(Append(s, e))
         /\ Len(s) \in Nat
         /\ Len(Append(s, e)) = Len(s) + 1
         /\ \A i \in 1 .. Len(s) : Append(s, e)[i] = s[i]
         /\ Append(s, e)[Len(s) + 1] = e
<1>1. PICK S : s \in Seq(S)
  BY DEF IsSeq
<1>2. s \in Seq(S \cup {e}) /\ e \in S \cup {e}
  BY <1>1
<1>3. Append(s, e) \in Seq(S \cup {e})
  BY <1>2
<1>4. IsSeq(Append(s, e))
  BY <1>3 DEF IsSeq
<1> QED
  BY <1>2, <1>4

\* A digest determines everything that was hashed, and is never the zero digest.
LEMMA ShaInjective ==
  ASSUME NEW e, NEW f
  PROVE  /\ EventSha(e) # Genesis
         /\ EventSha(e) = EventSha(f) =>
              /\ e.room = f.room /\ e.sequence = f.sequence
              /\ e.previous = f.previous /\ e.draft = f.draft
BY DEF EventSha, Genesis

\* A fresh RoomWriter satisfies the inductive invariant.
LEMMA InitInv == Init => IInv
<1> SUFFICES ASSUME Init PROVE IInv
  OBVIOUS
<1>1. ShapeOK
  <2>1. IsSeq(<<>>)
    <3>1. <<>> \in Seq({})
      OBVIOUS
    <3> QED
      BY <3>1 DEF IsSeq
  <2> QED
    BY <2>1 DEF Init, ShapeOK
<1>2. \A r \in Rooms : Len(recent[r]) = 0 /\ Len(log[r]) = 0 /\ log[r] = <<>>
  BY DEF Init
<1>3. TypeOK
  BY <1>2 DEF Init, TypeOK
<1>4. CountersAgree /\ OneChain /\ WindowIsTail /\ WindowKeys
  BY <1>2 DEF Init, CountersAgree, OneChain, WindowIsTail, WindowKeys
<1>5. PreparedInv /\ PrefixesAgree /\ ParentsPrecede
  BY <1>2 DEF Init, PreparedInv, PrefixesAgree, ParentsPrecede
<1> QED
  BY <1>1, <1>3, <1>4, <1>5 DEF IInv

\* Lengths used everywhere below.
LEMMA Lengths ==
  ASSUME IInv, NEW r \in Rooms
  PROVE  /\ Len(recent[r]) \in Nat /\ Len(log[r]) \in Nat
         /\ Len(log[r]) = next_sequence[r] - 1
         /\ next_sequence[r] \in 1 .. U64Max
         /\ Len(recent[r]) <= Len(log[r])
         /\ log[r] = <<>> <=> Len(log[r]) = 0
<1>1. Len(recent[r]) \in Nat /\ Len(log[r]) \in Nat
  BY AppendSeq DEF IInv, ShapeOK
<1>2. total_gulps[r] \in Nat /\ total_events[r] \in Nat /\ next_sequence[r] \in 1 .. U64Max
  BY DEF IInv, TypeOK
<1>3. Window * total_gulps[r] \in Nat
  BY <1>2
<1>4. log[r] = <<>> <=> Len(log[r]) = 0
  BY DEF IInv, ShapeOK, IsSeq
<1> QED
  BY <1>1, <1>2, <1>3, <1>4, SMTT(30) DEF IInv, CountersAgree

\* prepare adds an event that extends the room's own history.
LEMMA PrepareInv ==
  ASSUME IInv, NEW r \in Rooms, NEW d \in Drafts, Prepare(r, d)
  PROVE  IInv'
<1> DEFINE e == [sequence |-> next_sequence[r], room |-> r,
                 previous |-> head_sha256[r], draft |-> d]
<1>1. UNCHANGED <<next_sequence, head_sha256, recent, total_events, total_gulps, log, seals>>
      /\ prepared' = prepared \cup {e}
  BY DEF Prepare, roomVars
<1>2. ShapeOK' /\ CountersAgree' /\ OneChain' /\ WindowIsTail' /\ WindowKeys'
      /\ PrefixesAgree' /\ ParentsPrecede'
  <2>1. ShapeOK' /\ CountersAgree' /\ WindowIsTail' /\ WindowKeys'
    BY <1>1 DEF IInv, ShapeOK, CountersAgree, WindowIsTail, WindowKeys
  <2>2. OneChain' /\ PrefixesAgree' /\ ParentsPrecede'
    BY <1>1 DEF IInv, OneChain, PrefixesAgree, ParentsPrecede
  <2> QED
    BY <2>1, <2>2
<1>3. TypeOK'
  <2>1. d.kind \in Kinds /\ d.key \in Keys /\ d.form \in Forms
    BY DEF Drafts, Kinds
  <2>2. EventType(e)
    BY <2>1, Lengths DEF EventType
  <2> QED
    BY <1>1, <2>2 DEF IInv, TypeOK, EventType
<1>4. PreparedInv'
  <2>1. e.sequence \in 1 .. U64Max - 1
    BY Lengths DEF Prepare
  <2>2. FormAdmitted(e.draft.form)
    BY DEF Prepare, validate_draft
  <2>3. e.sequence = Len(log[r]) + 1
    BY Lengths
  <2>4. e.previous = IF e.sequence = 1 THEN Genesis ELSE EventSha(log[r][e.sequence - 1])
    BY <2>3, Lengths DEF IInv, OneChain
  <2>5. ASSUME d.kind = "child"
        PROVE  \E j \in 1 .. e.sequence - 1 : EventSha(log[r][j]) = d.parent
    <3>1. d.parent # Genesis /\ (d.parent = head_sha256[r] \/ InWindow(r, d.parent))
      BY <2>5 DEF Prepare, validate_draft
    <3>2. CASE d.parent = head_sha256[r]
      BY <3>1, <3>2, <2>3, <2>4, Lengths
    <3>3. CASE InWindow(r, d.parent)
      <4>1. PICK i \in 1 .. Len(recent[r]) : EventSha(recent[r][i]) = d.parent
        BY <3>3 DEF InWindow
      <4>2. recent[r][i] = log[r][Len(log[r]) - Len(recent[r]) + i]
        BY DEF IInv, WindowIsTail
      <4> DEFINE n == Len(log[r])
                 w == Len(recent[r])
      <4>0. n \in Nat /\ w \in Nat /\ w <= n /\ e.sequence = n + 1 /\ i \in 1 .. w
        BY <2>3, Lengths
      <4> HIDE DEF n, w, e
      <4>3. n - w + i \in 1 .. e.sequence - 1
        BY <4>0
      <4> USE DEF n, w
      <4> QED
        BY <4>1, <4>2, <4>3
    <3> QED
      BY <3>1, <3>2, <3>3
  <2>6. Extends(e, r)
    BY <2>3, <2>4, <2>5, Lengths DEF Extends
  <2> QED
    BY <1>1, <2>1, <2>2, <2>6 DEF IInv, PreparedInv, Extends
<1> QED
  BY <1>2, <1>3, <1>4 DEF IInv

\* Giving up a prepared event changes no room.
LEMMA AbandonInv ==
  ASSUME IInv, NEW e \in prepared, Abandon(e)
  PROVE  IInv'
<1>1. UNCHANGED <<next_sequence, head_sha256, recent, total_events, total_gulps, log, seals>>
      /\ prepared' \subseteq prepared
  BY DEF Abandon, roomVars
<1>2. ShapeOK' /\ CountersAgree' /\ WindowIsTail' /\ WindowKeys'
  BY <1>1 DEF IInv, ShapeOK, CountersAgree, WindowIsTail, WindowKeys
<1>3. OneChain' /\ PrefixesAgree' /\ ParentsPrecede'
  BY <1>1 DEF IInv, OneChain, PrefixesAgree, ParentsPrecede
<1>4. TypeOK' /\ PreparedInv'
  BY <1>1 DEF IInv, TypeOK, EventType, PreparedInv, Extends
<1> QED
  BY <1>2, <1>3, <1>4 DEF IInv

\* commit appends an event whose parent the same room has committed, whichever
\* room the event was prepared for.
LEMMA CommitInv ==
  ASSUME IInv, NEW r \in Rooms, NEW e \in prepared, Commit(r, e)
  PROVE  IInv'
<1> DEFINE n == Len(log[r])
           w == Len(recent[r])
<1>1. /\ e.sequence = n + 1 /\ e.sequence \in 1 .. U64Max - 1 /\ next_sequence[r] = n + 1
      /\ n \in Nat /\ w \in Nat /\ w < Window /\ w <= n
  BY Lengths DEF Commit, CommitAdmits, IInv, PreparedInv
<1>2. /\ next_sequence' = [next_sequence EXCEPT ![r] = @ + 1]
      /\ total_events' = [total_events EXCEPT ![r] = @ + 1]
      /\ head_sha256' = [head_sha256 EXCEPT ![r] = EventSha(e)]
      /\ recent' = [recent EXCEPT ![r] = Append(@, e)]
      /\ log' = [log EXCEPT ![r] = Append(@, e)]
      /\ UNCHANGED <<total_gulps, prepared, seals>>
  BY <1>1 DEF Commit, CommitAdmits
<1>3. /\ \A s \in Rooms : s # r => recent'[s] = recent[s] /\ log'[s] = log[s]
      /\ recent'[r] = Append(recent[r], e) /\ log'[r] = Append(log[r], e)
      /\ DOMAIN recent' = Rooms /\ DOMAIN log' = Rooms
  BY <1>2 DEF IInv, ShapeOK
<1>4. /\ IsSeq(log'[r]) /\ Len(log'[r]) = n + 1 /\ log'[r][n + 1] = e
      /\ \A i \in 1 .. n : log'[r][i] = log[r][i]
  BY <1>3, AppendSeq DEF IInv, ShapeOK
<1>5. /\ IsSeq(recent'[r]) /\ Len(recent'[r]) = w + 1 /\ recent'[r][w + 1] = e
      /\ \A i \in 1 .. w : recent'[r][i] = recent[r][i]
  BY <1>3, AppendSeq DEF IInv, ShapeOK
<1>6. ShapeOK'
  BY <1>2, <1>3, <1>4, <1>5 DEF IInv, ShapeOK
<1>7. TypeOK'
  <2>1. next_sequence' \in [Rooms -> 1 .. U64Max] /\ total_events' \in [Rooms -> Nat]
    BY <1>1, <1>2 DEF IInv, TypeOK
  <2>2. EventType(e)
    BY DEF IInv, TypeOK
  <2>3. \A s \in Rooms : \A i \in 1 .. Len(log'[s]) : EventType(log'[s][i])
    <3>1. ASSUME NEW i \in 1 .. Len(log'[r]) PROVE EventType(log'[r][i])
      <4>1. i = n + 1 \/ i \in 1 .. n
        BY <1>1, <1>4
      <4> QED
        BY <4>1, <1>4, <2>2 DEF IInv, TypeOK
    <3> QED
      BY <3>1, <1>3 DEF IInv, TypeOK
  <2>4. DOMAIN head_sha256' = Rooms
    BY <1>2 DEF IInv, TypeOK
  <2> QED
    BY <1>2, <2>1, <2>3, <2>4 DEF IInv, TypeOK, EventType
<1>8. CountersAgree'
  <2>1. \A s \in Rooms : s # r => next_sequence'[s] = next_sequence[s] /\ total_events'[s] = total_events[s]
    BY <1>2 DEF IInv, TypeOK
  <2>2. next_sequence'[r] = next_sequence[r] + 1 /\ total_events'[r] = total_events[r] + 1
    BY <1>2 DEF IInv, TypeOK
  <2>3. total_events[r] = Window * total_gulps[r] + w /\ total_events[r] = n
    BY DEF IInv, CountersAgree
  <2>4. Window * total_gulps[r] \in Nat
    BY DEF IInv, TypeOK
  <2>5. total_events'[r] = Window * total_gulps[r] + (w + 1)
    BY <1>1, <2>2, <2>3, <2>4
  <2>6. next_sequence'[r] = total_events'[r] + 1 /\ Len(log'[r]) = total_events'[r] /\ w + 1 <= Window
    BY <1>1, <1>4, <2>2, <2>3
  <2> QED
    BY <1>2, <1>3, <1>5, <2>1, <2>5, <2>6 DEF IInv, CountersAgree
<1>9. OneChain'
  <2>1. \A s \in Rooms : s # r => head_sha256'[s] = head_sha256[s]
    BY <1>2 DEF IInv, TypeOK
  <2>2. head_sha256'[r] = EventSha(e)
    BY <1>2 DEF IInv, TypeOK
  <2>3. e.previous = IF n = 0 THEN Genesis ELSE EventSha(log[r][n])
    BY Lengths DEF Commit, CommitAdmits, IInv, OneChain
  <2>4. ASSUME NEW i \in 1 .. Len(log'[r])
        PROVE  /\ log'[r][i].sequence = i
               /\ log'[r][i].previous = IF i = 1 THEN Genesis ELSE EventSha(log'[r][i - 1])
    <3>1. CASE i = n + 1
      BY <3>1, <1>1, <1>4, <2>3
    <3>2. CASE i \in 1 .. n
      <4>1. i - 1 \in 1 .. n \/ i = 1
        BY <3>2, <1>1
      <4>2. log'[r][i] = log[r][i] /\ (i # 1 => log'[r][i - 1] = log[r][i - 1])
        BY <4>1, <3>2, <1>4
      <4>3. /\ log[r][i].sequence = i
            /\ log[r][i].previous = IF i = 1 THEN Genesis ELSE EventSha(log[r][i - 1])
        BY <3>2 DEF IInv, OneChain
      <4> QED
        BY <4>2, <4>3
    <3>3. i = n + 1 \/ i \in 1 .. n
      BY <1>1, <1>4
    <3> QED
      BY <3>1, <3>2, <3>3
  <2>5. log'[r] # <<>>
    BY <1>1, <1>4
  <2>6. head_sha256'[r] = EventSha(log'[r][Len(log'[r])])
    BY <2>2, <1>4
  <2>7. ASSUME NEW s \in Rooms, s # r
        PROVE  /\ \A i \in 1 .. Len(log'[s]) :
                    /\ log'[s][i].sequence = i
                    /\ log'[s][i].previous = IF i = 1 THEN Genesis ELSE EventSha(log'[s][i - 1])
               /\ head_sha256'[s] = IF log'[s] = <<>> THEN Genesis ELSE EventSha(log'[s][Len(log'[s])])
    <3>1. log'[s] = log[s] /\ head_sha256'[s] = head_sha256[s]
      BY <2>7, <2>1, <1>3
    <3> QED
      BY <3>1 DEF IInv, OneChain
  <2> QED
    BY <2>4, <2>5, <2>6, <2>7 DEF OneChain, EventSha
<1>10. WindowIsTail'
  <2>1. ASSUME NEW i \in 1 .. Len(recent'[r])
        PROVE  recent'[r][i] = log'[r][Len(log'[r]) - Len(recent'[r]) + i]
    <3>1. /\ n \in Nat /\ w \in Nat /\ w <= n /\ i \in 1 .. w + 1
          /\ Len(log'[r]) = n + 1 /\ Len(recent'[r]) = w + 1
      BY <1>1, <1>4, <1>5
    <3>2. Len(log'[r]) - Len(recent'[r]) + i = n - w + i
      <4> HIDE DEF n, w
      <4> QED
        BY <3>1
    <3>3. CASE i = w + 1
      <4>1. n - w + i = n + 1
        <5> HIDE DEF n, w
        <5> QED
          BY <3>1, <3>3
      <4> QED
        BY <3>2, <3>3, <4>1, <1>4, <1>5
    <3>4. CASE i # w + 1
      <4>1. n - w + i \in 1 .. n /\ i \in 1 .. w
        <5> HIDE DEF n, w
        <5> QED
          BY <3>1, <3>4
      <4> QED
        BY <3>2, <4>1, <1>4, <1>5 DEF IInv, WindowIsTail
    <3> QED
      BY <3>3, <3>4
  <2>2. ASSUME NEW s \in Rooms, s # r, NEW i \in 1 .. Len(recent'[s])
        PROVE  recent'[s][i] = log'[s][Len(log'[s]) - Len(recent'[s]) + i]
    BY <2>2, <1>3 DEF IInv, WindowIsTail
  <2> QED
    BY <2>1, <2>2 DEF WindowIsTail
<1>11. WindowKeys'
  <2>1. \A i \in 1 .. w : recent[r][i].draft.key # e.draft.key
    BY DEF Commit, CommitAdmits, KeyInWindow
  <2>2. ASSUME NEW i \in 1 .. Len(recent'[r]), NEW j \in 1 .. Len(recent'[r]),
               recent'[r][i].draft.key = recent'[r][j].draft.key
        PROVE  i = j
    <3>1. (i = w + 1 \/ i \in 1 .. w) /\ (j = w + 1 \/ j \in 1 .. w)
      BY <1>1, <1>5
    <3> QED
      BY <3>1, <2>1, <2>2, <1>5, SMTT(30) DEF IInv, WindowKeys
  <2> QED
    BY <2>2, <1>3 DEF IInv, WindowKeys
<1>12. PreparedInv'
  <2>1. ASSUME NEW f \in prepared, NEW s \in Rooms, Extends(f, s)
        PROVE  Extends(f, s)'
    <3>1. f.sequence \in 1 .. U64Max - 1
      BY DEF IInv, PreparedInv
    <3>2. CASE s = r
      <4>1. f.sequence <= n + 1
        BY <2>1, <3>2 DEF Extends
      <4>2. \A j \in 1 .. f.sequence - 1 : j \in 1 .. n
        BY <4>1, <3>1, <1>1
      <4>3. f.sequence = 1 \/ f.sequence - 1 \in 1 .. f.sequence - 1
        BY <3>1
      <4> QED
        BY <2>1, <3>1, <3>2, <4>1, <4>2, <4>3, <1>1, <1>4 DEF Extends
    <3>3. CASE s # r
      BY <2>1, <3>3, <1>3 DEF Extends
    <3> QED
      BY <3>2, <3>3
  <2> QED
    BY <2>1, <1>2 DEF IInv, PreparedInv
<1>13. PrefixesAgree'
  <2>1. ASSUME NEW s \in Rooms, s # r, NEW j \in 1 .. Len(log[s]), EventSha(e) = EventSha(log[s][j])
        PROVE  j = n + 1 /\ \A k \in 1 .. n : EventSha(log[r][k]) = EventSha(log[s][k])
    <3>1. e.sequence = log[s][j].sequence /\ e.previous = log[s][j].previous
      BY <2>1, ShaInjective
    <3>2. j = n + 1
      BY <3>1, <1>1 DEF IInv, OneChain
    <3>3. CASE n = 0
      BY <3>2, <3>3
    <3>4. CASE n # 0
      <4>1. n \in 1 .. Len(log[r]) /\ n \in 1 .. Len(log[s]) /\ Len(log[s]) \in Nat
        BY <3>2, <3>4, <1>1, Lengths
      <4>2. log[s][j].previous = EventSha(log[s][n])
        BY <3>2, <3>4, <1>1 DEF IInv, OneChain
      <4>3. e.previous = EventSha(log[r][n])
        BY <3>4, <4>1, Lengths DEF Commit, CommitAdmits, IInv, OneChain
      <4> QED
        BY <3>1, <3>2, <4>1, <4>2, <4>3 DEF IInv, PrefixesAgree
    <3> QED
      BY <3>3, <3>4
  <2>2. ASSUME NEW j \in 1 .. n PROVE EventSha(e) # EventSha(log[r][j])
    <3>1. log[r][j].sequence = j
      BY DEF IInv, OneChain
    <3> QED
      BY <3>1, <1>1, ShaInjective
  <2>3. \A i \in 1 .. n + 1 : i = n + 1 \/ i \in 1 .. n
    BY <1>1
  <2>4. \A s \in Rooms : s # r => \A i \in 1 .. n, j \in 1 .. Len(log[s]) :
          EventSha(log[r][i]) = EventSha(log[s][j]) =>
            i = j /\ \A k \in 1 .. i : k \in 1 .. n /\ EventSha(log[r][k]) = EventSha(log[s][k])
    BY <1>1 DEF IInv, PrefixesAgree
  <2>5. ASSUME NEW s \in Rooms, s # r,
               NEW i \in 1 .. n + 1, NEW j \in 1 .. Len(log[s]),
               EventSha(log'[r][i]) = EventSha(log[s][j])
        PROVE  i = j /\ \A k \in 1 .. i : EventSha(log'[r][k]) = EventSha(log[s][k])
    <3>1. CASE i = n + 1
      BY <3>1, <2>1, <2>3, <2>5, <1>4
    <3>2. CASE i \in 1 .. n
      BY <3>2, <2>4, <2>5, <1>4
    <3> QED
      BY <3>1, <3>2, <2>3
  <2>6. ASSUME NEW i \in 1 .. n + 1, NEW j \in 1 .. n + 1,
               EventSha(log'[r][i]) = EventSha(log'[r][j])
        PROVE  i = j
    <3>1. \A k \in 1 .. n + 1 : log'[r][k].sequence = k
      BY <1>9, <1>4 DEF OneChain
    <3> QED
      BY <3>1, <2>6, ShaInjective
  <2>7. SUFFICES ASSUME NEW s \in Rooms, NEW t \in Rooms,
                        NEW i \in 1 .. Len(log'[s]), NEW j \in 1 .. Len(log'[t]),
                        EventSha(log'[s][i]) = EventSha(log'[t][j])
                 PROVE  i = j /\ \A k \in 1 .. i : EventSha(log'[s][k]) = EventSha(log'[t][k])
    BY DEF PrefixesAgree, EventSha
  <2>8. CASE s = r /\ t = r
    BY <2>6, <2>7, <2>8, <1>4
  <2>9. CASE s = r /\ t # r
    BY <2>5, <2>7, <2>9, <1>3, <1>4
  <2>10. CASE s # r /\ t = r
    <3>1. j = i /\ \A k \in 1 .. j : EventSha(log'[r][k]) = EventSha(log[s][k])
      BY <2>5, <2>7, <2>10, <1>3, <1>4
    <3> QED
      BY <3>1, <2>10, <1>3
  <2>11. CASE s # r /\ t # r
    BY <2>7, <2>11, <1>3 DEF IInv, PrefixesAgree
  <2> QED
    BY <2>8, <2>9, <2>10, <2>11
<1>14. ParentsPrecede'
  <2>1. FormAdmitted(e.draft.form)
    BY DEF IInv, PreparedInv
  <2>2. ASSUME e.draft.kind = "child"
        PROVE  \E j \in 1 .. n : EventSha(log[r][j]) = e.draft.parent
    <3>1. PICK s \in Rooms : Extends(e, s)
      BY DEF IInv, PreparedInv
    <3>2. PICK j \in 1 .. n : EventSha(log[s][j]) = e.draft.parent
      BY <3>1, <2>2, <1>1 DEF Extends
    <3>3. n # 0 /\ n \in 1 .. Len(log[r]) /\ n \in 1 .. Len(log[s]) /\ j \in 1 .. n
      BY <3>1, <3>2, <1>1, Lengths DEF Extends
    <3>4. EventSha(log[s][n]) = EventSha(log[r][n])
      <4>1. e.previous = EventSha(log[s][n])
        BY <3>1, <3>3, <1>1 DEF Extends
      <4>2. head_sha256[r] = EventSha(log[r][n])
        BY <3>3, Lengths DEF IInv, OneChain
      <4> QED
        BY <4>1, <4>2 DEF Commit, CommitAdmits
    <3>5. EventSha(log[r][j]) = EventSha(log[s][j])
      BY <3>3, <3>4 DEF IInv, PrefixesAgree
    <3> QED
      BY <3>2, <3>5
  <2>3. ASSUME NEW i \in 1 .. Len(log'[r])
        PROVE  /\ FormAdmitted(log'[r][i].draft.form)
               /\ log'[r][i].draft.kind = "child" =>
                    \E j \in 1 .. i - 1 : EventSha(log'[r][j]) = log'[r][i].draft.parent
    <3>1. CASE i = n + 1
      <4>1. i - 1 = n
        BY <3>1, <1>1
      <4> QED
        BY <3>1, <4>1, <2>1, <2>2, <1>4
    <3>2. CASE i \in 1 .. n
      <4>1. \A j \in 1 .. i - 1 : j \in 1 .. n
        BY <3>2, <1>1
      <4> QED
        BY <3>2, <4>1, <1>4 DEF IInv, ParentsPrecede
    <3>3. i = n + 1 \/ i \in 1 .. n
      BY <1>1, <1>4
    <3> QED
      BY <3>1, <3>2, <3>3
  <2>4. ASSUME NEW s \in Rooms, s # r, NEW i \in 1 .. Len(log'[s])
        PROVE  /\ FormAdmitted(log'[s][i].draft.form)
               /\ log'[s][i].draft.kind = "child" =>
                    \E j \in 1 .. i - 1 : EventSha(log'[s][j]) = log'[s][i].draft.parent
    <3>1. log'[s] = log[s]
      BY <2>4, <1>3
    <3> QED
      BY <3>1, <2>4 DEF IInv, ParentsPrecede
  <2> QED
    BY <2>3, <2>4, SMTT(30) DEF ParentsPrecede, EventSha, FormAdmitted
<1> QED
  BY <1>6, <1>7, <1>8, <1>9, <1>10, <1>11, <1>12, <1>13, <1>14 DEF IInv

\* seal_gulp empties the window and leaves the history alone.
LEMMA SealGulpInv ==
  ASSUME IInv, NEW r \in Rooms, NEW product \in Products, SealGulp(r, product)
  PROVE  IInv'
<1>1. /\ UNCHANGED <<next_sequence, head_sha256, total_events, prepared, log>>
      /\ recent' = [recent EXCEPT ![r] = <<>>]
      /\ total_gulps' = [total_gulps EXCEPT ![r] = total_gulps[r] + 1]
      /\ Len(recent[r]) = Window
  BY DEF SealGulp
<1>2. /\ recent'[r] = <<>> /\ Len(recent'[r]) = 0
      /\ \A s \in Rooms : s # r => recent'[s] = recent[s]
  BY <1>1 DEF IInv, ShapeOK
<1>3. ShapeOK'
  <2>1. IsSeq(<<>>)
    <3>1. <<>> \in Seq({})
      OBVIOUS
    <3> QED
      BY <3>1 DEF IsSeq
  <2>2. PICK x : seals' = [seals EXCEPT ![r] = Append(@, x)]
    BY DEF SealGulp
  <2>3. IsSeq(Append(seals[r], x))
    BY AppendSeq DEF IInv, ShapeOK
  <2>4. \A s \in Rooms : IsSeq(seals'[s])
    BY <2>2, <2>3 DEF IInv, ShapeOK
  <2>5. \A s \in Rooms : IsSeq(recent'[s])
    BY <2>1, <1>2 DEF IInv, ShapeOK
  <2> QED
    BY <1>1, <2>2, <2>4, <2>5 DEF IInv, ShapeOK
<1>4. TypeOK'
  BY <1>1 DEF IInv, TypeOK, EventType
<1>5. CountersAgree'
  <2>1. \A s \in Rooms : s # r => total_gulps'[s] = total_gulps[s]
    BY <1>1 DEF IInv, TypeOK
  <2>2. total_gulps'[r] = total_gulps[r] + 1 /\ total_gulps[r] \in Nat
    BY <1>1 DEF IInv, TypeOK
  <2>3. Window * (total_gulps[r] + 1) + 0 = Window * total_gulps[r] + Window
    BY <2>2
  <2>4. total_events[r] = Window * total_gulps'[r] + Len(recent'[r])
    BY <1>1, <1>2, <2>2, <2>3 DEF IInv, CountersAgree
  <2> QED
    BY <1>1, <1>2, <2>1, <2>4 DEF IInv, CountersAgree
<1>6. WindowIsTail' /\ WindowKeys'
  <2>1. ASSUME NEW s \in Rooms, NEW i \in 1 .. Len(recent'[s])
        PROVE  s # r /\ recent'[s] = recent[s]
    BY <1>2
  <2>2. WindowIsTail'
    <3>1. ASSUME NEW s \in Rooms, NEW i \in 1 .. Len(recent'[s])
          PROVE  recent'[s][i] = log'[s][Len(log'[s]) - Len(recent'[s]) + i]
      <4>1. recent'[s] = recent[s] /\ log'[s] = log[s]
        BY <2>1, <3>1, <1>1
      <4> QED
        BY <4>1 DEF IInv, WindowIsTail
    <3> QED
      BY <3>1 DEF WindowIsTail
  <2>3. WindowKeys'
    BY <2>1 DEF IInv, WindowKeys
  <2> QED
    BY <2>2, <2>3
<1>7. OneChain' /\ PrefixesAgree' /\ ParentsPrecede'
  BY <1>1 DEF IInv, OneChain, PrefixesAgree, ParentsPrecede
<1>8. PreparedInv'
  BY <1>1 DEF IInv, PreparedInv, Extends
<1> QED
  BY <1>3, <1>4, <1>5, <1>6, <1>7, <1>8 DEF IInv

\* Every operation of a room, and every stuttering step, preserves IInv.
LEMMA NextInv == IInv /\ [Next]_vars => IInv'
<1> SUFFICES ASSUME IInv, [Next]_vars PROVE IInv'
  OBVIOUS
<1>1. CASE Next
  BY <1>1, PrepareInv, AbandonInv, CommitInv, SealGulpInv DEF Next
<1>2. CASE UNCHANGED vars
  <2>1. ShapeOK' /\ CountersAgree' /\ WindowIsTail' /\ WindowKeys'
    BY <1>2 DEF vars, roomVars, IInv, ShapeOK, CountersAgree, WindowIsTail, WindowKeys
  <2>2. OneChain' /\ PrefixesAgree' /\ ParentsPrecede'
    BY <1>2 DEF vars, roomVars, IInv, OneChain, PrefixesAgree, ParentsPrecede
  <2>3. TypeOK' /\ PreparedInv'
    BY <1>2 DEF vars, roomVars, IInv, TypeOK, EventType, PreparedInv, Extends
  <2> QED
    BY <2>1, <2>2, <2>3 DEF IInv
<1> QED
  BY <1>1, <1>2

\* IInv holds in every reachable state.
THEOREM Invariance == Spec => []IInv
BY InitInv, NextInv, PTL DEF Spec

\* Type correctness, including that next_sequence never passes u64::MAX.
THEOREM TypeCorrect == Spec => []TypeOK
<1>1. IInv => TypeOK
  BY DEF IInv
<1> QED
  BY <1>1, Invariance, PTL

\* The counters that read_committed_head reports agree with the history, so the
\* checked_adds of commit never fail after the event has been pushed.
THEOREM CountersAlwaysAgree == Spec => []CountersAgree
<1>1. IInv => CountersAgree
  BY DEF IInv
<1> QED
  BY <1>1, Invariance, PTL

\* Whatever is prepared and committed concurrently, a room's history is one
\* hash chain that ends in its head.
THEOREM HistoryIsOneChain == Spec => []OneChain
<1>1. IInv => OneChain
  BY DEF IInv
<1> QED
  BY <1>1, Invariance, PTL

\* A committed event's parent was committed before it in the same room, also
\* for an event that another RoomWriter prepared.
THEOREM ParentsAlwaysPrecede == Spec => []ParentsPrecede
<1>1. IInv => ParentsPrecede
  BY DEF IInv
<1> QED
  BY <1>1, Invariance, PTL

\* Idempotency keys are unique in the window, which is the history's tail.
THEOREM WindowKeysAlwaysUnique == Spec => []WindowKeysUnique
<1>1. IInv => WindowKeysUnique
  BY DEF IInv, WindowIsTail, WindowKeys, WindowKeysUnique
<1> QED
  BY <1>1, Invariance, PTL

-----------------------------------------------------------------------------
(* The seals *)

LEMMA MultipleOf ==
  ASSUME NEW q \in Nat, NEW d \in Nat \ {0}
  PROVE  q * d \in Nat /\ (q * d) % d = 0 /\ (q * d) \div d = q
  BY Z3

LEMMA QuotientOf ==
  ASSUME NEW k \in Nat, NEW d \in Nat \ {0}
  PROVE  /\ k \div d \in Nat /\ (k \div d) * d <= k /\ k < (k \div d) * d + d
         /\ k % d = 0 => k = (k \div d) * d
  BY Z3

\* A number up to k has as many multiples of d as k contains d.
LEMMA CountMultiples ==
  ASSUME NEW k \in Nat, NEW d \in Nat \ {0}
  PROVE  Cardinality({m \in 1 .. k : m % d = 0}) = k \div d
<1> DEFINE q == k \div d
           M == {m \in 1 .. k : m % d = 0}
           f == [j \in 1 .. q |-> j * d]
<1>1. q \in Nat /\ q * d <= k /\ k < q * d + d
  BY QuotientOf
<1> HIDE DEF q
<1>2. ASSUME NEW j \in 1 .. q PROVE j * d \in M
  <2>1. j \in Nat /\ j * d \in Nat /\ (j * d) % d = 0
    BY <1>1, MultipleOf
  <2>2. j * d <= q * d /\ 1 <= j * d
    BY <1>1, <2>1, Z3
  <2>3. q * d \in Nat
    BY <1>1, MultipleOf
  <2>4. j * d \in 1 .. k
    BY <1>1, <2>1, <2>2, <2>3
  <2> QED BY <2>1, <2>4
<1>3. ASSUME NEW m \in M PROVE \E j \in 1 .. q : m = j * d
  <2> DEFINE p == m \div d
  <2>1. m \in Nat /\ 1 <= m /\ m <= k /\ m % d = 0
    BY <1>3
  <2>2. p \in Nat /\ m = p * d
    BY <2>1, QuotientOf
  <2> HIDE DEF p
  <2>3. p >= 1
    BY <2>1, <2>2, Z3
  <2>4. p <= q
    <3>1. p >= q + 1 => p * d >= q * d + d
      BY <1>1, <2>2, Z3
    <3>2. p * d \in Nat /\ q * d \in Nat
      BY <1>1, <2>2, MultipleOf
    <3>3. ~(p >= q + 1)
      BY <1>1, <2>1, <2>2, <3>1, <3>2
    <3> QED BY <1>1, <2>2, <3>3
  <2>5. p \in 1 .. q
    BY <1>1, <2>2, <2>3, <2>4
  <2> QED BY <2>2, <2>5
<1>4. \A i, j \in 1 .. q : i * d = j * d => i = j
  <2> TAKE i, j \in 1 .. q
  <2>1. i \in Nat /\ j \in Nat
    BY <1>1
  <2> QED BY <2>1, MultipleOf
<1> HIDE DEF M
<1>5. f \in Bijection(1 .. q, M)
  <2>1. f \in [1 .. q -> M] /\ \A j \in 1 .. q : f[j] = j * d
    BY <1>2
  <2> HIDE DEF f
  <2>2. \A i, j \in 1 .. q : f[i] = f[j] => i = j
    BY <1>4, <2>1
  <2>3. \A m \in M : \E j \in 1 .. q : f[j] = m
    BY <1>3, <2>1
  <2> QED BY <2>1, <2>2, <2>3, Zenon DEF Bijection, Injection, Surjection, IsInjective
<1>6. IsFiniteSet(1 .. q) /\ Cardinality(1 .. q) = q
  <2>1. IsFiniteSet(1 .. q) /\ Cardinality(1 .. q) = IF 1 > q THEN 0 ELSE q - 1 + 1
    BY <1>1, FS_Interval
  <2> QED BY <1>1, <2>1
<1>7. Cardinality(M) = q
  <2>1. ExistsBijection(1 .. q, M)
    BY <1>5, Zenon DEF ExistsBijection
  <2> QED BY <1>6, <2>1, FS_Bijection, Zenon
<1> QED BY <1>7 DEF M, q

\* Which seals are of a higher tier: every G-th, and among them every G*C-th.
LEMMA TierOf ==
  ASSUME NEW m \in Nat
  PROVE  /\ SuperDivisor \in Nat \ {0}
         /\ Tier(m) # "Gulp2k" <=> m % GulpsPerCheckpoint = 0
         /\ Tier(m) = "SuperGulp50k" <=> m % SuperDivisor = 0
<1> DEFINE G == GulpsPerCheckpoint
           C == CheckpointsPerSuperGulp
           D == SuperDivisor
<1>1. G \in Nat \ {0} /\ C \in Nat \ {0}
  OBVIOUS
<1>2. D \in Nat \ {0} /\ D = C * G
  BY <1>1, Z3 DEF SuperDivisor
<1>3. m % D = 0 => m % G = 0
  <2> DEFINE p == m \div D
  <2>1. p \in Nat /\ (m % D = 0 => m = p * D)
    BY <1>2, QuotientOf
  <2> HIDE DEF p
  <2>2. p * C \in Nat /\ p * D = (p * C) * G
    BY <1>1, <1>2, <2>1, Z3
  <2>3. (p * C) * G % G = 0
    BY <1>1, <2>2, MultipleOf, Zenon
  <2> QED BY <2>1, <2>2, <2>3, Zenon
<1> QED BY <1>2, <1>3 DEF Tier

\* What the k-th seal of a room with history h says: all of it follows from k and
\* the event it ends at.
SealSays(s, k, h) ==
  /\ s.tier = Tier(k) /\ s.gulp_index = k /\ s.cumulative_events = k * Window
  /\ s.room_head_sha256 = EventSha(h[k * Window])
  /\ s.checkpoint_index = k \div GulpsPerCheckpoint
  /\ s.super_gulp_index = k \div SuperDivisor

SealsInv ==
  \A r \in Rooms :
    /\ Len(seals[r]) = total_gulps[r]
    /\ \A k \in 1 .. Len(seals[r]) : SealSays(seals[r][k], k, log[r])

\* The seals count what a reader of them would count.
LEMMA SealsCount == IInv /\ SealsInv => SealsCoverHistory
<1> SUFFICES ASSUME IInv, SealsInv, NEW r \in Rooms, NEW k \in 1 .. Len(seals[r])
             PROVE  LET s == seals[r][k]
                        higher == {m \in 1 .. k : seals[r][m].tier # "Gulp2k"}
                        top == {m \in 1 .. k : seals[r][m].tier = "SuperGulp50k"}
                    IN  /\ s.gulp_index = k
                        /\ s.cumulative_events = k * Window
                        /\ s.room_head_sha256 = EventSha(log[r][k * Window])
                        /\ s.checkpoint_index = Cardinality(higher)
                        /\ s.super_gulp_index = Cardinality(top)
  BY Zenon DEF SealsInv, SealsCoverHistory
<1>1. Len(seals[r]) \in Nat /\ k \in Nat
  <2>1. Len(seals[r]) \in Nat
    BY AppendSeq DEF IInv, ShapeOK
  <2> QED BY <2>1
<1> DEFINE higher == {m \in 1 .. k : seals[r][m].tier # "Gulp2k"}
           top == {m \in 1 .. k : seals[r][m].tier = "SuperGulp50k"}
<1>2. \A m \in 1 .. k : /\ (seals[r][m].tier # "Gulp2k") <=> (m % GulpsPerCheckpoint = 0)
                        /\ (seals[r][m].tier = "SuperGulp50k") <=> (m % SuperDivisor = 0)
  <2> TAKE m \in 1 .. k
  <2>1. m \in Nat /\ m \in 1 .. Len(seals[r])
    BY <1>1
  <2>2. seals[r][m].tier = Tier(m)
    BY <2>1, Zenon DEF SealsInv, SealSays
  <2>3. /\ (Tier(m) # "Gulp2k") <=> (m % GulpsPerCheckpoint = 0)
        /\ (Tier(m) = "SuperGulp50k") <=> (m % SuperDivisor = 0)
    BY <2>1, TierOf
  <2> QED BY <2>2, <2>3
<1>3. k \in 1 .. Len(seals[r])
  OBVIOUS
<1>4. /\ higher = {m \in 1 .. k : m % GulpsPerCheckpoint = 0}
      /\ top = {m \in 1 .. k : m % SuperDivisor = 0}
  <2>1. higher = {m \in 1 .. k : m % GulpsPerCheckpoint = 0}
    BY <1>2
  <2>2. top = {m \in 1 .. k : m % SuperDivisor = 0}
    BY <1>2
  <2> QED BY <2>1, <2>2
<1>5. Cardinality(higher) = k \div GulpsPerCheckpoint /\ Cardinality(top) = k \div SuperDivisor
  BY <1>1, <1>4, CountMultiples, TierOf, Zenon
<1>6. SealSays(seals[r][k], k, log[r])
  BY DEF SealsInv
<1> QED BY <1>5, <1>6, Zenon DEF SealSays

LEMMA SealsStep == IInv /\ SealsInv /\ [Next]_vars => SealsInv'
<1> SUFFICES ASSUME IInv, SealsInv, [Next]_vars PROVE SealsInv'
  OBVIOUS
<1>1. CASE UNCHANGED <<total_gulps, log, seals>>
  BY <1>1 DEF SealsInv
<1>2. ASSUME NEW r \in Rooms, NEW e \in prepared, Commit(r, e) PROVE SealsInv'
  <2>1. seals' = seals /\ total_gulps' = total_gulps /\ log' = [log EXCEPT ![r] = Append(@, e)]
    BY <1>2 DEF Commit
  <2>2. ASSUME NEW q \in Rooms, NEW k \in 1 .. Len(seals[q])
        PROVE  SealSays(seals[q][k], k, log'[q])
    <3>1. Len(seals[q]) = total_gulps[q] /\ total_gulps[q] \in Nat /\ k \in 1 .. total_gulps[q]
      BY DEF IInv, TypeOK, SealsInv
    <3>2. k * Window \in Nat /\ 1 <= k * Window /\ k * Window <= Window * total_gulps[q]
          /\ Window * total_gulps[q] \in Nat
      BY <3>1, Z3
    <3>3. /\ Len(log[q]) = Window * total_gulps[q] + Len(recent[q])
          /\ Len(recent[q]) \in Nat /\ Len(log[q]) \in Nat
      BY Lengths DEF IInv, CountersAgree
    <3>4. k * Window \in 1 .. Len(log[q])
      BY <3>2, <3>3
    <3>5. \A i \in 1 .. Len(log[q]) : Append(log[q], e)[i] = log[q][i]
      BY AppendSeq DEF IInv, ShapeOK
    <3>6. log'[q] = log[q] \/ log'[q] = Append(log[q], e)
      BY <2>1 DEF IInv, ShapeOK
    <3>7. log'[q][k * Window] = log[q][k * Window]
      BY <3>4, <3>5, <3>6, Zenon
    <3>8. SealSays(seals[q][k], k, log[q])
      BY DEF SealsInv
    <3> QED BY <3>7, <3>8, Zenon DEF SealSays
  <2> QED BY <2>1, <2>2 DEF SealsInv
<1>3. ASSUME NEW r \in Rooms, NEW product \in Products, SealGulp(r, product) PROVE SealsInv'
  <2> DEFINE g == total_gulps[r] + 1
             x == [tier |-> Tier(g), cumulative_events |-> total_events[r], gulp_index |-> g,
                   checkpoint_index |-> g \div GulpsPerCheckpoint,
                   super_gulp_index |-> g \div SuperDivisor,
                   room_head_sha256 |-> head_sha256[r], product |-> product]
  <2>1. /\ log' = log /\ total_gulps' = [total_gulps EXCEPT ![r] = g]
        /\ seals' = [seals EXCEPT ![r] = Append(@, x)] /\ Len(recent[r]) = Window
    BY <1>3, Zenon DEF SealGulp
  <2>2. total_gulps[r] \in Nat /\ total_events[r] \in Nat /\ Len(seals[r]) = total_gulps[r]
    BY DEF IInv, TypeOK, SealsInv
  <2>3. total_events[r] = g * Window /\ Len(log[r]) = g * Window /\ g * Window > 0
    <3>1. total_events[r] = Window * total_gulps[r] + Window /\ Len(log[r]) = total_events[r]
      BY <2>1 DEF IInv, CountersAgree
    <3>2. g * Window = Window * total_gulps[r] + Window /\ Window * total_gulps[r] \in Nat
      BY <2>2, Z3
    <3> QED BY <3>1, <3>2
  <2>4. head_sha256[r] = EventSha(log[r][g * Window])
    <3>1. log[r] # <<>>
      BY <2>3, Lengths
    <3> QED BY <2>3, <3>1 DEF IInv, OneChain
  <2>5. SealSays(x, g, log[r])
    BY <2>3, <2>4 DEF SealSays
  <2> HIDE DEF x
  <2>6. /\ Len(Append(seals[r], x)) = g
        /\ \A i \in 1 .. Len(seals[r]) : Append(seals[r], x)[i] = seals[r][i]
        /\ Append(seals[r], x)[g] = x
    BY <2>2, AppendSeq DEF IInv, ShapeOK
  <2>7. /\ seals'[r] = Append(seals[r], x) /\ total_gulps'[r] = g
        /\ \A q \in Rooms : q # r => seals'[q] = seals[q] /\ total_gulps'[q] = total_gulps[q]
    BY <2>1 DEF IInv, ShapeOK, TypeOK
  <2>8. ASSUME NEW k \in 1 .. g, k # g PROVE k \in 1 .. Len(seals[r])
    BY <2>2, <2>8
  <2> HIDE DEF g
  <2>9. ASSUME NEW q \in Rooms
        PROVE  /\ Len(seals'[q]) = total_gulps'[q]
               /\ \A k \in 1 .. Len(seals'[q]) : SealSays(seals'[q][k], k, log'[q])
    <3>1. CASE q # r
      BY <2>1, <2>7, <3>1 DEF SealsInv
    <3>2. CASE q = r
      <4>1. Len(seals'[r]) = g
        BY <2>6, <2>7
      <4>2. ASSUME NEW k \in 1 .. g
            PROVE  SealSays(seals'[r][k], k, log'[r])
        <5>1. CASE k = g
          BY <2>1, <2>5, <2>6, <2>7, <5>1, Zenon
        <5>2. CASE k # g
          <6>1. k \in 1 .. Len(seals[r]) /\ seals'[r][k] = seals[r][k]
            BY <2>6, <2>7, <2>8, <5>2
          <6> QED BY <2>1, <6>1, Zenon DEF SealsInv
        <5> QED BY <5>1, <5>2
      <4> QED BY <2>7, <3>2, <4>1, <4>2, Zenon
    <3> QED BY <3>1, <3>2
  <2> QED BY <2>9, Zenon DEF SealsInv
<1>4. ASSUME NEW r \in Rooms, NEW d \in Drafts, Prepare(r, d)
      PROVE  UNCHANGED <<total_gulps, log, seals>>
  BY <1>4 DEF Prepare, roomVars
<1>5. ASSUME NEW e \in prepared, Abandon(e) PROVE UNCHANGED <<total_gulps, log, seals>>
  BY <1>5 DEF Abandon, roomVars
<1>6. UNCHANGED vars => UNCHANGED <<total_gulps, log, seals>>
  BY DEF vars, roomVars
<1> QED BY <1>1, <1>2, <1>3, <1>4, <1>5, <1>6 DEF Next

\* For every window size and tier divisor: the k-th seal covers exactly the first
\* k windows, names the head of the last event in them, and its checkpoint and
\* super-gulp indices count the seals of those tiers up to it (seal_gulp).
THEOREM SealsAlwaysCoverHistory == Spec => []SealsCoverHistory
<1>1. Init => SealsInv
  BY DEF Init, SealsInv
<1> QED BY <1>1, SealsStep, SealsCount, Invariance, PTL DEF Spec

-----------------------------------------------------------------------------
(* How far the two disagreements of the runs room_keys and room_identity go *)

\* A key is committed twice only across a seal: between the two events lies
\* the end of a sealed window, so within every window, sealed or active,
\* "Duplicate idempotency keys resolve to the original commit" holds.
KeysRepeatAcrossSeals ==
  \A r \in Rooms : \A i, j \in 1 .. Len(log[r]) :
    i < j /\ log[r][i].draft.key = log[r][j].draft.key =>
      \E k \in 1 .. total_gulps[r] : i <= k * Window /\ k * Window < j

\* An event of a room s in the history of a room r stands on a prefix that the
\* histories of the two rooms share: once they differ, no event crosses.
ForeignShares ==
  \A r \in Rooms : \A i \in 1 .. Len(log[r]) :
    /\ i - 1 <= Len(log[log[r][i].room])
    /\ \A k \in 1 .. i - 1 : EventSha(log[log[r][i].room][k]) = EventSha(log[r][k])

\* A prepared event still fits on the history of the room it was prepared for.
PreparedHome ==
  \A e \in prepared :
    /\ e.sequence <= Len(log[e.room]) + 1
    /\ e.previous = IF e.sequence = 1 THEN Genesis ELSE EventSha(log[e.room][e.sequence - 1])

\* No room was opened with an event of another room.
OwnFirst == \A r \in Rooms : Len(log[r]) > 0 => log[r][1].room = r

\* What a step does to the histories: at most one event is added to one of them.
LEMMA LogStep ==
  ASSUME IInv, [Next]_vars
  PROVE  \/ UNCHANGED log
         \/ \E r \in Rooms, e \in prepared :
              /\ Commit(r, e)
              /\ Len(log'[r]) = Len(log[r]) + 1 /\ log'[r][Len(log[r]) + 1] = e
              /\ \A i \in 1 .. Len(log[r]) : log'[r][i] = log[r][i]
              /\ \A q \in Rooms : q # r => log'[q] = log[q]
<1>1. ASSUME NEW r \in Rooms, NEW e \in prepared, Commit(r, e)
      PROVE  /\ Len(log'[r]) = Len(log[r]) + 1 /\ log'[r][Len(log[r]) + 1] = e
             /\ \A i \in 1 .. Len(log[r]) : log'[r][i] = log[r][i]
             /\ \A q \in Rooms : q # r => log'[q] = log[q]
  <2>1. log' = [log EXCEPT ![r] = Append(@, e)]
    BY <1>1 DEF Commit
  <2>2. log'[r] = Append(log[r], e) /\ \A q \in Rooms : q # r => log'[q] = log[q]
    BY <2>1 DEF IInv, ShapeOK
  <2> QED BY <2>2, AppendSeq DEF IInv, ShapeOK
<1>2. ASSUME NEW r \in Rooms, NEW d \in Drafts, Prepare(r, d) PROVE UNCHANGED log
  BY <1>2 DEF Prepare
<1>3. ASSUME NEW e \in prepared, Abandon(e) PROVE UNCHANGED log
  BY <1>3 DEF Abandon
<1>4. ASSUME NEW r \in Rooms, NEW product \in Products, SealGulp(r, product) PROVE UNCHANGED log
  BY <1>4 DEF SealGulp
<1> QED BY <1>1, <1>2, <1>3, <1>4 DEF Next, vars

\* Seals are never taken back.
LEMMA GulpsGrow ==
  ASSUME IInv, [Next]_vars, NEW r \in Rooms
  PROVE  total_gulps[r] \in Nat /\ total_gulps'[r] \in {total_gulps[r], total_gulps[r] + 1}
<1>1. total_gulps \in [Rooms -> Nat]
  BY DEF IInv, TypeOK
<1>2. ASSUME NEW q \in Rooms, NEW product \in Products, SealGulp(q, product)
      PROVE  total_gulps' = [total_gulps EXCEPT ![q] = total_gulps[q] + 1]
  BY <1>2, Zenon DEF SealGulp
<1>3. ASSUME NEW q \in Rooms, NEW e \in prepared, Commit(q, e) PROVE UNCHANGED total_gulps
  BY <1>3 DEF Commit
<1>4. ASSUME NEW q \in Rooms, NEW d \in Drafts, Prepare(q, d) PROVE UNCHANGED total_gulps
  BY <1>4 DEF Prepare, roomVars
<1>5. ASSUME NEW e \in prepared, Abandon(e) PROVE UNCHANGED total_gulps
  BY <1>5 DEF Abandon, roomVars
<1> QED BY <1>1, <1>2, <1>3, <1>4, <1>5 DEF Next, vars, roomVars

\* commit looks for the key in everything after the last seal.
LEMMA CommitSeesWindow ==
  ASSUME IInv, NEW r \in Rooms, NEW e \in prepared, Commit(r, e),
         NEW i \in 1 .. Len(log[r]), log[r][i].draft.key = e.draft.key
  PROVE  /\ total_gulps[r] \in 1 .. total_gulps[r]
         /\ i <= total_gulps[r] * Window /\ total_gulps[r] * Window < Len(log[r]) + 1
<1> DEFINE n == Len(log[r])
           w == Len(recent[r])
           g == total_gulps[r]
<1>1. n \in Nat /\ w \in Nat /\ g \in Nat /\ n = Window * g + w
  BY Lengths DEF IInv, TypeOK, CountersAgree
<1>2. ~ KeyInWindow(r, e.draft.key)
  BY DEF Commit, CommitAdmits
<1>3. \A m \in 1 .. w : recent[r][m] = log[r][n - w + m]
  BY DEF IInv, WindowIsTail
<1>4. Window * g = g * Window /\ g * Window \in Nat /\ (g = 0 => g * Window = 0)
  BY <1>1, Z3
<1> HIDE DEF n, w, g
<1>5. i <= n - w
  <2> SUFFICES ASSUME ~(i <= n - w) PROVE FALSE
    OBVIOUS
  <2>1. i - (n - w) \in 1 .. w /\ n - w + (i - (n - w)) = i
    BY <1>1, <1>4 DEF n
  <2>2. recent[r][i - (n - w)] = log[r][i]
    BY <1>3, <2>1
  <2> QED BY <1>2, <2>1, <2>2 DEF KeyInWindow, w
<1>6. i \in Nat /\ i >= 1
  BY <1>1 DEF n
<1>7. g \in 1 .. g /\ i <= g * Window /\ g * Window < n + 1
  BY <1>1, <1>4, <1>5, <1>6
<1> QED BY <1>7 DEF n, g

\* KeysRepeatAcrossSeals is inductive with IInv.
LEMMA KeysStep == IInv /\ KeysRepeatAcrossSeals /\ [Next]_vars => KeysRepeatAcrossSeals'
<1> SUFFICES ASSUME IInv, KeysRepeatAcrossSeals, [Next]_vars, NEW q \in Rooms,
                    NEW i \in 1 .. Len(log'[q]), NEW j \in 1 .. Len(log'[q]),
                    i < j, log'[q][i].draft.key = log'[q][j].draft.key
             PROVE  \E k \in 1 .. total_gulps'[q] : i <= k * Window /\ k * Window < j
  BY DEF KeysRepeatAcrossSeals
<1>0. Len(log[q]) \in Nat
  BY Lengths
<1>1. ASSUME i \in 1 .. Len(log[q]), j \in 1 .. Len(log[q]),
             log[q][i].draft.key = log[q][j].draft.key
      PROVE  \E k \in 1 .. total_gulps'[q] : i <= k * Window /\ k * Window < j
  <2>1. PICK k \in 1 .. total_gulps[q] : i <= k * Window /\ k * Window < j
    BY <1>1 DEF KeysRepeatAcrossSeals
  <2>2. k \in 1 .. total_gulps'[q]
    BY GulpsGrow
  <2> QED BY <2>1, <2>2
<1>2. CASE UNCHANGED log
  BY <1>1, <1>2
<1>3. ASSUME NEW r \in Rooms, NEW e \in prepared, Commit(r, e),
             Len(log'[r]) = Len(log[r]) + 1, log'[r][Len(log[r]) + 1] = e,
             \A m \in 1 .. Len(log[r]) : log'[r][m] = log[r][m],
             \A s \in Rooms : s # r => log'[s] = log[s]
      PROVE  \E k \in 1 .. total_gulps'[q] : i <= k * Window /\ k * Window < j
  <2>1. CASE q # r
    BY <1>1, <1>3, <2>1
  <2>2. CASE q = r /\ j \in 1 .. Len(log[r])
    <3>1. i \in 1 .. Len(log[r])
      BY <1>0, <2>2
    <3> QED BY <1>1, <1>3, <2>2, <3>1
  <2>3. CASE q = r /\ j \notin 1 .. Len(log[r])
    <3>1. j = Len(log[r]) + 1 /\ i \in 1 .. Len(log[r])
      BY <1>0, <1>3, <2>3
    <3>2. log[r][i].draft.key = e.draft.key
      BY <1>3, <2>3, <3>1
    <3>3. /\ total_gulps[r] \in 1 .. total_gulps[r]
          /\ i <= total_gulps[r] * Window /\ total_gulps[r] * Window < Len(log[r]) + 1
      BY <1>3, <3>1, <3>2, CommitSeesWindow
    <3>4. total_gulps'[r] = total_gulps[r]
      BY <1>3 DEF Commit
    <3> QED BY <2>3, <3>1, <3>3, <3>4
  <2> QED BY <2>1, <2>2, <2>3
<1> QED BY <1>2, <1>3, LogStep

\* The finding of room_keys is confined to retries across a seal: a room that
\* has not sealed a window resolves every duplicate key, and afterwards a key
\* repeats only with the end of a sealed window in between (commit, seal_gulp).
THEOREM KeysRepeatOnlyAcrossSeals ==
  Spec => [](/\ KeysRepeatAcrossSeals
             /\ (\A r \in Rooms : total_gulps[r] = 0) => DuplicateKeysResolve)
<1>1. Init => KeysRepeatAcrossSeals
  BY DEF Init, KeysRepeatAcrossSeals
<1>2. IInv /\ KeysRepeatAcrossSeals /\ (\A r \in Rooms : total_gulps[r] = 0) => DuplicateKeysResolve
  <2> SUFFICES ASSUME IInv, KeysRepeatAcrossSeals, \A r \in Rooms : total_gulps[r] = 0,
                      NEW r \in Rooms, NEW i \in 1 .. Len(log[r]), NEW j \in 1 .. Len(log[r]),
                      log[r][i].draft.key = log[r][j].draft.key
               PROVE  i = j
    BY DEF DuplicateKeysResolve
  <2>1. i \in Nat /\ j \in Nat
    BY Lengths
  <2>2. ~(i < j) /\ ~(j < i)
    BY DEF KeysRepeatAcrossSeals
  <2> QED BY <2>1, <2>2
<1> QED BY <1>1, <1>2, KeysStep, Invariance, PTL DEF Spec

\* PreparedHome and ForeignShares are inductive with IInv.
LEMMA HomeStep == IInv /\ PreparedHome /\ [Next]_vars => PreparedHome'
<1> SUFFICES ASSUME IInv, PreparedHome, [Next]_vars, NEW e \in prepared'
             PROVE  /\ e.sequence <= Len(log'[e.room]) + 1
                    /\ e.previous = IF e.sequence = 1 THEN Genesis
                                    ELSE EventSha(log'[e.room][e.sequence - 1])
  BY DEF PreparedHome
<1>1. CASE e \in prepared
  <2>0. e.room \in Rooms /\ e.sequence \in Nat /\ e.sequence >= 1
    BY <1>1 DEF IInv, TypeOK, EventType, PreparedInv
  <2>1. /\ e.sequence <= Len(log[e.room]) + 1
        /\ e.previous = IF e.sequence = 1 THEN Genesis ELSE EventSha(log[e.room][e.sequence - 1])
    BY <1>1 DEF PreparedHome
  <2>2. Len(log[e.room]) \in Nat
    BY <2>0, Lengths
  <2>3. e.sequence = 1 \/ e.sequence - 1 \in 1 .. Len(log[e.room])
    BY <2>0, <2>1, <2>2
  <2>4. /\ Len(log'[e.room]) \in {Len(log[e.room]), Len(log[e.room]) + 1}
        /\ \A i \in 1 .. Len(log[e.room]) : log'[e.room][i] = log[e.room][i]
    BY <2>0, LogStep
  <2>5. e.sequence <= Len(log'[e.room]) + 1
    BY <2>0, <2>1, <2>2, <2>4
  <2>6. e.sequence # 1 => log'[e.room][e.sequence - 1] = log[e.room][e.sequence - 1]
    BY <2>3, <2>4, Zenon
  <2> QED BY <2>1, <2>5, <2>6, Zenon
<1>2. CASE e \notin prepared
  <2>1. PICK r \in Rooms, d \in Drafts : Prepare(r, d)
    BY <1>2 DEF Next, vars, Abandon, Commit, SealGulp
  <2>2. e = [sequence |-> next_sequence[r], room |-> r, previous |-> head_sha256[r], draft |-> d]
    BY <1>2, <2>1 DEF Prepare
  <2>3. log' = log
    BY <2>1 DEF Prepare
  <2>4. e.room = r /\ e.sequence = Len(log[r]) + 1 /\ Len(log[r]) \in Nat
    BY <2>2, Lengths
  <2>5. e.previous = IF Len(log[r]) = 0 THEN Genesis ELSE EventSha(log[r][Len(log[r])])
    BY <2>2, Lengths DEF IInv, OneChain
  <2> QED BY <2>3, <2>4, <2>5
<1> QED BY <1>1, <1>2

LEMMA SharesStep == IInv /\ PreparedHome /\ ForeignShares /\ [Next]_vars => ForeignShares'
<1> SUFFICES ASSUME IInv, PreparedHome, ForeignShares, [Next]_vars,
                    NEW q \in Rooms, NEW i \in 1 .. Len(log'[q])
             PROVE  /\ i - 1 <= Len(log'[log'[q][i].room])
                    /\ \A k \in 1 .. i - 1 : EventSha(log'[log'[q][i].room][k]) = EventSha(log'[q][k])
  BY DEF ForeignShares
<1>1. \A s \in Rooms : Len(log[s]) \in Nat
  BY Lengths
<1>2. ASSUME NEW s \in Rooms
      PROVE  /\ Len(log'[s]) \in {Len(log[s]), Len(log[s]) + 1}
             /\ \A k \in 1 .. Len(log[s]) : log'[s][k] = log[s][k]
  BY <1>1, LogStep
<1>3. ASSUME NEW s \in Rooms, NEW t \in Rooms, NEW m \in Nat, m <= Len(log[s]), m <= Len(log[t]),
             \A k \in 1 .. m : EventSha(log[s][k]) = EventSha(log[t][k])
      PROVE  m <= Len(log'[s]) /\ \A k \in 1 .. m : EventSha(log'[s][k]) = EventSha(log'[t][k])
  <2>1. \A k \in 1 .. m : k \in 1 .. Len(log[s]) /\ k \in 1 .. Len(log[t])
    BY <1>1, <1>3
  <2>2. \A k \in 1 .. m : log'[s][k] = log[s][k] /\ log'[t][k] = log[t][k]
    BY <1>2, <2>1
  <2> QED BY <1>1, <1>2, <1>3, <2>2
<1>4. CASE i \in 1 .. Len(log[q])
  <2> DEFINE s == log[q][i].room
  <2>1. s \in Rooms /\ log'[q][i] = log[q][i]
    BY <1>2, <1>4 DEF IInv, TypeOK, EventType
  <2>2. i - 1 <= Len(log[s]) /\ \A k \in 1 .. i - 1 : EventSha(log[s][k]) = EventSha(log[q][k])
    BY <1>4 DEF ForeignShares
  <2>3. i - 1 \in Nat /\ i - 1 <= Len(log[q])
    BY <1>1, <1>4
  <2> HIDE DEF s
  <2>4. i - 1 <= Len(log'[s]) /\ \A k \in 1 .. i - 1 : EventSha(log'[s][k]) = EventSha(log'[q][k])
    BY <1>3, <2>1, <2>2, <2>3
  <2> QED BY <2>1, <2>4 DEF s
<1>5. CASE i \notin 1 .. Len(log[q])
  <2>0. log' # log
    BY <1>5
  <2>1. PICK e \in prepared : /\ Commit(q, e) /\ Len(log'[q]) = Len(log[q]) + 1
                              /\ log'[q][Len(log[q]) + 1] = e
    BY <1>5, <2>0, LogStep
  <2> DEFINE n == Len(log[q])
             s == e.room
  <2>2. i = n + 1 /\ n \in Nat /\ log'[q][i] = e
    BY <1>1, <1>5, <2>1
  <2>3. s \in Rooms /\ e.sequence = n + 1 /\ e.previous = head_sha256[q]
    <3>1. e.room \in Rooms
      BY DEF IInv, TypeOK, EventType
    <3>2. e.sequence = next_sequence[q] /\ e.previous = head_sha256[q]
      BY <2>1 DEF Commit, CommitAdmits
    <3>3. next_sequence[q] = n + 1
      BY Lengths
    <3> QED BY <3>1, <3>2, <3>3
  <2>4. n <= Len(log[s]) /\ (n # 0 => e.previous = EventSha(log[s][n]))
    <3>1. e.sequence <= Len(log[s]) + 1
          /\ e.previous = IF e.sequence = 1 THEN Genesis ELSE EventSha(log[s][e.sequence - 1])
      BY DEF PreparedHome
    <3>2. Len(log[s]) \in Nat /\ (n + 1) - 1 = n /\ (n # 0 => n + 1 # 1)
      BY <1>1, <2>2, <2>3
    <3> HIDE DEF n
    <3> QED BY <2>2, <2>3, <3>1, <3>2
  <2>5. n # 0 => head_sha256[q] = EventSha(log[q][n])
    BY Lengths DEF IInv, OneChain
  <2>6. \A k \in 1 .. n : EventSha(log[s][k]) = EventSha(log[q][k])
    <3>1. CASE n = 0
      BY <3>1
    <3>2. CASE n # 0
      <4>1. n \in 1 .. Len(log[s]) /\ n \in 1 .. Len(log[q])
        BY <1>1, <2>2, <2>3, <2>4, <3>2
      <4>2. EventSha(log[s][n]) = EventSha(log[q][n])
        BY <2>3, <2>4, <2>5, <3>2
      <4> HIDE DEF n
      <4> QED BY <2>3, <4>1, <4>2 DEF IInv, PrefixesAgree
    <3> QED BY <3>1, <3>2
  <2>7. n <= Len(log'[s]) /\ \A k \in 1 .. n : EventSha(log'[s][k]) = EventSha(log'[q][k])
    <3>1. n <= Len(log[q])
      BY <1>1
    <3> HIDE DEF n, s
    <3> QED BY <1>3, <2>2, <2>3, <2>4, <2>6, <3>1
  <2> HIDE DEF n
  <2>8. i - 1 = n
    BY <2>2
  <2> QED BY <2>2, <2>7, <2>8
<1> QED BY <1>4, <1>5

\* The finding of room_identity is confined to rooms that share their whole
\* history so far: since the digest covers the room, histories that differ never
\* exchange an event, and a set of rooms that were each opened with an event of
\* their own keeps "The full room SHA owns identity" (commit, event_sha256).
THEOREM ForeignEventsNeedSharedHistory ==
  Spec => [](ForeignShares /\ (OwnFirst => RoomOwnsItsEvents))
<1>1. Init => PreparedHome /\ ForeignShares
  BY DEF Init, PreparedHome, ForeignShares
<1>2. IInv /\ ForeignShares /\ OwnFirst => RoomOwnsItsEvents
  <2> SUFFICES ASSUME IInv, ForeignShares, OwnFirst, NEW r \in Rooms, NEW i \in 1 .. Len(log[r])
               PROVE  log[r][i].room = r
    BY DEF RoomOwnsItsEvents
  <2> DEFINE s == log[r][i].room
  <2>0. Len(log[r]) \in Nat /\ i \in Nat /\ i >= 1 /\ Len(log[r]) > 0
    BY Lengths
  <2>1. s \in Rooms
    BY DEF IInv, TypeOK, EventType
  <2>2. Len(log[s]) \in Nat
    BY <2>1, Lengths
  <2>3. CASE i = 1
    BY <2>0, <2>3 DEF OwnFirst
  <2>4. CASE i # 1
    <3>1. 1 \in 1 .. i - 1 /\ i - 1 <= Len(log[s])
      BY <2>0, <2>4 DEF ForeignShares
    <3>2. EventSha(log[s][1]) = EventSha(log[r][1])
      BY <3>1 DEF ForeignShares
    <3>3. log[s][1].room = log[r][1].room
      BY <3>2, ShaInjective
    <3>4. Len(log[s]) > 0
      BY <2>0, <2>2, <3>1
    <3> QED BY <2>0, <2>1, <3>3, <3>4 DEF OwnFirst
  <2> QED BY <2>3, <2>4
<1> QED BY <1>1, <1>2, HomeStep, SharesStep, Invariance, PTL DEF Spec
=============================================================================
