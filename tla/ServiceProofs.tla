--------------------------- MODULE ServiceProofs ---------------------------
(***************************************************************************)
(* Proofs about the services of KernelServices that keep state of their    *)
(* own: the cosign chain, the peer state machine and the agent registry,   *)
(* for any history cap, registry size, hash and number of rows.            *)
(***************************************************************************)
EXTENDS KernelServices, SequenceTheorems, FiniteSetTheorems, WellFoundedInduction, TLAPS

-----------------------------------------------------------------------------
\* A step of the composition is, for each service, a step of it or none.
LEMMA StepsProject ==
  ASSUME [Next]_serviceVars
  PROVE  /\ [PeerNext]_peerVars
         /\ [RegistryNext]_registryVars
         /\ [ChainNext \/ SequenceNext]_chainVars
  BY DEF Next, serviceVars, PeerService, RegistryService, ChainService, GateService,
         LinkService, RouteService, BootService, peerVars, registryVars, chainVars

-----------------------------------------------------------------------------
(* The cosign chain *)

\* A value that has the four fields of a row.
IsRow(r) == r = [row |-> r.row, prev |-> r.prev, kind |-> r.kind, payload |-> r.payload]

\* Storage may hold other kinds and payloads than were appended, never other
\* links; the appended rows are linked up to the head.
LinksInv ==
  /\ \E Rows : chain \in Seq(Rows) /\ appended \in Seq(Rows)
  /\ Len(chain) = Len(appended)
  /\ IsRow(draft)
  /\ \A i \in 1 .. Len(chain) :
       IsRow(chain[i]) /\ IsRow(appended[i]) /\ chain[i].prev = appended[i].prev
  /\ headHash = IF Len(appended) = 0 THEN Genesis ELSE RowHash(appended[Len(appended)])
  /\ \A i \in 2 .. Len(appended) : appended[i].prev = RowHash(appended[i - 1])

\* The part of ChainTypeOK that the counters make up.
CountsInv ==
  /\ Len(chain) <= ChainMax /\ nextRow = Len(chain) + 1
  /\ \E What : issued \in Seq(What)
  /\ seq = Len(issued)
  /\ \A i \in 1 .. Len(issued) : issued[i].bytes >= 16

ChainInv == LinksInv /\ CountsInv

LEMMA ChainInitial == ChainInit => ChainInv
<1> SUFFICES ASSUME ChainInit PROVE ChainInv
  OBVIOUS
<1>1. <<>> \in Seq({})
  OBVIOUS
<1>2. chain = <<>> /\ appended = <<>> /\ issued = <<>> /\ Len(<<>>) = 0
  BY DEF ChainInit
<1>3. LinksInv
  BY <1>1, <1>2 DEF ChainInit, LinksInv, IsRow, NoDraft
<1>4. CountsInv
  BY <1>1, <1>2, ChainAssumption DEF ChainInit, CountsInv
<1> QED BY <1>3, <1>4 DEF ChainInv

LEMMA AppendKeepsLinks == ChainInv /\ AppendRow => ChainInv'
<1> SUFFICES ASSUME ChainInv, AppendRow PROVE ChainInv'
  OBVIOUS
<1> USE DEF ChainInv
<1>1. PICK Rows : chain \in Seq(Rows) /\ appended \in Seq(Rows)
  BY DEF LinksInv
<1> DEFINE More == Rows \cup {draft}
<1>2. chain \in Seq(More) /\ appended \in Seq(More) /\ draft \in More
  BY <1>1
<1> HIDE DEF More
<1>3. chain' = Append(chain, draft) /\ appended' = Append(appended, draft)
  BY DEF AppendRow
<1>4. /\ chain' \in Seq(More) /\ appended' \in Seq(More)
      /\ Len(chain') = Len(chain) + 1 /\ Len(appended') = Len(appended) + 1
      /\ \A i \in 1 .. Len(chain) : chain'[i] = chain[i] /\ appended'[i] = appended[i]
      /\ chain'[Len(chain) + 1] = draft /\ appended'[Len(chain) + 1] = draft
      /\ Len(chain) \in Nat /\ Len(chain) = Len(appended)
  BY <1>2, <1>3 DEF LinksInv
<1>5. IsRow(draft) /\ draft' = draft /\ draft.prev = headHash /\ headHash' = RowHash(draft)
  BY DEF LinksInv, AppendRow, Accepts
<1>6. \A i \in 1 .. Len(chain') :
        IsRow(chain'[i]) /\ IsRow(appended'[i]) /\ chain'[i].prev = appended'[i].prev
  <2> SUFFICES ASSUME NEW i \in 1 .. Len(chain')
               PROVE  IsRow(chain'[i]) /\ IsRow(appended'[i])
                        /\ chain'[i].prev = appended'[i].prev
    OBVIOUS
  <2>1. CASE i = Len(chain) + 1
    BY <2>1, <1>4, <1>5
  <2>2. CASE i \in 1 .. Len(chain)
    BY <2>2, <1>4 DEF LinksInv
  <2> QED BY <2>1, <2>2, <1>4
<1>7. \A i \in 2 .. Len(appended') : appended'[i].prev = RowHash(appended'[i - 1])
  <2> SUFFICES ASSUME NEW i \in 2 .. Len(appended')
               PROVE  appended'[i].prev = RowHash(appended'[i - 1])
    OBVIOUS
  <2>1. appended'[i - 1] = appended[i - 1] /\ i - 1 \in 1 .. Len(appended)
    BY <1>4
  <2>2. CASE i = Len(appended) + 1
    BY <2>1, <2>2, <1>4, <1>5 DEF LinksInv
  <2>3. CASE i \in 2 .. Len(appended)
    BY <2>1, <2>3, <1>4 DEF LinksInv
  <2> QED BY <2>2, <2>3, <1>4
<1>8. LinksInv'
  BY <1>4, <1>5, <1>6, <1>7 DEF LinksInv
<1>9. CountsInv'
  <2>1. Len(chain') <= ChainMax /\ nextRow' = Len(chain') + 1
    BY <1>4, ChainAssumption DEF CountsInv, AppendRow
  <2>2. issued' = issued /\ seq' = seq
    BY DEF AppendRow
  <2> QED BY <2>1, <2>2 DEF CountsInv
<1> QED BY <1>8, <1>9

LEMMA CorruptionKeepsLinks == ChainInv /\ CorruptRow => ChainInv'
<1> SUFFICES ASSUME ChainInv, CorruptRow PROVE ChainInv'
  OBVIOUS
<1> USE DEF ChainInv
<1>1. PICK Rows : chain \in Seq(Rows) /\ appended \in Seq(Rows)
  BY DEF LinksInv
<1>2. PICK n \in DOMAIN chain, k \in Texts, p \in Texts :
        chain' = [chain EXCEPT ![n].kind = k, ![n].payload = p]
  BY DEF CorruptRow
<1> DEFINE other == [row |-> chain[n].row, prev |-> chain[n].prev, kind |-> k, payload |-> p]
           More == Rows \cup {other}
<1>3. DOMAIN chain = 1 .. Len(chain) /\ Len(chain) \in Nat /\ IsRow(chain[n])
  BY <1>1 DEF LinksInv
<1>4. chain' = [chain EXCEPT ![n] = other]
  <2> DEFINE half == [row |-> chain[n].row, prev |-> chain[n].prev, kind |-> k,
                      payload |-> chain[n].payload]
  <2>1. [chain[n] EXCEPT !.kind = k] = half
    BY <1>3 DEF IsRow
  <2>a. [half EXCEPT !.payload = p] = other
    OBVIOUS
  <2>2. [[chain[n] EXCEPT !.kind = k] EXCEPT !.payload = p] = other
    BY <2>1, <2>a, Zenon
  <2>3. chain' = [chain EXCEPT ![n] = [[chain[n] EXCEPT !.kind = k] EXCEPT !.payload = p]]
    BY <1>2, <1>3
  <2> QED BY <2>2, <2>3
<1>5. chain \in Seq(More) /\ appended \in Seq(More) /\ other \in More
  BY <1>1
<1>6. IsRow(other) /\ other.prev = chain[n].prev
  BY DEF IsRow
<1> HIDE DEF other, More
<1>7. /\ chain' \in Seq(More) /\ Len(chain') = Len(chain) /\ chain'[n] = other
      /\ \A i \in 1 .. Len(chain) : i # n => chain'[i] = chain[i]
  BY <1>3, <1>4, <1>5
<1>8. \A i \in 1 .. Len(chain') :
        IsRow(chain'[i]) /\ IsRow(appended[i]) /\ chain'[i].prev = appended[i].prev
  BY <1>3, <1>6, <1>7 DEF LinksInv
<1>9. LinksInv'
  BY <1>5, <1>7, <1>8 DEF LinksInv, CorruptRow
<1>10. CountsInv'
  BY <1>7 DEF CountsInv, CorruptRow
<1> QED BY <1>9, <1>10

LEMMA SequenceKeepsLinks == ChainInv /\ SequenceNext => ChainInv'
<1> SUFFICES ASSUME ChainInv, SequenceNext PROVE ChainInv'
  OBVIOUS
<1> USE DEF ChainInv
<1>1. PICK what : AppendSeq(what) /\ what.bytes >= 16
  <2>1. CASE SysCosignAppend
    BY <2>1 DEF SysCosignAppend
  <2>2. CASE HookwallPost
    BY <2>2 DEF HookwallPost
  <2> QED BY <2>1, <2>2 DEF SequenceNext
<1>2. PICK What : issued \in Seq(What)
  BY DEF CountsInv
<1> DEFINE More == What \cup {what}
<1>3. issued \in Seq(More) /\ what \in More
  BY <1>2
<1> HIDE DEF More
<1>4. issued' = Append(issued, what) /\ seq' = seq + 1
  BY <1>1 DEF AppendSeq
<1>5. /\ issued' \in Seq(More) /\ Len(issued') = Len(issued) + 1 /\ Len(issued) \in Nat
      /\ \A i \in 1 .. Len(issued) : issued'[i] = issued[i]
      /\ issued'[Len(issued) + 1] = what
  BY <1>3, <1>4
<1>6. CountsInv'
  <2>1. \A i \in 1 .. Len(issued') : issued'[i].bytes >= 16
    BY <1>1, <1>5 DEF CountsInv
  <2> QED BY <1>1, <1>4, <1>5, <2>1 DEF CountsInv, AppendSeq
<1>7. LinksInv'
  BY <1>1 DEF LinksInv, AppendSeq
<1> QED BY <1>6, <1>7

LEMMA ChainStep == ChainInv /\ [ChainNext \/ SequenceNext]_chainVars => ChainInv'
<1>1. ChainInv /\ PrepareRow => ChainInv'
  BY DEF ChainInv, LinksInv, CountsInv, PrepareRow, IsRow
<1>2. ChainInv /\ UNCHANGED chainVars => ChainInv'
  BY DEF ChainInv, LinksInv, CountsInv, chainVars
<1> QED BY <1>1, <1>2, AppendKeepsLinks, CorruptionKeepsLinks, SequenceKeepsLinks DEF ChainNext

\* If validation accepts the stored rows, each row's link to the one before it
\* was computed from the row as it was appended.
LEMMA LinksTell == ChainInv => ValidationTellsTampering
<1> SUFFICES ASSUME ChainInv, ValidateEndToEnd(chain), NEW i \in 1 .. Len(chain) - 1
             PROVE  RowHash(chain[i]) = RowHash(appended[i])
  BY DEF ValidationTellsTampering
<1>1. /\ Len(chain) \in Nat /\ DOMAIN chain = 1 .. Len(chain)
      /\ Len(chain) = Len(appended)
  BY DEF ChainInv, LinksInv
<1>2. i + 1 \in 2 .. Len(chain) /\ i + 1 \in 1 .. Len(chain) /\ (i + 1) - 1 = i /\ i + 1 # 1
  BY <1>1
<1>3. chain[i + 1].prev = RowHash(chain[i])
  BY <1>1, <1>2 DEF ValidateEndToEnd
<1>4. chain[i + 1].prev = appended[i + 1].prev
  BY <1>2 DEF ChainInv, LinksInv
<1>5. appended[i + 1].prev = RowHash(appended[i])
  BY <1>1, <1>2 DEF ChainInv, LinksInv
<1> QED BY <1>3, <1>4, <1>5

\* Whatever storage returns, a chain that validate_end_to_end accepts has, in
\* every row but the last, the canonical text that was appended.
THEOREM TamperingShows == Spec => []ValidationTellsTampering
<1>1. Init => ChainInv
  BY ChainInitial DEF Init
<1>2. ChainInv /\ [Next]_serviceVars => ChainInv'
  BY StepsProject, ChainStep
<1>3. ChainInv => ValidationTellsTampering
  BY LinksTell
<1> QED BY <1>1, <1>2, <1>3, PTL DEF Spec

\* validate_end_to_end raises no false alarm: the rows as they were appended
\* always pass it, whatever stale or kindless rows callers offered in between,
\* so a chain that storage returns unchanged is accepted.
THEOREM IntactChainsValidate ==
  Spec => [](ValidateEndToEnd(appended) /\ (chain = appended => ValidateEndToEnd(chain)))
<1> DEFINE Valid == ValidateEndToEnd(appended)
<1>1. Init => ChainInv /\ Valid
  BY ChainInitial DEF Init, ChainInit, ValidateEndToEnd
<1>2. ChainInv /\ [Next]_serviceVars => ChainInv'
  BY StepsProject, ChainStep
<1>3. ChainInv /\ Valid /\ [Next]_serviceVars => Valid'
  <2> SUFFICES ASSUME ChainInv, Valid, [Next]_serviceVars PROVE Valid'
    OBVIOUS
  <2>1. CASE appended' = appended
    BY <2>1 DEF ValidateEndToEnd
  <2>2. CASE appended' # appended
    <3>1. AppendRow
      BY <2>2, StepsProject DEF ChainNext, SequenceNext, PrepareRow, CorruptRow, SysCosignAppend,
         HookwallPost, AppendSeq, chainVars
    <3>2. PICK Rows : appended \in Seq(Rows)
      BY DEF ChainInv, LinksInv
    <3> DEFINE More == Rows \cup {draft}
               n == Len(appended)
    <3>3. appended \in Seq(More) /\ draft \in More
      BY <3>2
    <3> HIDE DEF More
    <3>4. appended' = Append(appended, draft)
      BY <3>1 DEF AppendRow
    <3>5. /\ n \in Nat /\ DOMAIN appended = 1 .. n /\ DOMAIN appended' = 1 .. n + 1
          /\ \A i \in 1 .. n : appended'[i] = appended[i]
          /\ appended'[n + 1] = draft
      BY <3>3, <3>4
    <3>6. /\ draft.row = n + 1 /\ draft.kind # <<>>
          /\ draft.prev = IF n = 0 THEN Genesis ELSE RowHash(appended[n])
      BY <3>1 DEF AppendRow, Accepts, ChainInv, LinksInv, CountsInv
    <3> HIDE DEF n
    <3>7. ASSUME NEW i \in 1 .. n + 1
          PROVE  /\ appended'[i].row = i
                 /\ appended'[i].prev = (IF i = 1 THEN Genesis ELSE RowHash(appended'[i - 1]))
                 /\ appended'[i].kind # <<>>
      <4>1. CASE i = n + 1
        <5>1. CASE n = 0
          BY <3>5, <3>6, <4>1, <5>1
        <5>2. CASE n # 0
          <6>1. n \in 1 .. n /\ i # 1 /\ i - 1 = n
            BY <3>5, <4>1, <5>2
          <6> QED BY <3>5, <3>6, <4>1, <5>2, <6>1
        <5> QED BY <5>1, <5>2
      <4>2. CASE i \in 1 .. n
        <5>1. i # 1 => i - 1 \in 1 .. n
          BY <3>5, <4>2
        <5>2. /\ appended[i].row = i /\ appended[i].kind # <<>>
              /\ appended[i].prev = (IF i = 1 THEN Genesis ELSE RowHash(appended[i - 1]))
          BY <3>5, <4>2 DEF ValidateEndToEnd
        <5> QED BY <3>5, <4>2, <5>1, <5>2
      <4> QED BY <3>5, <4>1, <4>2
    <3> QED BY <3>5, <3>7 DEF ValidateEndToEnd
  <2> QED BY <2>1, <2>2
<1>4. Valid => ValidateEndToEnd(appended) /\ (chain = appended => ValidateEndToEnd(chain))
  OBVIOUS
<1> QED BY <1>1, <1>2, <1>3, <1>4, PTL DEF Spec

-----------------------------------------------------------------------------
(* The peer state machine *)

Steps == [ts : Nat, from : PeerStates, to : PeerStates]
Peers == [state : PeerStates, history : Seq(Steps), last : Nat,
          deadline : Nat \cup {NoDeadline}, strikes : 0 .. MaxStrikes]

\* PeerTypeOK's account of the history, for any sequence of records.
IsPath(h) ==
  /\ \A i \in 1 .. Len(h) : h[i].to \in LegalTransitions(h[i].from)
  /\ \A i \in 1 .. Len(h) - 1 : h[i].to = h[i + 1].from /\ h[i].ts <= h[i + 1].ts

EndsAt(h, state, last) ==
  IF Len(h) = 0 THEN state = "Dark"
  ELSE h[Len(h)].to = state /\ h[Len(h)].ts = last

WellKept(p) == Len(p.history) <= HistoryCap /\ IsPath(p.history)
                 /\ EndsAt(p.history, p.state, p.last)

\* A kicked peer made its last transition at the accepted kick, and its deadline
\* is that kick's unless another was refused since.
KickInv ==
  /\ kick \in [at : Nat, delay : Nat, refused : BOOLEAN]
  /\ peer.state = "Kicked" =>
       /\ peer.last = kick.at
       /\ kick.refused \/ peer.deadline = kick.at + kick.delay

PeerInv ==
  /\ peer \in Peers /\ peerNow \in Nat /\ peer.last <= peerNow
  /\ WellKept(peer)
  /\ KickInv

\* A record at the end of a path, in time and through a legal transition, makes
\* a path; so does dropping the oldest record.
LEMMA PathsGrow ==
  ASSUME NEW h \in Seq(Steps), IsPath(h), NEW s \in Steps,
         s.to \in LegalTransitions(s.from),
         Len(h) # 0 => h[Len(h)].to = s.from /\ h[Len(h)].ts <= s.ts
  PROVE  IsPath(Append(h, s))
<1> DEFINE g == Append(h, s)
<1>1. /\ Len(g) = Len(h) + 1 /\ Len(h) \in Nat /\ g[Len(h) + 1] = s
      /\ \A i \in 1 .. Len(h) : g[i] = h[i]
  OBVIOUS
<1> HIDE DEF g
<1>2. \A i \in 1 .. Len(g) : g[i].to \in LegalTransitions(g[i].from)
  BY <1>1 DEF IsPath
<1>3. ASSUME NEW i \in 1 .. Len(g) - 1
      PROVE  g[i].to = g[i + 1].from /\ g[i].ts <= g[i + 1].ts
  <2>1. CASE i = Len(h)
    BY <1>1, <2>1
  <2>2. CASE i \in 1 .. Len(h) - 1
    BY <1>1, <2>2 DEF IsPath
  <2> QED BY <2>1, <2>2, <1>1
<1> QED BY <1>2, <1>3 DEF IsPath, g

LEMMA PathsShrink ==
  ASSUME NEW h \in Seq(Steps), IsPath(h), Len(h) > 1
  PROVE  /\ Tail(h) \in Seq(Steps) /\ Len(Tail(h)) = Len(h) - 1
         /\ Tail(h)[Len(h) - 1] = h[Len(h)]
         /\ IsPath(Tail(h))
<1> DEFINE g == Tail(h)
<1>1. /\ Len(h) \in Nat /\ Len(g) = Len(h) - 1 /\ g \in Seq(Steps)
      /\ \A i \in 1 .. Len(h) - 1 : g[i] = h[i + 1]
  OBVIOUS
<1> HIDE DEF g
<1>2. ASSUME NEW i \in 1 .. Len(g) PROVE g[i].to \in LegalTransitions(g[i].from)
  <2>1. i + 1 \in 1 .. Len(h) /\ g[i] = h[i + 1]
    BY <1>1
  <2> QED BY <2>1 DEF IsPath
<1>3. ASSUME NEW i \in 1 .. Len(g) - 1
      PROVE  g[i].to = g[i + 1].from /\ g[i].ts <= g[i + 1].ts
  <2>1. i + 1 \in 1 .. Len(h) - 1 /\ g[i] = h[i + 1] /\ g[i + 1] = h[(i + 1) + 1]
    BY <1>1
  <2> QED BY <2>1 DEF IsPath
<1>4. IsPath(g)
  BY <1>2, <1>3 DEF IsPath
<1> QED BY <1>1, <1>4 DEF g

\* What transition keeps: the record, the cap, the path and the other fields.
LEMMA TransitionKeeps ==
  ASSUME NEW p \in Peers, WellKept(p), NEW next \in PeerStates, NEW now \in Nat,
         p.last <= now
  PROVE  LET q == Transition(p, next, now) IN
         /\ q \in Peers /\ WellKept(q) /\ q.last <= now
         /\ q.deadline = p.deadline /\ q.strikes = p.strikes
         /\ IF next \in LegalTransitions(p.state) THEN q.state = next /\ q.last = now
            ELSE q.state = p.state /\ q.last = p.last
<1> DEFINE q == Transition(p, next, now)
           s == [ts |-> now, from |-> p.state, to |-> next]
           longer == Append(p.history, s)
           kept == IF Len(longer) > HistoryCap THEN Tail(longer) ELSE longer
<1>1. CASE next \notin LegalTransitions(p.state)
  BY <1>1 DEF Transition
<1>2. CASE next \in LegalTransitions(p.state)
  <2>1. /\ p.history \in Seq(Steps) /\ p.state \in PeerStates /\ p.last \in Nat
        /\ s \in Steps /\ s.to = next /\ s.from = p.state /\ s.ts = now
    BY DEF Peers, Steps
  <2>2. /\ longer \in Seq(Steps) /\ Len(longer) = Len(p.history) + 1
        /\ Len(p.history) \in Nat /\ longer[Len(longer)] = s
    BY <2>1
  <2>3. IsPath(longer)
    <3>1. Len(p.history) # 0 =>
            p.history[Len(p.history)].to = s.from /\ p.history[Len(p.history)].ts <= s.ts
      BY <2>1 DEF WellKept, EndsAt
    <3>2. IsPath(p.history) /\ s.to \in LegalTransitions(s.from)
      BY <1>2, <2>1 DEF WellKept
    <3> HIDE DEF s
    <3> QED BY <3>1, <3>2, <2>1, PathsGrow
  <2>4. /\ kept \in Seq(Steps) /\ Len(kept) \in Nat \ {0} /\ Len(kept) <= HistoryCap
        /\ IsPath(kept) /\ kept[Len(kept)] = s
    <3> HIDE DEF longer, s
    <3>1. Len(p.history) <= HistoryCap /\ HistoryCap \in Nat \ {0}
      BY PeerAssumption DEF WellKept
    <3>2. CASE Len(longer) > HistoryCap
      <4>1. Len(longer) > 1
        BY <2>2, <3>1, <3>2
      <4>2. /\ Tail(longer) \in Seq(Steps) /\ Len(Tail(longer)) = Len(longer) - 1
            /\ Tail(longer)[Len(longer) - 1] = longer[Len(longer)]
            /\ IsPath(Tail(longer))
        BY <4>1, <2>2, <2>3, PathsShrink
      <4> QED BY <4>1, <4>2, <2>2, <3>1, <3>2
    <3>3. CASE ~(Len(longer) > HistoryCap)
      BY <2>2, <2>3, <3>1, <3>3
    <3> QED BY <3>2, <3>3
  <2>5. q = [p EXCEPT !.state = next, !.last = now, !.history = kept]
    BY <1>2 DEF Transition
  <2> HIDE DEF kept
  <2>6. /\ q.state = next /\ q.last = now /\ q.history = kept
        /\ q.deadline = p.deadline /\ q.strikes = p.strikes /\ q \in Peers
    BY <2>4, <2>5 DEF Peers
  <2>7. WellKept(q)
    BY <2>1, <2>4, <2>6 DEF WellKept, EndsAt
  <2> QED BY <1>2, <2>6, <2>7
<1> QED BY <1>1, <1>2

LEMMA PeerInitial == PeerInit => PeerInv
<1> SUFFICES ASSUME PeerInit PROVE PeerInv
  OBVIOUS
<1>1. <<>> \in Seq(Steps) /\ Len(<<>>) = 0
  OBVIOUS
<1>2. peer \in Peers /\ peerNow \in Nat /\ peer.last <= peerNow
  BY <1>1, PeerAssumption DEF PeerInit, Peers, PeerStates
<1>3. WellKept(peer)
  BY <1>1, PeerAssumption DEF PeerInit, WellKept, IsPath, EndsAt
<1>4. KickInv
  BY DEF PeerInit, KickInv
<1> QED BY <1>2, <1>3, <1>4 DEF PeerInv

\* Every handler sets a field that transition leaves alone and asks for a
\* transition.
LEMMA PeerStep == PeerInv /\ [PeerNext]_peerVars => PeerInv'
<1> SUFFICES ASSUME PeerInv, [PeerNext]_peerVars PROVE PeerInv'
  OBVIOUS
<1>0. /\ peer \in Peers /\ peerNow \in Nat /\ peer.last <= peerNow /\ WellKept(peer)
      /\ KickInv
  BY DEF PeerInv
<1>1. ASSUME NEW d \in KickDelays, OnKick(d) PROVE PeerInv'
  <2> DEFINE p == [peer EXCEPT !.deadline = peerNow + d]
  <2>1. d \in Nat /\ "Kicked" \in PeerStates
    BY PeerAssumption DEF PeerStates
  <2>2. /\ p \in Peers /\ WellKept(p) /\ p.last = peer.last /\ p.state = peer.state
        /\ p.deadline = peerNow + d
    BY <1>0, <2>1 DEF Peers, WellKept
  <2> HIDE DEF p
  <2>3. /\ peer' \in Peers /\ WellKept(peer') /\ peer'.last <= peerNow
        /\ peer'.deadline = peerNow + d
        /\ IF "Kicked" \in LegalTransitions(peer.state)
           THEN peer'.state = "Kicked" /\ peer'.last = peerNow
           ELSE peer'.state = peer.state /\ peer'.last = peer.last
    BY <1>0, <1>1, <2>1, <2>2, TransitionKeeps DEF OnKick, p
  <2>4. KickCalled(d) /\ peerNow' = peerNow
    BY <1>1 DEF OnKick
  <2>5. KickInv'
    BY <1>0, <2>1, <2>3, <2>4 DEF KickInv, KickCalled
  <2>6. WellKept(peer)'
    BY <2>3 DEF WellKept
  <2> QED BY <1>0, <2>3, <2>4, <2>5, <2>6 DEF PeerInv
<1>2. ASSUME NEW p \in Peers, NEW next \in PeerStates \ {"Kicked"},
             peer' = Transition(p, next, peerNow), UNCHANGED <<peerNow, kick>>,
             WellKept(p), p.last = peer.last, p.state = peer.state, p.deadline = peer.deadline
      PROVE  PeerInv'
  <2>1. /\ peer' \in Peers /\ WellKept(peer') /\ peer'.last <= peerNow
        /\ peer'.deadline = peer.deadline
        /\ \/ peer'.state = peer.state /\ peer'.last = peer.last
           \/ peer'.state # "Kicked"
    BY <1>0, <1>2, TransitionKeeps
  <2>2. KickInv'
    BY <1>0, <1>2, <2>1 DEF KickInv
  <2>3. WellKept(peer)'
    BY <2>1 DEF WellKept
  <2> QED BY <1>0, <1>2, <2>1, <2>2, <2>3 DEF PeerInv
<1>3. CASE OnReply
  <2> DEFINE p == [peer EXCEPT !.strikes = 0]
  <2>1. /\ p \in Peers /\ WellKept(p) /\ p.last = peer.last /\ p.state = peer.state
        /\ p.deadline = peer.deadline
    BY <1>0, PeerAssumption DEF Peers, WellKept
  <2> HIDE DEF p
  <2>2. "Responding" \in PeerStates \ {"Kicked"}
    BY DEF PeerStates
  <2> QED BY <1>2, <1>3, <2>1, <2>2 DEF OnReply, p
<1>4. CASE OnDrift
  <2> DEFINE p == [peer EXCEPT !.strikes = @ + 1]
  <2>1. /\ p \in Peers /\ WellKept(p) /\ p.last = peer.last /\ p.state = peer.state
        /\ p.deadline = peer.deadline
    BY <1>0, <1>4, PeerAssumption DEF Peers, WellKept, OnDrift
  <2> HIDE DEF p
  <2>2. "Drift" \in PeerStates \ {"Kicked"}
    BY DEF PeerStates
  <2> QED BY <1>2, <1>4, <2>1, <2>2 DEF OnDrift, p
<1>5. CASE OnHalt
  BY <1>0, <1>2, <1>5 DEF OnHalt, PeerStates
<1>6. CASE AskTransition
  BY <1>0, <1>2, <1>6 DEF AskTransition, PeerStates
<1>7. CASE PeerTick
  BY <1>0, <1>7 DEF PeerTick, PeerInv, KickInv, WellKept, IsPath, EndsAt, Peers
<1>8. CASE UNCHANGED peerVars
  BY <1>0, <1>8 DEF peerVars, PeerInv, KickInv, WellKept, IsPath, EndsAt
<1> QED BY <1>1, <1>3, <1>4, <1>5, <1>6, <1>7, <1>8 DEF PeerNext

LEMMA PeerTypes == PeerInv => PeerTypeOK
<1> SUFFICES ASSUME PeerInv PROVE PeerTypeOK
  OBVIOUS
<1>1. peer.history \in Seq(Steps) /\ DOMAIN peer.history = 1 .. Len(peer.history)
  BY DEF PeerInv, Peers
<1>2. peer.history = <<>> <=> Len(peer.history) = 0
  BY <1>1, EmptySeq
<1> QED BY <1>1, <1>2 DEF PeerInv, PeerTypeOK, Peers, WellKept, IsPath, EndsAt

\* For every order of calls, a kicked peer has been silent since the kick that was
\* accepted and is overdue exactly after that kick's delay, if no kick was
\* refused since.
THEOREM OverdueUnlessRekicked == Spec => []OverdueFollowsKick
<1>1. Init => PeerInv
  BY PeerInitial DEF Init
<1>2. PeerInv /\ [Next]_serviceVars => PeerInv'
  BY StepsProject, PeerStep
<1>3. PeerInv => OverdueFollowsKick
  <2> SUFFICES ASSUME PeerInv, peer.state = "Kicked"
               PROVE  LET h == peer.history IN
                      /\ h # <<>> /\ h[Len(h)].to = "Kicked" /\ h[Len(h)].ts = kick.at
                      /\ ~kick.refused =>
                           (IsOverdue(peer, peerNow) <=> peerNow > kick.at + kick.delay)
    BY DEF OverdueFollowsKick
  <2>1. peer.history \in Seq(Steps) /\ Len(<<>>) = 0
    BY DEF PeerInv, Peers
  <2>2. Len(peer.history) # 0 /\ peer.last = kick.at
    BY DEF PeerInv, WellKept, EndsAt, KickInv
  <2>3. ASSUME ~kick.refused
        PROVE  IsOverdue(peer, peerNow) <=> peerNow > kick.at + kick.delay
    <3>1. peer.deadline = kick.at + kick.delay /\ peer.deadline # NoDeadline
      BY <2>3 DEF PeerInv, KickInv, NoDeadline
    <3> QED BY <3>1 DEF IsOverdue
  <2> QED BY <2>1, <2>2, <2>3 DEF PeerInv, WellKept, EndsAt
<1> QED BY <1>1, <1>2, <1>3, PTL DEF Spec

-----------------------------------------------------------------------------
(* The agent registry *)

\* A value that has the five fields of an entry.
IsEntry(e) ==
  e = [pid |-> e.pid, state |-> e.state, vantage |-> e.vantage, class |-> e.class,
       heartbeat |-> e.heartbeat]

Vantages == {k.vantage : k \in Kinds}
Live == {i \in DOMAIN entries : entries[i].vantage \in Vantages /\ entries[i].state # "Retired"}
OfClass(c) == {i \in DOMAIN entries : entries[i].class = c}
Lanes == {"virtual", "routed", "gated", "freeCalls", "osSpawns", "held"}

EntriesInv ==
  /\ \E Es : entries \in Seq(Es)
  /\ Len(entries) <= MaxEntries
  /\ \A i \in 1 .. Len(entries) :
       /\ IsEntry(entries[i]) /\ entries[i].state \in {"Spawned", "Retired"}
       /\ entries[i].class \in Classes

CountersInv ==
  /\ counters \in [Lanes -> Nat]
  /\ \A c \in Classes : counters[LaneOf(c)] = Cardinality(OfClass(c))

RepeatsInv ==
  \A i, j \in 1 .. Len(entries) :
    i < j /\ entries[i].pid = entries[j].pid
      => entries[j].state = "Spawned" /\ entries[j].heartbeat = 0

RegistryInv ==
  EntriesInv /\ CountersInv /\ RepeatsInv /\ Cardinality(Live) <= RegistryMax

\* The entries of a class, and the live ones, are finitely many.
LEMMA EntriesFinite ==
  ASSUME EntriesInv
  PROVE  /\ DOMAIN entries = 1 .. Len(entries) /\ Len(entries) \in Nat
         /\ IsFiniteSet(Live) /\ \A c : IsFiniteSet(OfClass(c))
<1>1. DOMAIN entries = 1 .. Len(entries) /\ Len(entries) \in Nat
  BY DEF EntriesInv
<1>2. IsFiniteSet(1 .. Len(entries))
  BY <1>1, FS_Interval
<1>3. Live \in SUBSET (1 .. Len(entries)) /\ \A c : OfClass(c) \in SUBSET (1 .. Len(entries))
  BY <1>1 DEF Live, OfClass
<1> QED BY <1>1, <1>2, <1>3, FS_Subset

\* A pid that some entry carries finds the first one that does.
LEMMA FirstIsFirst ==
  ASSUME EntriesInv, NEW i \in 1 .. Len(entries)
  PROVE  LET e == FirstWith(entries[i].pid) IN
         /\ e \in 1 .. Len(entries) /\ entries[e].pid = entries[i].pid
         /\ \A j \in 1 .. e - 1 : entries[j].pid # entries[e].pid
<1> DEFINE pid == entries[i].pid
           T == {j \in 1 .. Len(entries) : entries[j].pid = pid}
<1>1. DOMAIN entries = 1 .. Len(entries) /\ Len(entries) \in Nat
  BY EntriesFinite
<1>2. T \subseteq Nat /\ T # {}
  BY <1>1
<1>3. \E x \in T : \A y \in T : ~(<<y, x>> \in OpToRel(<, Nat))
  <2> HIDE DEF T
  <2> QED BY <1>2, NatLessThanWellFounded, WFMin
<1>4. PICK m \in T : \A y \in T : ~(<<y, m>> \in OpToRel(<, Nat))
  BY <1>3
<1>5. \A y \in T : ~(y < m)
  BY <1>2, <1>4 DEF OpToRel
<1>6. m \in DOMAIN entries /\ entries[m].pid = pid /\ \A j \in 1 .. m - 1 : entries[j].pid # pid
  BY <1>1, <1>5
<1> HIDE DEF pid
<1>7. /\ FirstWith(pid) \in DOMAIN entries /\ entries[FirstWith(pid)].pid = pid
      /\ \A j \in 1 .. FirstWith(pid) - 1 : entries[j].pid # pid
  BY <1>6 DEF FirstWith
<1> QED BY <1>1, <1>7 DEF pid

LEMMA LanesDiffer ==
  /\ \A c \in Classes : LaneOf(c) \in Lanes \ {"routed", "freeCalls", "osSpawns"}
  /\ \A c, d \in Classes : LaneOf(c) = LaneOf(d) => c = d
  BY DEF Classes, LaneOf, Lanes

LEMMA RegistryInitial == RegistryInit => RegistryInv
<1> SUFFICES ASSUME RegistryInit PROVE RegistryInv
  OBVIOUS
<1>1. entries = <<>> /\ Len(<<>>) = 0 /\ <<>> \in Seq({}) /\ DOMAIN <<>> = {}
  BY DEF RegistryInit
<1>2. EntriesInv /\ RepeatsInv
  BY <1>1, RegistryAssumption DEF EntriesInv, RepeatsInv
<1>3. Live = {} /\ \A c : OfClass(c) = {}
  BY <1>1 DEF Live, OfClass
<1>4. counters \in [Lanes -> Nat] /\ \A c \in Classes : counters[LaneOf(c)] = 0
  BY DEF RegistryInit, Lanes, Classes, LaneOf
<1> QED BY <1>2, <1>3, <1>4, FS_EmptySet, RegistryAssumption DEF RegistryInv, CountersInv

\* A registration adds one entry, live if its vantage is, and bumps the counter
\* of its class only.
LEMMA RegisterKeeps ==
  ASSUME RegistryInv, NEW k \in Kinds, NEW class \in Classes, Register(k, class)
  PROVE  RegistryInv'
<1> DEFINE n == Len(entries) + 1
           new == [pid |-> MintAgentPid(n, k), state |-> "Spawned", vantage |-> k.vantage,
                   class |-> class, heartbeat |-> 0]
<1>0. EntriesInv /\ CountersInv /\ RepeatsInv
  BY DEF RegistryInv
<1>1. /\ DOMAIN entries = 1 .. Len(entries) /\ Len(entries) \in Nat
      /\ IsFiniteSet(Live) /\ \A c : IsFiniteSet(OfClass(c))
  BY <1>0, EntriesFinite
<1>2. PICK Es : entries \in Seq(Es)
  BY <1>0 DEF EntriesInv
<1>3. /\ entries' = Append(entries, new) /\ Len(entries) < MaxEntries
      /\ LiveCount < RegistryMax
      /\ counters' = [counters EXCEPT ![LaneOf(class)] = @ + 1]
  BY DEF Register
<1>4. /\ IsEntry(new) /\ new.state = "Spawned" /\ new.class = class /\ new.heartbeat = 0
      /\ new.vantage \in Vantages
  BY DEF IsEntry, Vantages
<1> DEFINE More == Es \cup {new}
<1>5. entries \in Seq(More) /\ new \in More
  BY <1>2
<1> HIDE DEF new, More
<1>6. /\ entries' \in Seq(More) /\ Len(entries') = n
      /\ DOMAIN entries' = 1 .. n /\ entries'[n] = new
      /\ \A i \in 1 .. Len(entries) : entries'[i] = entries[i]
  BY <1>1, <1>3, <1>5
<1>7. EntriesInv'
  <2>1. \A i \in 1 .. Len(entries') :
          /\ IsEntry(entries'[i]) /\ entries'[i].state \in {"Spawned", "Retired"}
          /\ entries'[i].class \in Classes
    BY <1>0, <1>1, <1>4, <1>6 DEF EntriesInv
  <2> QED BY <1>1, <1>3, <1>6, <2>1, RegistryAssumption DEF EntriesInv
<1>8. RepeatsInv'
  BY <1>0, <1>1, <1>4, <1>6 DEF RepeatsInv
<1>9. Live' = Live \cup {n} /\ n \notin Live
  BY <1>1, <1>4, <1>6 DEF Live
<1>10. Cardinality(Live') <= RegistryMax
  <2>1. Cardinality(Live) = LiveCount
    BY DEF LiveCount, LiveIn, Live, Vantages
  <2>2. Cardinality(Live') = Cardinality(Live) + 1 /\ Cardinality(Live) \in Nat
    BY <1>1, <1>9, FS_AddElement, FS_CardinalityType
  <2> QED BY <1>3, <2>1, <2>2, RegistryAssumption
<1>11. OfClass(class)' = OfClass(class) \cup {n} /\ n \notin OfClass(class)
  BY <1>1, <1>4, <1>6 DEF OfClass
<1>12. ASSUME NEW c \in Classes, c # class PROVE OfClass(c)' = OfClass(c)
  BY <1>1, <1>4, <1>6, <1>12 DEF OfClass
<1>13. CountersInv'
  <2>1. counters' \in [Lanes -> Nat]
    BY <1>0, <1>3, LanesDiffer DEF CountersInv
  <2>2. ASSUME NEW c \in Classes PROVE counters'[LaneOf(c)] = Cardinality(OfClass(c)')
    <3>1. CASE c = class
      <4>1. Cardinality(OfClass(class)') = Cardinality(OfClass(class)) + 1
        BY <1>1, <1>11, FS_AddElement
      <4>2. counters'[LaneOf(class)] = counters[LaneOf(class)] + 1
        BY <1>0, <1>3, LanesDiffer DEF CountersInv
      <4> QED BY <3>1, <4>1, <4>2, <1>0 DEF CountersInv
    <3>2. CASE c # class
      <4>1. counters'[LaneOf(c)] = counters[LaneOf(c)]
        BY <1>0, <1>3, <3>2, LanesDiffer DEF CountersInv
      <4> QED BY <3>2, <4>1, <1>0, <1>12 DEF CountersInv
    <3> QED BY <3>1, <3>2
  <2> QED BY <2>1, <2>2 DEF CountersInv
<1> QED BY <1>7, <1>8, <1>10, <1>13 DEF RegistryInv

\* A change of one entry that keeps its pid, class and vantage, and that leaves it
\* alone if its pid repeats an earlier one.
LEMMA TouchKeeps ==
  ASSUME RegistryInv, NEW i \in 1 .. Len(entries), NEW e, e = FirstWith(entries[i].pid),
         NEW new, IsEntry(new), entries' = [entries EXCEPT ![e] = new],
         UNCHANGED counters,
         new.pid = entries[e].pid, new.class = entries[e].class,
         new.vantage = entries[e].vantage,
         new.state \in {entries[e].state, "Retired"}
  PROVE  RegistryInv'
<1>0. EntriesInv /\ CountersInv /\ RepeatsInv
  BY DEF RegistryInv
<1>1. /\ DOMAIN entries = 1 .. Len(entries) /\ Len(entries) \in Nat
      /\ IsFiniteSet(Live) /\ \A c : IsFiniteSet(OfClass(c))
  BY <1>0, EntriesFinite
<1>2. PICK Es : entries \in Seq(Es)
  BY <1>0 DEF EntriesInv
<1>3. /\ e \in 1 .. Len(entries)
      /\ \A j \in 1 .. e - 1 : entries[j].pid # entries[e].pid
  BY <1>0, FirstIsFirst
<1> DEFINE More == Es \cup {new}
<1>5. entries \in Seq(More) /\ new \in More
  BY <1>2
<1> HIDE DEF More
<1>6. /\ entries' \in Seq(More) /\ Len(entries') = Len(entries)
      /\ DOMAIN entries' = 1 .. Len(entries) /\ entries'[e] = new
      /\ \A j \in 1 .. Len(entries) : j # e => entries'[j] = entries[j]
  BY <1>1, <1>3, <1>5
<1>7. EntriesInv'
  <2>1. \A j \in 1 .. Len(entries') :
          /\ IsEntry(entries'[j]) /\ entries'[j].state \in {"Spawned", "Retired"}
          /\ entries'[j].class \in Classes
    BY <1>0, <1>1, <1>3, <1>6 DEF EntriesInv
  <2> QED BY <1>0, <1>6, <2>1 DEF EntriesInv
<1>8. RepeatsInv'
  <2>1. \A j \in 1 .. Len(entries) : entries'[j].pid = entries[j].pid
    BY <1>6
  <2> SUFFICES ASSUME NEW a \in 1 .. Len(entries), NEW b \in 1 .. Len(entries), a < b,
                      entries[a].pid = entries[b].pid
               PROVE  entries'[b].state = "Spawned" /\ entries'[b].heartbeat = 0
    BY <1>6, <2>1 DEF RepeatsInv
  <2>2. b # e
    BY <1>1, <1>3
  <2> QED BY <1>0, <1>6, <2>2 DEF RepeatsInv
<1>9. Live' \in SUBSET Live
  <2>1. \A j \in 1 .. Len(entries) : /\ entries'[j].vantage = entries[j].vantage
                                    /\ entries[j].state = "Retired"
                                         => entries'[j].state = "Retired"
    BY <1>6
  <2> QED BY <1>1, <1>6, <2>1 DEF Live
<1>10. Cardinality(Live') <= RegistryMax
  <2>1. Cardinality(Live') <= Cardinality(Live) /\ IsFiniteSet(Live')
    BY <1>1, <1>9, FS_Subset
  <2> QED BY <1>1, <2>1, FS_CardinalityType, RegistryAssumption DEF RegistryInv
<1>11. \A c : OfClass(c)' = OfClass(c)
  <2>1. \A j \in 1 .. Len(entries) : entries'[j].class = entries[j].class
    BY <1>6
  <2> QED BY <1>1, <1>6, <2>1 DEF OfClass
<1>12. CountersInv'
  BY <1>0, <1>11 DEF CountersInv
<1> QED BY <1>7, <1>8, <1>10, <1>12 DEF RegistryInv

LEMMA RegistryStep == RegistryInv /\ [RegistryNext]_registryVars => RegistryInv'
<1> SUFFICES ASSUME RegistryInv, [RegistryNext]_registryVars PROVE RegistryInv'
  OBVIOUS
<1>0. EntriesInv /\ CountersInv /\ RepeatsInv
  BY DEF RegistryInv
<1>1. DOMAIN entries = 1 .. Len(entries) /\ Len(entries) \in Nat
  BY <1>0, EntriesFinite
<1>2. CASE Spawn
  BY <1>2, RegisterKeeps DEF Spawn, Classes
<1>3. CASE SpawnRealGated
  BY <1>3, RegisterKeeps DEF SpawnRealGated, ClassifyRequest, Classes
<1>4. CASE Note
  <2>1. PICK lane \in {"routed", "freeCalls", "osSpawns"} :
          counters' = [counters EXCEPT ![lane] = @ + 1]
    BY <1>4 DEF Note
  <2>2. counters' \in [Lanes -> Nat] /\ \A c \in Classes : counters'[LaneOf(c)] = counters[LaneOf(c)]
    BY <1>0, <2>1, LanesDiffer DEF CountersInv, Lanes
  <2>3. entries' = entries
    BY <1>4 DEF Note
  <2> QED BY <1>0, <2>2, <2>3
          DEF RegistryInv, EntriesInv, CountersInv, RepeatsInv, Live, OfClass
<1>5. CASE Retire
  <2>1. PICK i \in 1 .. Len(entries) :
          entries' = [entries EXCEPT ![FirstWith(entries[i].pid)].state = "Retired"]
    BY <1>1, <1>5 DEF Retire
  <2> DEFINE e == FirstWith(entries[i].pid)
             new == [entries[e] EXCEPT !.state = "Retired"]
  <2>2. e \in 1 .. Len(entries)
    BY <1>0, FirstIsFirst
  <2> HIDE DEF e
  <2>3. IsEntry(entries[e])
    BY <1>0, <2>2 DEF EntriesInv
  <2>4. /\ IsEntry(new) /\ new.pid = entries[e].pid /\ new.class = entries[e].class
        /\ new.vantage = entries[e].vantage /\ new.state = "Retired"
    BY <2>3 DEF IsEntry
  <2>5. entries' = [entries EXCEPT ![e] = new]
    BY <2>1 DEF e
  <2>6. counters' = counters
    BY <1>5 DEF Retire
  <2> HIDE DEF new
  <2> QED BY <2>4, <2>5, <2>6, TouchKeeps DEF e
<1>6. CASE Heartbeat
  <2>1. PICK i \in 1 .. Len(entries), now \in Stamps :
          entries' = [entries EXCEPT ![FirstWith(entries[i].pid)].heartbeat = now]
    BY <1>1, <1>6 DEF Heartbeat
  <2> DEFINE e == FirstWith(entries[i].pid)
             new == [entries[e] EXCEPT !.heartbeat = now]
  <2>2. e \in 1 .. Len(entries)
    BY <1>0, FirstIsFirst
  <2> HIDE DEF e
  <2>3. IsEntry(entries[e])
    BY <1>0, <2>2 DEF EntriesInv
  <2>4. /\ IsEntry(new) /\ new.pid = entries[e].pid /\ new.class = entries[e].class
        /\ new.vantage = entries[e].vantage /\ new.state = entries[e].state
    BY <2>3 DEF IsEntry
  <2>5. entries' = [entries EXCEPT ![e] = new]
    BY <2>1 DEF e
  <2>6. counters' = counters
    BY <1>6 DEF Heartbeat
  <2> HIDE DEF new
  <2> QED BY <2>4, <2>5, <2>6, TouchKeeps DEF e
<1>7. CASE UNCHANGED registryVars
  BY <1>7 DEF registryVars, RegistryInv, EntriesInv, CountersInv, RepeatsInv, Live, OfClass
<1> QED BY <1>2, <1>3, <1>4, <1>5, <1>6, <1>7 DEF RegistryNext

\* However often agents are registered and retired, under any hash: never more
\* live ones than AGENT_REGISTRY_MAX, one count per registration on the counter
\* of its class, and nothing done to an entry whose pid repeats an earlier one.
THEOREM BooksBalance == Spec => []RegistryBalances
<1>1. Init => RegistryInv
  BY RegistryInitial DEF Init
<1>2. RegistryInv /\ [Next]_serviceVars => RegistryInv'
  BY StepsProject, RegistryStep
<1>3. RegistryInv => RegistryBalances
  <2> SUFFICES ASSUME RegistryInv PROVE RegistryBalances
    OBVIOUS
  <2>1. DOMAIN entries = 1 .. Len(entries)
    BY EntriesFinite DEF RegistryInv
  <2>2. LiveCount <= RegistryMax
    BY DEF RegistryInv, LiveCount, LiveIn, Live, Vantages
  <2>3. ASSUME NEW c \in Classes
        PROVE  LET lane == CASE c = "VirtualPointer" -> "virtual" [] c = "Ambiguous" -> "held"
                             [] OTHER -> "gated"
               IN  counters[lane] = Cardinality({i \in DOMAIN entries : entries[i].class = c})
    <3>1. counters[LaneOf(c)] = Cardinality({i \in DOMAIN entries : entries[i].class = c})
      BY DEF RegistryInv, CountersInv, OfClass
    <3>2. LaneOf(c) = CASE c = "VirtualPointer" -> "virtual" [] c = "Ambiguous" -> "held"
                        [] OTHER -> "gated"
      BY DEF LaneOf, Classes
    <3> QED BY <3>1, <3>2, Zenon
  <2> QED BY <2>1, <2>2, <2>3 DEF RegistryInv, RepeatsInv, RegistryBalances
<1> QED BY <1>1, <1>2, <1>3, PTL DEF Spec

\* What the registry never takes back.
BooksOnlyGrow ==
  /\ Len(entries) <= Len(entries')
  /\ \A i \in 1 .. Len(entries) :
       /\ entries'[i].pid = entries[i].pid /\ entries'[i].class = entries[i].class
       /\ entries'[i].vantage = entries[i].vantage
       /\ entries[i].state = "Retired" => entries'[i] = entries[i]
  /\ \A lane \in Lanes : counters[lane] <= counters'[lane]

\* One entry is replaced by one that differs in what Retire or Heartbeat set.
LEMMA TouchGrows ==
  ASSUME RegistryInv, NEW e \in 1 .. Len(entries), NEW new,
         entries' = [entries EXCEPT ![e] = new], UNCHANGED counters,
         new.pid = entries[e].pid, new.class = entries[e].class,
         new.vantage = entries[e].vantage,
         entries[e].state = "Retired" => new = entries[e]
  PROVE  BooksOnlyGrow
<1>0. EntriesInv /\ CountersInv
  BY DEF RegistryInv
<1>1. DOMAIN entries = 1 .. Len(entries) /\ Len(entries) \in Nat
  BY <1>0, EntriesFinite
<1>2. PICK Es : entries \in Seq(Es)
  BY <1>0 DEF EntriesInv
<1> DEFINE More == Es \cup {new}
<1>3. entries \in Seq(More) /\ new \in More
  BY <1>2
<1> HIDE DEF More
<1>4. /\ Len(entries') = Len(entries) /\ entries'[e] = new
      /\ \A j \in 1 .. Len(entries) : j # e => entries'[j] = entries[j]
  BY <1>1, <1>3
<1>5. \A lane \in Lanes : counters[lane] <= counters'[lane]
  BY <1>0 DEF CountersInv
<1> QED BY <1>1, <1>4, <1>5 DEF BooksOnlyGrow

LEMMA RegisterGrows ==
  ASSUME RegistryInv, NEW k \in Kinds, NEW class \in Classes, Register(k, class)
  PROVE  BooksOnlyGrow
<1> DEFINE new == [pid |-> MintAgentPid(Len(entries) + 1, k), state |-> "Spawned",
                   vantage |-> k.vantage, class |-> class, heartbeat |-> 0]
<1>0. EntriesInv /\ CountersInv
  BY DEF RegistryInv
<1>1. PICK Es : entries \in Seq(Es)
  BY <1>0 DEF EntriesInv
<1>2. entries' = Append(entries, new) /\ counters' = [counters EXCEPT ![LaneOf(class)] = @ + 1]
  BY DEF Register
<1> HIDE DEF new
<1>3. \A i \in 1 .. Len(entries) : entries'[i] = entries[i]
  BY <1>1, <1>2
<1>4. Len(entries) <= Len(entries')
  BY <1>1, <1>2
<1>5. \A lane \in Lanes : counters[lane] <= counters'[lane]
  BY <1>0, <1>2, LanesDiffer DEF CountersInv
<1> QED BY <1>3, <1>4, <1>5 DEF BooksOnlyGrow

\* Retirement is final and the books are append-only: no call of the registry
\* revives a retired agent, lets it beat again, renames or reclassifies an entry,
\* or takes a count back, also where two entries share a pid (register, retire,
\* heartbeat, note_omnidispatch_routed and its siblings).
THEOREM RetirementIsFinal == Spec => [][BooksOnlyGrow]_registryVars
<1>1. Init => RegistryInv
  BY RegistryInitial DEF Init
<1>2. RegistryInv /\ [Next]_serviceVars => RegistryInv'
  BY StepsProject, RegistryStep
<1>3. RegistryInv /\ [Next]_serviceVars => [BooksOnlyGrow]_registryVars
  <2> SUFFICES ASSUME RegistryInv, RegistryNext PROVE BooksOnlyGrow
    BY StepsProject
  <2>0. EntriesInv /\ CountersInv
    BY DEF RegistryInv
  <2>1. DOMAIN entries = 1 .. Len(entries) /\ Len(entries) \in Nat
    BY <2>0, EntriesFinite
  <2>2. CASE Spawn
    BY <2>2, RegisterGrows DEF Spawn, Classes
  <2>3. CASE SpawnRealGated
    BY <2>3, RegisterGrows DEF SpawnRealGated, ClassifyRequest, Classes
  <2>4. CASE Note
    <3>1. \A lane \in Lanes : counters[lane] <= counters'[lane]
      BY <2>0, <2>4 DEF Note, CountersInv, Lanes
    <3> QED BY <2>1, <2>4, <3>1 DEF Note, BooksOnlyGrow
  <2>5. CASE Retire
    <3>1. PICK i \in 1 .. Len(entries) :
            entries' = [entries EXCEPT ![FirstWith(entries[i].pid)].state = "Retired"]
      BY <2>1, <2>5 DEF Retire
    <3> DEFINE e == FirstWith(entries[i].pid)
               new == [entries[e] EXCEPT !.state = "Retired"]
    <3>2. e \in 1 .. Len(entries)
      BY <2>0, FirstIsFirst
    <3> HIDE DEF e
    <3>3. IsEntry(entries[e])
      BY <2>0, <3>2 DEF EntriesInv
    <3>4. /\ new.pid = entries[e].pid /\ new.class = entries[e].class
          /\ new.vantage = entries[e].vantage
          /\ entries[e].state = "Retired" => new = entries[e]
      BY <3>3 DEF IsEntry
    <3>5. entries' = [entries EXCEPT ![e] = new]
      BY <3>1 DEF e
    <3>6. counters' = counters
      BY <2>5 DEF Retire
    <3> HIDE DEF new
    <3> QED BY <3>2, <3>4, <3>5, <3>6, TouchGrows
  <2>6. CASE Heartbeat
    <3>1. PICK i \in 1 .. Len(entries), now \in Stamps :
            /\ entries[FirstWith(entries[i].pid)].state # "Retired"
            /\ entries' = [entries EXCEPT ![FirstWith(entries[i].pid)].heartbeat = now]
      BY <2>1, <2>6 DEF Heartbeat
    <3> DEFINE e == FirstWith(entries[i].pid)
               new == [entries[e] EXCEPT !.heartbeat = now]
    <3>2. e \in 1 .. Len(entries)
      BY <2>0, FirstIsFirst
    <3>3. entries[e].state # "Retired" /\ entries' = [entries EXCEPT ![e] = new]
      BY <3>1
    <3> HIDE DEF e
    <3>4. IsEntry(entries[e])
      BY <2>0, <3>2 DEF EntriesInv
    <3>5. /\ new.pid = entries[e].pid /\ new.class = entries[e].class
          /\ new.vantage = entries[e].vantage
      BY <3>4 DEF IsEntry
    <3>6. counters' = counters
      BY <2>6 DEF Heartbeat
    <3> HIDE DEF new
    <3> QED BY <3>2, <3>3, <3>5, <3>6, TouchGrows
  <2> QED BY <2>2, <2>3, <2>4, <2>5, <2>6 DEF RegistryNext
<1> QED BY <1>1, <1>2, <1>3, PTL DEF Spec
=============================================================================
