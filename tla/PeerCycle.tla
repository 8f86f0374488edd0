------------------------------ MODULE PeerCycle ------------------------------
(***************************************************************************)
(* The cycle orchestrator's peer state machine (PeerStateMachine in        *)
(* src/kernel/core/src/cycle_orch/mod.rs) under any sequence of calls.     *)
(***************************************************************************)
EXTENDS Integers, Sequences

CONSTANTS
  HistoryCap,   \* transitions the history keeps (256 in the code)
  KickDelays,   \* values of deadline_ns_from_now
  MaxTime,      \* bound on the clock the callers read
  MaxStrikes    \* bound on drift calls

PeerStates == {"Dark", "Probing", "Alive", "Kicked", "Responding", "Drift", "Halt"}
NoDeadline == -1

ASSUME PeerAssumption ==
  HistoryCap \in Nat \ {0} /\ KickDelays \subseteq Nat /\ MaxTime \in Nat /\ MaxStrikes \in Nat

VARIABLES
  peer,      \* PeerStateMachine: [state, history, last, deadline, strikes]
  peerNow,   \* now_ns as the caller passes it
  kick       \* the last kick that was accepted, and whether an on_kick call was
             \* refused since (history variable)

peerVars == <<peer, peerNow, kick>>

LegalTransitions(from) ==
  CASE from = "Dark" -> {"Probing"}
    [] from = "Probing" -> {"Alive", "Dark"}
    [] from = "Alive" -> {"Kicked", "Dark", "Probing"}
    [] from = "Kicked" -> {"Responding", "Drift", "Halt", "Dark"}
    [] from = "Responding" -> {"Alive", "Kicked", "Drift", "Halt"}
    [] from = "Drift" -> {"Alive", "Halt", "Dark"}
    [] from = "Halt" -> {"Dark"}

PeerInit ==
  /\ peer = [state |-> "Dark", history |-> <<>>, last |-> 0, deadline |-> NoDeadline,
             strikes |-> 0]
  /\ peerNow = 0
  /\ kick = [at |-> 0, delay |-> 0, refused |-> FALSE]

\* A kick is accepted if the transition is legal.
KickCalled(d) ==
  kick' = IF "Kicked" \in LegalTransitions(peer.state)
          THEN [at |-> peerNow, delay |-> d, refused |-> FALSE]
          ELSE [kick EXCEPT !.refused = TRUE]

\* Mutant: the record is kept before the transition is checked.
TransitionLogged(p, next, now) ==
  LET longer == Append(p.history, [ts |-> now, from |-> p.state, to |-> next])
      kept == IF Len(longer) > HistoryCap THEN Tail(longer) ELSE longer
  IN  IF next \notin LegalTransitions(p.state) THEN [p EXCEPT !.history = kept]
      ELSE [p EXCEPT !.state = next, !.last = now, !.history = kept]

\* transition: an illegal one leaves everything; a legal one is recorded, and
\* the oldest record goes when there are more than the cap.
Transition(p, next, now) ==
  LET longer == Append(p.history, [ts |-> now, from |-> p.state, to |-> next])
  IN  IF next \notin LegalTransitions(p.state) THEN p
      ELSE [p EXCEPT !.state = next, !.last = now,
                     !.history = IF Len(longer) > HistoryCap THEN Tail(longer) ELSE longer]

\* Mutant: the delay is taken for a point in time.
OnKickAbsolute(d) ==
  /\ peer' = Transition([peer EXCEPT !.deadline = d], "Kicked", peerNow)
  /\ KickCalled(d)
  /\ UNCHANGED peerNow

\* on_kick sets the deadline before it asks for the transition, so a kick that is
\* refused moves the deadline of one that is out, either way.
OnKick(d) ==
  /\ peer' = Transition([peer EXCEPT !.deadline = peerNow + d], "Kicked", peerNow)
  /\ KickCalled(d)
  /\ UNCHANGED peerNow

\* on_reply clears the strikes, on_drift adds one, whether legal or not.  A reply
\* after the deadline is taken like one before it.
OnReply ==
  /\ peer' = Transition([peer EXCEPT !.strikes = 0], "Responding", peerNow)
  /\ UNCHANGED <<peerNow, kick>>

OnDrift ==
  /\ peer.strikes < MaxStrikes
  /\ peer' = Transition([peer EXCEPT !.strikes = @ + 1], "Drift", peerNow)
  /\ UNCHANGED <<peerNow, kick>>

OnHalt ==
  /\ peer' = Transition(peer, "Halt", peerNow)
  /\ UNCHANGED <<peerNow, kick>>

\* The other transitions are asked for directly.
AskTransition ==
  /\ \E next \in {"Dark", "Probing", "Alive"} : peer' = Transition(peer, next, peerNow)
  /\ UNCHANGED <<peerNow, kick>>

PeerTick ==
  /\ peerNow < MaxTime
  /\ peerNow' = peerNow + 1
  /\ UNCHANGED <<peer, kick>>

IsOverdue(p, now) == p.state = "Kicked" /\ p.deadline # NoDeadline /\ now > p.deadline

PeerNext ==
  \/ \E d \in KickDelays : OnKick(d)
  \/ OnReply \/ OnDrift \/ OnHalt \/ AskTransition \/ PeerTick

-----------------------------------------------------------------------------
\* The peer's record is well formed and its history is its path: the records
\* follow one another through legal transitions, in time, up to the state the
\* peer is in, also after old records were dropped (transition).
PeerTypeOK ==
  /\ peer.state \in PeerStates
  /\ peer.deadline \in Nat \cup {NoDeadline}
  /\ peer.strikes \in 0 .. MaxStrikes
  /\ peer.last \in 0 .. peerNow
  /\ LET h == peer.history IN
     /\ Len(h) <= HistoryCap
     /\ h = <<>> => peer.state = "Dark"
     /\ h # <<>> => h[Len(h)].to = peer.state /\ h[Len(h)].ts = peer.last
     /\ \A i \in DOMAIN h : h[i].to \in LegalTransitions(h[i].from)
     /\ \A i \in 1 .. Len(h) - 1 : h[i].to = h[i + 1].from /\ h[i].ts <= h[i + 1].ts

\* A kicked peer has been silent since the kick that was accepted, and is overdue
\* exactly when the whole delay of that kick has passed, whatever handlers ran
\* before or were refused since -- unless a second kick was: on_kick stores the
\* deadline before the transition is checked, so a refused kick with another
\* delay makes the peer overdue earlier or later than the kick it answers to
\* (on_kick, transition, is_overdue).
OverdueFollowsKick ==
  peer.state = "Kicked" =>
    LET h == peer.history IN
    /\ h # <<>> /\ h[Len(h)].to = "Kicked" /\ h[Len(h)].ts = kick.at
    /\ ~kick.refused => (IsOverdue(peer, peerNow) <=> peerNow > kick.at + kick.delay)
=============================================================================
