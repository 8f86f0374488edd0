-------------------------- MODULE EnvelopeMailbox --------------------------
(***************************************************************************)
(* What the kernel dispatch queue promises its callers: a one-place        *)
(* mailbox.  An envelope goes in whole, once, when the box is empty, and   *)
(* comes out whole, once, to exactly one reader.  Failed calls leave the   *)
(* box alone (they are stuttering steps here).  EnvelopeSlot, the          *)
(* store-by-store model of the code, is shown to implement this.           *)
(***************************************************************************)
EXTENDS Naturals

CONSTANTS
  Envelopes,   \* the envelopes that callers may send
  NoEnv        \* the empty box

VARIABLES
  box,         \* the envelope in the mailbox, or NoEnv
  published,   \* the envelopes whose send has succeeded
  delivered    \* delivered[e]: how many receives have returned e

mailboxVars == <<box, published, delivered>>

Init ==
  /\ box = NoEnv
  /\ published = {}
  /\ delivered = [e \in Envelopes |-> 0]

Put(e) ==
  /\ box = NoEnv
  /\ e \notin published
  /\ box' = e
  /\ published' = published \cup {e}
  /\ UNCHANGED delivered

Take ==
  /\ box # NoEnv
  /\ delivered[box] = 0
  /\ delivered' = [delivered EXCEPT ![box] = 1]
  /\ box' = NoEnv
  /\ UNCHANGED published

Next == Take \/ \E e \in Envelopes : Put(e)

Spec == Init /\ [][Next]_mailboxVars

============================================================================
