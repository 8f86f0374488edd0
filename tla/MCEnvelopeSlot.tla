--------------------------- MODULE MCEnvelopeSlot ---------------------------
(***************************************************************************)
(* EnvelopeSlot on a small instance: a slot of two bytes, an envelope that *)
(* fits any buffer, ones that fit only the larger buffer, and one that     *)
(* fits no slot.                                                           *)
(***************************************************************************)
EXTENDS EnvelopeSlot, TLC

CONSTANTS short, long, long2, huge

MCEnvLen == (short :> 1) @@ (long :> 2) @@ (long2 :> 2) @@ (huge :> 3)
MCEnvLenLive == (short :> 1) @@ (long :> 2)

Symmetry == Permutations(Producers) \cup Permutations(Consumers)
=============================================================================
