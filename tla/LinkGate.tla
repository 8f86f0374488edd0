------------------------------ MODULE LinkGate ------------------------------
(***************************************************************************)
(* A cross-host query: a peer signs a request (link_auth), a carrier may   *)
(* change, delay or repeat it, the host verifies it against its clock, its *)
(* consent list and the shared key, and serves the rows of the level the   *)
(* owner was granted (level_tag, effective_level).  A MAC is the pair of   *)
(* key and signed text.                                                    *)
(***************************************************************************)
EXTENDS Integers, Sequences, FiniteSets, FiniteSetsExt

CONSTANTS
  LinkKeys, SharedKey,     \* keys peers may hold, and the one this host shares
  Owners, Hosts, Verbs, Nonces,   \* texts: sequences of tokens, <<>> among them
  Grants,                  \* sequence of [owner, max]: this host's LinkGrants
  MaxSkew, MaxLinkTime,    \* freshness window, bound on the clock
  MaxRequests,             \* bound on the requests signed
  Corpus,                  \* rows: [path: fragments, content: fragments, digits: run length]
  Levels,                  \* levels a request asks for
  PiiPaths, PiiContents, CanonPaths   \* the fragment lists of level_tag

\* Levels are u8.
ASSUME LinkAssumption ==
  /\ SharedKey \in LinkKeys /\ MaxSkew \in Nat /\ MaxLinkTime \in Nat \ {0}
  /\ Owners \subseteq Seq(STRING) /\ Hosts \subseteq Seq(STRING)
  /\ Verbs \subseteq Seq(STRING) /\ Nonces \subseteq Seq(STRING)
  /\ Grants \in Seq([owner : Owners, max : 0 .. 255]) /\ Levels \subseteq 0 .. 255

VARIABLES
  linkNow,    \* the host clock
  linkReq,    \* the request as it reaches the host
  linkMade,   \* [key, text, ts] of every request signed (history variable)
  served      \* the last answer: [verdict, owner, level, rows, at]

linkVars == <<linkNow, linkReq, linkMade, served>>

NoRequest == [owner |-> <<>>, host |-> <<>>, verb |-> <<>>, nonce |-> <<>>, ts |-> 0,
              mac |-> <<>>]
NoAnswer == [verdict |-> "none", owner |-> <<>>, text |-> <<>>, rows |-> {}, at |-> 0]

LinkInit == linkNow = 1 /\ linkReq = NoRequest /\ linkMade = {} /\ served = NoAnswer

\* The canonical parts, in order.
LinkText(r) ==
  <<"LINK|">> \o r.owner \o <<"|">> \o r.host \o <<"|">> \o r.verb \o <<"|">> \o r.nonce
    \o <<"|", r.ts>>

\* hmac_sha256_parts: key and concatenated parts
HmacParts(key, text) == <<key, text>>

\* hmac_hex_matches; a string that is not 64 characters is the empty one
HmacMatches(mac, expected) == mac = expected

Abs(n) == IF n >= 0 THEN n ELSE -n

\* verify_link: shape, freshness, consent, then the key.
VerifyLink(r, now) ==
  IF <<>> \in {r.owner, r.host, r.verb, r.nonce, r.mac} THEN "DenyMalformed"
  ELSE IF Abs(now - r.ts) > MaxSkew THEN "DenyStale"
  ELSE IF ~\E i \in DOMAIN Grants : Grants[i].owner = r.owner THEN "DenyOwnerNotGranted"
  ELSE IF HmacMatches(HmacParts(SharedKey, LinkText(r)), r.mac) THEN "Allow"
  ELSE "DenyBadHmac"

\* granted_level: the highest of the owner's grants, -1 without one
GrantedLevel(owner) ==
  Max({-1} \cup {Grants[i].max : i \in {j \in DOMAIN Grants : Grants[j].owner = owner}})

\* effective_level
EffectiveLevel(owner, requested) ==
  IF requested < GrantedLevel(owner) THEN requested ELSE GrantedLevel(owner)

\* is_pii
IsPii(row) ==
  row.path \cap PiiPaths # {} \/ row.digits >= 14 \/ row.content \cap PiiContents # {}

\* is_public_canon
IsPublicCanon(row) == row.path \cap CanonPaths # {}

\* Mutant: a row of the public canon is public before its content is looked at.
AssignLevelCanonFirst(row) ==
  IF IsPublicCanon(row) THEN 0 ELSE IF IsPii(row) THEN 9 ELSE 5

\* assign_level
AssignLevel(row) == IF IsPii(row) THEN 9 ELSE IF IsPublicCanon(row) THEN 0 ELSE 5

-----------------------------------------------------------------------------
\* A peer signs a request with a key it holds and its own clock.
MakeRequest ==
  /\ Cardinality(linkMade) < MaxRequests
  /\ \E k \in LinkKeys, o \in Owners, h \in Hosts, v \in Verbs, n \in Nonces, skew \in {-1, 0, 1} :
       LET r == [owner |-> o, host |-> h, verb |-> v, nonce |-> n, ts |-> linkNow + skew,
                 mac |-> <<>>]
       IN  /\ linkReq' = [r EXCEPT !.mac = HmacParts(k, LinkText(r))]
           /\ linkMade' = linkMade \cup {[key |-> k, text |-> LinkText(r), ts |-> r.ts]}
  /\ UNCHANGED <<linkNow, served>>

\* The carrier changes a field, dates the request anew, or cuts the MAC.
CarrierChanges ==
  /\ \/ \E o \in Owners : linkReq' = [linkReq EXCEPT !.owner = o]
     \/ \E h \in Hosts : linkReq' = [linkReq EXCEPT !.host = h]
     \/ \E v \in Verbs : linkReq' = [linkReq EXCEPT !.verb = v]
     \/ \E n \in Nonces : linkReq' = [linkReq EXCEPT !.nonce = n]
     \/ linkReq' = [linkReq EXCEPT !.ts = linkNow]
     \/ linkReq' = [linkReq EXCEPT !.mac = <<>>]
  /\ UNCHANGED <<linkNow, linkMade, served>>

LinkTick ==
  /\ linkNow < MaxLinkTime
  /\ linkNow' = linkNow + 1
  /\ UNCHANGED <<linkReq, linkMade, served>>

\* The host answers; the request may come again.
ServeLink ==
  /\ \E level \in Levels :
       LET verdict == VerifyLink(linkReq, linkNow)
           shown == {row \in Corpus : AssignLevel(row) <= EffectiveLevel(linkReq.owner, level)}
       IN  served' = IF verdict # "Allow" THEN [NoAnswer EXCEPT !.verdict = verdict]
                     ELSE [verdict |-> verdict, owner |-> linkReq.owner,
                           text |-> LinkText(linkReq), at |-> linkNow, rows |-> shown]
  /\ UNCHANGED <<linkNow, linkReq, linkMade>>

LinkNext == MakeRequest \/ CarrierChanges \/ LinkTick \/ ServeLink

-----------------------------------------------------------------------------
LinkTypeOK ==
  /\ linkNow \in 0 .. MaxLinkTime
  /\ served.rows \subseteq Corpus
  /\ served.verdict \in {"none", "Allow", "DenyMalformed", "DenyStale", "DenyOwnerNotGranted",
                         "DenyBadHmac"}

\* Rows leave the host only for a request whose whole text a holder of the
\* shared key signed, at most MaxSkew away from the clock, and only up to the
\* owner's best grant: a private row needs the top level even under a public
\* path, and a row nobody cleared is not public.  Repeating the request within
\* the window is not told apart from sending it (verify_link, effective_level,
\* assign_level).
LinkServesOnlyGranted ==
  served.rows # {} =>
    /\ \E m \in linkMade : m.key = SharedKey /\ m.text = served.text
                             /\ Abs(served.at - m.ts) <= MaxSkew
    /\ \A row \in served.rows :
         \E i \in DOMAIN Grants :
           /\ Grants[i].owner = served.owner
           /\ Grants[i].max >= (IF IsPii(row) THEN 9 ELSE IF IsPublicCanon(row) THEN 0 ELSE 5)
=============================================================================
