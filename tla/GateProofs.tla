----------------------------- MODULE GateProofs -----------------------------
(***************************************************************************)
(* Proofs about the deciding services of KernelServices: the cross-host    *)
(* link, the admission gates and the addressing functions, for any keys,   *)
(* texts, grants, corpus, limits and candidates.                           *)
(***************************************************************************)
EXTENDS KernelServices, SequenceTheorems, WellFoundedInduction, TLAPS

-----------------------------------------------------------------------------
\* A step of the composition is, for each service, a step of it or none.
LEMMA DecisionsProject ==
  ASSUME [Next]_serviceVars
  PROVE  /\ [SignNext \/ PolicyNext \/ TransitNext \/ NoveltyNext]_gateVars
         /\ [LinkNext]_linkVars
         /\ [RouteNext]_routed
  BY DEF Next, serviceVars, PeerService, RegistryService, ChainService, GateService,
         LinkService, RouteService, BootService, gateVars, linkVars

-----------------------------------------------------------------------------
(* The link *)

\* What is known of a request on its way: its fields are texts, and its MAC is
\* either cut or one that a key holder computed over the text it signed.
RequestInv ==
  /\ linkReq = [owner |-> linkReq.owner, host |-> linkReq.host, verb |-> linkReq.verb,
                nonce |-> linkReq.nonce, ts |-> linkReq.ts, mac |-> linkReq.mac]
  /\ linkReq.owner \in Seq(STRING) /\ linkReq.host \in Seq(STRING)
  /\ linkReq.verb \in Seq(STRING) /\ linkReq.nonce \in Seq(STRING) /\ linkReq.ts \in Int
  /\ \/ linkReq.mac = <<>>
     \/ \E m \in linkMade : linkReq.mac = HmacParts(m.key, m.text)

\* A signed text ends in the time it was signed at.
MadeInv == \A m \in linkMade : m.text[Len(m.text)] = m.ts

LinkInv ==
  /\ linkNow \in 0 .. MaxLinkTime
  /\ RequestInv /\ MadeInv /\ LinkServesOnlyGranted
  /\ LinkTypeOK

\* The time is the last token of a request's text.
LEMMA TextEndsInTime ==
  ASSUME NEW r, r.owner \in Seq(STRING), r.host \in Seq(STRING), r.verb \in Seq(STRING),
         r.nonce \in Seq(STRING), r.ts \in Int
  PROVE  LinkText(r)[Len(LinkText(r))] = r.ts
<1> DEFINE T == STRING \cup Int \cup {"LINK|", "|"}
           a == <<"LINK|">> \o r.owner \o <<"|">> \o r.host \o <<"|">> \o r.verb \o <<"|">> \o r.nonce
           z == <<"|", r.ts>>
<1>a. STRING \subseteq T /\ Int \subseteq T
  OBVIOUS
<1>1. /\ <<"LINK|">> \in Seq(T) /\ <<"|">> \in Seq(T) /\ r.owner \in Seq(T)
      /\ r.host \in Seq(T) /\ r.verb \in Seq(T) /\ r.nonce \in Seq(T) /\ z \in Seq(T)
  <2>1. "LINK|" \in T /\ "|" \in T /\ r.ts \in T
    BY <1>a
  <2> HIDE DEF T
  <2>2. <<"LINK|">> \in Seq(T) /\ <<"|">> \in Seq(T) /\ z \in Seq(T)
    BY <2>1
  <2>3. \A u \in Seq(STRING) : u \in Seq(T)
    BY <1>a, SeqMonotonic
  <2> QED BY <2>2, <2>3
<1> HIDE DEF T
<1>2. a \in Seq(T)
  BY <1>1
<1>3. LinkText(r) = a \o z
  BY DEF LinkText
<1>4. Len(z) = 2 /\ z[2] = r.ts
  OBVIOUS
<1> HIDE DEF a, z
<1>5. Len(a \o z) = Len(a) + 2 /\ Len(a) \in Nat /\ (a \o z)[Len(a) + 2] = z[2]
  <2>1. /\ Len(a \o z) = Len(a) + Len(z)
        /\ \A i \in 1 .. Len(a) + Len(z) :
             (a \o z)[i] = IF i <= Len(a) THEN a[i] ELSE z[i - Len(a)]
    BY <1>1, <1>2, ConcatProperties
  <2>2. Len(a) \in Nat
    BY <1>2
  <2> QED BY <1>4, <2>1, <2>2
<1> QED BY <1>3, <1>4, <1>5

\* The best of an owner's grants is one of them, or -1.
LEMMA GrantedIsAGrant ==
  ASSUME NEW owner
  PROVE  /\ GrantedLevel(owner) \in Int
         /\ GrantedLevel(owner) # -1 =>
              \E i \in DOMAIN Grants : Grants[i].owner = owner /\ Grants[i].max = GrantedLevel(owner)
<1> DEFINE held == {Grants[i].max : i \in {j \in DOMAIN Grants : Grants[j].owner = owner}}
           S == {-1} \cup held
           T == {255 - x : x \in S}
<1>1. S \subseteq -1 .. 255 /\ -1 \in S
  <2>1. ASSUME NEW i \in DOMAIN Grants PROVE Grants[i].max \in 0 .. 255
    <3>1. DOMAIN Grants = 1 .. Len(Grants)
      BY LinkAssumption
    <3>2. Grants[i] \in [owner : Owners, max : 0 .. 255]
      BY <3>1, LinkAssumption, ElementOfSeq
    <3> QED BY <3>2
  <2> QED BY <2>1
<1>2. T \subseteq Nat /\ T # {}
  <2> HIDE DEF S
  <2> QED BY <1>1
<1>3. \E x \in T : \A y \in T : ~(<<y, x>> \in OpToRel(<, Nat))
  <2> HIDE DEF T
  <2> QED BY <1>2, NatLessThanWellFounded, WFMin
<1>4. PICK t \in T : \A y \in T : ~(<<y, t>> \in OpToRel(<, Nat))
  BY <1>3
<1>5. PICK m \in S : t = 255 - m
  BY <1>4
<1> HIDE DEF S
<1>6. ASSUME NEW y \in S PROVE m >= y
  <2>1. 255 - y \in T
    OBVIOUS
  <2>2. ~(255 - y < 255 - m)
    BY <1>2, <1>4, <1>5, <2>1 DEF OpToRel
  <2> QED BY <1>1, <2>2
<1>7. Max(S) \in S
  BY <1>6 DEF Max
<1>8. GrantedLevel(owner) \in S
  BY <1>7 DEF GrantedLevel, S
<1>9. GrantedLevel(owner) \in -1 .. 255
  BY <1>1, <1>8
<1> QED BY <1>8, <1>9 DEF S

\* What a served row needs, its owner was granted.
LEMMA ShownIsGranted ==
  ASSUME NEW row, NEW owner, NEW level \in Levels,
         AssignLevel(row) <= EffectiveLevel(owner, level)
  PROVE  \E i \in DOMAIN Grants :
           /\ Grants[i].owner = owner
           /\ Grants[i].max >= (IF IsPii(row) THEN 9 ELSE IF IsPublicCanon(row) THEN 0 ELSE 5)
<1>0. level \in 0 .. 255
  BY LinkAssumption
<1>1. GrantedLevel(owner) \in Int /\ level \in Int
  BY <1>0, GrantedIsAGrant
<1>2. AssignLevel(row) = IF IsPii(row) THEN 9 ELSE IF IsPublicCanon(row) THEN 0 ELSE 5
  BY DEF AssignLevel
<1>3. AssignLevel(row) \in 0 .. 9
  BY <1>2
<1>4. AssignLevel(row) <= GrantedLevel(owner)
  BY <1>1, <1>3 DEF EffectiveLevel
<1>5. PICK i \in DOMAIN Grants : Grants[i].owner = owner /\ Grants[i].max = GrantedLevel(owner)
  BY <1>1, <1>3, <1>4, GrantedIsAGrant
<1> QED BY <1>1, <1>2, <1>3, <1>4, <1>5

LEMMA LinkInitial == LinkInit => LinkInv
  BY LinkAssumption DEF LinkInit, LinkInv, RequestInv, MadeInv, LinkServesOnlyGranted, LinkTypeOK,
     NoRequest, NoAnswer

\* An answer that serves rows is an answer to a request that was signed.
LEMMA ServeKeeps == LinkInv /\ ServeLink => LinkInv'
<1> SUFFICES ASSUME LinkInv, ServeLink PROVE LinkInv'
  OBVIOUS
<1> DEFINE verdict == VerifyLink(linkReq, linkNow)
<1>1. PICK level \in Levels :
        served' = IF verdict # "Allow" THEN [NoAnswer EXCEPT !.verdict = verdict]
                  ELSE [verdict |-> verdict, owner |-> linkReq.owner,
                        text |-> LinkText(linkReq), at |-> linkNow,
                        rows |-> {row \in Corpus :
                                    AssignLevel(row) <= EffectiveLevel(linkReq.owner, level)}]
  BY DEF ServeLink
<1>2. UNCHANGED <<linkNow, linkReq, linkMade>>
  BY DEF ServeLink
<1>3. RequestInv' /\ MadeInv' /\ linkNow' \in 0 .. MaxLinkTime
  BY <1>2 DEF LinkInv, RequestInv, MadeInv
<1>4. verdict \in {"Allow", "DenyMalformed", "DenyStale", "DenyOwnerNotGranted", "DenyBadHmac"}
  BY DEF VerifyLink
<1> HIDE DEF verdict
<1>5. LinkTypeOK'
  BY <1>1, <1>3, <1>4 DEF LinkTypeOK, NoAnswer
<1>6. ASSUME served'.rows # {}
      PROVE  /\ \E m \in linkMade : m.key = SharedKey /\ m.text = served'.text
                                      /\ Abs(served'.at - m.ts) <= MaxSkew
             /\ \A row \in served'.rows :
                  \E i \in DOMAIN Grants :
                    /\ Grants[i].owner = served'.owner
                    /\ Grants[i].max >= (IF IsPii(row) THEN 9 ELSE IF IsPublicCanon(row) THEN 0 ELSE 5)
  <2>1. verdict = "Allow" /\ served'.text = LinkText(linkReq) /\ served'.at = linkNow
          /\ served'.owner = linkReq.owner
    BY <1>1, <1>6 DEF NoAnswer
  <2>2. /\ linkReq.mac # <<>> /\ ~(Abs(linkNow - linkReq.ts) > MaxSkew)
        /\ HmacParts(SharedKey, LinkText(linkReq)) = linkReq.mac
    BY <2>1 DEF verdict, VerifyLink, HmacMatches
  <2>3. PICK m \in linkMade : linkReq.mac = HmacParts(m.key, m.text)
    BY <2>2 DEF LinkInv, RequestInv
  <2>4. m.key = SharedKey /\ m.text = LinkText(linkReq)
    BY <2>2, <2>3 DEF HmacParts
  <2>5. m.ts = linkReq.ts
    BY <2>4, TextEndsInTime DEF LinkInv, RequestInv, MadeInv
  <2>6. Abs(linkNow - m.ts) <= MaxSkew
    BY <2>2, <2>5, LinkAssumption DEF LinkInv, RequestInv, Abs
  <2>7. ASSUME NEW row \in served'.rows
        PROVE  \E i \in DOMAIN Grants :
                 /\ Grants[i].owner = served'.owner
                 /\ Grants[i].max >= (IF IsPii(row) THEN 9 ELSE IF IsPublicCanon(row) THEN 0 ELSE 5)
    <3>1. AssignLevel(row) <= EffectiveLevel(linkReq.owner, level)
      BY <1>1, <2>1
    <3> QED BY <3>1, <2>1, ShownIsGranted
  <2> QED BY <2>1, <2>4, <2>6, <2>7
<1>7. LinkServesOnlyGranted'
  BY <1>2, <1>6 DEF LinkServesOnlyGranted
<1> QED BY <1>3, <1>5, <1>7 DEF LinkInv

LEMMA MakeKeeps == LinkInv /\ MakeRequest => LinkInv'
<1> SUFFICES ASSUME LinkInv, MakeRequest PROVE LinkInv'
  OBVIOUS
<1>1. PICK k \in LinkKeys, o \in Owners, h \in Hosts, v \in Verbs, n \in Nonces, skew \in {-1, 0, 1} :
        LET r == [owner |-> o, host |-> h, verb |-> v, nonce |-> n, ts |-> linkNow + skew,
                  mac |-> <<>>]
        IN  /\ linkReq' = [r EXCEPT !.mac = HmacParts(k, LinkText(r))]
            /\ linkMade' = linkMade \cup {[key |-> k, text |-> LinkText(r), ts |-> r.ts]}
  BY DEF MakeRequest
<1> DEFINE r == [owner |-> o, host |-> h, verb |-> v, nonce |-> n, ts |-> linkNow + skew,
                 mac |-> <<>>]
           text == LinkText(r)
           made == [key |-> k, text |-> text, ts |-> linkNow + skew]
<1>2. /\ linkReq' = [owner |-> o, host |-> h, verb |-> v, nonce |-> n, ts |-> linkNow + skew,
                      mac |-> HmacParts(k, text)]
      /\ linkMade' = linkMade \cup {made}
  BY <1>1
<1>3. /\ r.owner \in Seq(STRING) /\ r.host \in Seq(STRING) /\ r.verb \in Seq(STRING)
      /\ r.nonce \in Seq(STRING) /\ r.ts \in Int
      /\ r.owner = o /\ r.host = h /\ r.verb = v /\ r.nonce = n /\ r.ts = linkNow + skew
  BY LinkAssumption DEF LinkInv
<1>4. text[Len(text)] = linkNow + skew
  <2> HIDE DEF r
  <2> QED BY <1>3, TextEndsInTime
<1> HIDE DEF text
<1>5. MadeInv'
  BY <1>2, <1>4 DEF MadeInv, LinkInv
<1>6. RequestInv'
  <2>1. made \in linkMade' /\ linkReq'.mac = HmacParts(made.key, made.text)
    BY <1>2
  <2> QED BY <1>2, <1>3, <2>1 DEF RequestInv
<1>7. UNCHANGED <<linkNow, served>>
  BY DEF MakeRequest
<1>8. LinkServesOnlyGranted' /\ LinkTypeOK' /\ linkNow' \in 0 .. MaxLinkTime
  BY <1>2, <1>7 DEF LinkInv, LinkServesOnlyGranted, LinkTypeOK
<1> QED BY <1>5, <1>6, <1>8 DEF LinkInv

LEMMA LinkStep == LinkInv /\ [LinkNext]_linkVars => LinkInv'
<1> SUFFICES ASSUME LinkInv, [LinkNext]_linkVars PROVE LinkInv'
  OBVIOUS
<1>1. CASE CarrierChanges
  <2>1. UNCHANGED <<linkNow, linkMade, served>>
    BY <1>1 DEF CarrierChanges
  <2>2. RequestInv'
    BY <1>1, <2>1, LinkAssumption DEF CarrierChanges, LinkInv, RequestInv
  <2> QED BY <2>1, <2>2 DEF LinkInv, MadeInv, LinkServesOnlyGranted, LinkTypeOK
<1>2. CASE LinkTick
  BY <1>2, LinkAssumption DEF LinkTick, LinkInv, RequestInv, MadeInv, LinkServesOnlyGranted, LinkTypeOK
<1>3. CASE UNCHANGED linkVars
  BY <1>3 DEF linkVars, LinkInv, RequestInv, MadeInv, LinkServesOnlyGranted, LinkTypeOK
<1> QED BY <1>1, <1>2, <1>3, MakeKeeps, ServeKeeps DEF LinkNext

\* Whatever the carrier does: rows leave the host only for a fresh request that a
\* holder of the shared key signed as it arrived, and only up to a grant of its
\* owner (verify_link, effective_level, assign_level).
THEOREM LinkIsGranted == Spec => []LinkServesOnlyGranted
<1>1. Init => LinkInv
  BY LinkInitial DEF Init
<1>2. LinkInv /\ [Next]_serviceVars => LinkInv'
  BY DecisionsProject, LinkStep
<1>3. LinkInv => LinkServesOnlyGranted
  BY DEF LinkInv
<1> QED BY <1>1, <1>2, <1>3, PTL DEF Spec

-----------------------------------------------------------------------------
(* The admission gates *)

\* The carrier holds a signature that some owner or carrier computed over a text.
CarriedInv ==
  /\ carried = [text |-> carried.text, sig |-> carried.sig]
  /\ \A m \in posted \cup resigned : m = [seed |-> m.seed, text |-> m.text]
  /\ carried.sig = <<>> \/ \E m \in posted \cup resigned : carried.sig = SignText(m.text, m.seed)

TransitInv ==
  /\ transits \in Seq(Nat) /\ nextTransit = Len(transits) + 1
  /\ \A i \in 1 .. Len(transits) : transits[i] = i

\* lowRun counts the observations below epsilon since the last one that was not,
\* until it reaches its width; from there on it is a lower bound.
RunCounts(run, values) ==
  LET n == Len(values) IN
  /\ values \in Seq(Int) /\ run \in 0 .. RunMax /\ run <= n
  /\ \A i \in n - run + 1 .. n : values[i] < Epsilon
  /\ run < RunMax /\ run < n => values[n - run] >= Epsilon

RunInv == RunCounts(lowRun, observed)

TransitSound ==
  decision.gate = "transit" =>
    (decision.verdict = "ok" <=>
       decision.in.from # decision.in.to /\ decision.in.size <= MaxTransit)

Gates == {"none", "sign", "spawn", "path", "tier", "transit", "novelty"}

\* The last decision is justified; the parts of AdmissionSound that look at it.
DecisionInv ==
  /\ decision.gate \in Gates
  /\ SignedAdmission /\ StrictestWins /\ TiersNest /\ SaturationIsEarned /\ TransitSound

GateInv == CarriedInv /\ TransitInv /\ RunInv /\ DecisionInv

LEMMA GatesInitial == GatesInit => GateInv
<1> SUFFICES ASSUME GatesInit PROVE GateInv
  OBVIOUS
<1>1. <<>> \in Seq(Nat) /\ <<>> \in Seq(Int) /\ Len(<<>>) = 0
  OBVIOUS
<1>2. CarriedInv
  BY DEF GatesInit, CarriedInv, NoEnvelope
<1>3. TransitInv /\ RunInv
  BY <1>1, GateAssumption DEF GatesInit, TransitInv, RunInv, RunCounts
<1>4. DecisionInv
  BY DEF GatesInit, Undecided, DecisionInv, Gates, SignedAdmission, StrictestWins, TiersNest,
         SaturationIsEarned, TransitSound
<1> QED BY <1>2, <1>3, <1>4 DEF GateInv

\* A decision of a gate other than these five says nothing about them.
LEMMA OneGateAtATime ==
  ASSUME decision'.gate \in Gates
  PROVE  /\ decision'.gate # "sign" => SignedAdmission'
         /\ decision'.gate # "spawn" => StrictestWins'
         /\ decision'.gate \notin {"tier", "path"} => TiersNest'
         /\ decision'.gate # "novelty" => SaturationIsEarned'
         /\ decision'.gate # "transit" => TransitSound'
  BY DEF SignedAdmission, StrictestWins, TiersNest, SaturationIsEarned, TransitSound

\* An envelope the sign gate admits has the text its signature was made over.
LEMMA SignKeeps == GateInv /\ SignNext => GateInv'
<1> SUFFICES ASSUME GateInv, SignNext PROVE GateInv'
  OBVIOUS
<1>0. UNCHANGED <<transits, nextTransit, lowRun, observed>>
  BY DEF SignNext, PostEnvelope, CarrierAlters, CarrierResigns, GateCarried
<1>1. TransitInv' /\ RunInv'
  BY <1>0 DEF GateInv, TransitInv, RunInv
<1>2. CASE PostEnvelope
  <2>1. PICK e \in Envelopes, s \in Seeds :
          /\ posted' = posted \cup {[seed |-> s, text |-> Canonical(e)]}
          /\ carried' = [text |-> Canonical(e), sig |-> SignText(Canonical(e), s)]
    BY <1>2 DEF PostEnvelope
  <2> DEFINE text == Canonical(e)
             new == [seed |-> s, text |-> text]
  <2>2. /\ posted' = posted \cup {new} /\ resigned' = resigned
        /\ carried' = [text |-> text, sig |-> SignText(text, s)]
    BY <1>2, <2>1 DEF PostEnvelope
  <2> HIDE DEF text
  <2>3. CarriedInv'
    <3>1. new.text = text /\ new.seed = s /\ new = [seed |-> new.seed, text |-> new.text]
      OBVIOUS
    <3> HIDE DEF new
    <3>2. new \in posted' /\ carried'.sig = SignText(new.text, new.seed)
      BY <2>2, <3>1
    <3> QED BY <2>2, <3>1, <3>2 DEF CarriedInv, GateInv
  <2>4. decision' = decision
    BY <1>2 DEF PostEnvelope
  <2>5. DecisionInv'
    BY <1>0, <2>2, <2>4 DEF GateInv, DecisionInv, SignedAdmission, StrictestWins, TiersNest,
                            SaturationIsEarned, TransitSound
  <2> QED BY <1>1, <2>3, <2>5 DEF GateInv
<1>3. CASE CarrierAlters
  <2>1. CarriedInv'
    BY <1>3 DEF CarrierAlters, CarriedInv, GateInv
  <2>2. decision' = decision /\ posted' = posted /\ resigned' = resigned
    BY <1>3 DEF CarrierAlters
  <2>3. DecisionInv'
    BY <1>0, <2>2 DEF GateInv, DecisionInv, SignedAdmission, StrictestWins, TiersNest,
                      SaturationIsEarned, TransitSound
  <2> QED BY <1>1, <2>1, <2>3 DEF GateInv
<1>4. CASE GateCarried
  <2>1. PICK s \in Seeds, alg \in {"ed25519", "other"}, t \in EventTags, n \in EnvvarNames :
          decision' = [gate |-> "sign", seed |-> s, text |-> carried.text, tags |-> {t},
                       names |-> {n},
                       verdict |-> GateEnvelope(carried.text, carried.sig, DerivePublic(s), alg,
                                                {t}, {n})]
    BY <1>4 DEF GateCarried
  <2>2. UNCHANGED <<posted, resigned, carried>>
    BY <1>4 DEF GateCarried
  <2>3. CarriedInv'
    BY <2>2 DEF CarriedInv, GateInv
  <2>4. ASSUME decision'.verdict.admitted
        PROVE  /\ [seed |-> s, text |-> carried.text] \in posted \cup resigned
               /\ t \cap DefaultDenies # {} => EnvvarAllowed(n)
    <3>1. /\ SignatureAccepted(carried.text, carried.sig, DerivePublic(s), alg)
          /\ DenyCheck({t}) \/ \E m \in {n} : EnvvarAllowed(m)
      BY <2>1, <2>4 DEF GateEnvelope
    <3>2. carried.sig = <<<<"public", s>>, carried.text>>
      BY <3>1 DEF SignatureAccepted, VerifySig, ExpectedSig, DerivePublic
    <3>3. carried.sig # <<>>
      BY <3>2
    <3>4. PICK m \in posted \cup resigned : carried.sig = SignText(m.text, m.seed)
      BY <3>3 DEF GateInv, CarriedInv
    <3>5. carried.sig = <<<<"public", m.seed>>, m.text>>
      BY <3>4 DEF SignText, ExpectedSig, DerivePublic
    <3>6. m.seed = s /\ m.text = carried.text
      <4>1. <<"public", s>> = <<"public", m.seed>> /\ m.text = carried.text
        BY <3>2, <3>5
      <4> QED BY <4>1
    <3>7. [seed |-> s, text |-> carried.text] \in posted \cup resigned
      BY <3>6 DEF GateInv, CarriedInv
    <3> QED BY <3>1, <3>7 DEF DenyCheck
  <2>5. SignedAdmission'
    BY <2>1, <2>2, <2>4 DEF SignedAdmission
  <2>6. DecisionInv'
    BY <2>1, <2>5, OneGateAtATime DEF DecisionInv, Gates
  <2> QED BY <1>1, <2>3, <2>6 DEF GateInv
<1>5. CASE CarrierResigns
  <2>1. PICK e \in Envelopes, s \in Seeds :
          /\ resigned' = resigned \cup {[seed |-> s, text |-> Canonical(e)]}
          /\ carried' = [text |-> Canonical(e), sig |-> ExpectedSig(DerivePublic(s), Canonical(e))]
    BY <1>5 DEF CarrierResigns
  <2> DEFINE text == Canonical(e)
             new == [seed |-> s, text |-> text]
  <2>2. /\ resigned' = resigned \cup {new} /\ posted' = posted
        /\ carried' = [text |-> text, sig |-> SignText(text, s)]
    BY <1>5, <2>1 DEF CarrierResigns, SignText
  <2> HIDE DEF text
  <2>3. CarriedInv'
    <3>1. new.text = text /\ new.seed = s /\ new = [seed |-> new.seed, text |-> new.text]
      OBVIOUS
    <3> HIDE DEF new
    <3>2. new \in resigned' /\ carried'.sig = SignText(new.text, new.seed)
      BY <2>2, <3>1
    <3> QED BY <2>2, <3>1, <3>2 DEF CarriedInv, GateInv
  <2>4. decision' = decision
    BY <1>5 DEF CarrierResigns
  <2>5. DecisionInv'
    BY <1>0, <2>2, <2>4 DEF GateInv, DecisionInv, SignedAdmission, StrictestWins, TiersNest,
                            SaturationIsEarned, TransitSound
  <2> QED BY <1>1, <2>3, <2>5 DEF GateInv
<1> QED BY <1>2, <1>3, <1>4, <1>5 DEF SignNext

LEMMA VerdictIsStrictest ==
  ASSUME NEW in \in [slot : {63, 64}, tier : HookTiers, tags : {{t} : t \in EventTags},
                     score : {719, 720}, risk : {280, 281}]
  PROVE  LET blocks == ~DenyCheck(in.tags) \/ in.slot >= 64 \/ in.tier = "Firmware"
             holds == in.tier = "Cosign" \/ in.score < 720 \/ in.risk > 280
         IN  SpawnGateVerdict(in) = IF blocks THEN "Block" ELSE IF holds THEN "Hold" ELSE "Proceed"
<1>1. in.tier \in {"Micro", "Cosign", "Firmware"} /\ in.slot \in {63, 64}
        /\ in.score \in {719, 720} /\ in.risk \in {280, 281}
  BY DEF HookTiers
<1>2. /\ HookwallPre(in.slot, in.tier) = "error" <=> in.slot >= 64
      /\ HookwallPre(in.slot, in.tier) = "Block" <=> in.slot < 64 /\ in.tier = "Firmware"
      /\ HookwallPre(in.slot, in.tier) = "Hold" <=> in.slot < 64 /\ in.tier = "Cosign"
      /\ HookwallPre(in.slot, in.tier) = "Proceed" <=> in.slot < 64 /\ in.tier = "Micro"
  BY <1>1 DEF HookwallPre
<1> QED BY <1>1, <1>2 DEF SpawnGateVerdict

\* A caller of a higher tier may do whatever one of a lower tier may.
LEMMA TiersAreNested ==
  ASSUME NEW c \in Tiers, NEW caller \in Tiers, NEW target \in Tiers,
         TierRank(c) >= TierRank(caller), TierGateCheck(caller, target) = "Allow"
  PROVE  TierGateCheck(c, target) = "Allow"
  BY DEF Tiers, TierRank, TierGateCheck

LEMMA PolicyKeeps == GateInv /\ PolicyNext => GateInv'
<1> SUFFICES ASSUME GateInv, PolicyNext PROVE GateInv'
  OBVIOUS
<1>0. UNCHANGED <<posted, resigned, carried, transits, nextTransit, lowRun, observed>>
  BY DEF PolicyNext, GateSpawn, GatePath, GateTier
<1>1. CarriedInv' /\ TransitInv' /\ RunInv'
  BY <1>0 DEF GateInv, CarriedInv, TransitInv, RunInv
<1>2. CASE GateSpawn
  <2>1. PICK in \in [slot : {63, 64}, tier : HookTiers, tags : {{t} : t \in EventTags},
                     score : {719, 720}, risk : {280, 281}] :
          decision' = [gate |-> "spawn", in |-> in, verdict |-> SpawnGateVerdict(in)]
    BY <1>2 DEF GateSpawn
  <2>2. decision'.gate = "spawn" /\ decision'.in = in /\ decision'.verdict = SpawnGateVerdict(in)
    BY <2>1
  <2>3. StrictestWins'
    BY <2>2, VerdictIsStrictest DEF StrictestWins
  <2>4. DecisionInv'
    BY <2>2, <2>3, OneGateAtATime DEF DecisionInv, Gates
  <2> QED BY <1>1, <2>4 DEF GateInv
<1>3. CASE GatePath
  <2>1. PICK caller \in Tiers, marks \in PathMarks :
          LET tier == ClassifyPath(marks)
          IN  decision' = [gate |-> "path", caller |-> caller, marks |-> marks, tier |-> tier,
                           verdict |-> IF tier = "malformed" THEN "Invalid"
                                       ELSE TierGateCheck(caller, tier)]
    BY <1>3 DEF GatePath
  <2>2. decision'.gate = "path" /\ decision'.marks = marks
    BY <2>1
  <2>3. marks = {} => decision'.verdict = "Allow"
    BY <2>1 DEF ClassifyPath, TierGateCheck, TierRank, Tiers
  <2>4. TiersNest'
    BY <2>2, <2>3 DEF TiersNest
  <2>5. DecisionInv'
    BY <2>2, <2>4, OneGateAtATime DEF DecisionInv, Gates
  <2> QED BY <1>1, <2>5 DEF GateInv
<1>4. CASE GateTier
  <2>1. PICK caller \in Tiers, target \in Tiers :
          decision' = [gate |-> "tier", caller |-> caller, target |-> target,
                       verdict |-> TierGateCheck(caller, target)]
    BY <1>4 DEF GateTier
  <2>2. /\ decision'.gate = "tier" /\ decision'.caller = caller /\ decision'.target = target
        /\ decision'.verdict = TierGateCheck(caller, target)
    BY <2>1
  <2>3. target = "Sovereignty" /\ caller # "Sovereignty" => TierGateCheck(caller, target) = "Deny"
    BY DEF TierGateCheck
  <2>4. TiersNest'
    BY <2>2, <2>3, TiersAreNested DEF TiersNest
  <2>5. DecisionInv'
    BY <2>2, <2>4, OneGateAtATime DEF DecisionInv, Gates
  <2> QED BY <1>1, <2>5 DEF GateInv
<1> QED BY <1>2, <1>3, <1>4 DEF PolicyNext

LEMMA TransitKeeps == GateInv /\ TransitNext => GateInv'
<1> SUFFICES ASSUME GateInv, ExecuteTransit PROVE GateInv'
  BY DEF TransitNext
<1>0. UNCHANGED <<posted, resigned, carried, lowRun, observed>>
  BY DEF ExecuteTransit
<1>1. PICK r \in [from : Tiers, to : Tiers, size : TransitSizes] :
        /\ decision' = [gate |-> "transit", in |-> r, verdict |-> TransitVerdict(r)]
        /\ IF TransitVerdict(r) = "ok"
           THEN /\ transits' = Append(transits, nextTransit)
                /\ nextTransit' = nextTransit + 1
           ELSE UNCHANGED <<transits, nextTransit>>
  BY DEF ExecuteTransit
<1>2. CarriedInv' /\ RunInv'
  BY <1>0 DEF GateInv, CarriedInv, RunInv
<1>3. TransitInv'
  <2>1. /\ transits \in Seq(Nat) /\ nextTransit = Len(transits) + 1 /\ Len(transits) \in Nat
        /\ \A i \in 1 .. Len(transits) : transits[i] = i
    BY DEF GateInv, TransitInv
  <2>2. CASE UNCHANGED <<transits, nextTransit>>
    BY <2>1, <2>2 DEF TransitInv
  <2>3. CASE transits' = Append(transits, nextTransit) /\ nextTransit' = nextTransit + 1
    <3>1. /\ transits' \in Seq(Nat) /\ Len(transits') = Len(transits) + 1
          /\ transits'[Len(transits) + 1] = nextTransit
          /\ \A i \in 1 .. Len(transits) : transits'[i] = transits[i]
      BY <2>1, <2>3
    <3>2. \A i \in 1 .. Len(transits') : transits'[i] = i
      BY <2>1, <3>1
    <3> QED BY <2>1, <2>3, <3>1, <3>2 DEF TransitInv
  <2> QED BY <1>1, <2>2, <2>3
<1>4. decision'.gate = "transit" /\ decision'.in = r /\ decision'.verdict = TransitVerdict(r)
  BY <1>1
<1>5. TransitVerdict(r) = "ok" <=> r.from # r.to /\ r.size <= MaxTransit
  <2>1. r.size \in Nat /\ MaxTransit \in Nat /\ r.to \in Tiers
    BY GateAssumption
  <2>2. TransitVerdict(r) = "ok" <=>
          ~(r.size > MaxTransit) /\ CheckTransit(r.from, r.to) \notin {"SameTier", "unauthorized"}
    BY DEF TransitVerdict
  <2>3. CheckTransit(r.from, r.to) \notin {"SameTier", "unauthorized"} <=> r.from # r.to
    BY <2>1 DEF CheckTransit, QuintupleAuthCovers
  <2> QED BY <2>1, <2>2, <2>3
<1>6. TransitSound'
  BY <1>4, <1>5 DEF TransitSound
<1>7. DecisionInv'
  BY <1>4, <1>6, OneGateAtATime DEF DecisionInv, Gates
<1> QED BY <1>2, <1>3, <1>7 DEF GateInv

\* Such a counter tells whether the last k observations were all low, for every
\* k up to its width.
LEMMA RunTells ==
  ASSUME NEW run, NEW values, RunCounts(run, values), NEW k \in 1 .. RunMax
  PROVE  run >= k <=> /\ Len(values) >= k
                      /\ \A i \in Len(values) - k + 1 .. Len(values) : values[i] < Epsilon
<1> DEFINE n == Len(values)
<1>1. /\ n \in Nat /\ run \in Nat /\ k \in Nat /\ RunMax \in Nat /\ Epsilon \in Int
      /\ k <= RunMax /\ run <= n /\ 1 <= k
  BY GateAssumption DEF RunCounts
<1>2. ASSUME run >= k
      PROVE  n >= k /\ \A i \in n - k + 1 .. n : values[i] < Epsilon
  BY <1>1, <1>2 DEF RunCounts
<1>3. ASSUME ~(run >= k), n >= k, \A i \in n - k + 1 .. n : values[i] < Epsilon
      PROVE  FALSE
  <2>1. n - run \in n - k + 1 .. n /\ n - run \in 1 .. n
    BY <1>1, <1>3
  <2>2. values[n - run] >= Epsilon
    BY <1>1, <1>3 DEF RunCounts
  <2>3. values[n - run] \in Int /\ values[n - run] < Epsilon
    BY <1>3, <2>1 DEF RunCounts
  <2> QED BY <1>1, <2>2, <2>3
<1> QED BY <1>2, <1>3

LEMMA NoveltyKeeps == GateInv /\ NoveltyNext => GateInv'
<1> SUFFICES ASSUME GateInv, ObserveNovelty PROVE GateInv'
  BY DEF NoveltyNext
<1>0. UNCHANGED <<posted, resigned, carried, transits, nextTransit>>
  BY DEF ObserveNovelty
<1>1. CarriedInv' /\ TransitInv'
  BY <1>0 DEF GateInv, CarriedInv, TransitInv
<1>2. PICK sim \in Similarities :
        LET v == Novelty(sim)
            run == IF v < Epsilon THEN (IF lowRun < RunMax THEN lowRun + 1 ELSE lowRun) ELSE 0
        IN  IF sim > 10000
            THEN /\ decision' = [gate |-> "novelty", verdict |-> "SimilarityOutOfRange"]
                 /\ UNCHANGED <<lowRun, observed>>
            ELSE /\ lowRun' = run
                 /\ observed' = Append(observed, v)
                 /\ decision' = [gate |-> "novelty",
                                 verdict |-> IF v >= Epsilon THEN "Continue"
                                             ELSE IF run >= SaturationLimit THEN "Saturated"
                                             ELSE "LowNovelty"]
  BY DEF ObserveNovelty
<1>3. CASE sim > 10000
  <2>1. /\ decision' = [gate |-> "novelty", verdict |-> "SimilarityOutOfRange"]
        /\ UNCHANGED <<lowRun, observed>>
    BY <1>2, <1>3
  <2>2. RunInv'
    BY <2>1 DEF GateInv, RunInv
  <2>3. decision'.gate = "novelty" /\ SaturationIsEarned'
    BY <2>1 DEF SaturationIsEarned
  <2>4. DecisionInv'
    BY <2>3, OneGateAtATime DEF DecisionInv, Gates
  <2> QED BY <1>1, <2>2, <2>4 DEF GateInv
<1>4. CASE ~(sim > 10000)
  <2> DEFINE v == Novelty(sim)
             run == IF v < Epsilon THEN (IF lowRun < RunMax THEN lowRun + 1 ELSE lowRun) ELSE 0
             n == Len(observed)
  <2>1. /\ lowRun' = run /\ observed' = Append(observed, v)
        /\ decision' = [gate |-> "novelty",
                        verdict |-> IF v >= Epsilon THEN "Continue"
                                    ELSE IF run >= SaturationLimit THEN "Saturated"
                                    ELSE "LowNovelty"]
    BY <1>2, <1>4
  <2>2. /\ v \in Int /\ Epsilon \in Int /\ RunMax \in Nat /\ RunMax >= 1
        /\ SaturationLimit \in 1 .. RunMax
    BY GateAssumption DEF Novelty
  <2> HIDE DEF v
  <2>3. /\ observed \in Seq(Int) /\ n \in Nat /\ lowRun \in 0 .. RunMax /\ lowRun <= n
        /\ \A i \in n - lowRun + 1 .. n : observed[i] < Epsilon
        /\ lowRun < RunMax /\ lowRun < n => observed[n - lowRun] >= Epsilon
    BY DEF GateInv, RunInv, RunCounts
  <2>4. /\ observed' \in Seq(Int) /\ Len(observed') = n + 1 /\ observed'[n + 1] = v
        /\ \A i \in 1 .. n : observed'[i] = observed[i]
    BY <2>1, <2>2, <2>3
  <2>5. RunInv'
    <3>1. run \in 0 .. RunMax /\ run <= n + 1
      BY <2>2, <2>3
    <3>2. ASSUME NEW i \in (n + 1) - run + 1 .. n + 1 PROVE observed'[i] < Epsilon
      <4>1. v < Epsilon /\ i \in Int
        BY <2>2, <2>3, <3>1, <3>2
      <4>2. CASE i = n + 1
        BY <4>1, <4>2, <2>4
      <4>3. CASE i # n + 1
        <5>1. i \in n - lowRun + 1 .. n /\ i \in 1 .. n
          BY <2>2, <2>3, <3>2, <4>1, <4>3
        <5> QED BY <5>1, <2>3, <2>4
      <4> QED BY <4>2, <4>3
    <3>3. ASSUME run < RunMax, run < n + 1 PROVE observed'[(n + 1) - run] >= Epsilon
      <4>1. CASE v < Epsilon
        <5>1. run = lowRun + 1 /\ lowRun < RunMax /\ lowRun < n
          BY <2>2, <2>3, <3>3, <4>1
        <5>2. (n + 1) - run = n - lowRun /\ n - lowRun \in 1 .. n
          BY <2>3, <5>1
        <5> QED BY <5>1, <5>2, <2>3, <2>4
      <4>2. CASE ~(v < Epsilon)
        BY <2>2, <2>3, <2>4, <4>2
      <4> QED BY <4>1, <4>2
    <3> HIDE DEF run
    <3> QED BY <2>1, <2>4, <3>1, <3>2, <3>3 DEF RunInv, RunCounts
  <2>6. /\ v >= Epsilon <=> ~(lowRun' >= 1)
        /\ v < Epsilon \/ ~(lowRun' >= SaturationLimit)
    BY <2>1, <2>2, <2>3
  <2>7. ASSUME NEW k \in 1 .. RunMax
        PROVE  lowRun' >= k <=> /\ Len(observed') >= k
                                /\ \A i \in Len(observed') - k + 1 .. Len(observed') :
                                     observed'[i] < Epsilon
    BY <2>5, RunTells DEF RunInv
  <2>8. /\ decision'.gate = "novelty"
        /\ decision'.verdict = "Saturated" <=> lowRun' >= SaturationLimit
        /\ decision'.verdict = "Continue" <=> ~(lowRun' >= 1)
    BY <2>1, <2>2, <2>6
  <2>9. SaturationIsEarned'
    <3>1. 1 \in 1 .. RunMax /\ SaturationLimit \in 1 .. RunMax
      BY <2>2
    <3> QED BY <2>7, <2>8, <3>1 DEF SaturationIsEarned
  <2>10. DecisionInv'
    BY <2>8, <2>9, OneGateAtATime DEF DecisionInv, Gates
  <2> QED BY <1>1, <2>5, <2>10 DEF GateInv
<1> QED BY <1>3, <1>4

LEMMA GatesStep == GateInv /\ [Next]_serviceVars => GateInv'
<1>1. GateInv /\ UNCHANGED gateVars => GateInv'
  BY DEF gateVars, GateInv, CarriedInv, TransitInv, RunInv, DecisionInv, SignedAdmission,
         StrictestWins, TiersNest, SaturationIsEarned, TransitSound
<1> QED BY <1>1, DecisionsProject, SignKeeps, PolicyKeeps, TransitKeeps, NoveltyKeeps

\* For any seeds, envelopes, tags, tiers and limits: an admitted envelope has the
\* text its signature was computed over, by the owner or by a carrier that knows
\* the public key; the strictest spawn gate wins, tiers nest, a saturated verdict
\* is earned, and transits are numbered in order and refused only for equal tiers
\* or the size budget (gate_envelope, spawn_gate_verdict, check,
\* observe_similarity, execute).
THEOREM AdmissionsAreSound == Spec => []AdmissionSound
<1>1. Init => GateInv
  BY GatesInitial DEF Init
<1>2. GateInv /\ [Next]_serviceVars => GateInv'
  BY GatesStep
<1>3. GateInv => AdmissionSound
  <2> SUFFICES ASSUME GateInv PROVE AdmissionSound
    OBVIOUS
  <2>1. \A i \in DOMAIN transits : transits[i] = i
    BY DEF GateInv, TransitInv
  <2> QED BY <2>1 DEF GateInv, DecisionInv, TransitSound, AdmissionSound
<1> QED BY <1>1, <1>2, <1>3, PTL DEF Spec

-----------------------------------------------------------------------------
(* Addresses *)

\* A PID of role words, the word PID and tail words that are not PID.
PutTogether(pid, role, t) ==
  /\ role # <<>> /\ Len(t) >= 1 /\ Len(pid) = Len(role) + 1 + Len(t)
  /\ \A i \in 1 .. Len(role) : pid[i] = role[i]
  /\ pid[Len(role) + 1] = PidWord
  /\ \A i \in 1 .. Len(t) : pid[Len(role) + 1 + i] = t[i] /\ t[i] # PidWord

\* It splits where it was put together, whatever the role's words are.
LEMMA SplitFinds ==
  ASSUME NEW S, NEW role \in Seq(S), NEW t \in Seq(S), NEW pid \in Seq(S),
         PutTogether(pid, role, t)
  PROVE  ParsePid(pid) = ParseTail(role, t)
<1> USE DEF PutTogether
<1> DEFINE at == {i \in 2 .. Len(pid) - 1 : pid[i] = PidWord}
           k == Len(role) + 1
<1>1. Len(role) \in Nat \ {0} /\ Len(t) \in Nat /\ Len(pid) \in Nat
  BY EmptySeq
<1>2. k \in at
  BY <1>1
<1>3. ASSUME NEW x \in at PROVE x <= k
  <2>1. SUFFICES ASSUME x > k PROVE FALSE
    BY <1>1
  <2> DEFINE i == x - k
  <2>2. i \in 1 .. Len(t) /\ Len(role) + 1 + i = x
    BY <1>1, <2>1
  <2> HIDE DEF i
  <2>3. pid[x] = t[i] /\ t[i] # PidWord
    BY <2>2
  <2> QED BY <2>3
<1>4. \A x \in at : x \in Int
  BY <1>1
<1> HIDE DEF at
<1>5. Max(at) = k
  <2>1. \E x \in at : \A y \in at : x >= y
    BY <1>2, <1>3, <1>4
  <2>2. Max(at) \in at /\ \A y \in at : Max(at) >= y
    BY <2>1 DEF Max
  <2> QED BY <1>2, <1>3, <1>4, <2>2
<1>6. PidSplit(pid) = k
  BY <1>2, <1>5 DEF PidSplit, at
<1>7. SubSeq(pid, 1, k - 1) = role
  <2>1. \A i \in 1 .. k - 1 : pid[i] \in S
    BY <1>1
  <2>2. /\ SubSeq(pid, 1, k - 1) \in Seq(S)
        /\ Len(SubSeq(pid, 1, k - 1)) = Len(role)
        /\ \A i \in 1 .. Len(role) : SubSeq(pid, 1, k - 1)[i] = pid[i]
    BY <1>1, <2>1, SubSeqProperties
  <2> QED BY <2>2, SeqEqual
<1>8. SubSeq(pid, k + 1, Len(pid)) = t
  <2> DEFINE u == SubSeq(pid, k + 1, Len(pid))
  <2>1. \A i \in k + 1 .. Len(pid) : pid[i] \in S
    BY <1>1
  <2>2. /\ u \in Seq(S) /\ Len(u) = Len(t)
        /\ \A i \in 1 .. Len(t) : u[i] = pid[(k + 1) + i - 1]
    BY <1>1, <2>1, SubSeqProperties
  <2>3. \A i \in 1 .. Len(t) : u[i] = t[i]
    BY <1>1, <2>2
  <2> HIDE DEF u
  <2>4. u = t
    BY <2>2, <2>3, SeqEqual
  <2> QED BY <2>4 DEF u
<1>9. k # 0
  BY <1>1
<1> HIDE DEF k
<1>10. ParsePid(pid) = ParseTail(SubSeq(pid, 1, k - 1), SubSeq(pid, k + 1, Len(pid)))
  BY <1>6, <1>9 DEF ParsePid
<1> QED BY <1>7, <1>8, <1>10

NoPidIn(t) == Len(t) >= 1 /\ \A i \in 1 .. Len(t) : t[i] # PidWord

Words == [head : STRING, cls : STRING, len : Nat]

\* The same for a PID that is a role followed by PID and a tuple.
LEMMA SplitOfConcat ==
  ASSUME NEW role \in Roles, NEW U, NEW t \in Seq(U), NoPidIn(t)
  PROVE  /\ ParsePid(role \o (<<PidWord>> \o t)) = ParseTail(role, t)
         /\ Len(role \o (<<PidWord>> \o t)) = Len(role) + 1 + Len(t)
<1> DEFINE S == Words \cup U \cup {PidWord}
           pid == role \o (<<PidWord>> \o t)
<1>0. role \in Seq(Words) /\ role # <<>>
  BY RouteAssumption DEF Words
<1>1. Words \subseteq S /\ U \subseteq S /\ PidWord \in S
  OBVIOUS
<1> HIDE DEF S
<1>2. role \in Seq(S) /\ t \in Seq(S) /\ <<PidWord>> \in Seq(S)
  BY <1>0, <1>1, SeqMonotonic
<1> DEFINE u == <<PidWord>> \o t
<1>3. /\ u \in Seq(S) /\ Len(u) = 1 + Len(t) /\ u[1] = PidWord
      /\ \A i \in 1 .. Len(t) : u[1 + i] = t[i]
      /\ Len(role) \in Nat /\ Len(t) \in Nat
  BY <1>2
<1> HIDE DEF u
<1>4. pid = role \o u
  BY DEF u
<1> HIDE DEF pid
<1>5. /\ pid \in Seq(S) /\ Len(pid) = Len(role) + 1 + Len(t)
      /\ \A i \in 1 .. Len(role) : pid[i] = role[i]
      /\ \A i \in 1 .. Len(u) : pid[Len(role) + i] = u[i]
  <2>0. role \in Seq(S) /\ u \in Seq(S)
    BY <1>2, <1>3
  <2>1. /\ role \o u \in Seq(S) /\ Len(role \o u) = Len(role) + Len(u)
        /\ \A i \in 1 .. Len(role) + Len(u) :
             (role \o u)[i] = IF i <= Len(role) THEN role[i] ELSE u[i - Len(role)]
    BY <2>0, ConcatProperties, Zenon
  <2> QED BY <1>3, <1>4, <2>1
<1>6. /\ pid[Len(role) + 1] = PidWord
      /\ \A i \in 1 .. Len(t) : pid[Len(role) + 1 + i] = t[i] /\ t[i] # PidWord
  <2>1. ASSUME NEW i \in 1 .. Len(t) PROVE pid[Len(role) + 1 + i] = t[i]
    <3>1. 1 + i \in 1 .. Len(u) /\ Len(role) + 1 + i = Len(role) + (1 + i)
      BY <1>3
    <3> QED BY <3>1, <1>3, <1>5
  <2>2. 1 \in 1 .. Len(u)
    BY <1>3
  <2> QED BY <2>1, <2>2, <1>3, <1>5 DEF NoPidIn
<1>7. PutTogether(pid, role, t)
  BY <1>0, <1>5, <1>6 DEF PutTogether, NoPidIn
<1>8. ParsePid(pid) = ParseTail(role, t)
  BY <1>2, <1>5, <1>7, SplitFinds
<1> QED BY <1>5, <1>8 DEF pid

IsField(f) == f = [cls |-> f.cls, len |-> f.len] /\ f.len \in Nat

LEMMA SamplesAreFields == \A f \in FieldSamples \cup {NoField} : IsField(f)
<1>1. ASSUME NEW f \in FieldSamples PROVE IsField(f)
  <2>1. f \in [cls : STRING, len : Nat]
    BY RouteAssumption
  <2> QED BY <2>1 DEF IsField
<1>2. IsField(NoField)
  BY DEF IsField, NoField
<1> QED BY <1>1, <1>2

LEMMA WordFacts ==
  ASSUME NEW f, IsField(f), NEW head
  PROVE  /\ Word(head, f).head = head /\ Word(head, f).cls = f.cls
         /\ Word(head, f).len = f.len + 1 /\ RestOf(Word(head, f)) = f
  BY DEF IsField, Word, RestOf

LEMMA RolesAreWords == \A role \in Roles : role \in Seq(Words) /\ Len(role) \in Nat
<1> SUFFICES ASSUME NEW role \in Roles PROVE role \in Seq(Words) /\ Len(role) \in Nat
  OBVIOUS
<1>1. role \in Seq(Words)
  BY RouteAssumption DEF Words
<1> HIDE DEF Words
<1> QED BY <1>1

\* The words of a minted body are not the word PID: a tag has another first
\* letter, and the process field, whose tag is P, is hexadecimal.
LEMMA TagsAreNotPid ==
  ASSUME NEW f, IsField(f), NEW head
  PROVE  head # "P" \/ IsHexN(f, 2) => Word(head, f) # PidWord
<1>1. PidWord.head = "P" /\ PidWord.cls = "other"
  BY DEF PidWord
<1>2. ~IsHexN(f, 2) \/ f.cls # "other"
  BY DEF IsHexN
<1> QED BY <1>1, <1>2, WordFacts

Body(role, region, host, act, wave, p, n) ==
  [form |-> "Canonical", role |-> role, region |-> region, host |-> host, act |-> act,
   wave |-> wave, p |-> p, n |-> n]

\* What mint_pid and mint_pid_extended want of their fields.
ShortFields(region, host, act, wave) ==
  /\ region \in Regions /\ IsField(host) /\ IsField(act) /\ IsField(wave)
  /\ IsHexN(host, 4) /\ IsHexN(act, 2) /\ IsHexN(wave, 3)

LongFields(p, n) == IsField(p) /\ IsField(n) /\ IsHexN(p, 2) /\ IsHexN(n, 5)

ShortPid(role, region, host, act, wave) ==
  role \o <<PidWord, Word(region, host), Word("A", act), Word("W", wave)>>

LongPid(role, region, host, act, wave, p, n) ==
  ShortPid(role, region, host, act, wave) \o <<Word("P", p), Word("N", n)>>

\* The short form: three words after PID.
LEMMA ShortPidsParse ==
  ASSUME NEW role \in Roles, NEW region, NEW host, NEW act, NEW wave,
         ShortFields(region, host, act, wave)
  PROVE  LET pid == ShortPid(role, region, host, act, wave) IN
         /\ ParsePid(pid) = Body(role, region, host, act, wave, NoField, NoField)
         /\ Len(pid) = Len(role) + 4
<1> USE DEF ShortFields
<1> DEFINE pid == ShortPid(role, region, host, act, wave)
           a == Word(region, host)
           b == Word("A", act)
           c == Word("W", wave)
           t == <<a, b, c>>
<1>1. region # "P" /\ region # "0"
  BY DEF Regions
<1>2. a # PidWord /\ b # PidWord /\ c # PidWord
  BY <1>1, TagsAreNotPid
<1>3. /\ a.head = region /\ b.head = "A" /\ c.head = "W" /\ a.len = host.len + 1
      /\ RestOf(a) = host /\ RestOf(b) = act /\ RestOf(c) = wave
  BY WordFacts
<1>4. a.len = 5
  BY <1>3 DEF IsHexN
<1> HIDE DEF a, b, c
<1>5. t \in Seq({a, b, c}) /\ Len(t) = 3 /\ t[1] = a /\ t[2] = b /\ t[3] = c
  OBVIOUS
<1>6. <<PidWord, a, b, c>> = <<PidWord>> \o t
  OBVIOUS
<1> HIDE DEF t
<1>7. NoPidIn(t)
  BY <1>2, <1>5 DEF NoPidIn
<1>8. pid = role \o (<<PidWord>> \o t)
  BY <1>6 DEF a, b, c, ShortPid
<1> HIDE DEF pid
<1>9. ParsePid(pid) = ParseTail(role, t) /\ Len(pid) = Len(role) + 1 + Len(t)
  BY <1>5, <1>7, <1>8, SplitOfConcat
<1>10. ParseTail(role, t) = Body(role, region, host, act, wave, NoField, NoField)
  <2>1. ~IsDigits(t[1], 4)
    BY <1>1, <1>3, <1>5 DEF IsDigits
  <2> QED BY <2>1, <1>3, <1>4, <1>5 DEF ParseTail, Body
<1>11. Len(role) \in Nat
  BY RolesAreWords
<1> QED BY <1>5, <1>9, <1>10, <1>11 DEF pid

\* The extended form: five words after PID.
LEMMA LongPidsParse ==
  ASSUME NEW role \in Roles, NEW region, NEW host, NEW act, NEW wave, NEW p, NEW n,
         ShortFields(region, host, act, wave), LongFields(p, n)
  PROVE  LET pid == LongPid(role, region, host, act, wave, p, n) IN
         /\ ParsePid(pid) = Body(role, region, host, act, wave, p, n)
         /\ Len(pid) = Len(role) + 6
<1> USE DEF ShortFields, LongFields
<1> DEFINE pid == LongPid(role, region, host, act, wave, p, n)
           a == Word(region, host)
           b == Word("A", act)
           c == Word("W", wave)
           d == Word("P", p)
           e == Word("N", n)
           t == <<a, b, c, d, e>>
           S == Words \cup {PidWord, a, b, c, d, e}
<1>1. region # "P" /\ region # "0"
  BY DEF Regions
<1>2. a # PidWord /\ b # PidWord /\ c # PidWord /\ d # PidWord /\ e # PidWord
  BY <1>1, TagsAreNotPid
<1>3. /\ a.head = region /\ b.head = "A" /\ c.head = "W" /\ d.head = "P" /\ e.head = "N"
      /\ a.len = host.len + 1
      /\ RestOf(a) = host /\ RestOf(b) = act /\ RestOf(c) = wave /\ RestOf(d) = p /\ RestOf(e) = n
  BY WordFacts
<1>4. a.len = 5
  BY <1>3 DEF IsHexN
<1> HIDE DEF a, b, c, d, e
<1>5. /\ t \in Seq({a, b, c, d, e}) /\ Len(t) = 5
      /\ t[1] = a /\ t[2] = b /\ t[3] = c /\ t[4] = d /\ t[5] = e
  OBVIOUS
<1>6. <<PidWord, a, b, c>> \o <<d, e>> = <<PidWord>> \o t
  OBVIOUS
<1> HIDE DEF t
<1>7. NoPidIn(t)
  BY <1>2, <1>5 DEF NoPidIn
<1>8. pid = role \o (<<PidWord>> \o t)
  <2>1. Words \subseteq S
          /\ PidWord \in S /\ a \in S /\ b \in S /\ c \in S /\ d \in S /\ e \in S
    OBVIOUS
  <2> HIDE DEF S
  <2>2. role \in Seq(S)
    BY <2>1, RolesAreWords, SeqMonotonic
  <2>3. <<PidWord, a, b, c>> \in Seq(S) /\ <<d, e>> \in Seq(S)
    BY <2>1
  <2>4. (role \o <<PidWord, a, b, c>>) \o <<d, e>> = role \o (<<PidWord, a, b, c>> \o <<d, e>>)
    BY <2>2, <2>3, ConcatAssociative
  <2> QED BY <1>6, <2>4 DEF a, b, c, d, e, LongPid, ShortPid
<1> HIDE DEF pid
<1>9. ParsePid(pid) = ParseTail(role, t) /\ Len(pid) = Len(role) + 1 + Len(t)
  BY <1>5, <1>7, <1>8, SplitOfConcat
<1>10. ParseTail(role, t) = Body(role, region, host, act, wave, p, n)
  <2>1. Len(t) # 3
    BY <1>5
  <2> QED BY <2>1, <1>3, <1>4, <1>5 DEF ParseTail, Body
<1>11. Len(role) \in Nat
  BY RolesAreWords
<1> QED BY <1>5, <1>9, <1>10, <1>11 DEF pid

\* An anchor: a date after PID.
LEMMA AnchorsParse ==
  ASSUME NEW role \in Roles, NEW y, NEW m, NEW d, IsField(y), IsField(m), IsField(d),
         NEW date, date = <<Word("0", y), Word("0", m), Word("0", d)>>,
         NEW pid, pid = MintAnchorPid(role, date), pid # <<>>
  PROVE  ParsePid(pid) = [form |-> "Anchor", role |-> role, date |-> date]
<1> DEFINE a == Word("0", y)
           b == Word("0", m)
           c == Word("0", d)
<1>1. a # PidWord /\ b # PidWord /\ c # PidWord
  BY TagsAreNotPid
<1> HIDE DEF a, b, c
<1>2. date = <<a, b, c>>
  BY DEF a, b, c
<1>3. /\ date \in Seq({a, b, c}) /\ Len(date) = 3
      /\ date[1] = a /\ date[2] = b /\ date[3] = c
  BY <1>2
<1>4. /\ IsDigits(date[1], 4) /\ IsDigits(date[2], 2) /\ IsDigits(date[3], 2)
      /\ pid = (role \o <<PidWord>>) \o date
  BY DEF MintAnchorPid
<1>5. NoPidIn(date)
  BY <1>1, <1>3 DEF NoPidIn
<1>6. pid = role \o (<<PidWord>> \o date)
  <2> DEFINE S == Words \cup {PidWord, a, b, c}
  <2>1. Words \subseteq S /\ PidWord \in S /\ {a, b, c} \subseteq S
    OBVIOUS
  <2> HIDE DEF S
  <2>2. role \in Seq(S) /\ date \in Seq(S)
    BY <1>3, <2>1, RolesAreWords, SeqMonotonic
  <2>3. <<PidWord>> \in Seq(S)
    BY <2>1
  <2>4. (role \o <<PidWord>>) \o date = role \o (<<PidWord>> \o date)
    BY <2>2, <2>3, ConcatAssociative
  <2> QED BY <1>4, <2>4
<1>7. ParsePid(pid) = ParseTail(role, date)
  BY <1>3, <1>5, <1>6, SplitOfConcat
<1> QED BY <1>3, <1>4, <1>7 DEF ParseTail

\* What MintPid returns when it returns a PID.
LEMMA MintedPidsHaveBodies ==
  ASSUME NEW role \in Roles, NEW region, NEW host \in FieldSamples, NEW act \in FieldSamples,
         NEW wave \in FieldSamples, NEW p \in FieldSamples \cup {NoField},
         NEW n \in FieldSamples \cup {NoField},
         NEW pid, pid = MintPid(role, region, host, act, wave, p, n), pid # <<>>
  PROVE  /\ ParsePid(pid) = Body(role, region, host, act, wave, p, n)
         /\ Len(pid) = Len(role) + 6 <=> p # NoField /\ n # NoField
<1>0. /\ IsField(host) /\ IsField(act) /\ IsField(wave) /\ IsField(p) /\ IsField(n)
      /\ Len(role) \in Nat
  BY SamplesAreFields, RolesAreWords
<1>1. /\ region \in Regions /\ IsHexN(host, 4) /\ IsHexN(act, 2) /\ IsHexN(wave, 3)
  BY DEF MintPid
<1>a. ShortFields(region, host, act, wave)
  BY <1>0, <1>1 DEF ShortFields
<1>2. CASE p = NoField /\ n = NoField
  <2>1. pid = ShortPid(role, region, host, act, wave)
    BY <1>1, <1>2 DEF MintPid, ShortPid
  <2>2. /\ ParsePid(pid) = Body(role, region, host, act, wave, NoField, NoField)
        /\ Len(pid) = Len(role) + 4
    BY <1>a, <2>1, ShortPidsParse
  <2> QED BY <1>0, <1>2, <2>2
<1>3. CASE ~(p = NoField /\ n = NoField)
  <2>1. LongFields(p, n) /\ pid = LongPid(role, region, host, act, wave, p, n)
    BY <1>0, <1>1, <1>3 DEF MintPid, LongFields, LongPid, ShortPid
  <2>2. p # NoField /\ n # NoField
    BY <2>1 DEF LongFields, IsHexN, NoField
  <2>3. /\ ParsePid(pid) = Body(role, region, host, act, wave, p, n)
        /\ Len(pid) = Len(role) + 6
    BY <1>a, <2>1, LongPidsParse
  <2> QED BY <2>2, <2>3
<1> QED BY <1>2, <1>3

LEMMA MintKeeps == MintAndParse \/ MintAnchor => MintedPidsParse' /\ routed'.op = "mint"
<1>1. CASE MintAndParse
  <2>1. PICK role \in Roles, region \in {"G", "X"}, host \in FieldSamples, act \in FieldSamples,
             wave \in FieldSamples, p \in FieldSamples \cup {NoField},
             n \in FieldSamples \cup {NoField} :
          LET pid == MintPid(role, region, host, act, wave, p, n)
          IN  routed' = [op |-> "mint", pid |-> pid, subclass |-> ClassifySubclass(pid),
                         strict |-> ValidatePid(pid),
                         in |-> Body(role, region, host, act, wave, p, n)]
    BY <1>1 DEF MintAndParse, Body
  <2> DEFINE pid == MintPid(role, region, host, act, wave, p, n)
             in == Body(role, region, host, act, wave, p, n)
  <2>2. routed' = [op |-> "mint", pid |-> pid, subclass |-> ClassifySubclass(pid),
                   strict |-> ValidatePid(pid), in |-> in]
    BY <2>1
  <2>3. /\ in.form = "Canonical" /\ in.role = role /\ in.p = p /\ in.n = n
    BY DEF Body
  <2>4. pid # <<>> => ParsePid(pid) = in
                      /\ (Len(pid) = Len(role) + 6 <=> p # NoField /\ n # NoField)
    BY MintedPidsHaveBodies
  <2> HIDE DEF pid, in
  <2>5. pid # <<>> =>
          /\ ClassifySubclass(pid) = IF Len(pid) = Len(in.role) + 6 THEN "RegularExtended" ELSE "Regular"
          /\ ValidatePid(pid) = "ok" <=> in.role \in KnownRoles
    BY <2>3, <2>4 DEF ClassifySubclass, ValidatePid
  <2>6. /\ routed'.op = "mint" /\ routed'.pid = pid /\ routed'.in = in
        /\ routed'.subclass = ClassifySubclass(pid) /\ routed'.strict = ValidatePid(pid)
    BY <2>2
  <2> QED BY <2>3, <2>4, <2>5, <2>6 DEF MintedPidsParse
<1>2. CASE MintAnchor
  <2>1. PICK role \in Roles, y \in FieldSamples, m \in FieldSamples, d \in FieldSamples :
          LET date == <<Word("0", y), Word("0", m), Word("0", d)>>
              pid == MintAnchorPid(role, date)
          IN  routed' = [op |-> "mint", pid |-> pid, subclass |-> ClassifySubclass(pid),
                         strict |-> ValidatePid(pid),
                         in |-> [form |-> "Anchor", role |-> role, date |-> date]]
    BY <1>2 DEF MintAnchor
  <2> DEFINE date == <<Word("0", y), Word("0", m), Word("0", d)>>
             pid == MintAnchorPid(role, date)
             in == [form |-> "Anchor", role |-> role, date |-> date]
  <2>2. routed' = [op |-> "mint", pid |-> pid, subclass |-> ClassifySubclass(pid),
                   strict |-> ValidatePid(pid), in |-> in]
    BY <2>1
  <2>3. in.form = "Anchor" /\ in.role = role
    OBVIOUS
  <2>4. pid # <<>> => ParsePid(pid) = in
    BY SamplesAreFields, AnchorsParse
  <2> HIDE DEF pid, in
  <2>5. pid # <<>> =>
          /\ ClassifySubclass(pid) = "Anchor"
          /\ ValidatePid(pid) = "ok" <=> in.role \in KnownRoles
    BY <2>3, <2>4 DEF ClassifySubclass, ValidatePid
  <2>6. /\ routed'.op = "mint" /\ routed'.pid = pid /\ routed'.in = in
        /\ routed'.subclass = ClassifySubclass(pid) /\ routed'.strict = ValidatePid(pid)
    BY <2>2
  <2> QED BY <2>3, <2>4, <2>5, <2>6 DEF MintedPidsParse
<1> QED BY <1>1, <1>2

\* A target that validate lets through resolves to a route.
LEMMA KnownPrefixesRoute ==
  ASSUME NEW prefix \in Range(TargetPrefixes)
  PROVE  ResolveTarget(prefix) # "None"
<1>1. /\ DOMAIN TargetPrefixes = 1 .. 7 /\ DOMAIN RouteKinds = 1 .. 7
      /\ \A i \in 1 .. 7 : RouteKinds[i] # "None"
  BY DEF TargetPrefixes, RouteKinds
<1>2. \E i \in DOMAIN TargetPrefixes : TargetPrefixes[i] = prefix
  BY DEF Range
<1>3. (CHOOSE i \in DOMAIN TargetPrefixes : TargetPrefixes[i] = prefix) \in DOMAIN TargetPrefixes
  BY <1>2
<1> QED BY <1>1, <1>3 DEF ResolveTarget

LEMMA RouteKeeps == RouteEnvelope => AcceptedEnvelopesRoute' /\ routed'.op = "route"
<1> SUFFICES ASSUME RouteEnvelope PROVE AcceptedEnvelopesRoute' /\ routed'.op = "route"
  OBVIOUS
<1>1. PICK e \in FedEnvelopes, v \in VerbMarks, p \in {"apex", "later"} :
        LET verdict == Validate(e)
        IN  routed' = [op |-> "route", env |-> e, verdict |-> verdict, verb |-> v,
                       priority |-> PriorityOf(p),
                       route |-> IF verdict = "ok" THEN ResolveTarget(e.prefix) ELSE "None",
                       reach |-> ClassifyVerb(v), halt |-> IsOpHaltVerb(v),
                       id |-> ComposeId(NoHint, e.caller, e.ts)]
  BY DEF RouteEnvelope
<1>2. /\ routed'.op = "route" /\ routed'.env = e /\ routed'.verdict = Validate(e)
      /\ routed'.verb = v /\ routed'.reach = ClassifyVerb(v)
      /\ routed'.route = IF Validate(e) = "ok" THEN ResolveTarget(e.prefix) ELSE "None"
  BY <1>1
<1>3. Validate(e) = "ok" => /\ e.prefix \in Range(TargetPrefixes) /\ ~(e.bytes > MaxPayload)
                            /\ e.strict => RowHashMatches(e)
  BY DEF Validate
<1>4. Validate(e) = "ok" => e.bytes <= MaxPayload
  BY <1>3, RouteAssumption
<1>5. ClassifyVerb(v) = "PostAndKick" => "HEARTBEAT" \notin v
  BY DEF ClassifyVerb
<1>6. Validate(e) = "ok" => ResolveTarget(e.prefix) # "None"
  BY <1>3, KnownPrefixesRoute
<1> QED BY <1>2, <1>3, <1>4, <1>5, <1>6 DEF AcceptedEnvelopesRoute

\* Below the full score the word's width does not bite.
LEMMA ScoresDoNotWrap ==
  ASSUME NEW a \in Nat, NEW w \in Nat, a < w
  PROVE  a % w = a
  BY Z3

LEMMA RankKeeps ==
  RankItems =>
    /\ routed'.op = "rank"
    /\ Len(routed'.top) <= routed'.n /\ Len(routed'.top) <= Len(routed'.items)
    /\ \A i \in DOMAIN routed'.top :
         /\ routed'.top[i].item = routed'.items[i]
         /\ i > 1 /\ (i - 1) * ScoreStep <= ScoreFull =>
              routed'.top[i].score < routed'.top[i - 1].score
<1> SUFFICES ASSUME RankItems
             PROVE  /\ routed'.op = "rank"
                    /\ Len(routed'.top) <= routed'.n /\ Len(routed'.top) <= Len(routed'.items)
                    /\ \A i \in DOMAIN routed'.top :
                         /\ routed'.top[i].item = routed'.items[i]
                         /\ i > 1 /\ (i - 1) * ScoreStep <= ScoreFull =>
                              routed'.top[i].score < routed'.top[i - 1].score
  OBVIOUS
<1>1. PICK len \in 0 .. MaxRanked, n \in 0 .. MaxRanked :
        routed' = [op |-> "rank", items |-> [i \in 1 .. len |-> i],
                   top |-> TopN([i \in 1 .. len |-> i], n), n |-> n]
  BY DEF RankItems
<1> DEFINE items == [i \in 1 .. len |-> i]
           top == TopN(items, n)
           k == IF n < len THEN n ELSE len
<1>2. len \in Nat /\ n \in Nat /\ k \in Nat /\ k <= n /\ k <= len
  BY RouteAssumption
<1>3. items \in Seq(Int) /\ Len(items) = len /\ \A i \in 1 .. len : items[i] = i
  BY <1>2
<1> HIDE DEF items
<1>4. top = [i \in 1 .. k |->
               [item |-> items[i], score |-> (ScoreFull - (i - 1) * ScoreStep) % ScoreWord]]
  BY <1>3 DEF TopN
<1> HIDE DEF top, k
<1>5. DOMAIN top = 1 .. k /\ Len(top) = k
  BY <1>2, <1>4
<1>6. routed'.op = "rank" /\ routed'.top = top /\ routed'.items = items /\ routed'.n = n
  BY <1>1 DEF top, items
<1>7. ASSUME NEW i \in 1 .. k
      PROVE  /\ top[i].item = items[i]
             /\ i > 1 /\ (i - 1) * ScoreStep <= ScoreFull => top[i].score < top[i - 1].score
  <2>1. top[i].item = items[i]
    BY <1>4
  <2>2. ASSUME i > 1, (i - 1) * ScoreStep <= ScoreFull
        PROVE  top[i].score < top[i - 1].score
    <3> DEFINE a == ScoreFull - (i - 1) * ScoreStep
               b == ScoreFull - ((i - 1) - 1) * ScoreStep
    <3>1. ScoreStep \in Nat \ {0} /\ ScoreFull \in Nat /\ ScoreWord \in Nat /\ ScoreFull < ScoreWord
      BY RouteAssumption
    <3>2. i - 1 \in Nat /\ (i - 1) - 1 \in Nat /\ i - 1 \in 1 .. k
      BY <1>2, <2>2
    <3>3. /\ (i - 1) * ScoreStep \in Nat /\ ((i - 1) - 1) * ScoreStep \in Nat
          /\ ((i - 1) - 1) * ScoreStep = (i - 1) * ScoreStep - ScoreStep
      BY <3>1, <3>2, Z3
    <3>4. a \in Nat /\ b \in Nat /\ a < b /\ b <= ScoreFull
      BY <2>2, <3>1, <3>3
    <3>5. top[i].score = a % ScoreWord /\ top[i - 1].score = b % ScoreWord
      BY <1>4, <3>2
    <3> HIDE DEF a, b
    <3>6. a % ScoreWord = a /\ b % ScoreWord = b
      BY <3>1, <3>4, ScoresDoNotWrap
    <3> QED BY <3>4, <3>5, <3>6
  <2> QED BY <2>1, <2>2
<1> QED BY <1>2, <1>3, <1>5, <1>6, <1>7

LEMMA PortKeeps ==
  ResolvePort => routed'.op = "port" /\ (routed'.label # <<>> => routed'.handle # 0)
<1> SUFFICES ASSUME ResolvePort
             PROVE  routed'.op = "port" /\ (routed'.label # <<>> => routed'.handle # 0)
  OBVIOUS
<1>1. PICK l \in Labels : routed' = [op |-> "port", label |-> l, handle |-> ResolveLabel(l)]
  BY DEF ResolvePort
<1>2. l # <<>> => ResolveLabel(l) # 0
  BY RouteAssumption DEF ResolveLabel
<1> QED BY <1>1, <1>2

RouteInv == RouteTypeOK /\ AddressingSound

LEMMA RouteInitial == Init => RouteInv
  BY DEF Init, RouteInit, NoRoute, RouteInv, RouteTypeOK, AddressingSound, MintedPidsParse,
       AcceptedEnvelopesRoute

LEMMA RouteStep == RouteInv /\ [Next]_serviceVars => RouteInv'
<1> SUFFICES ASSUME RouteInv, [RouteNext]_routed PROVE RouteInv'
  BY DecisionsProject
<1>1. CASE UNCHANGED routed
  BY <1>1 DEF RouteInv, RouteTypeOK, AddressingSound, MintedPidsParse, AcceptedEnvelopesRoute
<1>2. CASE RouteEnvelope
  BY <1>2, RouteKeeps DEF RouteInv, RouteTypeOK, AddressingSound, MintedPidsParse
<1>3. CASE ResolvePort
  BY <1>3, PortKeeps DEF RouteInv, RouteTypeOK, AddressingSound, MintedPidsParse,
                         AcceptedEnvelopesRoute
<1>4. CASE RankItems
  BY <1>4, RankKeeps DEF RouteInv, RouteTypeOK, AddressingSound, MintedPidsParse,
                         AcceptedEnvelopesRoute
<1>5. CASE MintAndParse \/ MintAnchor
  BY <1>5, MintKeeps DEF RouteInv, RouteTypeOK, AddressingSound, AcceptedEnvelopesRoute
<1> QED BY <1>1, <1>2, <1>3, <1>4, <1>5 DEF RouteNext

\* For any envelopes, labels, roles and fields: what is minted parses back, what
\* is accepted has a route and nothing else has one, a resolved label never gets
\* the reserved handle, and a ranking keeps its order (parse_pid, validate,
\* resolve_label, top_n_deterministic_fallback).
THEOREM AddressesAreSound == Spec => []AddressingSound
<1>1. Init => RouteInv
  BY RouteInitial
<1>2. RouteInv /\ [Next]_serviceVars => RouteInv'
  BY RouteStep
<1>3. RouteInv => AddressingSound
  BY DEF RouteInv
<1> QED BY <1>1, <1>2, <1>3, PTL DEF Spec
=============================================================================
