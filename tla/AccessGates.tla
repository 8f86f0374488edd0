----------------------------- MODULE AccessGates -----------------------------
(***************************************************************************)
(* The kernel's admission decisions: envelope signatures and the sign gate *)
(* (crypto, sign_gate), the spawn gate over hookwall_pre (spawn_gate), the *)
(* tier gate and the transit between tiers (tier, tier_gate, highway,      *)
(* transit), and the novelty gate of the reflection room.  Texts are       *)
(* sequences of tokens; a tag is the set of words it contains; a signature *)
(* is the pair of public key and text it was computed over.                *)
(***************************************************************************)
EXTENDS Integers, Sequences, FiniteSets

CONSTANTS
  Seeds,          \* private keys
  Envelopes,      \* [type, verb, id, payload], each a sequence of tokens
  MaxSigned,      \* bound on the signatures of a behaviour
  EventTags,      \* hookwall event tags: sets of words
  EnvvarNames,    \* sequences over {"VIRUS", "upper", "digit", "other"}
  PathMarks,      \* sets of the marks classify_path looks for
  TransitSizes,   \* envelope sizes, in units that make MaxTransit exact
  MaxTransit,     \* MAX_TRANSIT_ENVELOPE_BYTES
  MaxTransits,    \* bound on the transits of a behaviour
  Similarities,   \* similarity_bps an external evaluator reports
  Epsilon, SaturationLimit, RunMax,   \* NoveltyGate's settings, u8::MAX
  MaxObservations \* bound on the observations of a behaviour

VARIABLES
  posted,       \* [seed, text] signed by the seed's owner so far (history variable)
  resigned,     \* [seed, text] signed by a carrier from the public key (history variable)
  carried,      \* the envelope on its way: [text, sig]
  decision,     \* the last decision taken, with its inputs
  transits,     \* transit ids given out, with their requests (history variable)
  nextTransit,  \* NEXT_TRANSIT_ID
  lowRun,       \* low_novelty_run
  observed      \* novelty values observed (history variable)

gateVars == <<posted, resigned, carried, decision, transits, nextTransit, lowRun, observed>>

ASSUME GateAssumption ==
  /\ SaturationLimit \in 1 .. RunMax /\ RunMax \in Nat
  /\ MaxTransit \in Nat /\ MaxTransits \in Nat /\ MaxObservations \in Nat
  /\ MaxSigned \in Nat
  /\ TransitSizes \subseteq Nat /\ Similarities \subseteq Nat /\ Epsilon \in Nat

NoEnvelope == [text |-> <<>>, sig |-> <<>>]
Undecided == [gate |-> "none"]

GatesInit ==
  /\ posted = {} /\ resigned = {} /\ carried = NoEnvelope /\ decision = Undecided
  /\ transits = <<>> /\ nextTransit = 1
  /\ lowRun = 0 /\ observed = <<>>

-----------------------------------------------------------------------------
(* crypto and sign_gate *)

\* canonical_envelope_bytes: refused without a type or an id.  Nothing keeps a
\* field from holding the separator.
Canonical(e) ==
  <<"from|to|">> \o e.type \o <<"|">> \o e.verb \o <<"|">> \o e.id \o <<"|ts|">> \o e.payload

Canonizes(e) == e.type # <<>> /\ e.id # <<>>

DerivePublic(seed) == <<"public", seed>>
ExpectedSig(public, text) == <<public, text>>
SignText(text, seed) == ExpectedSig(DerivePublic(seed), text)
VerifySig(text, sig, public) == sig = ExpectedSig(public, text)

\* verify_envelope_signature
SignatureAccepted(text, sig, public, alg) ==
  text # <<>> /\ alg = "ed25519" /\ VerifySig(text, sig, public)

DefaultDenies == {"HD-virus", "drift", "malformed-PID", "unknown-cube", "off-fabric"}

\* deny_check: no tag contains a denied word
DenyCheck(tags) == \A t \in tags : t \cap DefaultDenies = {}

\* task_39_envvar_virus_allow
EnvvarAllowed(name) ==
  /\ name # <<>> /\ name[1] \in {"upper", "VIRUS"}
  /\ \A i \in DOMAIN name : name[i] \in {"upper", "VIRUS", "digit"}
  /\ \E i \in DOMAIN name : name[i] = "VIRUS"

\* gate_envelope
GateEnvelope(text, sig, public, alg, tags, names) ==
  LET valid == SignatureAccepted(text, sig, public, alg)
      clean == DenyCheck(tags)
      rescued == ~clean /\ \E n \in names : EnvvarAllowed(n)
  IN  [admitted |-> valid /\ (clean \/ rescued), valid |-> valid, clean |-> clean,
       rescued |-> rescued,
       reason |-> IF ~valid THEN "signature-invalid"
                  ELSE IF ~clean /\ ~rescued THEN "deny-tag-matched-no-allow-rescue"
                  ELSE IF rescued THEN "deny-tag-matched-but-allow-rescued"
                  ELSE "admitted-clean"]

MaySign == Cardinality(posted) + Cardinality(resigned) < MaxSigned

\* A sender signs an envelope and hands it to a carrier.
PostEnvelope ==
  /\ MaySign
  /\ \E e \in Envelopes, s \in Seeds :
       /\ Canonizes(e)
       /\ posted' = posted \cup {[seed |-> s, text |-> Canonical(e)]}
       /\ carried' = [text |-> Canonical(e), sig |-> SignText(Canonical(e), s)]
  /\ UNCHANGED <<resigned, decision, transits, nextTransit, lowRun, observed>>

\* The carrier delivers other bytes than it was given.
CarrierAlters ==
  /\ carried # NoEnvelope
  /\ \E e \in Envelopes : Canonizes(e) /\ carried' = [carried EXCEPT !.text = Canonical(e)]
  /\ UNCHANGED <<posted, resigned, decision, transits, nextTransit, lowRun, observed>>

\* The signature is computed from the public key and the message, so a carrier
\* that knows the key can sign what it likes.
CarrierResigns ==
  /\ MaySign
  /\ \E e \in Envelopes, s \in Seeds :
       /\ Canonizes(e)
       /\ resigned' = resigned \cup {[seed |-> s, text |-> Canonical(e)]}
       /\ carried' = [text |-> Canonical(e), sig |-> ExpectedSig(DerivePublic(s), Canonical(e))]
  /\ UNCHANGED <<posted, decision, transits, nextTransit, lowRun, observed>>

GateCarried ==
  /\ carried # NoEnvelope
  /\ \E s \in Seeds, alg \in {"ed25519", "other"}, t \in EventTags, n \in EnvvarNames :
       decision' = [gate |-> "sign", seed |-> s, text |-> carried.text, tags |-> {t},
                    names |-> {n},
                    verdict |-> GateEnvelope(carried.text, carried.sig, DerivePublic(s), alg,
                                             {t}, {n})]
  /\ UNCHANGED <<posted, resigned, carried, transits, nextTransit, lowRun, observed>>

-----------------------------------------------------------------------------
(* spawn_gate over hookwall_pre *)

HookTiers == {"Micro", "Cosign", "Firmware"}

\* hookwall_pre; an out-of-range slot is an error
HookwallPre(slot, tier) ==
  IF slot >= 64 THEN "error"
  ELSE CASE tier = "Micro" -> "Proceed" [] tier = "Cosign" -> "Hold" [] tier = "Firmware" -> "Block"

\* Mutant: the scores are looked at before the tier, and hold.
SpawnGateScoreFirst(in) ==
  IF ~DenyCheck(in.tags) THEN "Block"
  ELSE IF ~(in.score >= 720 /\ in.risk <= 280) THEN "Hold"
  ELSE IF HookwallPre(in.slot, in.tier) = "error" THEN "Block"
  ELSE HookwallPre(in.slot, in.tier)

\* spawn_gate_verdict: tags, then the hookwall, then the scores.
SpawnGateVerdict(in) ==
  IF ~DenyCheck(in.tags) THEN "Block"
  ELSE LET pre == HookwallPre(in.slot, in.tier)
       IN  IF pre = "error" THEN "Block"
           ELSE IF pre # "Proceed" THEN pre
           ELSE IF in.score >= 720 /\ in.risk <= 280 THEN "Proceed" ELSE "Hold"

GateSpawn ==
  /\ \E in \in [slot : {63, 64}, tier : HookTiers, tags : {{t} : t \in EventTags},
                score : {719, 720}, risk : {280, 281}] :
       decision' = [gate |-> "spawn", in |-> in, verdict |-> SpawnGateVerdict(in)]
  /\ UNCHANGED <<posted, resigned, carried, transits, nextTransit, lowRun, observed>>

-----------------------------------------------------------------------------
(* tier, tier_gate, highway, transit *)

Tiers == {"Public", "Restricted", "Stealth", "Hidden", "Shadow", "Secret", "Sovereignty"}

TierRank(t) ==
  CASE t = "Public" -> 0 [] t = "Restricted" -> 1 [] t = "Stealth" -> 2 [] t = "Hidden" -> 3
    [] t = "Shadow" -> 4 [] t = "Secret" -> 5 [] t = "Sovereignty" -> 6

\* classify_path: the first mark that matches decides, in this order.
ClassifyPath(marks) ==
  IF "empty or NUL" \in marks THEN "malformed"
  ELSE IF "quarantine" \in marks THEN "Hidden"
  ELSE IF "sovlinux" \in marks THEN "Shadow"
  ELSE IF "vault/secret" \in marks THEN "Secret"
  ELSE IF "stealth" \in marks THEN "Stealth"
  ELSE IF "restricted" \in marks THEN "Restricted"
  ELSE "Public"

\* check
TierGateCheck(caller, target) ==
  IF target = "Sovereignty" /\ caller # "Sovereignty" THEN "Deny"
  ELSE CASE caller = "Sovereignty" -> "Allow"
         [] caller = "Public" -> IF TierRank(target) <= 1 THEN "Allow" ELSE "Deny"
         [] caller = "Restricted" -> IF TierRank(target) <= 2 THEN "Allow" ELSE "Escalate"
         [] caller \in {"Stealth", "Hidden"} ->
              IF TierRank(target) <= TierRank(caller) THEN "Allow" ELSE "Escalate"
         [] caller \in {"Shadow", "Secret"} ->
              IF TierRank(target) <= TierRank(caller) THEN "Allow" ELSE "Deny"

\* sys_tier_query names the tier of a path, the tier gate decides on it.
GatePath ==
  /\ \E caller \in Tiers, marks \in PathMarks :
       LET tier == ClassifyPath(marks)
       IN  decision' = [gate |-> "path", caller |-> caller, marks |-> marks, tier |-> tier,
                        verdict |-> IF tier = "malformed" THEN "Invalid"
                                    ELSE TierGateCheck(caller, tier)]
  /\ UNCHANGED <<posted, resigned, carried, transits, nextTransit, lowRun, observed>>

GateTier ==
  /\ \E caller, target \in Tiers :
       decision' = [gate |-> "tier", caller |-> caller, target |-> target,
                    verdict |-> TierGateCheck(caller, target)]
  /\ UNCHANGED <<posted, resigned, carried, transits, nextTransit, lowRun, observed>>

\* quintuple_auth_covers answers true for every tier
QuintupleAuthCovers(t) == t \in Tiers

\* check_transit; it looks the policies of both tiers up and drops them
CheckTransit(from, to) ==
  IF from = to THEN "SameTier"
  ELSE IF ~QuintupleAuthCovers(to) THEN "unauthorized" ELSE "authorized"

\* transit::execute: size, then tiers, then the next id
TransitVerdict(r) ==
  IF r.size > MaxTransit THEN "OversizedPayload"
  ELSE IF CheckTransit(r.from, r.to) = "SameTier" THEN "TierMismatch"
  ELSE IF CheckTransit(r.from, r.to) = "unauthorized" THEN "QuintupleAuthRequired"
  ELSE "ok"

ExecuteTransit ==
  /\ Len(transits) < MaxTransits
  /\ \E r \in [from : Tiers, to : Tiers, size : TransitSizes] :
       /\ decision' = [gate |-> "transit", in |-> r, verdict |-> TransitVerdict(r)]
       /\ IF TransitVerdict(r) = "ok"
          THEN /\ transits' = Append(transits, nextTransit)
               /\ nextTransit' = nextTransit + 1
          ELSE UNCHANGED <<transits, nextTransit>>
  /\ UNCHANGED <<posted, resigned, carried, lowRun, observed>>

-----------------------------------------------------------------------------
(* NoveltyGate::observe_similarity *)

Novelty(similarity) == 10000 - similarity

\* A similarity above 10000 is an error that leaves the run alone.
ObserveNovelty ==
  /\ Len(observed) < MaxObservations
  /\ \E sim \in Similarities :
       LET v == Novelty(sim)
           run == IF v < Epsilon THEN (IF lowRun < RunMax THEN lowRun + 1 ELSE lowRun) ELSE 0
       IN  IF sim > 10000
           THEN /\ decision' = [gate |-> "novelty", verdict |-> "SimilarityOutOfRange"]
                /\ UNCHANGED <<lowRun, observed>>
           ELSE /\ lowRun' = run
                /\ observed' = Append(observed, v)
                /\ decision' = [gate |-> "novelty",
                                verdict |-> IF v >= Epsilon THEN "Continue"
                                            ELSE IF run >= SaturationLimit THEN "Saturated"
                                            ELSE "LowNovelty"]
  /\ UNCHANGED <<posted, resigned, carried, transits, nextTransit>>

\* The gates share no state but the last decision, which each overwrites.
SignNext == PostEnvelope \/ CarrierAlters \/ CarrierResigns \/ GateCarried
PolicyNext == GateSpawn \/ GatePath \/ GateTier
TransitNext == ExecuteTransit
NoveltyNext == ObserveNovelty

-----------------------------------------------------------------------------
GatesTypeOK ==
  /\ nextTransit = Len(transits) + 1
  /\ lowRun \in 0 .. RunMax
  /\ decision.gate \in {"none", "sign", "spawn", "path", "tier", "transit", "novelty"}

\* An envelope is admitted only with the very text its signature was computed
\* over, whatever became of it on the way -- by the owner of the key, or, as the
\* Phase-1 signature needs no secret, by anyone who knows the public key: the
\* gate tells a changed text from the signed one, not who signed it.  A denied
\* word in a tag is only passed over for a variable name that is allowed
\* (expected_sig_bytes, verify_envelope_signature, deny_check, gate_envelope).
SignedAdmission ==
  decision.gate = "sign" /\ decision.verdict.admitted =>
    /\ [seed |-> decision.seed, text |-> decision.text] \in posted \cup resigned
    /\ \A t \in decision.tags :
         t \cap DefaultDenies # {} => \E n \in decision.names : EnvvarAllowed(n)

\* The strictest of the gates a spawn passes wins, whichever is asked first
\* (spawn_gate_verdict).
StrictestWins ==
  decision.gate = "spawn" =>
    LET in == decision.in
        blocks == ~DenyCheck(in.tags) \/ in.slot >= 64 \/ in.tier = "Firmware"
        holds == in.tier = "Cosign" \/ in.score < 720 \/ in.risk > 280
    IN  decision.verdict = IF blocks THEN "Block" ELSE IF holds THEN "Hold" ELSE "Proceed"

\* A caller of a higher tier is allowed whatever a lower one is, nobody but the
\* top tier is allowed or may escalate to it, and no path without a mark of a
\* higher tier is refused (check, classify_path).
TiersNest ==
  /\ decision.gate = "tier" =>
       /\ decision.verdict = "Allow" =>
            \A c \in Tiers : TierRank(c) >= TierRank(decision.caller)
                               => TierGateCheck(c, decision.target) = "Allow"
       /\ decision.target = "Sovereignty" /\ decision.caller # "Sovereignty"
            => decision.verdict = "Deny"
  /\ decision.gate = "path" /\ decision.marks = {} => decision.verdict = "Allow"

\* A saturated verdict comes exactly when the last SaturationLimit observations
\* were all below epsilon, also when the counter has reached its width
\* (observe_similarity).
SaturationIsEarned ==
  decision.gate = "novelty" /\ decision.verdict # "SimilarityOutOfRange" =>
    LET n == Len(observed)
        low(k) == n >= k /\ \A i \in n - k + 1 .. n : observed[i] < Epsilon
    IN  /\ (decision.verdict = "Saturated") <=> low(SaturationLimit)
        /\ (decision.verdict = "Continue") <=> ~low(1)

\* Every admission decision is one its inputs justify.  Transits get ids in order,
\* one each, and are refused for equal tiers or the size budget and for nothing
\* else: a transit into Sovereignty is authorised from every tier below, all of
\* which the tier gate denies it (quintuple_auth_covers, check_transit, execute).
AdmissionSound ==
  /\ SignedAdmission /\ StrictestWins /\ TiersNest /\ SaturationIsEarned
  /\ \A i \in DOMAIN transits : transits[i] = i
  /\ decision.gate = "transit" =>
       (decision.verdict = "ok" <=>
          decision.in.from # decision.in.to /\ decision.in.size <= MaxTransit)
=============================================================================
