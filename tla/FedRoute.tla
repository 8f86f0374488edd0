------------------------------ MODULE FedRoute ------------------------------
(***************************************************************************)
(* Addresses: a federation envelope is validated and its target resolved   *)
(* (envelope/fedenv.rs), its verb decides how the peer is reached          *)
(* (bus_and_kick) and whether it halts (cycle_orch), a port label becomes  *)
(* a handle (bus_fabric), candidates are ranked (gnn), and PIDs are minted *)
(* and parsed (pid).  A PID is the sequence of words between its hyphens,  *)
(* a word its first letter, the class of the rest and its length.          *)
(***************************************************************************)
EXTENDS Integers, Sequences, FiniteSets, SequencesExt

CONSTANTS
  FedEnvelopes,     \* envelopes, one field at a time on either side of its rule
  MaxPayload,       \* MAX_PAYLOAD_BYTES
  VerbMarks,        \* verbs: sets of the words they contain
  Labels,           \* sequences of glyph indices
  MaxDepth, GlyphCount,        \* PREFIX_TREE_MAX_DEPTH, BEHCS1024_ALPHABET_SIZE
  Fnv(_),           \* fnv1a_64 on byte sequences, at a small width
  FoldedHandle,     \* 2^63: what a zero hash becomes
  ScoreFull, ScoreStep, ScoreWord,   \* 1_000_000, 1_000, 2^32
  MaxRanked,        \* bound on a list
  Roles, KnownRoles,           \* roles: sequences of words
  FieldSamples      \* [cls, len] given for the fields of a PID

ASSUME RouteAssumption ==
  /\ GlyphCount \in Nat /\ MaxDepth \in Nat /\ FoldedHandle # 0
  /\ ScoreStep \in Nat \ {0} /\ ScoreFull \in Nat /\ ScoreWord \in Nat /\ ScoreWord > ScoreFull
  /\ MaxRanked \in Nat /\ MaxPayload \in Nat /\ \A e \in FedEnvelopes : e.bytes \in Nat
  \* the text of a role has at least one word, be it an empty one
  /\ Roles \subseteq Seq([head : STRING, cls : STRING, len : Nat]) /\ <<>> \notin Roles
  /\ FieldSamples \subseteq [cls : STRING, len : Nat]

VARIABLE routed    \* the last request and what became of it

NoRoute == [op |-> "none"]
RouteInit == routed = NoRoute

-----------------------------------------------------------------------------
(* fedenv *)

TargetPrefixes == <<"pid:H", "cli:", "citizen:", "antigravity:", "daemon:", "google:", "meta:">>
RouteKinds == <<"PidRouted", "Cli", "Citizen", "Antigravity", "Daemon", "Google", "Meta">>

\* cube_47d_ok: six segments, each one digit 0 to 7
CubeOk(c) == Len(c) = 6 /\ \A i \in 1 .. 6 : c[i] \in 0 .. 7

\* is_hex16, the field given as [cls, len]
IsHex16(f) == f.cls \in {"dec", "lowerhex"} /\ f.len = 16

\* The text row_hash is derived from: four fields without separators.
RowText(e) == <<"FEDENV|">> \o e.caller \o e.verb \o e.payload \o e.ts

\* row_hash_matches, in strict mode
RowHashMatches(e) == e.hashOf = RowText(e)

\* The time to live, in seconds: more than nothing, at most a day
MaxTtl == 86400
TtlOk(ttl) == ttl \in 1 .. MaxTtl

\* validate: the first rule that fails names the reason.
Validate(e) ==
  IF e.missing THEN "Malformed"
  ELSE IF e.prefix \notin Range(TargetPrefixes) THEN "UnresolvableTarget"
  ELSE IF e.bytes > MaxPayload THEN "PayloadTooLarge"
  ELSE IF ~CubeOk(e.cube) \/ e.glyphs < 5 \/ ~TtlOk(e.ttl)
            \/ ~IsHex16(e.rowHash) \/ ~IsHex16(e.antecedents) THEN "Malformed"
  ELSE IF ~e.window THEN "ExpiredCosign"
  ELSE IF e.strict /\ ~RowHashMatches(e) THEN "RowHashMismatch"
  ELSE "ok"

\* resolve_target
ResolveTarget(prefix) ==
  IF prefix \in Range(TargetPrefixes)
  THEN RouteKinds[CHOOSE i \in DOMAIN TargetPrefixes : TargetPrefixes[i] = prefix]
  ELSE "None"

\* priority_of
PriorityOf(p) == IF p \in {"apex", "high", "low"} THEN p ELSE "normal"

\* classify_verb: a heartbeat word wins over a kick word
ClassifyVerb(marks) ==
  IF marks \cap {"HEARTBEAT", "PULSE_LOOP", "STEADY"} # {} THEN "Heartbeat"
  ELSE IF marks \cap {"ACTIONABLE", "DIRECTIVE", "WAKE", "ALERT", "KICK_REQUIRED"} # {}
  THEN "PostAndKick" ELSE "BusOnly"

\* ComposedEnvelope::compose: the id is the hint or the sender and the time
NoHint == <<"no hint">>
ComposeId(hint, from, ts) == IF hint # NoHint THEN hint ELSE from \o <<"-batk-">> \o ts

\* is_op_halt_verb
IsOpHaltVerb(marks) ==
  marks \in {{"=OP-HALT"}, {"=EVT-HALT"}} \/ {"^EVT-", "-HALT-EMIT$"} \subseteq marks

RouteEnvelope ==
  \E e \in FedEnvelopes, v \in VerbMarks, p \in {"apex", "later"} :
    LET verdict == Validate(e)
    IN  routed' = [op |-> "route", env |-> e, verdict |-> verdict, verb |-> v,
                   priority |-> PriorityOf(p),
                   route |-> IF verdict = "ok" THEN ResolveTarget(e.prefix) ELSE "None",
                   reach |-> ClassifyVerb(v), halt |-> IsOpHaltVerb(v),
                   id |-> ComposeId(NoHint, e.caller, e.ts)]

-----------------------------------------------------------------------------
(* bus_fabric and gnn *)

\* canonical_glyph_bytes: two bytes a level, big-endian
GlyphBytes(levels) ==
  [i \in 1 .. 2 * Len(levels) |->
     IF i % 2 = 1 THEN levels[(i + 1) \div 2] \div 256 ELSE levels[i \div 2] % 256]

\* resolve_label, prefix_tree_walk; -1 and -2 are its two errors
ResolveLabel(levels) ==
  IF Len(levels) > MaxDepth THEN -1
  ELSE IF \E i \in DOMAIN levels : levels[i] >= GlyphCount THEN -2
  ELSE IF Fnv(GlyphBytes(levels)) = 0 /\ levels # <<>> THEN FoldedHandle
  ELSE Fnv(GlyphBytes(levels))

ResolvePort ==
  \E l \in Labels : routed' = [op |-> "port", label |-> l, handle |-> ResolveLabel(l)]

\* top_n_deterministic_fallback: input order, scores that go down by a step, in
\* u32 (a build with overflow checks stops instead of wrapping)
TopN(items, n) ==
  [i \in 1 .. (IF n < Len(items) THEN n ELSE Len(items)) |->
     [item |-> items[i], score |-> (ScoreFull - (i - 1) * ScoreStep) % ScoreWord]]

\* rank_top_n, and sys_gnn_infer, whose unloaded model always answers Local
RankItems ==
  \E len, n \in 0 .. MaxRanked :
    routed' = [op |-> "rank", items |-> [i \in 1 .. len |-> i],
               top |-> TopN([i \in 1 .. len |-> i], n), n |-> n]

-----------------------------------------------------------------------------
(* pid *)

Word(head, f) == [head |-> head, cls |-> f.cls, len |-> f.len + 1]
PidWord == [head |-> "P", cls |-> "other", len |-> 3]

IsHexN(f, n) == f.cls \in {"dec", "hex", "lowerhex"} /\ f.len = n
RestOf(w) == [cls |-> w.cls, len |-> w.len - 1]
IsDigits(w, n) == w.head = "0" /\ w.cls = "dec" /\ w.len = n
Regions == {"G", "H", "F", "D"}

\* The body of a PID: what mint_pid and mint_pid_extended check and parse_pid
\* finds; p and n are NoField in the short form.
NoField == [cls |-> "none", len |-> 0]

\* mint_pid, mint_pid_extended
MintPid(role, region, host, act, wave, p, n) ==
  IF region \notin Regions \/ ~IsHexN(host, 4) \/ ~IsHexN(act, 2) \/ ~IsHexN(wave, 3) THEN <<>>
  ELSE LET short == role \o <<PidWord, Word(region, host), Word("A", act), Word("W", wave)>>
       IN  IF p = NoField /\ n = NoField THEN short
           ELSE IF ~IsHexN(p, 2) \/ ~IsHexN(n, 5) THEN <<>>
           ELSE short \o <<Word("P", p), Word("N", n)>>

\* mint_anchor_pid: ten characters, hyphens in place, digits around them
MintAnchorPid(role, date) ==
  IF Len(date) = 3 /\ IsDigits(date[1], 4) /\ IsDigits(date[2], 2) /\ IsDigits(date[3], 2)
  THEN role \o <<PidWord>> \o date ELSE <<>>

\* Mutant: the first "-PID-" splits the text.
PidSplitFirst(pid) ==
  LET at == {i \in 2 .. Len(pid) - 1 : pid[i] = PidWord}
  IN  IF at = {} THEN 0 ELSE Min(at)

\* rfind("-PID-"): the last word PID with a word on each side, 0 if there is none
PidSplit(pid) ==
  LET at == {i \in 2 .. Len(pid) - 1 : pid[i] = PidWord}
  IN  IF at = {} THEN 0 ELSE Max(at)

\* The words after the split: an anchor if they are a date, otherwise three or
\* five tagged words.
ParseTail(role, t) ==
  LET tag(i, head, n) == t[i].head = head /\ IsHexN(RestOf(t[i]), n)
  IN  IF Len(t) = 3 /\ IsDigits(t[1], 4) /\ IsDigits(t[2], 2) /\ IsDigits(t[3], 2)
      THEN [form |-> "Anchor", role |-> role, date |-> t]
      ELSE IF Len(t) \notin {3, 5} \/ t[1].len # 5 THEN [form |-> "MalformedFormat"]
      ELSE IF t[1].head \notin Regions THEN [form |-> "InvalidRegion"]
      ELSE IF ~IsHexN(RestOf(t[1]), 4) THEN [form |-> "InvalidHostCode"]
      ELSE IF ~tag(2, "A", 2) THEN [form |-> "InvalidActivity"]
      ELSE IF ~tag(3, "W", 3) THEN [form |-> "InvalidWave"]
      ELSE IF Len(t) = 5 /\ ~tag(4, "P", 2) THEN [form |-> "InvalidProcess"]
      ELSE IF Len(t) = 5 /\ ~tag(5, "N", 5) THEN [form |-> "InvalidNonce"]
      ELSE [form |-> "Canonical", role |-> role, region |-> t[1].head, host |-> RestOf(t[1]),
            act |-> RestOf(t[2]), wave |-> RestOf(t[3]),
            p |-> IF Len(t) = 5 THEN RestOf(t[4]) ELSE NoField,
            n |-> IF Len(t) = 5 THEN RestOf(t[5]) ELSE NoField]

\* parse_pid
ParsePid(pid) ==
  LET at == PidSplit(pid)
  IN  IF at = 0 THEN [form |-> "MalformedFormat"]
      ELSE ParseTail(SubSeq(pid, 1, at - 1), SubSeq(pid, at + 1, Len(pid)))

\* validate_pid with strict_role
ValidatePid(pid) ==
  LET parsed == ParsePid(pid)
  IN  IF parsed.form \notin {"Anchor", "Canonical"} THEN parsed.form
      ELSE IF parsed.role \notin KnownRoles THEN "UnknownRole" ELSE "ok"

\* classify_subclass
ClassifySubclass(pid) ==
  LET parsed == ParsePid(pid)
  IN  CASE parsed.form = "Anchor" -> "Anchor"
        [] parsed.form = "Canonical" -> IF parsed.p # NoField /\ parsed.n # NoField
                                        THEN "RegularExtended" ELSE "Regular"
        [] OTHER -> "Pending"

MintAndParse ==
  \E role \in Roles, region \in {"G", "X"}, host, act, wave \in FieldSamples,
     p, n \in FieldSamples \cup {NoField} :
    LET pid == MintPid(role, region, host, act, wave, p, n)
    IN  routed' = [op |-> "mint", pid |-> pid, subclass |-> ClassifySubclass(pid),
                   strict |-> ValidatePid(pid),
                   in |-> [form |-> "Canonical", role |-> role, region |-> region, host |-> host,
                           act |-> act, wave |-> wave, p |-> p, n |-> n]]

MintAnchor ==
  \E role \in Roles, y, m, d \in FieldSamples :
    LET date == <<Word("0", y), Word("0", m), Word("0", d)>>
        pid == MintAnchorPid(role, date)
    IN  routed' = [op |-> "mint", pid |-> pid, subclass |-> ClassifySubclass(pid),
                   strict |-> ValidatePid(pid),
                   in |-> [form |-> "Anchor", role |-> role, date |-> date]]

\* The operations keep no state, so one of them makes a behaviour.
RouteNext ==
  /\ routed = NoRoute
  /\ RouteEnvelope \/ ResolvePort \/ RankItems \/ MintAndParse \/ MintAnchor

-----------------------------------------------------------------------------
RouteTypeOK == routed.op \in {"none", "route", "port", "rank", "mint"}

\* A minted PID parses back to the fields it was minted from, whatever words its
\* role has, its subclass is the form it was minted in, and only a known role
\* passes the strict check (mint_pid, mint_pid_extended, mint_anchor_pid,
\* parse_pid, classify_subclass, validate_pid).
MintedPidsParse ==
  routed.op = "mint" /\ routed.pid # <<>> =>
    /\ ParsePid(routed.pid) = routed.in
    /\ routed.subclass = (IF routed.in.form = "Anchor" THEN "Anchor"
                          ELSE IF Len(routed.pid) = Len(routed.in.role) + 6
                          THEN "RegularExtended" ELSE "Regular")
    /\ (routed.strict = "ok") <=> (routed.in.role \in KnownRoles)

\* An accepted envelope has a route, fits, and in strict mode carries the hash
\* of its own text; no rejected one is routed; nobody kicks for a heartbeat.
AcceptedEnvelopesRoute ==
  routed.op = "route" =>
    /\ (routed.verdict = "ok") <=> (routed.route # "None")
    /\ routed.verdict = "ok" =>
         routed.env.bytes <= MaxPayload /\ (routed.env.strict => RowHashMatches(routed.env))
    /\ routed.reach = "PostAndKick" => "HEARTBEAT" \notin routed.verb

\* Addresses are sound: the two above; a label that resolves never gets the
\* reserved handle; a ranking keeps the order of its input, at most n of them,
\* with scores that fall until they have used up the full score (resolve_label, top_n_deterministic_fallback).
AddressingSound ==
  /\ MintedPidsParse /\ AcceptedEnvelopesRoute
  /\ routed.op = "port" /\ routed.label # <<>> => routed.handle # 0
  /\ routed.op = "rank" =>
       /\ Len(routed.top) <= routed.n /\ Len(routed.top) <= Len(routed.items)
       /\ \A i \in DOMAIN routed.top :
            /\ routed.top[i].item = routed.items[i]
            /\ i > 1 /\ (i - 1) * ScoreStep <= ScoreFull =>
                 routed.top[i].score < routed.top[i - 1].score
=============================================================================
