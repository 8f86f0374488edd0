----------------------------- MODULE CosignChain -----------------------------
(***************************************************************************)
(* The cosign chain (src/kernel/core/src/cosign_chain/mod.rs): rows linked *)
(* by the hash of their canonical bytes, validated end to end when they    *)
(* come back from storage; and the process-wide sequence that              *)
(* sys_cosign_append and hookwall_post draw from.  A hash is modelled by   *)
(* its preimage, which for a row is the text row|ts|prev|kind|payload: kind *)
(* and payload are sequences of tokens, the separator among them, because  *)
(* nothing keeps a kind from containing it.                                *)
(***************************************************************************)
EXTENDS Integers, Sequences

CONSTANTS
  Texts,       \* kinds and payloads a caller may use, as sequences of tokens
  ChainMax,    \* bound on the rows of the chain
  RowLens,     \* lengths of rows given to sys_cosign_append
  HookSlots,   \* slots given to hookwall_post
  SeqMax       \* bound on the process-wide sequence

Genesis == <<>>
Sep == "|payload="

ASSUME ChainAssumption == ChainMax \in Nat /\ SeqMax \in Nat /\ <<>> \in Texts

VARIABLES
  chain,      \* rows: Vec<CosignRow>, as storage holds them
  headHash,   \* head_sha16
  nextRow,    \* next_row
  draft,      \* a row a caller has prepared from head() and next_row()
  appended,   \* rows as they were appended (history variable)
  seq,        \* APPEND_SEQ_COUNTER
  issued      \* what each sequence number was given to (history variable)

chainVars == <<chain, headHash, nextRow, draft, appended, seq, issued>>

\* canonical_bytes_of_row and sha16_of
RowHash(r) == <<r.row, r.prev>> \o r.kind \o <<Sep>> \o r.payload

NoDraft == [row |-> 0, prev |-> Genesis, kind |-> <<>>, payload |-> <<>>]

ChainInit ==
  /\ chain = <<>> /\ headHash = Genesis /\ nextRow = 1
  /\ draft = NoDraft /\ appended = <<>>
  /\ seq = 0 /\ issued = <<>>

\* A caller reads head() and next_row() and fills in the rest.
PrepareRow ==
  /\ \E k, p \in Texts :
       draft' = [row |-> nextRow, prev |-> headHash, kind |-> k, payload |-> p]
  /\ UNCHANGED <<chain, headHash, nextRow, appended, seq, issued>>

Accepts(r) == r.row = nextRow /\ r.prev = headHash /\ r.kind # <<>>

\* CosignChain::append; a row that is out of date or has no kind is refused
\* and may be offered again.
AppendRow ==
  /\ draft # NoDraft /\ Len(chain) < ChainMax
  /\ Accepts(draft)
  /\ chain' = Append(chain, draft)
  /\ appended' = Append(appended, draft)
  /\ headHash' = RowHash(draft)
  /\ nextRow' = nextRow + 1
  /\ UNCHANGED <<draft, seq, issued>>

\* Storage returns another row than the one that was kept.
CorruptRow ==
  /\ chain = appended
  /\ \E i \in DOMAIN chain, k, p \in Texts :
       chain' = [chain EXCEPT ![i].kind = k, ![i].payload = p]
  /\ UNCHANGED <<headHash, nextRow, draft, appended, seq, issued>>

\* Mutant: the hash of the previous row is not derived again.
ValidateNumbers(rows) ==
  \A i \in DOMAIN rows : rows[i].row = i /\ rows[i].kind # <<>>

\* validate_end_to_end: the first row links to the genesis hash, every other
\* row to the hash of the row before it; the head is not compared.
ValidateEndToEnd(rows) ==
  \A i \in DOMAIN rows :
    /\ rows[i].row = i
    /\ rows[i].prev = (IF i = 1 THEN Genesis ELSE RowHash(rows[i - 1]))
    /\ rows[i].kind # <<>>

-----------------------------------------------------------------------------
(* The process-wide sequence *)

\* cosign_chain::append
AppendSeq(what) ==
  /\ seq < SeqMax
  /\ seq' = seq + 1
  /\ issued' = Append(issued, what)
  /\ UNCHANGED <<chain, headHash, nextRow, draft, appended>>

\* sys_cosign_append refuses a row of less than 16 bytes before the chain.
SysCosignAppend == \E len \in RowLens : len >= 16 /\ AppendSeq([kind |-> "row", bytes |-> len])

\* hookwall_post: a slot in range gets the 16 bytes of compose_verdict_row.
HookwallPost == \E slot \in HookSlots : slot < 64 /\ AppendSeq([kind |-> "verdict", bytes |-> 16])

\* The rows and the sequence share nothing.
ChainNext == PrepareRow \/ AppendRow \/ CorruptRow
SequenceNext == SysCosignAppend \/ HookwallPost

-----------------------------------------------------------------------------
ChainTypeOK ==
  /\ Len(chain) <= ChainMax /\ Len(appended) = Len(chain)
  /\ nextRow = Len(chain) + 1
  /\ seq = Len(issued)
  /\ \A i \in DOMAIN issued : issued[i].bytes >= 16

\* Validation tells a chain that is not the one appended: if it accepts the
\* stored rows, every row but the last has the canonical text it was appended
\* with.  The last row is linked by nobody, and a kind that contains the
\* separator can trade text with its payload unseen (append,
\* validate_end_to_end, canonical_bytes_of_row).
ValidationTellsTampering ==
  ValidateEndToEnd(chain) =>
    \A i \in 1 .. Len(chain) - 1 : RowHash(chain[i]) = RowHash(appended[i])
=============================================================================
