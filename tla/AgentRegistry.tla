---------------------------- MODULE AgentRegistry ----------------------------
(***************************************************************************)
(* AgentRegistry in src/kernel/core/src/agent_runtime/mod.rs: entries are  *)
(* appended and never removed, a retired one frees its place in the count, *)
(* and callers name an agent by a pid that is a 48-bit hash, so that two   *)
(* entries may carry the same one.                                         *)
(***************************************************************************)
EXTENDS Integers, Sequences, FiniteSets

CONSTANTS
  Kinds,          \* [role, vantage, tier] that callers register
  PidHash,        \* PidHash[h][k]: low 48 bits of fnv1a64 for handle h, kind k
  RegistryMax,    \* AGENT_REGISTRY_MAX
  MaxEntries,     \* bound on the entries of a behaviour
  MaxNotes,       \* bound on the note_ counters
  Stamps          \* values of now_ns

ASSUME RegistryAssumption == RegistryMax \in Nat /\ MaxEntries \in Nat /\ MaxNotes \in Nat

VARIABLES
  entries,    \* Vec<AgentEntry>
  counters    \* DispatchCounters

registryVars == <<entries, counters>>

Classes == {"VirtualPointer", "RealReceiptGated", "Ambiguous"}

RegistryInit ==
  /\ entries = <<>>
  /\ counters = [virtual |-> 0, routed |-> 0, gated |-> 0, freeCalls |-> 0, osSpawns |-> 0,
                 held |-> 0]

\* classify_request
ClassifyRequest(plannedSpawns, receipt) ==
  IF plannedSpawns = 0 THEN "VirtualPointer"
  ELSE IF receipt THEN "RealReceiptGated" ELSE "Ambiguous"

\* mint_agent_pid: vantage and role in clear, the rest through the hash
MintAgentPid(handle, k) == <<k.vantage, k.role, PidHash[handle][k]>>

\* count, count_in_vantage: a retired entry does not count
LiveIn(vantages) ==
  Cardinality({i \in DOMAIN entries : /\ entries[i].vantage \in vantages
                                      /\ entries[i].state # "Retired"})

LiveCount == LiveIn({k.vantage : k \in Kinds})

\* Mutant: a held helper is counted with the receipt-gated ones.
LaneOfTwo(class) == IF class = "VirtualPointer" THEN "virtual" ELSE "gated"

\* Which counter a class bumps
LaneOf(class) ==
  CASE class = "VirtualPointer" -> "virtual"
    [] class = "RealReceiptGated" -> "gated"
    [] class = "Ambiguous" -> "held"

\* register, the common part of spawn and spawn_real_gated
Register(k, class) ==
  /\ Len(entries) < MaxEntries
  /\ LiveCount < RegistryMax
  /\ entries' = Append(entries, [pid |-> MintAgentPid(Len(entries) + 1, k),
                                 state |-> "Spawned", vantage |-> k.vantage,
                                 class |-> class, heartbeat |-> 0])
  /\ counters' = [counters EXCEPT ![LaneOf(class)] = @ + 1]

Spawn == \E k \in Kinds : Register(k, "VirtualPointer")

SpawnRealGated ==
  \E k \in Kinds, receipt \in BOOLEAN : Register(k, ClassifyRequest(1, receipt))

\* note_omnidispatch_routed, note_opencode_free_agent_call, note_os_process_spawn
Note ==
  /\ \E lane \in {"routed", "freeCalls", "osSpawns"} :
       counters[lane] < MaxNotes /\ counters' = [counters EXCEPT ![lane] = @ + 1]
  /\ UNCHANGED entries

\* Mutant: the search runs from the newest entry.
LastWith(pid) ==
  CHOOSE i \in DOMAIN entries :
    entries[i].pid = pid /\ \A j \in i + 1 .. Len(entries) : entries[j].pid # pid

\* The entry a pid finds: the first one that carries it.
FirstWith(pid) ==
  CHOOSE i \in DOMAIN entries :
    entries[i].pid = pid /\ \A j \in 1 .. i - 1 : entries[j].pid # pid

\* Retiring twice is allowed; an unknown pid changes nothing.
Retire ==
  /\ \E i \in DOMAIN entries :
       entries' = [entries EXCEPT ![FirstWith(entries[i].pid)].state = "Retired"]
  /\ UNCHANGED counters

Heartbeat ==
  /\ \E i \in DOMAIN entries, now \in Stamps :
       LET e == FirstWith(entries[i].pid)
       IN  /\ entries[e].state # "Retired"
           /\ entries' = [entries EXCEPT ![e].heartbeat = now]
  /\ UNCHANGED counters

RegistryNext == Spawn \/ SpawnRealGated \/ Note \/ Retire \/ Heartbeat

-----------------------------------------------------------------------------
RegistryTypeOK ==
  /\ Len(entries) <= MaxEntries
  /\ \A i \in DOMAIN entries : entries[i].state \in {"Spawned", "Retired"}
                               /\ entries[i].class \in Classes

\* The registry's books balance: no more live agents than the cap however many
\* were retired before, one registration on exactly the counter of its class
\* for every entry ever made, and an entry whose pid repeats an earlier one is
\* out of reach of retire and heartbeat, so it keeps its place for good
\* (register, retire, heartbeat, mint_agent_pid).
RegistryBalances ==
  /\ LiveCount <= RegistryMax
  /\ \A c \in Classes :
       LET lane == CASE c = "VirtualPointer" -> "virtual" [] c = "Ambiguous" -> "held"
                     [] OTHER -> "gated"
       IN  counters[lane] = Cardinality({i \in DOMAIN entries : entries[i].class = c})
  /\ \A i, j \in DOMAIN entries :
       i < j /\ entries[i].pid = entries[j].pid
         => entries[j].state = "Spawned" /\ entries[j].heartbeat = 0
=============================================================================
