---------------------------- MODULE ChildHandles ----------------------------
(***************************************************************************)
(* spawn_child_agent of kernel/core/src/agent_runtime/mod.rs (sys_fork):   *)
(* a handle is reserved by fetch_add on SPAWN_CHILD_COUNTER; past the      *)
(* maximum the counter is put back by a plain store, in a second step.     *)
(***************************************************************************)
EXTENDS Naturals, Sequences, KernelCallers

CONSTANT AgentRegistryMax   \* AGENT_REGISTRY_MAX

ASSUME ChildConstants == AgentRegistryMax \in Nat

VARIABLES
  spawn_child_counter,      \* SPAWN_CHILD_COUNTER
  refused,                  \* callers between the two accesses
  minted,                   \* history: the handles returned, in order
  anyRefused                \* history: RegistryFull was returned

childVars == <<spawn_child_counter, refused, minted, anyRefused>>

ChildInit ==
  /\ spawn_child_counter = 0
  /\ refused = {}
  /\ minted = <<>>
  /\ anyRefused = FALSE

\* Mutant: > in place of >=.
AtMaximumLate == spawn_child_counter > AgentRegistryMax

AtMaximum == spawn_child_counter >= AgentRegistryMax

\* fetch_add; Ok(prev + 1) below the maximum.
SpawnChild(c) ==
  /\ c \notin refused
  /\ spawn_child_counter' = spawn_child_counter + 1
  /\ IF AtMaximum
     THEN refused' = refused \cup {c} /\ UNCHANGED minted
     ELSE minted' = Append(minted, spawn_child_counter + 1) /\ UNCHANGED refused
  /\ UNCHANGED anyRefused

\* Mutant: RegistryFull is returned without putting the counter back.
SpawnNoRollBack(c) ==
  /\ c \in refused
  /\ refused' = refused \ {c}
  /\ anyRefused' = TRUE
  /\ UNCHANGED <<spawn_child_counter, minted>>

\* store(AGENT_REGISTRY_MAX), RegistryFull.
SpawnRollBack(c) ==
  /\ c \in refused
  /\ spawn_child_counter' = AgentRegistryMax
  /\ refused' = refused \ {c}
  /\ anyRefused' = TRUE
  /\ UNCHANGED minted

ChildTypeOK ==
  /\ spawn_child_counter \in Nat
  /\ refused \subseteq Callers
  /\ minted \in Seq(Nat)
  /\ anyRefused \in BOOLEAN

-----------------------------------------------------------------------------
\* Forks that race with each other and with roll-backs get the handles 1, 2, 3,
\* ... each once, up to the maximum, and RegistryFull only when all are gone.
HandlesDense ==
  /\ \A i \in 1 .. Len(minted) : minted[i] = i
  /\ Len(minted) <= AgentRegistryMax
  /\ anyRefused => Len(minted) = AgentRegistryMax

\* spawn_child_agent_count() exceeds "Bounded by AGENT_REGISTRY_MAX" only while
\* some refused fork has not put the counter back, and otherwise counts the
\* handles.
CountSettles ==
  /\ refused = {} => spawn_child_counter = Len(minted)
  /\ spawn_child_counter >= Len(minted)
=============================================================================
