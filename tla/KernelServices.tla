--------------------------- MODULE KernelServices ---------------------------
(***************************************************************************)
(* The kernel's services beside the bus and the tables: the boot stub, the *)
(* peer state machine, the agent registry, the cosign chain, the gates and *)
(* the addressing functions.  They share no variable, so the steps of one  *)
(* commute with those of the others: a behaviour exercises one of them,    *)
(* chosen at the start, and an invariant about one holds in every          *)
(* interleaving if it holds here.                                          *)
(***************************************************************************)
EXTENDS PeerCycle, AgentRegistry, CosignChain, AccessGates, LinkGate, FedRoute, BootPath

VARIABLE service   \* the service this behaviour exercises

Services == {"peer", "registry", "chain", "sequence", "sign", "policy", "transit",
             "novelty", "link", "route", "boot"}

serviceVars ==
  <<service, peerVars, registryVars, chainVars, gateVars, linkVars, routed, bootVars>>

Init ==
  /\ service \in Services
  /\ PeerInit /\ RegistryInit /\ ChainInit /\ GatesInit /\ LinkInit /\ RouteInit /\ BootInit

PeerService ==
  /\ service = "peer" /\ PeerNext
  /\ UNCHANGED <<registryVars, chainVars, gateVars, linkVars, routed, bootVars>>

RegistryService ==
  /\ service = "registry" /\ RegistryNext
  /\ UNCHANGED <<peerVars, chainVars, gateVars, linkVars, routed, bootVars>>

ChainService ==
  /\ \/ service = "chain" /\ ChainNext
     \/ service = "sequence" /\ SequenceNext
  /\ UNCHANGED <<peerVars, registryVars, gateVars, linkVars, routed, bootVars>>

GateService ==
  /\ \/ service = "sign" /\ SignNext
     \/ service = "policy" /\ PolicyNext
     \/ service = "transit" /\ TransitNext
     \/ service = "novelty" /\ NoveltyNext
  /\ UNCHANGED <<peerVars, registryVars, chainVars, linkVars, routed, bootVars>>

LinkService ==
  /\ service = "link" /\ LinkNext
  /\ UNCHANGED <<peerVars, registryVars, chainVars, gateVars, routed, bootVars>>

RouteService ==
  /\ service = "route" /\ RouteNext
  /\ UNCHANGED <<peerVars, registryVars, chainVars, gateVars, linkVars, bootVars>>

BootService ==
  /\ service = "boot" /\ BootNext
  /\ UNCHANGED <<peerVars, registryVars, chainVars, gateVars, linkVars, routed>>

Next ==
  /\ PeerService \/ RegistryService \/ ChainService \/ GateService \/ LinkService
       \/ RouteService \/ BootService
  /\ UNCHANGED service

Spec == Init /\ [][Next]_serviceVars

\* The type invariants of the services, the shape of the peer's history and the
\* agreement of the chain's counters among them.
TypeOK ==
  /\ service \in Services
  /\ PeerTypeOK /\ RegistryTypeOK /\ ChainTypeOK /\ GatesTypeOK /\ LinkTypeOK /\ RouteTypeOK
  /\ BootTypeOK
=============================================================================
