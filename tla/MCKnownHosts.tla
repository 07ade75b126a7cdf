---------------------------- MODULE MCKnownHosts -----------------------------
(* One server with a name and an address for TLC. *)
EXTENDS KnownHosts, TLC

CONSTANTS name, address

TheHosts == {name, address}
TheRemote == [h \in TheHosts |-> address]
HostsSymmetry == Permutations(Keys) \cup Permutations(Flows)
=============================================================================
