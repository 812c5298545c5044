------------------------ MODULE MCMetadataRefresher ------------------------
(* A small instance of MetadataRefresher.                                  *)
EXTENDS MetadataRefresher

Nic(type, main, ip) == [type |-> type, main |-> main, ip |-> ip]

\* Hosts 1 and 2 share an address: one of them is filtered.  Host 3 is monitored
\* over SNMP; its agent interface, on the loopback address, is not looked at.
SharedAddress ==
  [h \in Hosts |->
     IF h = 3 THEN <<Nic("snmp", TRUE, "10.0.0.3"), Nic("agent", TRUE, "127.0.0.1")>>
     ELSE <<Nic("agent", TRUE, "10.0.0.1")>>]

AllPresent == [Hosts -> ItemStates]

\* All hosts are in one kept group; the other is empty, or does not exist yet.
OneGroup == {[h \in Hosts |-> {"linux"}]}
=============================================================================
