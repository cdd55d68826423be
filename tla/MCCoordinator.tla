---------------------------- MODULE MCCoordinator ----------------------------
(* Coordinator on a few of the fifteen pages.                              *)
EXTENDS Coordinator, TLC

(* Commands are given by interchangeable tasks.                            *)
Symmetry == Permutations(Tasks \ {Poller})

(* A mandatory page, an optional one that no command refreshes, and the    *)
(* PoE ports, which are read again after a write.                          *)
OverlapPages == <<"info", "mtu", "portpoe">>

(* A page that is replaced after a write, one that is patched by the LAGs  *)
(* it knows, and those LAGs, which no command refreshes.                   *)
WrittenPages == <<"ports", "qos", "lag">>

(* A page with two switch entities, and one that no entity writes.         *)
IgmpPages == <<"info", "igmp">>

(* A switch with PoE.                                                      *)
PoePages == <<"ports", "poe", "portpoe">>

=============================================================================
