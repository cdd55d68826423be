--------------------------- MODULE MCSwitchConfig ---------------------------
(* SwitchConfig on a switch with four ports, two LAGs of two ports and     *)
(* room for two VLANs.                                                     *)
EXTENDS SwitchConfig, TLC

Symmetry == Permutations(Tasks)

(* Port lists a caller gives: none, one port of a LAG, the other, a LAG.   *)
Selections == {{}, {1}, {2}, {3, 4}}

VlanCommands ==
    [kind : {"vlan"}, vid : VlanIds, tagged : {{}, {1}}, untagged : Selections]
        \cup [kind : {"no_vlan"}, vid : VlanIds]
        \cup [kind : {"portvlan"}, vid : {1, 2}, ports : Selections]
        \cup [kind : {"no_portvlan"}, vid : {1, 2}]
        \cup [kind : {"pvid"}, ports : {{1}}, vid : VlanIds]

(* With a list across the LAGs and groups the switch does not have.        *)
LagCommands ==
    [kind : {"lag"}, group : 0..3, ports : {{1}, {1, 2}, {2, 3}, {3, 4}}]
        \cup [kind : {"no_lag"}, group : {1, 3}]
        \cup [kind : {"rate"}, port : {1}, value : {1}]

MirrorCommands ==
    [kind : {"mirror"}, on : {TRUE}, destination : {1, 4, None},
     ingress : Selections, egress : {{}, {3}}]
        \cup [kind : {"mirror"}, on : {FALSE}, destination : {None},
              ingress : {{}}, egress : {{}}]

(* With an uplink the switch does not have.                                *)
ModeCommands ==
    [kind : {"mtu"}, on : BOOLEAN, uplink : {2, 9, None}]
        \cup [kind : {"mode"}, mode : {"port", "8021q"}, on : BOOLEAN]

AllCommands == VlanCommands \cup LagCommands \cup MirrorCommands \cup ModeCommands

(* Memberships of single ports and of all of them.                         *)
FewVlanCommands ==
    [kind : {"vlan"}, vid : VlanIds, tagged : {{}},
     untagged : {{1}, {1, 2}, {3, 4}, 1..4}]
        \cup [kind : {"no_vlan"}, vid : VlanIds]

=============================================================================
