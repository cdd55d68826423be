---------------------------- MODULE SwitchConfig ----------------------------
(***************************************************************************)
(* The configuration commands of TpLinkApi (client/tplink_api.py) that     *)
(* read a page, validate what they are asked for against it, and then      *)
(* write once or several times: port mirroring, LAGs, VLAN modes, port     *)
(* VLANs, 802.1Q VLANs, PVIDs and the rates of a port.                     *)
(*                                                                         *)
(* Every read and every write is a call of its own, one at a time on the   *)
(* wire (WebApi), so other commands run between them.  The switch does as  *)
(* it is told: whatever it may refuse on its own is not relied upon.       *)
(***************************************************************************)
EXTENDS Naturals, Sequences, FiniteSets

CONSTANTS Tasks,          \* the tasks that give commands
          PortCount,      \* the ports of the switch
          PortsPerGroup,  \* portNumPerTrunk
          MaxGroups,      \* maxTrunkNum
          VlanIds,        \* the 802.1Q VLAN IDs that are used
          MaxVlans,       \* maxVids
          Commands,       \* the commands that are given
          None,           \* an argument that is left out
          MaxCommands,    \* bound on the commands that are begun
          MaxFaults       \* bound on the writes that go wrong

Ports == 1..PortCount
Groups == 1..MaxGroups

ASSUME SizesAssumption ==
    /\ PortCount \in Nat \ {0}
    /\ PortsPerGroup \in Nat \ {0}
    /\ MaxGroups \in Nat
    /\ 1 \in VlanIds /\ VlanIds \subseteq 1..4094
    /\ MaxVlans \in Nat \ {0}

ASSUME BoundsAssumption == MaxCommands \in Nat /\ MaxFaults \in Nat

(* What a caller gives: numbers, and 802.1Q VLAN IDs from 1 to 4094.  The  *)
(* other ranges the services ask for, a port of at least 1 or a VLAN other *)
(* than 1 to delete, are not relied upon: the commands look again.         *)
CommandTypes ==
    [kind : {"mirror"}, on : BOOLEAN, destination : Nat \cup {None},
     ingress : SUBSET Nat, egress : SUBSET Nat]
        \cup [kind : {"lag"}, group : Nat, ports : SUBSET Nat]
        \cup [kind : {"no_lag"}, group : Nat]
        \cup [kind : {"mtu"}, on : BOOLEAN, uplink : Nat \cup {None}]
        \cup [kind : {"mode"}, mode : {"port", "8021q"}, on : BOOLEAN]
        \cup [kind : {"portvlan"}, vid : Nat, ports : SUBSET Nat]
        \cup [kind : {"no_portvlan"}, vid : Nat]
        \cup [kind : {"vlan"}, vid : VlanIds, tagged : SUBSET Nat, untagged : SUBSET Nat]
        \cup [kind : {"no_vlan"}, vid : VlanIds]
        \cup [kind : {"pvid"}, ports : SUBSET Nat, vid : VlanIds]
        \cup [kind : {"rate"}, port : Nat, value : Nat]

ASSUME CommandsAssumption == Commands \subseteq CommandTypes

ASSUME NoneAssumption == None \notin Ports /\ None \notin Commands

VARIABLES switch,    \* the configuration of the switch
          job,       \* the command of each task and the writes it still makes
          settled,   \* history: the mirror and the MTU VLAN command that were
                     \* the last to write, or found nothing to write, if
                     \* nothing disturbed them
          blind,     \* history: a write followed a read that was out of date
          commands, faults

vars == <<switch, job, settled, blind, commands, faults>>

Modes == {"none", "mtu", "port", "8021q"}

Mirrors == [on : BOOLEAN, destination : Ports \cup {None},
            ingress : SUBSET Ports, egress : SUBSET Ports]

Memberships == [tagged : SUBSET Ports, untagged : SUBSET Ports]

DefaultPortVlans == [v \in {1} |-> Ports]

DefaultVlans == [v \in {1} |-> [tagged |-> {}, untagged |-> Ports]]

Idle == [command |-> None, plan |-> <<>>, clean |-> TRUE]

TypeOK ==
    /\ switch.groups \in [Groups -> SUBSET Ports]
    /\ switch.mode \in Modes
    /\ switch.uplink \in Ports
    /\ DOMAIN switch.portvlans \subseteq Ports
    /\ \A v \in DOMAIN switch.portvlans : switch.portvlans[v] \subseteq Ports
    /\ DOMAIN switch.vlans \subseteq VlanIds
    /\ \A v \in DOMAIN switch.vlans : switch.vlans[v] \in Memberships
    /\ switch.pvid \in [Ports -> VlanIds]
    /\ switch.mirror \in Mirrors
    /\ switch.rate \in [Ports -> Nat]
    /\ \A t \in Tasks : /\ job[t].command \in Commands \cup {None}
                        /\ job[t].clean \in BOOLEAN
                        /\ job[t].command = None <=> job[t].plan = <<>>
    /\ settled \in [{"mirror", "mtu"} -> Commands \cup {None}]
    /\ blind \in BOOLEAN
    /\ commands \in 0..MaxCommands
    /\ faults \in 0..MaxFaults

MinOf(a, b) == IF a < b THEN a ELSE b

(* A switch as it is delivered, or one with port or 802.1Q VLANs in use;   *)
(* with a LAG or without.                                                  *)
Init ==
    /\ \E mode \in {"none", "port", "8021q"},
          lag \in {{}, 1..MinOf(PortsPerGroup, PortCount)} :
           switch = [groups |-> [g \in Groups |-> IF g = 1 THEN lag ELSE {}],
                     mode |-> mode,
                     uplink |-> 1,
                     portvlans |-> DefaultPortVlans,
                     vlans |-> DefaultVlans,
                     pvid |-> [p \in Ports |-> 1],
                     mirror |-> [on |-> FALSE, destination |-> None,
                                 ingress |-> {}, egress |-> {}],
                     rate |-> [p \in Ports |-> 0]]
    /\ job = [t \in Tasks |-> Idle]
    /\ settled = [k \in {"mirror", "mtu"} |-> None]
    /\ blind = FALSE
    /\ commands = 0
    /\ faults = 0

-----------------------------------------------------------------------------
(* Ports and the LAGs they are in.                                         *)

(* The ports that share a LAG with port p, itself included.                *)
Alike(p, s) == {p} \cup UNION {s.groups[g] : g \in {h \in Groups : p \in s.groups[h]}}

InLag(p, s) == \E g \in Groups : p \in s.groups[g]

(* Fault of Expanded: only the ports that were named.                      *)
FaultyExpanded(P, s) == P

(* _expand_trunk_ports, and _ports_for_trunk for a single port.            *)
Expanded(P, s) == UNION {Alike(p, s) : p \in P}

(* Fault of Valid: there is no upper bound.                                *)
FaultyValid(P) == \A p \in P : p >= 1

(* _validate_ports.                                                        *)
Valid(P) == P \subseteq Ports

(* sorted(...): the ports of P from the lowest to the highest.             *)
Ascending(P) ==
    CHOOSE s \in [1..Cardinality(P) -> P] :
        \A i, j \in 1..Cardinality(P) : i < j => s[i] < s[j]

-----------------------------------------------------------------------------
(* Port mirroring.                                                         *)

AcceptsMirror(c, s) ==
    c.on => /\ c.destination # None
            /\ Valid({c.destination} \cup c.ingress \cup c.egress)
            /\ c.ingress \cup c.egress # {}
            /\ c.destination \notin c.ingress \cup c.egress
            /\ \A p \in {c.destination} \cup c.ingress \cup c.egress : ~InLag(p, s)

(* The write for port p when command c replaces the sources.               *)
Source(p, c) == [op |-> "source", port |-> p,
                 ingress |-> p \in c.ingress, egress |-> p \in c.egress]

(* Fault of MirrorWrites: ports that are no source any more are forgotten. *)
FaultyMirrorWrites(c, s) ==
    LET affected == Ascending(c.ingress \cup c.egress)
    IN IF ~c.on THEN <<[op |-> "mirror_off"]>>
       ELSE <<[op |-> "destination", port |-> c.destination]>>
                \o [i \in DOMAIN affected |-> Source(affected[i], c)]

(* set_port_mirror: the destination, then every port that is or becomes a  *)
(* source.                                                                 *)
MirrorWrites(c, s) ==
    LET affected == Ascending(s.mirror.ingress \cup s.mirror.egress
                                  \cup c.ingress \cup c.egress)
    IN IF ~c.on THEN <<[op |-> "mirror_off"]>>
       ELSE <<[op |-> "destination", port |-> c.destination]>>
                \o [i \in DOMAIN affected |-> Source(affected[i], c)]

-----------------------------------------------------------------------------
(* LAGs and VLAN modes.                                                    *)

(* Fault of GroupPorts: one port too many at the lower end.                *)
FaultyGroupPorts(g) ==
    ((g - 1) * PortsPerGroup)..MinOf(g * PortsPerGroup, PortCount)

(* The ports that group g may have.                                        *)
GroupPorts(g) ==
    ((g - 1) * PortsPerGroup + 1)..MinOf(g * PortsPerGroup, PortCount)

(* set_lag.                                                                *)
AcceptsLag(c, s) ==
    /\ c.group \in Groups
    /\ Valid(c.ports)
    /\ Cardinality(c.ports) \in 2..PortsPerGroup
    /\ c.ports \subseteq GroupPorts(c.group)

(* delete_lag.                                                             *)
AcceptsNoLag(c, s) == c.group \in Groups

AcceptsMtu(c, s) == c.uplink # None => Valid({c.uplink})

(* Fault of MtuWrites: if the mode is as asked there is nothing to do.     *)
FaultyMtuWrites(c, s) ==
    LET port == IF c.uplink = None THEN s.uplink ELSE c.uplink
        was == s.mode = "mtu"
    IN IF was = c.on THEN <<>>
       ELSE <<[op |-> "mode", mode |-> "mtu", on |-> c.on]>>
                \o (IF c.on /\ port # s.uplink
                    THEN <<[op |-> "uplink", port |-> port]>> ELSE <<>>)

(* set_mtu_vlan: the mode if it changes, then the uplink if it does.       *)
MtuWrites(c, s) ==
    LET port == IF c.uplink = None THEN s.uplink ELSE c.uplink
        was == s.mode = "mtu"
    IN (IF was # c.on THEN <<[op |-> "mode", mode |-> "mtu", on |-> c.on]>> ELSE <<>>)
           \o (IF c.on /\ port # s.uplink
               THEN <<[op |-> "uplink", port |-> port]>> ELSE <<>>)

-----------------------------------------------------------------------------
(* Port VLANs, 802.1Q VLANs, PVIDs and rates.                              *)

(* upsert_port_vlan.                                                       *)
AcceptsPortVlan(c, s) ==
    /\ s.mode = "port"
    /\ c.vid \in 2..PortCount
    /\ Valid(c.ports)
    /\ c.ports # {}

(* delete_port_vlan, which does not ask for the mode.                      *)
AcceptsNoPortVlan(c, s) == c.vid # 1 /\ c.vid \in DOMAIN s.portvlans

Members(v) == v.tagged \cup v.untagged

VlanOf(c, s) == [tagged |-> Expanded(c.tagged, s), untagged |-> Expanded(c.untagged, s)]

(* Fault of AcceptsVlan: the overlap is looked for before the expansion.   *)
FaultyAcceptsVlanOverlap(c, s) ==
    /\ s.mode = "8021q"
    /\ Valid(c.tagged \cup c.untagged)
    /\ c.tagged \cap c.untagged = {}
    /\ c.tagged \cup c.untagged # {}
    /\ c.vid \in DOMAIN s.vlans \/ Cardinality(DOMAIN s.vlans) < MaxVlans

(* Fault of AcceptsVlan: one VLAN too many.                                *)
FaultyAcceptsVlanLimit(c, s) ==
    LET vlan == VlanOf(c, s) IN
    /\ s.mode = "8021q"
    /\ Valid(c.tagged \cup c.untagged)
    /\ vlan.tagged \cap vlan.untagged = {}
    /\ Members(vlan) # {}
    /\ c.vid \in DOMAIN s.vlans \/ Cardinality(DOMAIN s.vlans) <= MaxVlans

(* Fault of AcceptsVlan: VLAN 1 gives up any port.                         *)
FaultyAcceptsVlanOrphans(c, s) ==
    LET vlan == VlanOf(c, s) IN
    /\ s.mode = "8021q"
    /\ Valid(c.tagged \cup c.untagged)
    /\ vlan.tagged \cap vlan.untagged = {}
    /\ Members(vlan) # {}
    /\ c.vid \in DOMAIN s.vlans \/ Cardinality(DOMAIN s.vlans) < MaxVlans

(* upsert_8021q_vlan: VLAN 1 may not give up a port that is in no other.   *)
AcceptsVlan(c, s) ==
    LET vlan == VlanOf(c, s) IN
    /\ s.mode = "8021q"
    /\ Valid(c.tagged \cup c.untagged)
    /\ vlan.tagged \cap vlan.untagged = {}
    /\ Members(vlan) # {}
    /\ c.vid \in DOMAIN s.vlans \/ Cardinality(DOMAIN s.vlans) < MaxVlans
    /\ c.vid = 1 =>
           Ports \subseteq Members(vlan) \cup
               UNION {Members(s.vlans[v]) : v \in DOMAIN s.vlans \ {1}}

(* delete_8021q_vlan, which does not ask for the mode.                     *)
AcceptsNoVlan(c, s) == c.vid # 1 /\ c.vid \in DOMAIN s.vlans

(* set_pvid.                                                               *)
AcceptsPvid(c, s) ==
    /\ s.mode = "8021q"
    /\ Valid(c.ports)
    /\ c.ports # {}
    /\ c.vid \in DOMAIN s.vlans
    /\ Expanded(c.ports, s) \subseteq Members(s.vlans[c.vid])

(* set_bandwidth_control, set_storm_control.                               *)
AcceptsRate(c, s) == Valid({c.port})

-----------------------------------------------------------------------------
(* Commands.                                                               *)

(* What the command finds on the page it reads lets it go on.              *)
Accepts(c, s) ==
    CASE c.kind = "mirror" -> AcceptsMirror(c, s)
      [] c.kind = "lag" -> AcceptsLag(c, s)
      [] c.kind = "no_lag" -> AcceptsNoLag(c, s)
      [] c.kind = "mtu" -> AcceptsMtu(c, s)
      [] c.kind = "mode" -> TRUE
      [] c.kind = "portvlan" -> AcceptsPortVlan(c, s)
      [] c.kind = "no_portvlan" -> AcceptsNoPortVlan(c, s)
      [] c.kind = "vlan" -> AcceptsVlan(c, s)
      [] c.kind = "no_vlan" -> AcceptsNoVlan(c, s)
      [] c.kind = "pvid" -> AcceptsPvid(c, s)
      [] c.kind = "rate" -> AcceptsRate(c, s)

(* The writes it then makes, in their order.                               *)
Writes(c, s) ==
    CASE c.kind = "mirror" -> MirrorWrites(c, s)
      [] c.kind = "lag" -> <<[op |-> "lag", group |-> c.group, ports |-> c.ports]>>
      [] c.kind = "no_lag" -> <<[op |-> "lag", group |-> c.group, ports |-> {}]>>
      [] c.kind = "mtu" -> MtuWrites(c, s)
      [] c.kind = "mode" -> <<[op |-> "mode", mode |-> c.mode, on |-> c.on]>>
      [] c.kind = "portvlan" -> <<[op |-> "portvlan", vid |-> c.vid,
                                   ports |-> Expanded(c.ports, s)]>>
      [] c.kind = "no_portvlan" -> <<[op |-> "no_portvlan", vid |-> c.vid]>>
      [] c.kind = "vlan" -> <<[op |-> "vlan", vid |-> c.vid, members |-> VlanOf(c, s)]>>
      [] c.kind = "no_vlan" -> <<[op |-> "no_vlan", vid |-> c.vid]>>
      [] c.kind = "pvid" -> <<[op |-> "pvid", ports |-> Expanded(c.ports, s),
                               vid |-> c.vid]>>
      [] c.kind = "rate" -> <<[op |-> "rate", ports |-> Expanded({c.port}, s),
                               value |-> c.value]>>

(* The switch leaves a mode: it may forget the VLANs of that mode.         *)
WithMode(s, m) ==
    LET left(x) == s.mode = x /\ m # x IN
    {[s EXCEPT !.mode = m]}
        \cup (IF left("8021q") THEN {[s EXCEPT !.mode = m, !.vlans = DefaultVlans]}
              ELSE {})
        \cup (IF left("port")
              THEN {[s EXCEPT !.mode = m, !.portvlans = DefaultPortVlans]} ELSE {})

(* Function f with x at v, and without v.                                  *)
Set(f, v, x) == [u \in DOMAIN f \cup {v} |-> IF u = v THEN x ELSE f[u]]

Unset(f, v) == [u \in DOMAIN f \ {v} |-> f[u]]

With(P, p, yes) == IF yes THEN P \cup {p} ELSE P \ {p}

(* What the switch may be like after write w.                              *)
Effects(w, s) ==
    CASE w.op = "mirror_off" -> {[s EXCEPT !.mirror.on = FALSE]}
      [] w.op = "destination" -> {[s EXCEPT !.mirror =
                                     [s.mirror EXCEPT !.on = TRUE, !.destination = w.port]]}
      [] w.op = "source" -> {[s EXCEPT !.mirror =
                                [s.mirror EXCEPT !.ingress = With(@, w.port, w.ingress),
                                                 !.egress = With(@, w.port, w.egress)]]}
      [] w.op = "lag" -> {[s EXCEPT !.groups[w.group] = w.ports]}
      [] w.op = "mode" -> IF w.on THEN WithMode(s, w.mode)
                          ELSE IF s.mode = w.mode THEN WithMode(s, "none") ELSE {s}
      [] w.op = "uplink" -> {[s EXCEPT !.uplink = w.port]}
      [] w.op = "portvlan" -> {[s EXCEPT !.portvlans = Set(@, w.vid, w.ports)]}
      [] w.op = "no_portvlan" -> {[s EXCEPT !.portvlans = Unset(@, w.vid)]}
      [] w.op = "vlan" -> {[s EXCEPT !.vlans = Set(@, w.vid, w.members)]}
      [] w.op = "no_vlan" -> {[s EXCEPT !.vlans = Unset(@, w.vid)]}
      [] w.op = "pvid" -> {[s EXCEPT !.pvid =
                                [p \in Ports |-> IF p \in w.ports THEN w.vid ELSE @[p]]]}
      [] w.op = "rate" -> {[s EXCEPT !.rate =
                                [p \in Ports |-> IF p \in w.ports THEN w.value
                                                 ELSE @[p]]]}

-----------------------------------------------------------------------------
(* Steps.                                                                  *)

Running(t) == job[t].plan # <<>>

(* What a write is about, as far as the history is concerned.              *)
Subject(w) ==
    IF w.op \in {"mirror_off", "destination", "source"} THEN "mirror"
    ELSE IF w.op \in {"mode", "uplink"} THEN "mtu" ELSE "other"

(* Task t goes on with plan p; the others, if the switch has changed, with *)
(* a page that is out of date.                                             *)
Proceed(t, p, clean, changed) ==
    job' = [u \in Tasks |->
                IF u # t THEN [job[u] EXCEPT !.clean = @ /\ (changed => job[u] = Idle)]
                ELSE IF p = <<>> THEN Idle
                ELSE [job[t] EXCEPT !.plan = p, !.clean = clean]]

(* A command reads its page and is accepted.  One for the MTU VLAN, and    *)
(* only that, may find all as it is to be: it is through without a write.  *)
(* One that is not accepted leaves everything as it is.                    *)
Start(t, c) ==
    /\ ~Running(t)
    /\ commands < MaxCommands
    /\ Accepts(c, switch)
    /\ commands' = commands + 1
    /\ IF Writes(c, switch) = <<>>
       THEN /\ settled' = [settled EXCEPT !["mtu"] = c]
            /\ UNCHANGED job
       ELSE /\ job' = [job EXCEPT ![t] = [command |-> c, plan |-> Writes(c, switch),
                                         clean |-> TRUE]]
            /\ UNCHANGED settled
    /\ UNCHANGED <<switch, blind, faults>>

(* The next write of the command, which is told that it was carried out.   *)
Write(t) ==
    LET w == Head(job[t].plan)
        rest == Tail(job[t].plan)
        subject == Subject(w)
    IN /\ Running(t)
       /\ switch' \in Effects(w, switch)
       /\ Proceed(t, rest, job[t].clean, TRUE)
       /\ blind' = (blind \/ ~job[t].clean)
       /\ settled' = IF subject = "other" THEN settled
                     ELSE [settled EXCEPT ![subject] =
                               IF rest = <<>> /\ job[t].clean
                                  /\ job[t].command.kind = subject
                               THEN job[t].command ELSE None]
       /\ UNCHANGED <<commands, faults>>

(* The write is lost, but the connection was closed: _apply_get takes it   *)
(* for carried out, and the command goes on.                               *)
Forgiven(t) ==
    /\ Running(t)
    /\ faults < MaxFaults
    /\ faults' = faults + 1
    /\ Proceed(t, Tail(job[t].plan), FALSE, FALSE)
    /\ UNCHANGED <<switch, settled, blind, commands>>

(* The write fails or its task is cancelled, after or before the switch    *)
(* has carried it out: the command ends there.                             *)
Fail(t) ==
    LET w == Head(job[t].plan)
        subject == Subject(w)
    IN /\ Running(t)
       /\ faults < MaxFaults
       /\ faults' = faults + 1
       /\ \/ /\ switch' \in Effects(w, switch)
             /\ Proceed(t, <<>>, TRUE, TRUE)
             /\ blind' = (blind \/ ~job[t].clean)
             /\ settled' = IF subject = "other" THEN settled
                           ELSE [settled EXCEPT ![subject] = None]
          \/ /\ Proceed(t, <<>>, TRUE, FALSE)
             /\ UNCHANGED <<switch, settled, blind>>
       /\ UNCHANGED commands

-----------------------------------------------------------------------------

Next ==
    \E t \in Tasks :
        \/ \E c \in Commands : Start(t, c)
        \/ Write(t)
        \/ Forgiven(t)
        \/ Fail(t)

Spec == Init /\ [][Next]_vars

-----------------------------------------------------------------------------
(* Properties.                                                             *)

(* No port is in two LAGs, whoever creates and deletes them at once and in *)
(* whatever order: set_lag gives every group a range of ports of its own,  *)
(* the last one cut off at the end of the switch.                          *)
LagsApart ==
    \A g, h \in Groups :
        /\ g # h => switch.groups[g] \cap switch.groups[h] = {}
        /\ Cardinality(switch.groups[g]) <= PortsPerGroup

(* No port is tagged and untagged in a VLAN, even if LAG members that were *)
(* not named are, and VLAN 1 exists ("prevents tagged/untagged overlap",   *)
(* docs/services.md; upsert_8021q_vlan, delete_8021q_vlan).                *)
VlansWellFormed ==
    /\ 1 \in DOMAIN switch.vlans
    /\ \A v \in DOMAIN switch.vlans :
           switch.vlans[v].tagged \cap switch.vlans[v].untagged = {}

(* There are never more VLANs than the firmware has room for, unless a     *)
(* command wrote after reading a page that another one had changed since.  *)
VlansFit == ~blind => Cardinality(DOMAIN switch.vlans) <= MaxVlans

(* A mirror command that was not disturbed replaces the complete mirror    *)
(* configuration, also what a command that failed half-way or several at   *)
(* once have left behind ("clears sources omitted from the call",          *)
(* docs/services.md; affected_ports in set_port_mirror).                   *)
MirrorReplaced ==
    LET c == settled["mirror"] IN
    c # None =>
        /\ switch.mirror.on = c.on
        /\ c.on => /\ switch.mirror.destination = c.destination
                   /\ switch.mirror.ingress = c.ingress
                   /\ switch.mirror.egress = c.egress

(* An MTU VLAN command that was not disturbed leaves the mode and, if it   *)
(* is on, the uplink as asked, although each has a form of its own, of     *)
(* which set_mtu_vlan may submit both, one or none.                        *)
MtuSettled ==
    LET c == settled["mtu"] IN
    c # None =>
        /\ (switch.mode = "mtu") = c.on
        /\ c.on /\ c.uplink # None => switch.uplink = c.uplink

(* The entries of function g that are not in f.                            *)
Changed(f, g) == {v \in DOMAIN g : v \notin DOMAIN f \/ f[v] # g[v]}

(* What is changed for one member of a LAG is changed for all of them, in  *)
(* a VLAN, for the PVID and for the rates, unless the LAGs may have been   *)
(* changed since they were read (_expand_trunk_ports, _ports_for_trunk).   *)
LagTreatedAsOne ==
    [][~blind' =>
        \A g \in Groups : \A p, q \in switch.groups[g] :
            /\ switch'.rate[p] # switch.rate[p] => switch'.rate[q] = switch'.rate[p]
            /\ switch'.pvid[p] # switch.pvid[p] => switch'.pvid[q] = switch'.pvid[p]
            /\ \A v \in Changed(switch.portvlans, switch'.portvlans) :
                   p \in switch'.portvlans[v] => q \in switch'.portvlans[v]
            /\ \A v \in Changed(switch.vlans, switch'.vlans) :
                   \A side \in {"tagged", "untagged"} :
                       p \in switch'.vlans[v][side] => q \in switch'.vlans[v][side]]_vars

(* The ports that are in no VLAN.                                          *)
Orphans(s) == Ports \ UNION {Members(s.vlans[v]) : v \in DOMAIN s.vlans}

(* A command that gives VLAN 1 other members leaves no port without a      *)
(* VLAN, and one that gives a port another PVID leaves it in that VLAN,    *)
(* with all members of its LAG, unless it wrote after reading a page that  *)
(* another one had changed since ("Assign the PVID only after the selected *)
(* ports are members of that VLAN", docs/services.md; the checks of        *)
(* upsert_8021q_vlan and set_pvid look at the ports they expand).          *)
VlanPortsChecked ==
    [][~blind' =>
        /\ switch'.vlans[1] # switch.vlans[1] => Orphans(switch') = {}
        /\ \A p \in Ports : switch'.pvid[p] # switch.pvid[p] =>
               /\ switch'.pvid[p] \in DOMAIN switch'.vlans
               /\ p \in Members(switch'.vlans[switch'.pvid[p]])]_vars

(* "Every port must remain in at least one VLAN" (docs/services.md), which *)
(* upsert_8021q_vlan looks after when it changes VLAN 1, in a switch that  *)
(* no two commands change at once.                                         *)
NoOrphan == ~blind => Orphans(switch) = {}

=============================================================================
