------------------------ MODULE SwitchConfig_proofs ------------------------
(***************************************************************************)
(* What configuration commands leave on the switch, for a switch of any    *)
(* size, any commands of any tasks, and any number of writes that go       *)
(* wrong.                                                                  *)
(***************************************************************************)
EXTENDS SwitchConfig, FiniteSetTheorems, SequenceTheorems, TLAPS,
        WellFoundedInduction

-----------------------------------------------------------------------------
(* Ports in ascending order.                                               *)

(* A set of natural numbers has a least element.                           *)
LEMMA Least ==
  ASSUME NEW T \in SUBSET Nat, T # {}
  PROVE  \E j \in T : \A k \in T : j <= k
<1> DEFINE R == OpToRel(<, Nat)
<1>1. PICK j \in T : \A k \in T : ~(<<k, j>> \in R)
  <2> HIDE DEF R
  <2>1. IsWellFoundedOn(R, Nat)
    BY NatLessThanWellFounded DEF R
  <2> QED  BY <2>1, WFMin
<1>2. ASSUME NEW k \in T PROVE j <= k
  <2>1. <<k, j>> \in Nat \X Nat /\ ~(<<k, j>> \in {ss \in Nat \X Nat : ss[1] < ss[2]})
    BY <1>1 DEF OpToRel
  <2> QED  BY <2>1
<1> QED  BY <1>2

IsAscending(s, P) ==
    /\ s \in [1..Cardinality(P) -> P]
    /\ \A i, j \in 1..Cardinality(P) : i < j => s[i] < s[j]

(* A finite set of numbers can be sorted: a smallest set that could not    *)
(* would lose its least number and be sorted then.                         *)
LEMMA CanBeSorted ==
  ASSUME NEW P \in SUBSET Nat, IsFiniteSet(P)
  PROVE  \E s : IsAscending(s, P)
<1> DEFINE Unsorted(Q) == Q \in SUBSET Nat /\ IsFiniteSet(Q) /\ ~\E s : IsAscending(s, Q)
           T == {n \in Nat : \E Q \in SUBSET Nat : Unsorted(Q) /\ Cardinality(Q) = n}
<1>1. SUFFICES ASSUME Unsorted(P) PROVE FALSE
  OBVIOUS
<1>2. Cardinality(P) \in T
  BY <1>1, FS_CardinalityType
<1>3. PICK n \in T : \A k \in T : n <= k
  <2>1. T \in SUBSET Nat /\ T # {}
    BY <1>2
  <2> HIDE DEF T
  <2> QED  BY <2>1, Least
<1>4. PICK Q \in SUBSET Nat : Unsorted(Q) /\ Cardinality(Q) = n
  OBVIOUS
<1>5. CASE Q = {}
  <2>1. Cardinality(Q) = 0
    BY <1>5, FS_EmptySet
  <2>2. [i \in 1..0 |-> 0] \in [1..0 -> Q]
    OBVIOUS
  <2>3. IsAscending([i \in 1..0 |-> 0], Q)
    BY <2>1, <2>2 DEF IsAscending
  <2> QED  BY <1>4, <2>3
<1>6. CASE Q # {}
  <2>1. PICK m \in Q : \A k \in Q : m <= k
    BY <1>6, Least
  <2>2. /\ IsFiniteSet(Q \ {m}) /\ Cardinality(Q \ {m}) = n - 1
        /\ n \in Nat
    BY <1>4, <2>1, FS_RemoveElement
  <2>3. n - 1 \in Nat /\ n - 1 \notin T
    <3>1. Cardinality(Q \ {m}) \in Nat
      BY <2>2, FS_CardinalityType
    <3> HIDE DEF T
    <3> QED  BY <1>3, <2>2, <3>1
  <2>4. PICK s : IsAscending(s, Q \ {m})
    BY <2>2, <2>3
  <2> DEFINE r == [i \in 1..n |-> IF i = 1 THEN m ELSE s[i - 1]]
  <2>5. \A i \in 1..(n - 1) : s[i] \in Q /\ s[i] # m
    BY <2>2, <2>4 DEF IsAscending
  <2>6. r \in [1..n -> Q]
    BY <2>2, <2>3, <2>5
  <2>7. ASSUME NEW i \in 1..n, NEW j \in 1..n, i < j PROVE r[i] < r[j]
    <3>1. j - 1 \in 1..(n - 1) /\ r[j] = s[j - 1]
      BY <2>2, <2>7
    <3>2. CASE i = 1
      <4>1. r[i] = m /\ s[j - 1] \in Q /\ s[j - 1] # m
        BY <2>5, <3>1, <3>2
      <4>2. m <= s[j - 1] /\ m \in Nat /\ s[j - 1] \in Nat
        BY <2>1, <4>1
      <4> QED  BY <3>1, <4>1, <4>2
    <3>3. CASE i # 1
      <4>1. i - 1 \in 1..(n - 1) /\ r[i] = s[i - 1] /\ i - 1 < j - 1
        BY <2>2, <2>7, <3>3
      <4> QED  BY <2>2, <2>4, <3>1, <4>1 DEF IsAscending
    <3> QED  BY <3>2, <3>3
  <2>8. IsAscending(r, Q)
    <3> HIDE DEF r
    <3> QED  BY <1>4, <2>6, <2>7 DEF IsAscending
  <2> HIDE DEF r
  <2> QED  BY <1>4, <2>8
<1> QED  BY <1>5, <1>6

(* The ports of P, in order, and none of them is missing.                  *)
LEMMA AscendingPorts ==
  ASSUME NEW P \in SUBSET Ports
  PROVE  /\ Cardinality(P) \in Nat
         /\ Ascending(P) \in [1..Cardinality(P) -> P]
         /\ \A p \in P : \E i \in 1..Cardinality(P) : Ascending(P)[i] = p
<1>1. Ports \subseteq Nat /\ IsFiniteSet(Ports)
  BY SizesAssumption, FS_Interval DEF Ports
<1>2. IsFiniteSet(P) /\ Cardinality(P) \in Nat
  BY <1>1, FS_Subset, FS_CardinalityType
<1> DEFINE n == Cardinality(P)
           s == Ascending(P)
<1>3. IsAscending(s, P)
  <2>1. \E r \in [1..n -> P] : \A i, j \in 1..n : i < j => r[i] < r[j]
    BY <1>1, <1>2, CanBeSorted DEF IsAscending
  <2>2. s = CHOOSE r \in [1..n -> P] : \A i, j \in 1..n : i < j => r[i] < r[j]
    BY DEF Ascending
  <2> HIDE DEF s
  <2> QED  BY <2>1, <2>2 DEF IsAscending
<1>4. s \in Injection(1..n, P)
  <2>1. ASSUME NEW i \in 1..n, NEW j \in 1..n, s[i] = s[j] PROVE i = j
    <3>1. s[i] \in Nat /\ s[j] \in Nat
      BY <1>1, <1>3 DEF IsAscending
    <3>2. ~(i < j) /\ ~(j < i)
      BY <1>3, <2>1, <3>1 DEF IsAscending
    <3> QED  BY <1>2, <3>2
  <2> HIDE DEF s
  <2> QED  BY <1>3, <2>1 DEF IsAscending, Injection, IsInjective
<1>5. s \in Surjection(1..n, P)
  <2>1. Cardinality(1..n) = n
    BY <1>2, FS_Interval
  <2> HIDE DEF s, n
  <2> QED  BY <1>2, <1>4, <2>1, FS_Injection DEF n
<1> HIDE DEF s
<1> QED  BY <1>2, <1>3, <1>5 DEF IsAscending, Surjection, s

-----------------------------------------------------------------------------
(* What is legal, and the writes that keep it so.                          *)

PortVlans == UNION {[D -> SUBSET Ports] : D \in SUBSET Ports}

Vlans == UNION {[D -> Memberships] : D \in SUBSET VlanIds}

Configurations ==
    [groups : [Groups -> SUBSET Ports], mode : Modes, uplink : Ports,
     portvlans : PortVlans, vlans : Vlans, pvid : [Ports -> VlanIds],
     mirror : Mirrors, rate : [Ports -> Nat]]

Legal(s) ==
    /\ s \in Configurations
    /\ \A g \in Groups : /\ s.groups[g] \subseteq GroupPorts(g)
                         /\ Cardinality(s.groups[g]) <= PortsPerGroup
    /\ 1 \in DOMAIN s.vlans
    /\ \A v \in DOMAIN s.vlans : s.vlans[v].tagged \cap s.vlans[v].untagged = {}

MirrorWrite ==
    [op : {"mirror_off"}]
        \cup [op : {"destination"}, port : Ports]
        \cup [op : {"source"}, port : Ports, ingress : BOOLEAN, egress : BOOLEAN]

ModeWrite == [op : {"mode"}, mode : {"mtu", "port", "8021q"}, on : BOOLEAN]

UplinkWrite == [op : {"uplink"}, port : Ports]

LagWrite ==
    {w \in [op : {"lag"}, group : Groups, ports : SUBSET Ports] :
         w.ports \subseteq GroupPorts(w.group) /\ Cardinality(w.ports) <= PortsPerGroup}

PortVlanWrite ==
    [op : {"portvlan"}, vid : Ports, ports : SUBSET Ports]
        \cup [op : {"no_portvlan"}, vid : Nat]

VlanWrite ==
    {w \in [op : {"vlan"}, vid : VlanIds, members : Memberships] :
         w.members.tagged \cap w.members.untagged = {}}

NoVlanWrite == [op : {"no_vlan"}, vid : VlanIds \ {1}]

PvidWrite == [op : {"pvid"}, ports : SUBSET Ports, vid : VlanIds]

RateWrite == [op : {"rate"}, ports : SUBSET Ports, value : Nat]

LegalWrite ==
    MirrorWrite \cup ModeWrite \cup UplinkWrite \cup LagWrite \cup PortVlanWrite
        \cup VlanWrite \cup NoVlanWrite \cup PvidWrite \cup RateWrite

LEMMA PortFacts ==
  /\ 1 \in Ports /\ Ports \subseteq Nat /\ IsFiniteSet(Ports)
  /\ 1 \in VlanIds /\ IsFiniteSet(VlanIds)
<1>1. IsFiniteSet(Ports)
  BY SizesAssumption, FS_Interval DEF Ports
<1>2. IsFiniteSet(VlanIds)
  <2> DEFINE b == 4094
             T == 1..b
  <2>1. IsFiniteSet(T)
    <3>1. b \in Int
      OBVIOUS
    <3> HIDE DEF b
    <3> QED  BY <3>1, FS_Interval
  <2>2. VlanIds \in SUBSET T
    BY SizesAssumption
  <2> HIDE DEF T
  <2> QED  BY <2>1, <2>2, FS_Subset
<1> QED  BY <1>1, <1>2, SizesAssumption DEF Ports

LEMMA Defaults ==
  /\ DefaultPortVlans \in PortVlans
  /\ DefaultVlans \in Vlans /\ DOMAIN DefaultVlans = {1}
  /\ DefaultVlans[1].tagged = {} /\ DefaultVlans[1].untagged = Ports
<1>1. DefaultPortVlans \in [{1} -> SUBSET Ports] /\ {1} \in SUBSET Ports
  BY PortFacts DEF DefaultPortVlans
<1>2. [tagged |-> {}, untagged |-> Ports] \in Memberships
  BY DEF Memberships
<1>3. DefaultVlans \in [{1} -> Memberships] /\ {1} \in SUBSET VlanIds
  BY <1>2, PortFacts DEF DefaultVlans
<1> QED  BY <1>1, <1>3 DEF DefaultVlans, PortVlans, Vlans

(* The mirror after a write to it.                                         *)
MirrorAfter(w, m) ==
    CASE w.op = "mirror_off" -> [m EXCEPT !.on = FALSE]
      [] w.op = "destination" -> [m EXCEPT !.on = TRUE, !.destination = w.port]
      [] w.op = "source" -> [m EXCEPT !.ingress = With(@, w.port, w.ingress),
                                      !.egress = With(@, w.port, w.egress)]

(* A write to the mirror leaves the rest alone.                            *)
LEMMA MirrorEffect ==
  ASSUME NEW s, Legal(s), NEW w \in MirrorWrite, NEW n \in Effects(w, s)
  PROVE  /\ Legal(n)
         /\ n.mirror = MirrorAfter(w, s.mirror)
         /\ n.groups = s.groups /\ n.mode = s.mode /\ n.uplink = s.uplink
         /\ n.portvlans = s.portvlans /\ n.vlans = s.vlans /\ n.pvid = s.pvid
         /\ n.rate = s.rate
<1>1. s \in Configurations
  BY DEF Legal
<1>2. s.mirror \in Mirrors
  BY <1>1 DEF Configurations
<1> DEFINE m == MirrorAfter(w, s.mirror)
<1>3. ASSUME w.op = "mirror_off"
      PROVE  n = [s EXCEPT !.mirror = m] /\ m \in Mirrors
  <2>1. m = [s.mirror EXCEPT !.on = FALSE]
    BY <1>3 DEF MirrorAfter
  <2> HIDE DEF m
  <2>2. n = [s EXCEPT !.mirror.on = FALSE]
    BY <1>3 DEF Effects
  <2>3. n = [s EXCEPT !.mirror = m]
    BY <1>1, <2>1, <2>2 DEF Configurations
  <2>4. m \in Mirrors
    BY <1>2, <2>1 DEF Mirrors
  <2> QED  BY <2>3, <2>4 DEF m
<1>4. ASSUME w.op = "destination"
      PROVE  n = [s EXCEPT !.mirror = m] /\ m \in Mirrors
  <2> DEFINE o == [s.mirror EXCEPT !.on = TRUE]
  <2>1. m = [o EXCEPT !.destination = w.port]
    BY <1>4 DEF MirrorAfter
  <2>2. n = [s EXCEPT !.mirror = [o EXCEPT !.destination = w.port]] /\ w.port \in Ports
    BY <1>4 DEF Effects, MirrorWrite
  <2> HIDE DEF m
  <2>3. o \in Mirrors
    BY <1>2 DEF Mirrors
  <2> HIDE DEF o
  <2>4. m \in Mirrors
    BY <2>1, <2>2, <2>3 DEF Mirrors
  <2> QED  BY <2>1, <2>2, <2>4 DEF m
<1>5. ASSUME w.op = "source"
      PROVE  n = [s EXCEPT !.mirror = m] /\ m \in Mirrors
  <2> DEFINE i == With(s.mirror.ingress, w.port, w.ingress)
             e == With(s.mirror.egress, w.port, w.egress)
             o == [s.mirror EXCEPT !.ingress = i]
  <2>1. m = [o EXCEPT !.egress = e]
    BY <1>5 DEF MirrorAfter
  <2>2. n = [s EXCEPT !.mirror = [o EXCEPT !.egress = e]] /\ w.port \in Ports
    BY <1>5 DEF Effects, MirrorWrite
  <2> HIDE DEF m
  <2>3. i \in SUBSET Ports /\ e \in SUBSET Ports
    BY <1>2, <2>2 DEF Mirrors, With
  <2> HIDE DEF i, e
  <2>4. o \in Mirrors
    BY <1>2, <2>3 DEF Mirrors
  <2> HIDE DEF o
  <2>5. m \in Mirrors
    BY <2>1, <2>3, <2>4 DEF Mirrors
  <2> QED  BY <2>1, <2>2, <2>5 DEF m
<1>6. n = [s EXCEPT !.mirror = m] /\ m \in Mirrors
  BY <1>3, <1>4, <1>5 DEF MirrorWrite
<1> HIDE DEF m
<1>7. /\ n.groups = s.groups /\ n.mode = s.mode /\ n.uplink = s.uplink
      /\ n.portvlans = s.portvlans /\ n.vlans = s.vlans /\ n.pvid = s.pvid
      /\ n.rate = s.rate /\ n.mirror = m
  BY <1>1, <1>6 DEF Configurations
<1>8. n \in Configurations
  BY <1>1, <1>6 DEF Configurations
<1>9. Legal(n)
  BY <1>7, <1>8 DEF Legal
<1> QED  BY <1>7, <1>9 DEF m

(* A write of a mode may bring back the VLANs of a new switch.             *)
LEMMA ModeEffect ==
  ASSUME NEW s, Legal(s), NEW w \in ModeWrite, NEW n \in Effects(w, s)
  PROVE  /\ Legal(n)
         /\ n.mirror = s.mirror /\ n.uplink = s.uplink
         /\ n.groups = s.groups /\ n.pvid = s.pvid /\ n.rate = s.rate
         /\ n.portvlans \in {s.portvlans, DefaultPortVlans}
         /\ n.vlans \in {s.vlans, DefaultVlans}
         /\ w.on => n.mode = w.mode
         /\ ~w.on => n.mode # w.mode
<1>1. s \in Configurations /\ w.op = "mode" /\ w.mode \in {"mtu", "port", "8021q"}
  BY DEF Legal, ModeWrite
<1>2. ASSUME NEW m \in Modes, n \in WithMode(s, m)
      PROVE  /\ Legal(n)
             /\ n.mirror = s.mirror /\ n.uplink = s.uplink
             /\ n.groups = s.groups /\ n.pvid = s.pvid /\ n.rate = s.rate
             /\ n.portvlans \in {s.portvlans, DefaultPortVlans}
             /\ n.vlans \in {s.vlans, DefaultVlans}
             /\ n.mode = m
  <2>1. CASE n = [s EXCEPT !.mode = m]
    BY <1>1, <1>2, <2>1 DEF Legal, Configurations
  <2>2. CASE n = [s EXCEPT !.mode = m, !.vlans = DefaultVlans]
    BY <1>1, <1>2, <2>2, Defaults DEF Legal, Configurations
  <2>3. CASE n = [s EXCEPT !.mode = m, !.portvlans = DefaultPortVlans]
    BY <1>1, <1>2, <2>3, Defaults DEF Legal, Configurations
  <2> QED  BY <1>2, <2>1, <2>2, <2>3 DEF WithMode
<1>3. CASE w.on
  <2>1. n \in WithMode(s, w.mode) /\ w.mode \in Modes
    BY <1>1, <1>3 DEF Effects, Modes
  <2> QED  BY <1>2, <1>3, <2>1
<1>4. CASE ~w.on /\ s.mode = w.mode
  <2>1. n \in WithMode(s, "none") /\ "none" \in Modes
    BY <1>1, <1>4 DEF Effects, Modes
  <2> QED  BY <1>1, <1>2, <1>4, <2>1
<1>5. CASE ~w.on /\ s.mode # w.mode
  <2>1. n = s
    BY <1>1, <1>5 DEF Effects
  <2> QED  BY <1>5, <2>1
<1> QED  BY <1>3, <1>4, <1>5

(* Port VLANs stay port VLANs when one is set or taken away.               *)
LEMMA PortVlansKept ==
  ASSUME NEW f \in PortVlans, NEW v, NEW x \in SUBSET Ports
  PROVE  /\ v \in Ports => Set(f, v, x) \in PortVlans
         /\ Unset(f, v) \in PortVlans
<1>1. PICK D \in SUBSET Ports : f \in [D -> SUBSET Ports]
  BY DEF PortVlans
<1>2. ASSUME v \in Ports PROVE Set(f, v, x) \in PortVlans
  <2>1. Set(f, v, x) \in [D \cup {v} -> SUBSET Ports]
    BY <1>1 DEF Set
  <2>2. D \cup {v} \in SUBSET Ports
    BY <1>2
  <2> QED  BY <2>1, <2>2 DEF PortVlans
<1>3. Unset(f, v) \in PortVlans
  <2>1. Unset(f, v) \in [D \ {v} -> SUBSET Ports]
    BY <1>1 DEF Unset
  <2>2. D \ {v} \in SUBSET Ports
    OBVIOUS
  <2> QED  BY <2>1, <2>2 DEF PortVlans
<1> QED  BY <1>2, <1>3

(* The same for 802.1Q VLANs.                                               *)
LEMMA VlansKept ==
  ASSUME NEW f \in Vlans, NEW v, NEW x \in Memberships
  PROVE  /\ v \in VlanIds => Set(f, v, x) \in Vlans
         /\ Unset(f, v) \in Vlans
<1>1. PICK D \in SUBSET VlanIds : f \in [D -> Memberships]
  BY DEF Vlans
<1>2. ASSUME v \in VlanIds PROVE Set(f, v, x) \in Vlans
  <2>1. Set(f, v, x) \in [D \cup {v} -> Memberships]
    BY <1>1 DEF Set
  <2>2. D \cup {v} \in SUBSET VlanIds
    BY <1>2
  <2> QED  BY <2>1, <2>2 DEF Vlans
<1>3. Unset(f, v) \in Vlans
  <2>1. Unset(f, v) \in [D \ {v} -> Memberships]
    BY <1>1 DEF Unset
  <2>2. D \ {v} \in SUBSET VlanIds
    OBVIOUS
  <2> QED  BY <2>1, <2>2 DEF Vlans
<1> QED  BY <1>2, <1>3

(* What the other writes do.                                               *)
LEMMA PlainEffect ==
  ASSUME NEW s, Legal(s), NEW n,
         NEW w \in LegalWrite \ (MirrorWrite \cup ModeWrite), n \in Effects(w, s)
  PROVE  /\ Legal(n)
         /\ n.mirror = s.mirror /\ n.mode = s.mode
         /\ n.uplink = IF w.op = "uplink" THEN w.port ELSE s.uplink
         /\ n.groups = IF w.op = "lag" THEN [s.groups EXCEPT ![w.group] = w.ports]
                       ELSE s.groups
         /\ n.portvlans = IF w.op = "portvlan" THEN Set(s.portvlans, w.vid, w.ports)
                          ELSE IF w.op = "no_portvlan" THEN Unset(s.portvlans, w.vid)
                          ELSE s.portvlans
         /\ n.vlans = IF w.op = "vlan" THEN Set(s.vlans, w.vid, w.members)
                      ELSE IF w.op = "no_vlan" THEN Unset(s.vlans, w.vid)
                      ELSE s.vlans
         /\ n.pvid = IF w.op = "pvid"
                     THEN [p \in Ports |-> IF p \in w.ports THEN w.vid ELSE s.pvid[p]]
                     ELSE s.pvid
         /\ n.rate = IF w.op = "rate"
                     THEN [p \in Ports |-> IF p \in w.ports THEN w.value ELSE s.rate[p]]
                     ELSE s.rate
<1>1. s \in Configurations
  BY DEF Legal
<1>2. CASE w \in UplinkWrite
  <2>1. w.op = "uplink" /\ w.port \in Ports /\ n = [s EXCEPT !.uplink = w.port]
    BY <1>2 DEF Effects, UplinkWrite
  <2> QED  BY <1>1, <2>1 DEF Legal, Configurations
<1>3. CASE w \in LagWrite
  <2>1. /\ w.op = "lag" /\ w.group \in Groups /\ w.ports \in SUBSET Ports
        /\ w.ports \subseteq GroupPorts(w.group) /\ Cardinality(w.ports) <= PortsPerGroup
        /\ n = [s EXCEPT !.groups[w.group] = w.ports]
    BY <1>3 DEF Effects, LagWrite
  <2>2. n = [s EXCEPT !.groups = [s.groups EXCEPT ![w.group] = w.ports]]
    BY <1>1, <2>1 DEF Configurations
  <2> QED  BY <1>1, <2>1, <2>2 DEF Legal, Configurations
<1>4. CASE w \in PortVlanWrite /\ w.op = "portvlan"
  <2>1. /\ w.vid \in Ports /\ w.ports \in SUBSET Ports
        /\ n = [s EXCEPT !.portvlans = Set(@, w.vid, w.ports)]
    BY <1>4 DEF Effects, PortVlanWrite
  <2>2. Set(s.portvlans, w.vid, w.ports) \in PortVlans
    <3>1. s.portvlans \in PortVlans /\ w.ports \in SUBSET Ports
      BY <1>1, <2>1 DEF Configurations
    <3> QED  BY <2>1, <3>1, PortVlansKept
  <2> QED  BY <1>1, <1>4, <2>1, <2>2 DEF Legal, Configurations
<1>5. CASE w \in PortVlanWrite /\ w.op # "portvlan"
  <2>1. w.op = "no_portvlan" /\ n = [s EXCEPT !.portvlans = Unset(@, w.vid)]
    BY <1>5 DEF Effects, PortVlanWrite
  <2>2. Unset(s.portvlans, w.vid) \in PortVlans
    <3>1. s.portvlans \in PortVlans /\ Ports \in SUBSET Ports
      BY <1>1 DEF Configurations
    <3> QED  BY <3>1, PortVlansKept
  <2> QED  BY <1>1, <2>1, <2>2 DEF Legal, Configurations
<1>6. CASE w \in VlanWrite
  <2>1. /\ w.op = "vlan" /\ w.vid \in VlanIds /\ w.members \in Memberships
        /\ w.members.tagged \cap w.members.untagged = {}
        /\ n = [s EXCEPT !.vlans = Set(@, w.vid, w.members)]
    BY <1>6 DEF Effects, VlanWrite
  <2>2. Set(s.vlans, w.vid, w.members) \in Vlans
    <3>1. s.vlans \in Vlans
      BY <1>1 DEF Configurations
    <3> QED  BY <2>1, <3>1, VlansKept
  <2>3. n = [s EXCEPT !.vlans = Set(s.vlans, w.vid, w.members)]
    BY <2>1
  <2>4. n \in Configurations /\ n.vlans = Set(s.vlans, w.vid, w.members)
    BY <1>1, <2>2, <2>3 DEF Configurations
  <2>5. 1 \in DOMAIN n.vlans
    BY <2>4 DEF Legal, Set
  <2>6. \A v \in DOMAIN n.vlans : n.vlans[v].tagged \cap n.vlans[v].untagged = {}
    BY <2>1, <2>4 DEF Legal, Set
  <2> QED  BY <1>1, <2>1, <2>3, <2>4, <2>5, <2>6 DEF Legal, Configurations
<1>7. CASE w \in NoVlanWrite
  <2>1. /\ w.op = "no_vlan" /\ w.vid # 1
        /\ n = [s EXCEPT !.vlans = Unset(s.vlans, w.vid)]
    BY <1>7 DEF Effects, NoVlanWrite
  <2>2. Unset(s.vlans, w.vid) \in Vlans
    <3>1. s.vlans \in Vlans /\ [tagged |-> {}, untagged |-> {}] \in Memberships
      BY <1>1 DEF Configurations, Memberships
    <3> QED  BY <3>1, VlansKept
  <2>3. n \in Configurations /\ n.vlans = Unset(s.vlans, w.vid)
    BY <1>1, <2>1, <2>2 DEF Configurations
  <2>4. 1 \in DOMAIN n.vlans
    BY <2>1, <2>3 DEF Legal, Unset
  <2>5. \A v \in DOMAIN n.vlans : n.vlans[v].tagged \cap n.vlans[v].untagged = {}
    BY <2>3 DEF Legal, Unset
  <2> QED  BY <1>1, <2>1, <2>3, <2>4, <2>5 DEF Legal, Configurations
<1>8. CASE w \in PvidWrite
  <2> DEFINE f == [p \in Ports |-> IF p \in w.ports THEN w.vid ELSE s.pvid[p]]
  <2>1. w.op = "pvid" /\ w.vid \in VlanIds /\ n = [s EXCEPT !.pvid = f]
    BY <1>8 DEF Effects, PvidWrite
  <2>2. f \in [Ports -> VlanIds]
    BY <1>1, <2>1 DEF Configurations
  <2> HIDE DEF f
  <2>3. n.pvid = f
    BY <1>1, <2>1 DEF Configurations
  <2> QED  BY <1>1, <2>1, <2>2, <2>3 DEF Legal, Configurations, f
<1>9. CASE w \in RateWrite
  <2> DEFINE f == [p \in Ports |-> IF p \in w.ports THEN w.value ELSE s.rate[p]]
  <2>1. w.op = "rate" /\ w.value \in Nat /\ n = [s EXCEPT !.rate = f]
    BY <1>9 DEF Effects, RateWrite
  <2>2. f \in [Ports -> Nat]
    BY <1>1, <2>1 DEF Configurations
  <2> HIDE DEF f
  <2>3. n.rate = f
    BY <1>1, <2>1 DEF Configurations
  <2> QED  BY <1>1, <2>1, <2>2, <2>3 DEF Legal, Configurations, f
<1> QED  BY <1>2, <1>3, <1>4, <1>5, <1>6, <1>7, <1>8, <1>9 DEF LegalWrite
-----------------------------------------------------------------------------
(* What a command that is accepted writes.                                 *)

(* The ranges of ports that LAGs can have do not meet.                     *)
LEMMA GroupsApart ==
  ASSUME NEW g \in Groups, NEW h \in Groups, g # h
  PROVE  GroupPorts(g) \cap GroupPorts(h) = {}
<1>1. PortCount \in Nat /\ PortsPerGroup \in Nat /\ g \in Nat /\ h \in Nat
  BY SizesAssumption DEF Groups
<1>2. ASSUME NEW x \in Nat, NEW y \in Nat, x < y, NEW p \in GroupPorts(x), NEW q \in GroupPorts(y)
      PROVE  p < q
  <2> DEFINE k == y - 1 - x
  <2>1. k \in Nat /\ y - 1 = x + k
    BY <1>2
  <2>2. (y - 1) * PortsPerGroup = x * PortsPerGroup + k * PortsPerGroup
    BY <1>1, <2>1
  <2>3. k * PortsPerGroup \in Nat
    BY <1>1, <2>1
  <2>4. /\ (y - 1) * PortsPerGroup \in Nat /\ x * PortsPerGroup \in Nat
        /\ (x - 1) * PortsPerGroup \in Int
    BY <1>1, <1>2
  <2> DEFINE a == x * PortsPerGroup
             b == (y - 1) * PortsPerGroup
             z == (x - 1) * PortsPerGroup
  <2>5. a <= b
    <3> DEFINE d == k * PortsPerGroup
    <3>1. b = a + d /\ a \in Nat /\ d \in Nat
      BY <2>2, <2>3, <2>4
    <3> HIDE DEF a, b, d
    <3> QED  BY <3>1
  <2>6. p \in (z + 1)..MinOf(a, PortCount) /\ q \in (b + 1)..MinOf(y * PortsPerGroup, PortCount)
    BY <1>2 DEF GroupPorts
  <2>7. MinOf(a, PortCount) \in Nat /\ MinOf(a, PortCount) <= a
    <3>1. a \in Nat
      BY <2>4
    <3> HIDE DEF a
    <3> QED  BY <1>1, <3>1 DEF MinOf
  <2>8. p \in Int /\ p <= a
    <3>1. z \in Int /\ a \in Nat
      BY <2>4
    <3> HIDE DEF a, z
    <3> QED  BY <2>6, <2>7, <3>1
  <2>9. q \in Int /\ b + 1 <= q
    <3> DEFINE m == MinOf(y * PortsPerGroup, PortCount)
    <3>1. b \in Nat /\ y * PortsPerGroup \in Nat
      BY <1>1, <1>2, <2>4
    <3>2. m \in Nat
      BY <1>1, <3>1 DEF MinOf
    <3> HIDE DEF b, m
    <3> QED  BY <2>6, <3>1, <3>2 DEF m
  <2>10. a \in Nat /\ b \in Nat
    BY <2>4
  <2> HIDE DEF a, b
  <2> QED  BY <2>5, <2>8, <2>9, <2>10
<1>3. CASE g < h
  <2>1. \A p \in GroupPorts(g), q \in GroupPorts(h) : p < q
    BY <1>1, <1>2, <1>3
  <2>2. \A p \in GroupPorts(g) \cap GroupPorts(h) : p < p /\ p \in Int
    <3>1. \A p \in GroupPorts(g) : p \in Int
      BY DEF GroupPorts
    <3> QED  BY <2>1, <3>1
  <2> QED  BY <2>2
<1>4. CASE h < g
  <2>1. \A p \in GroupPorts(h), q \in GroupPorts(g) : p < q
    BY <1>1, <1>2, <1>4
  <2>2. \A p \in GroupPorts(g) \cap GroupPorts(h) : p < p /\ p \in Int
    <3>1. \A p \in GroupPorts(g) : p \in Int
      BY DEF GroupPorts
    <3> QED  BY <2>1, <3>1
  <2> QED  BY <2>2
<1> QED  BY <1>1, <1>3, <1>4

(* A port and the others of its LAG are ports of the switch.               *)
LEMMA ExpandedPorts ==
  ASSUME NEW s, Legal(s), NEW P \in SUBSET Ports
  PROVE  /\ Expanded(P, s) \in SUBSET Ports
         /\ P \subseteq Expanded(P, s)
<1>1. s.groups \in [Groups -> SUBSET Ports]
  BY DEF Legal, Configurations
<1> QED  BY <1>1 DEF Expanded, Alike

(* What is expanded has all members of a LAG or none.                      *)
LEMMA ExpandedWhole ==
  ASSUME NEW s, Legal(s), NEW P \in SUBSET Ports, NEW g \in Groups,
         NEW p \in s.groups[g], NEW q \in s.groups[g], p \in Expanded(P, s)
  PROVE  q \in Expanded(P, s)
<1>1. PICK r \in P : p \in Alike(r, s)
  BY DEF Expanded
<1>2. CASE p = r
  <2>1. q \in Alike(r, s)
    BY <1>2 DEF Alike
  <2> QED  BY <2>1 DEF Expanded
<1>3. CASE p # r
  <2>1. PICK h \in Groups : r \in s.groups[h] /\ p \in s.groups[h]
    BY <1>1, <1>3 DEF Alike
  <2>2. h = g
    BY <2>1, GroupsApart DEF Legal
  <2>3. q \in Alike(r, s)
    BY <2>1, <2>2 DEF Alike
  <2> QED  BY <2>3 DEF Expanded
<1> QED  BY <1>2, <1>3

LEMMA OneWrite ==
  ASSUME NEW w \in LegalWrite
  PROVE  <<w>> \in Seq(LegalWrite) /\ Len(<<w>>) = 1 /\ <<w>>[1] = w
OBVIOUS

(* The mirror's destination and sources are ports of the switch.           *)
LEMMA MirrorWritesAre ==
  ASSUME NEW s, Legal(s), NEW c \in CommandTypes, c.kind = "mirror", AcceptsMirror(c, s)
  PROVE  /\ MirrorWrites(c, s) \in Seq(LegalWrite)
         /\ MirrorWrites(c, s) # <<>>
         /\ ~c.on => MirrorWrites(c, s) = <<[op |-> "mirror_off"]>>
         /\ c.on =>
              /\ c.destination \in Ports
              /\ c.ingress \cup c.egress \subseteq Ports
              /\ MirrorWrites(c, s)[1] = [op |-> "destination", port |-> c.destination]
              /\ \A i \in 2..Len(MirrorWrites(c, s)) :
                     \E p \in Ports : MirrorWrites(c, s)[i] = Source(p, c)
              /\ \A p \in s.mirror.ingress \cup s.mirror.egress \cup c.ingress \cup c.egress :
                     \E i \in 2..Len(MirrorWrites(c, s)) :
                         MirrorWrites(c, s)[i] = Source(p, c)
<1>1. CASE ~c.on
  <2>1. [op |-> "mirror_off"] \in LegalWrite
    BY DEF LegalWrite, MirrorWrite
  <2> QED  BY <1>1, <2>1, OneWrite DEF MirrorWrites
<1>2. CASE c.on
  <2>1. c.destination \in Nat \cup {None} /\ c.ingress \in SUBSET Nat /\ c.egress \in SUBSET Nat
    BY DEF CommandTypes
  <2>2. c.destination \in Ports /\ c.ingress \in SUBSET Ports /\ c.egress \in SUBSET Ports
    BY <1>2 DEF AcceptsMirror, Valid
  <2>3. s.mirror.ingress \in SUBSET Ports /\ s.mirror.egress \in SUBSET Ports
    BY DEF Legal, Configurations, Mirrors
  <2> DEFINE P == s.mirror.ingress \cup s.mirror.egress \cup c.ingress \cup c.egress
             n == Cardinality(P)
             a == Ascending(P)
             d == [op |-> "destination", port |-> c.destination]
             f == [i \in DOMAIN a |-> Source(a[i], c)]
  <2>4. /\ n \in Nat /\ a \in [1..n -> P]
        /\ \A p \in P : \E i \in 1..n : a[i] = p
        /\ P \in SUBSET Ports
    <3>1. P \in SUBSET Ports
      BY <2>2, <2>3
    <3> HIDE DEF P
    <3> QED  BY <3>1, AscendingPorts
  <2>5. MirrorWrites(c, s) = <<d>> \o f
    BY <1>2 DEF MirrorWrites
  <2> HIDE DEF P, n, a
  <2>6. \A p \in Ports : Source(p, c) \in LegalWrite
    BY DEF Source, LegalWrite, MirrorWrite
  <2>7. d \in LegalWrite
    BY <2>2 DEF LegalWrite, MirrorWrite
  <2> HIDE DEF d
  <2>8. /\ f \in [1..n -> LegalWrite]
        /\ \A i \in 1..n : a[i] \in Ports /\ f[i] = Source(a[i], c)
    BY <2>4, <2>6
  <2> HIDE DEF f
  <2>9. f \in Seq(LegalWrite) /\ Len(f) = n
    BY <2>4, <2>8
  <2> DEFINE w == <<d>> \o f
  <2>10. /\ w \in Seq(LegalWrite) /\ Len(w) = n + 1 /\ w[1] = d
         /\ \A i \in 2..(n + 1) : w[i] = f[i - 1]
    BY <2>4, <2>7, <2>9
  <2> HIDE DEF w
  <2>11. \A i \in 2..(n + 1) : i - 1 \in 1..n
    BY <2>4
  <2>12. ASSUME NEW i \in 2..Len(w) PROVE \E p \in Ports : w[i] = Source(p, c)
    BY <2>8, <2>10, <2>11, <2>12
  <2>13. ASSUME NEW p \in P PROVE \E i \in 2..Len(w) : w[i] = Source(p, c)
    <3>1. PICK j \in 1..n : a[j] = p
      BY <2>4
    <3>2. j + 1 \in 2..(n + 1) /\ (j + 1) - 1 = j
      BY <2>4
    <3> QED  BY <2>8, <2>10, <3>1, <3>2
  <2>14. w # <<>>
    BY <2>4, <2>10
  <2> QED  BY <1>2, <2>2, <2>5, <2>10, <2>12, <2>13, <2>14 DEF w, P, d
<1> QED  BY <1>1, <1>2

(* The MTU VLAN mode is written if it changes, and the uplink if it does.  *)
LEMMA MtuWritesAre ==
  ASSUME NEW s, Legal(s), NEW c \in CommandTypes, c.kind = "mtu", AcceptsMtu(c, s)
  PROVE  LET w == MtuWrites(c, s) IN
         /\ w \in Seq(LegalWrite)
         /\ \A i \in DOMAIN w :
                \/ w[i] = [op |-> "mode", mode |-> "mtu", on |-> c.on]
                \/ \E p \in Ports : /\ w[i] = [op |-> "uplink", port |-> p]
                                    /\ c.uplink # None => p = c.uplink
         /\ \/ (s.mode = "mtu") = c.on
            \/ \E i \in DOMAIN w : w[i] = [op |-> "mode", mode |-> "mtu", on |-> c.on]
         /\ c.on /\ c.uplink # None =>
               \/ s.uplink = c.uplink
               \/ \E i \in DOMAIN w : w[i] = [op |-> "uplink", port |-> c.uplink]
<1> DEFINE port == IF c.uplink = None THEN s.uplink ELSE c.uplink
           was == s.mode = "mtu"
           m == [op |-> "mode", mode |-> "mtu", on |-> c.on]
           u == [op |-> "uplink", port |-> port]
           w == MtuWrites(c, s)
<1>1. port \in Ports /\ c.on \in BOOLEAN
  BY DEF AcceptsMtu, Valid, Legal, Configurations, CommandTypes
<1>2. m \in LegalWrite /\ u \in LegalWrite
  BY <1>1 DEF LegalWrite, ModeWrite, UplinkWrite
<1>3. w = (IF was # c.on THEN <<m>> ELSE <<>>) \o (IF c.on /\ port # s.uplink THEN <<u>> ELSE <<>>)
  BY DEF MtuWrites
<1>4. u.port = port /\ was \in BOOLEAN
  OBVIOUS
<1> HIDE DEF m, u, w
<1>5. CASE was # c.on /\ c.on /\ port # s.uplink
  <2>1. w = <<m>> \o <<u>>
    <3> HIDE DEF was, port
    <3> QED  BY <1>3, <1>5, Zenon
  <2>2. w \in Seq(LegalWrite) /\ DOMAIN w = {1, 2} /\ w[1] = m /\ w[2] = u
    BY <1>2, <2>1
  <2> QED  BY <1>1, <2>2 DEF m, u, w
<1>6. CASE was # c.on /\ ~(c.on /\ port # s.uplink)
  <2>1. w = <<m>> \o <<>>
    <3> HIDE DEF was, port
    <3> QED  BY <1>3, <1>6, Zenon
  <2>2. w \in Seq(LegalWrite) /\ DOMAIN w = {1} /\ w[1] = m
    BY <1>2, <2>1
  <2> QED  BY <1>1, <1>6, <2>2 DEF m, w
<1>7. CASE ~(was # c.on) /\ c.on /\ port # s.uplink
  <2>1. w = <<u>>
    BY <1>3, <1>7
  <2>2. w \in Seq(LegalWrite) /\ DOMAIN w = {1} /\ w[1] = u
    BY <1>2, <2>1
  <2> QED  BY <1>1, <1>4, <1>7, <2>2 DEF u, w
<1>8. CASE ~(was # c.on) /\ ~(c.on /\ port # s.uplink)
  <2>1. w = <<>>
    BY <1>3, <1>8
  <2> QED  BY <1>1, <1>4, <1>8, <2>1 DEF w
<1> QED  BY <1>5, <1>6, <1>7, <1>8

-----------------------------------------------------------------------------
(* The invariant.                                                          *)

(* All members of a LAG are in P, or none is.                              *)
Whole(P, s) ==
    \A g \in Groups : \A p, q \in s.groups[g] : p \in P => q \in P

(* Every port has a VLAN if VLAN 1 gets members m.                         *)
Covered(m, s) ==
    Ports \subseteq Members(m) \cup UNION {Members(s.vlans[v]) : v \in DOMAIN s.vlans \ {1}}

(* A write that is right for a switch that has not changed since.          *)
Apt(w, s) ==
    /\ w.op = "vlan" => /\ w.vid \in DOMAIN s.vlans \/ Cardinality(DOMAIN s.vlans) < MaxVlans
                        /\ Whole(w.members.tagged, s)
                        /\ Whole(w.members.untagged, s)
                        /\ w.vid = 1 => Covered(w.members, s)
    /\ w.op \in {"portvlan", "pvid", "rate"} => Whole(w.ports, s)
    /\ w.op = "pvid" => /\ w.vid \in DOMAIN s.vlans
                        /\ w.ports \subseteq Members(s.vlans[w.vid])

Pending(w, plan) == \E i \in DOMAIN plan : plan[i] = w

MirrorOff == [op |-> "mirror_off"]

Destination(c) == [op |-> "destination", port |-> c.destination]

MtuMode(c) == [op |-> "mode", mode |-> "mtu", on |-> c.on]

Uplink(p) == [op |-> "uplink", port |-> p]

(* Of the mirror that c asks for, what the switch does not have yet is     *)
(* still to be written, and nothing else.                                  *)
MirrorAhead(c, plan, s) ==
    /\ ~c.on => /\ plan \in {<<>>, <<MirrorOff>>}
                /\ plan = <<>> => ~s.mirror.on
    /\ c.on =>
         /\ \A i \in DOMAIN plan : \/ plan[i] = Destination(c)
                                   \/ \E p \in Ports : plan[i] = Source(p, c)
         /\ \/ s.mirror.on /\ s.mirror.destination = c.destination
            \/ Pending(Destination(c), plan)
         /\ \A p \in Ports :
                \/ /\ p \in s.mirror.ingress <=> p \in c.ingress
                   /\ p \in s.mirror.egress <=> p \in c.egress
                \/ Pending(Source(p, c), plan)
         /\ c.ingress \subseteq Ports /\ c.egress \subseteq Ports

(* The same for the MTU VLAN and its uplink.                               *)
MtuAhead(c, plan, s) ==
    /\ \A i \in DOMAIN plan : \/ plan[i] = MtuMode(c)
                              \/ \E p \in Ports : /\ plan[i] = Uplink(p)
                                                  /\ c.uplink # None => p = c.uplink
    /\ (s.mode = "mtu") = c.on \/ Pending(MtuMode(c), plan)
    /\ c.on /\ c.uplink # None =>
           s.uplink = c.uplink \/ Pending(Uplink(c.uplink), plan)

(* Command c, undisturbed, is on its way on switch s.                      *)
Ahead(c, plan, s) ==
    CASE c.kind = "mirror" -> MirrorAhead(c, plan, s)
      [] c.kind = "mtu" -> MtuAhead(c, plan, s)
      [] OTHER -> Len(plan) = 1 /\ Apt(plan[1], s)

Jobs == [command : Commands \cup {None}, plan : Seq(LegalWrite), clean : BOOLEAN]

TypeInv ==
    /\ Legal(switch)
    /\ job \in [Tasks -> Jobs]
    /\ \A t \in Tasks : IF job[t].plan = <<>> THEN job[t] = Idle ELSE job[t].command # None
    /\ settled \in [{"mirror", "mtu"} -> Commands \cup {None}]
    /\ blind \in BOOLEAN
    /\ commands \in 0..MaxCommands
    /\ faults \in 0..MaxFaults

JobInv ==
    \A t \in Tasks :
        Running(t) /\ job[t].clean => Ahead(job[t].command, job[t].plan, switch)

(* The inductive invariant.                                                *)
IInv == TypeInv /\ JobInv /\ VlansFit /\ MirrorReplaced /\ MtuSettled

LEMMA CommandFacts ==
  ASSUME NEW c \in Commands
  PROVE  c \in CommandTypes /\ c # None
BY CommandsAssumption, NoneAssumption

(* A command that is accepted writes what is legal, and is on its way; of  *)
(* nothing but an MTU VLAN command may there be nothing to write.          *)
LEMMA StartPlan ==
  ASSUME NEW s, Legal(s), NEW c \in CommandTypes, Accepts(c, s)
  PROVE  /\ Writes(c, s) \in Seq(LegalWrite)
         /\ Ahead(c, Writes(c, s), s)
         /\ Writes(c, s) = <<>> => c.kind = "mtu"
<1>1. CASE c.kind = "mirror"
  <2> DEFINE w == Writes(c, s)
  <2>1. w = MirrorWrites(c, s) /\ AcceptsMirror(c, s)
    BY <1>1 DEF Writes, Accepts
  <2>2. s.mirror.ingress \subseteq Ports /\ s.mirror.egress \subseteq Ports
    BY DEF Legal, Configurations, Mirrors
  <2> HIDE DEF w
  <2>3. w \in Seq(LegalWrite) /\ w # <<>>
    BY <1>1, <2>1, MirrorWritesAre
  <2>4. DOMAIN w = 1..Len(w) /\ Len(w) \in Nat /\ Len(w) >= 1
    BY <2>3
  <2>5. MirrorAhead(c, w, s)
    <3>1. CASE ~c.on
      BY <1>1, <2>1, <2>3, <3>1, MirrorWritesAre DEF MirrorAhead, MirrorOff
    <3>2. CASE c.on
      <4>1. /\ c.ingress \cup c.egress \subseteq Ports
            /\ w[1] = Destination(c)
            /\ \A i \in 2..Len(w) : \E p \in Ports : w[i] = Source(p, c)
            /\ \A p \in s.mirror.ingress \cup s.mirror.egress \cup c.ingress \cup c.egress :
                   \E i \in 2..Len(w) : w[i] = Source(p, c)
        BY <1>1, <2>1, <3>2, MirrorWritesAre DEF Destination
      <4>2. Pending(Destination(c), w)
        BY <2>4, <4>1 DEF Pending
      <4>3. ASSUME NEW i \in DOMAIN w
            PROVE  w[i] = Destination(c) \/ \E p \in Ports : w[i] = Source(p, c)
        <5>1. i = 1 \/ i \in 2..Len(w)
          BY <2>4
        <5> QED  BY <4>1, <5>1
      <4>4. ASSUME NEW p \in Ports
            PROVE  \/ /\ p \in s.mirror.ingress <=> p \in c.ingress
                      /\ p \in s.mirror.egress <=> p \in c.egress
                   \/ Pending(Source(p, c), w)
        <5>1. CASE p \in s.mirror.ingress \cup s.mirror.egress \cup c.ingress \cup c.egress
          <6>1. PICK i \in 2..Len(w) : w[i] = Source(p, c)
            BY <4>1, <5>1
          <6>2. i \in DOMAIN w
            BY <2>4
          <6> QED  BY <6>1, <6>2 DEF Pending
        <5> QED  BY <5>1
      <4> QED  BY <3>2, <4>1, <4>2, <4>3, <4>4 DEF MirrorAhead
    <3> QED  BY <3>1, <3>2
  <2> QED  BY <1>1, <2>3, <2>5 DEF Ahead, w
<1>2. CASE c.kind = "mtu"
  <2>1. Writes(c, s) = MtuWrites(c, s) /\ AcceptsMtu(c, s)
    BY <1>2 DEF Writes, Accepts
  <2>2. MtuWrites(c, s) \in Seq(LegalWrite) /\ MtuAhead(c, MtuWrites(c, s), s)
    BY <1>2, <2>1, MtuWritesAre DEF MtuAhead, MtuMode, Uplink, Pending
  <2> QED  BY <1>2, <2>1, <2>2 DEF Ahead
<1>3. CASE c.kind \notin {"mirror", "mtu"}
  <2>1. SUFFICES \E w \in LegalWrite : Writes(c, s) = <<w>> /\ Apt(w, s)
    <3>1. PICK w \in LegalWrite : Writes(c, s) = <<w>> /\ Apt(w, s)
      BY <2>1
    <3>2. <<w>> # <<>>
      OBVIOUS
    <3> QED  BY <1>3, <3>1, <3>2, OneWrite DEF Ahead
  <2>2. \A P \in SUBSET Ports : Expanded(P, s) \in SUBSET Ports /\ Whole(Expanded(P, s), s)
    BY ExpandedPorts, ExpandedWhole DEF Whole
  <2>3. CASE c.kind = "lag"
    <3> DEFINE w == [op |-> "lag", group |-> c.group, ports |-> c.ports]
    <3>1. Writes(c, s) = <<w>> /\ AcceptsLag(c, s)
      BY <2>3 DEF Writes, Accepts
    <3>2. /\ c.group \in Groups /\ c.ports \in SUBSET Ports
          /\ c.ports \subseteq GroupPorts(c.group)
          /\ Cardinality(c.ports) <= PortsPerGroup
      BY <3>1, SizesAssumption DEF AcceptsLag, Valid
    <3>3. w \in LegalWrite
      BY <3>2 DEF LegalWrite, LagWrite
    <3> QED  BY <3>1, <3>3 DEF Apt
  <2>4. CASE c.kind = "no_lag"
    <3> DEFINE w == [op |-> "lag", group |-> c.group, ports |-> {}]
    <3>1. Writes(c, s) = <<w>> /\ c.group \in Groups
      BY <2>4 DEF Writes, Accepts, AcceptsNoLag
    <3>2. Cardinality({}) <= PortsPerGroup
      <4>1. Cardinality({}) = 0
        BY FS_EmptySet
      <4> QED  BY <4>1, SizesAssumption
    <3>3. w \in LegalWrite
      BY <3>1, <3>2 DEF LegalWrite, LagWrite
    <3> QED  BY <3>1, <3>3 DEF Apt
  <2>5. CASE c.kind = "mode"
    <3> DEFINE w == [op |-> "mode", mode |-> c.mode, on |-> c.on]
    <3>1. Writes(c, s) = <<w>>
      BY <2>5 DEF Writes
    <3>2. c.mode \in {"port", "8021q"} /\ c.on \in BOOLEAN
      BY <2>5 DEF CommandTypes
    <3>3. w \in LegalWrite
      BY <3>2 DEF LegalWrite, ModeWrite
    <3> QED  BY <3>1, <3>3 DEF Apt
  <2>6. CASE c.kind = "portvlan"
    <3> DEFINE w == [op |-> "portvlan", vid |-> c.vid, ports |-> Expanded(c.ports, s)]
    <3>1. Writes(c, s) = <<w>> /\ AcceptsPortVlan(c, s)
      BY <2>6 DEF Writes, Accepts
    <3>2. c.vid \in Ports /\ c.ports \in SUBSET Ports
      BY <3>1, SizesAssumption DEF AcceptsPortVlan, Valid, Ports
    <3>3. w \in LegalWrite /\ Whole(w.ports, s)
      BY <2>2, <3>2 DEF LegalWrite, PortVlanWrite
    <3> QED  BY <3>1, <3>3 DEF Apt
  <2>7. CASE c.kind = "no_portvlan"
    <3> DEFINE w == [op |-> "no_portvlan", vid |-> c.vid]
    <3>1. Writes(c, s) = <<w>>
      BY <2>7 DEF Writes
    <3>2. c.vid \in Nat
      BY <2>7 DEF CommandTypes
    <3>3. w \in LegalWrite
      BY <3>2 DEF LegalWrite, PortVlanWrite
    <3> QED  BY <3>1, <3>3 DEF Apt
  <2>8. CASE c.kind = "vlan"
    <3> DEFINE m == VlanOf(c, s)
               w == [op |-> "vlan", vid |-> c.vid, members |-> m]
    <3>1. Writes(c, s) = <<w>> /\ AcceptsVlan(c, s)
      BY <2>8 DEF Writes, Accepts
    <3>2. c.tagged \in SUBSET Ports /\ c.untagged \in SUBSET Ports
      BY <3>1 DEF AcceptsVlan, Valid
    <3>3. c.vid \in VlanIds
      BY <2>8 DEF CommandTypes
    <3>4. m \in Memberships /\ Whole(m.tagged, s) /\ Whole(m.untagged, s)
      BY <2>2, <3>2 DEF VlanOf, Memberships
    <3>5. /\ m.tagged \cap m.untagged = {}
          /\ c.vid \in DOMAIN s.vlans \/ Cardinality(DOMAIN s.vlans) < MaxVlans
          /\ c.vid = 1 => Covered(m, s)
      BY <3>1 DEF AcceptsVlan, Covered
    <3> HIDE DEF m
    <3>6. w \in LegalWrite
      BY <3>3, <3>4, <3>5 DEF LegalWrite, VlanWrite
    <3> QED  BY <3>1, <3>4, <3>5, <3>6 DEF Apt
  <2>9. CASE c.kind = "no_vlan"
    <3> DEFINE w == [op |-> "no_vlan", vid |-> c.vid]
    <3>1. Writes(c, s) = <<w>> /\ c.vid # 1
      BY <2>9 DEF Writes, Accepts, AcceptsNoVlan
    <3>2. c.vid \in VlanIds
      BY <2>9 DEF CommandTypes
    <3>3. w \in LegalWrite
      BY <3>1, <3>2 DEF LegalWrite, NoVlanWrite
    <3> QED  BY <3>1, <3>3 DEF Apt
  <2>10. CASE c.kind = "pvid"
    <3> DEFINE w == [op |-> "pvid", ports |-> Expanded(c.ports, s), vid |-> c.vid]
    <3>1. Writes(c, s) = <<w>> /\ c.ports \in SUBSET Ports
      BY <2>10 DEF Writes, Accepts, AcceptsPvid, Valid
    <3>2. c.vid \in VlanIds
      BY <2>10 DEF CommandTypes
    <3>3. w \in LegalWrite /\ Whole(w.ports, s)
      BY <2>2, <3>1, <3>2 DEF LegalWrite, PvidWrite
    <3>4. c.vid \in DOMAIN s.vlans /\ w.ports \subseteq Members(s.vlans[c.vid])
      BY <2>10, <3>1 DEF Writes, Accepts, AcceptsPvid
    <3> QED  BY <3>1, <3>3, <3>4 DEF Apt
  <2>11. CASE c.kind = "rate"
    <3> DEFINE w == [op |-> "rate", ports |-> Expanded({c.port}, s), value |-> c.value]
    <3>1. Writes(c, s) = <<w>> /\ {c.port} \in SUBSET Ports
      BY <2>11 DEF Writes, Accepts, AcceptsRate, Valid
    <3>2. c.value \in Nat
      BY <2>11 DEF CommandTypes
    <3>3. w \in LegalWrite /\ Whole(w.ports, s)
      BY <2>2, <3>1, <3>2 DEF LegalWrite, RateWrite
    <3> QED  BY <3>1, <3>3 DEF Apt
  <2>12. c.kind \in {"lag", "no_lag", "mode", "portvlan", "no_portvlan", "vlan", "no_vlan",
                     "pvid", "rate"}
    BY <1>3 DEF CommandTypes
  <2> QED  BY <2>3, <2>4, <2>5, <2>6, <2>7, <2>8, <2>9, <2>10, <2>11, <2>12
<1> QED  BY <1>1, <1>2, <1>3

-----------------------------------------------------------------------------
(* The writes of a command, one after the other.                           *)

LEMMA HeadAndTail ==
  ASSUME NEW S, NEW plan \in Seq(S), plan # <<>>
  PROVE  /\ Head(plan) = plan[1] /\ plan[1] \in S /\ 1 \in DOMAIN plan
         /\ Tail(plan) \in Seq(S) /\ Len(Tail(plan)) = Len(plan) - 1
         /\ \A i \in DOMAIN Tail(plan) : i + 1 \in DOMAIN plan /\ Tail(plan)[i] = plan[i + 1]
         /\ \A i \in DOMAIN plan \ {1} :
                i - 1 \in DOMAIN Tail(plan) /\ plan[i] = Tail(plan)[i - 1]
OBVIOUS

(* What is pending is the next write, or it is so after it.                *)
LEMMA PendingTail ==
  ASSUME NEW plan \in Seq(LegalWrite), plan # <<>>, NEW w, Pending(w, plan), w # Head(plan)
  PROVE  Pending(w, Tail(plan))
<1>1. PICK i \in DOMAIN plan : plan[i] = w
  BY DEF Pending
<1>2. i # 1
  BY <1>1, HeadAndTail
<1>3. i - 1 \in DOMAIN Tail(plan) /\ Tail(plan)[i - 1] = w
  BY <1>1, <1>2, HeadAndTail
<1> QED  BY <1>3 DEF Pending

LEMMA NothingPending ==
  ASSUME NEW w
  PROVE  ~Pending(w, <<>>)
BY DEF Pending

(* A mirror command is further on after each of its writes.                *)
LEMMA MirrorGoesOn ==
  ASSUME NEW s, Legal(s), NEW c \in CommandTypes, c.kind = "mirror",
         NEW plan \in Seq(LegalWrite), plan # <<>>, MirrorAhead(c, plan, s),
         NEW n \in Effects(Head(plan), s)
  PROVE  MirrorAhead(c, Tail(plan), n)
<1> DEFINE w == Head(plan)
           rest == Tail(plan)
<1>1. s.mirror \in Mirrors
  BY DEF Legal, Configurations
<1>2. CASE ~c.on
  <2>1. plan = <<MirrorOff>>
    BY <1>2 DEF MirrorAhead
  <2>2. w = MirrorOff /\ rest = <<>>
    BY <2>1
  <2>3. MirrorOff \in MirrorWrite /\ MirrorOff.op = "mirror_off"
    BY DEF MirrorOff, MirrorWrite
  <2>4. n.mirror = [s.mirror EXCEPT !.on = FALSE]
    <3>1. n.mirror = MirrorAfter(MirrorOff, s.mirror)
      BY <2>2, <2>3, MirrorEffect
    <3> QED  BY <2>3, <3>1 DEF MirrorAfter
  <2>5. ~n.mirror.on
    BY <1>1, <2>4 DEF Mirrors
  <2> QED  BY <1>2, <2>2, <2>5 DEF MirrorAhead
<1>3. CASE c.on
  <2>1. rest \in Seq(LegalWrite) /\ w = plan[1] /\ 1 \in DOMAIN plan
    BY HeadAndTail
  <2>2. \A i \in DOMAIN rest : \/ rest[i] = Destination(c)
                               \/ \E p \in Ports : rest[i] = Source(p, c)
    BY <1>3, HeadAndTail DEF MirrorAhead
  <2>3. /\ \/ s.mirror.on /\ s.mirror.destination = c.destination
           \/ Pending(Destination(c), plan)
        /\ \A p \in Ports :
                \/ /\ p \in s.mirror.ingress <=> p \in c.ingress
                   /\ p \in s.mirror.egress <=> p \in c.egress
                \/ Pending(Source(p, c), plan)
        /\ c.ingress \subseteq Ports /\ c.egress \subseteq Ports
    BY <1>3 DEF MirrorAhead
  <2>4. w = Destination(c) \/ \E p \in Ports : w = Source(p, c)
    BY <1>3, <2>1 DEF MirrorAhead
  <2> HIDE DEF w, rest
  <2>5. CASE w = Destination(c)
    <3>1. w.op = "destination" /\ w.port = c.destination
      BY <2>5 DEF Destination
    <3>2. w \in MirrorWrite
      <4>1. w \in LegalWrite
        BY HeadAndTail DEF w
      <4> QED  BY <3>1, <4>1 DEF LegalWrite, MirrorWrite, ModeWrite, UplinkWrite, LagWrite,
                       PortVlanWrite, VlanWrite, NoVlanWrite, PvidWrite, RateWrite
    <3>3. n.mirror = [s.mirror EXCEPT !.on = TRUE, !.destination = w.port]
      <4>1. n.mirror = MirrorAfter(w, s.mirror)
        BY <3>2, MirrorEffect DEF w
      <4> QED  BY <3>1, <4>1 DEF MirrorAfter
    <3>4. /\ n.mirror.on /\ n.mirror.destination = c.destination
          /\ n.mirror.ingress = s.mirror.ingress /\ n.mirror.egress = s.mirror.egress
      BY <1>1, <3>1, <3>3 DEF Mirrors
    <3>5. \A p \in Ports : Pending(Source(p, c), plan) => Pending(Source(p, c), rest)
      BY <2>5, PendingTail DEF Source, Destination, w, rest
    <3> QED  BY <1>3, <2>2, <2>3, <3>4, <3>5 DEF MirrorAhead, rest
  <2>6. CASE \E p \in Ports : w = Source(p, c)
    <3>1. PICK q \in Ports : w = Source(q, c)
      BY <2>6
    <3>2. /\ w.op = "source" /\ w.port = q
          /\ w.ingress = (q \in c.ingress) /\ w.egress = (q \in c.egress)
      BY <3>1 DEF Source
    <3>3. w \in MirrorWrite
      BY <3>1 DEF MirrorWrite, Source
    <3>4. n.mirror = [s.mirror EXCEPT !.ingress = With(@, w.port, w.ingress),
                                      !.egress = With(@, w.port, w.egress)]
      <4>1. n.mirror = MirrorAfter(w, s.mirror)
        BY <3>3, MirrorEffect DEF w
      <4> QED  BY <3>2, <4>1 DEF MirrorAfter
    <3>5. /\ n.mirror.on = s.mirror.on /\ n.mirror.destination = s.mirror.destination
          /\ n.mirror.ingress = With(s.mirror.ingress, q, w.ingress)
          /\ n.mirror.egress = With(s.mirror.egress, q, w.egress)
      BY <1>1, <3>2, <3>4 DEF Mirrors
    <3>6. /\ q \in n.mirror.ingress <=> q \in c.ingress
          /\ q \in n.mirror.egress <=> q \in c.egress
      BY <3>2, <3>5 DEF With
    <3>7. \A p \in Ports \ {q} : /\ p \in n.mirror.ingress <=> p \in s.mirror.ingress
                                 /\ p \in n.mirror.egress <=> p \in s.mirror.egress
      BY <3>5 DEF With
    <3>8. \A p \in Ports \ {q} : Pending(Source(p, c), plan) => Pending(Source(p, c), rest)
      <4>1. \A p \in Ports \ {q} : Source(p, c) # w
        BY <3>2 DEF Source
      <4> QED  BY <4>1, PendingTail DEF w, rest
    <3>9. Pending(Destination(c), plan) => Pending(Destination(c), rest)
      <4>1. Destination(c) # w
        BY <3>2 DEF Destination
      <4> QED  BY <4>1, PendingTail DEF w, rest
    <3> QED  BY <1>3, <2>2, <2>3, <3>5, <3>6, <3>7, <3>8, <3>9 DEF MirrorAhead, rest
  <2> QED  BY <2>4, <2>5, <2>6
<1> QED  BY <1>2, <1>3

(* And so is a command about the MTU VLAN.                                 *)
LEMMA MtuGoesOn ==
  ASSUME NEW s, Legal(s), NEW c \in CommandTypes, c.kind = "mtu",
         NEW plan \in Seq(LegalWrite), plan # <<>>, MtuAhead(c, plan, s),
         NEW n \in Effects(Head(plan), s)
  PROVE  MtuAhead(c, Tail(plan), n)
<1> DEFINE w == Head(plan)
           rest == Tail(plan)
<1>1. c.on \in BOOLEAN
  BY DEF CommandTypes
<1>2. rest \in Seq(LegalWrite) /\ w = plan[1] /\ 1 \in DOMAIN plan
  BY HeadAndTail
<1>3. \A i \in DOMAIN rest : \/ rest[i] = MtuMode(c)
                             \/ \E p \in Ports : /\ rest[i] = Uplink(p)
                                                 /\ c.uplink # None => p = c.uplink
  BY HeadAndTail DEF MtuAhead
<1>4. \/ w = MtuMode(c)
      \/ \E p \in Ports : /\ w = Uplink(p)
                          /\ c.uplink # None => p = c.uplink
  BY <1>2 DEF MtuAhead
<1>5. /\ (s.mode = "mtu") = c.on \/ Pending(MtuMode(c), plan)
      /\ c.on /\ c.uplink # None =>
             s.uplink = c.uplink \/ Pending(Uplink(c.uplink), plan)
  BY DEF MtuAhead
<1> HIDE DEF w, rest
<1>6. CASE w = MtuMode(c)
  <2>1. w \in ModeWrite /\ w.mode = "mtu" /\ w.on = c.on
    BY <1>1, <1>6 DEF MtuMode, ModeWrite
  <2>2. /\ n.uplink = s.uplink
        /\ c.on => n.mode = "mtu"
        /\ ~c.on => n.mode # "mtu"
    BY <2>1, ModeEffect DEF w
  <2>3. Pending(Uplink(c.uplink), plan) => Pending(Uplink(c.uplink), rest)
    <3>1. Uplink(c.uplink) # w
      BY <1>6 DEF MtuMode, Uplink
    <3> QED  BY <3>1, PendingTail DEF w, rest
  <2>4. (n.mode = "mtu") = c.on
    BY <1>1, <2>2
  <2> QED  BY <1>3, <1>5, <2>2, <2>3, <2>4 DEF MtuAhead, rest
<1>7. CASE \E p \in Ports : w = Uplink(p) /\ (c.uplink # None => p = c.uplink)
  <2>1. PICK p \in Ports : w = Uplink(p) /\ (c.uplink # None => p = c.uplink)
    BY <1>7
  <2>2. w \in UplinkWrite /\ w.op = "uplink" /\ w.port = p
    BY <2>1 DEF Uplink, UplinkWrite
  <2>3. w \in LegalWrite \ (MirrorWrite \cup ModeWrite)
    BY <2>2 DEF LegalWrite, MirrorWrite, ModeWrite
  <2>4. n.mode = s.mode /\ n.uplink = p
    BY <2>2, <2>3, PlainEffect DEF w
  <2>5. Pending(MtuMode(c), plan) => Pending(MtuMode(c), rest)
    <3>1. MtuMode(c) # w
      BY <2>2 DEF MtuMode
    <3> QED  BY <3>1, PendingTail DEF w, rest
  <2>6. c.uplink # None => n.uplink = c.uplink
    BY <2>1, <2>4
  <2> QED  BY <1>3, <1>5, <2>4, <2>5, <2>6 DEF MtuAhead, rest
<1> QED  BY <1>4, <1>6, <1>7

(* A command that has more to write is further on after a write.           *)
LEMMA GoesOn ==
  ASSUME NEW s, Legal(s), NEW c \in CommandTypes,
         NEW plan \in Seq(LegalWrite), plan # <<>>, Ahead(c, plan, s),
         NEW n \in Effects(Head(plan), s)
  PROVE  /\ Tail(plan) # <<>> => Ahead(c, Tail(plan), n)
         /\ c.kind = "mirror" => MirrorAhead(c, Tail(plan), n)
         /\ c.kind = "mtu" => MtuAhead(c, Tail(plan), n)
<1>1. CASE c.kind = "mirror"
  BY <1>1, MirrorGoesOn DEF Ahead
<1>2. CASE c.kind = "mtu"
  BY <1>2, MtuGoesOn DEF Ahead
<1>3. CASE c.kind \notin {"mirror", "mtu"}
  <2>1. Len(plan) = 1
    BY <1>3 DEF Ahead
  <2>2. Tail(plan) \in Seq(LegalWrite) /\ Len(Tail(plan)) = 0
    BY <2>1, HeadAndTail
  <2>3. Tail(plan) = <<>>
    <3> DEFINE rest == Tail(plan)
    <3> HIDE DEF rest
    <3>1. rest \in Seq(LegalWrite) /\ Len(rest) = 0
      BY <2>2 DEF rest
    <3>2. rest = <<>>
      BY <3>1
    <3> QED  BY <3>2 DEF rest
  <2> QED  BY <1>3, <2>3
<1> QED  BY <1>1, <1>2, <1>3

(* The next write of a command that was not disturbed is right.            *)
LEMMA NextIsApt ==
  ASSUME NEW s, NEW c \in CommandTypes,
         NEW plan \in Seq(LegalWrite), plan # <<>>, Ahead(c, plan, s)
  PROVE  Apt(Head(plan), s)
<1> DEFINE w == Head(plan)
<1>1. w = plan[1] /\ 1 \in DOMAIN plan
  BY HeadAndTail
<1> HIDE DEF w
<1>2. CASE c.kind = "mirror"
  <2>1. MirrorAhead(c, plan, s)
    BY <1>2 DEF Ahead
  <2>2. w = MirrorOff \/ w = Destination(c) \/ \E p \in Ports : w = Source(p, c)
    <3>1. CASE c.on
      BY <1>1, <2>1, <3>1 DEF MirrorAhead
    <3>2. CASE ~c.on
      <4>1. plan = <<MirrorOff>>
        BY <2>1, <3>2 DEF MirrorAhead
      <4> QED  BY <1>1, <4>1
    <3> QED  BY <3>1, <3>2
  <2>3. w.op \in {"mirror_off", "destination", "source"}
    BY <2>2 DEF MirrorOff, Destination, Source
  <2> QED  BY <2>3 DEF Apt, w
<1>3. CASE c.kind = "mtu"
  <2>1. w = MtuMode(c) \/ \E p \in Ports : w = Uplink(p)
    BY <1>1, <1>3 DEF Ahead, MtuAhead
  <2>2. w.op \in {"mode", "uplink"}
    BY <2>1 DEF MtuMode, Uplink
  <2> QED  BY <2>2 DEF Apt, w
<1>4. CASE c.kind \notin {"mirror", "mtu"}
  BY <1>1, <1>4 DEF Ahead, w
<1> QED  BY <1>2, <1>3, <1>4

-----------------------------------------------------------------------------
(* What a write leaves alone.                                              *)

LEMMA Subjects ==
  ASSUME NEW w \in LegalWrite
  PROVE  /\ w \in MirrorWrite <=> Subject(w) = "mirror"
         /\ w \in ModeWrite \cup UplinkWrite <=> Subject(w) = "mtu"
         /\ w \in UplinkWrite => w.op = "uplink"
         /\ w.op = "uplink" => w \in UplinkWrite
BY DEF Subject, LegalWrite, MirrorWrite, ModeWrite, UplinkWrite, LagWrite,
       PortVlanWrite, VlanWrite, NoVlanWrite, PvidWrite, RateWrite

LEMMA EffectOf ==
  ASSUME NEW s, Legal(s), NEW w \in LegalWrite, NEW n \in Effects(w, s)
  PROVE  /\ Legal(n)
         /\ Subject(w) # "mirror" => n.mirror = s.mirror
         /\ Subject(w) # "mtu" => n.mode = s.mode /\ n.uplink = s.uplink
<1>1. CASE w \in MirrorWrite
  BY <1>1, Subjects, MirrorEffect
<1>2. CASE w \in ModeWrite
  BY <1>2, Subjects, ModeEffect
<1>3. CASE w \in LegalWrite \ (MirrorWrite \cup ModeWrite)
  <2>1. /\ Legal(n) /\ n.mirror = s.mirror /\ n.mode = s.mode
        /\ n.uplink = IF w.op = "uplink" THEN w.port ELSE s.uplink
    BY <1>3, PlainEffect
  <2>2. Subject(w) # "mtu" => w.op # "uplink"
    BY Subjects
  <2> QED  BY <2>1, <2>2
<1> QED  BY <1>1, <1>2, <1>3

(* A write that was right leaves no more VLANs than there is room for.     *)
LEMMA StillFit ==
  ASSUME NEW s, Legal(s), NEW w \in LegalWrite, NEW n \in Effects(w, s), Apt(w, s),
         Cardinality(DOMAIN s.vlans) <= MaxVlans
  PROVE  Cardinality(DOMAIN n.vlans) <= MaxVlans
<1> DEFINE D == DOMAIN s.vlans
<1>1. IsFiniteSet(D) /\ Cardinality(D) \in Nat
  <2>1. D \in SUBSET VlanIds
    BY DEF Legal, Configurations, Vlans
  <2> QED  BY <2>1, PortFacts, FS_Subset, FS_CardinalityType
<1>2. MaxVlans \in Nat /\ 1 <= MaxVlans
  BY SizesAssumption
<1>3. CASE w \in MirrorWrite
  BY <1>3, MirrorEffect
<1>4. CASE w \in ModeWrite
  <2>1. n.vlans \in {s.vlans, DefaultVlans}
    BY <1>4, ModeEffect
  <2>2. Cardinality(DOMAIN DefaultVlans) = 1
    BY Defaults, FS_Singleton
  <2> QED  BY <1>2, <2>1, <2>2
<1>5. CASE w \in LegalWrite \ (MirrorWrite \cup ModeWrite)
  <2>1. n.vlans = IF w.op = "vlan" THEN Set(s.vlans, w.vid, w.members)
                  ELSE IF w.op = "no_vlan" THEN Unset(s.vlans, w.vid)
                  ELSE s.vlans
    BY <1>5, PlainEffect
  <2>2. CASE w.op = "vlan"
    <3>1. DOMAIN n.vlans = D \cup {w.vid}
      BY <2>1, <2>2 DEF Set
    <3>2. CASE w.vid \in D
      <4>1. D \cup {w.vid} = D
        BY <3>2
      <4> QED  BY <3>1, <4>1
    <3>3. CASE w.vid \notin D
      <4>1. Cardinality(D \cup {w.vid}) = Cardinality(D) + 1
        BY <1>1, <3>3, FS_AddElement
      <4>2. Cardinality(D) < MaxVlans
        BY <2>2, <3>3 DEF Apt
      <4> HIDE DEF D
      <4> QED  BY <1>1, <1>2, <3>1, <4>1, <4>2
    <3> QED  BY <3>2, <3>3
  <2>3. CASE w.op = "no_vlan"
    <3>1. DOMAIN n.vlans = D \ {w.vid}
      BY <2>1, <2>3 DEF Unset
    <3>2. Cardinality(D \ {w.vid}) <= Cardinality(D) /\ Cardinality(D \ {w.vid}) \in Nat
      <4>1. D \ {w.vid} \in SUBSET D
        OBVIOUS
      <4>2. IsFiniteSet(D \ {w.vid}) /\ Cardinality(D \ {w.vid}) <= Cardinality(D)
        BY <1>1, <4>1, FS_Subset
      <4> QED  BY <4>2, FS_CardinalityType
    <3> HIDE DEF D
    <3> QED  BY <1>1, <1>2, <3>1, <3>2 DEF D
  <2> QED  BY <2>1, <2>2, <2>3
<1> QED  BY <1>3, <1>4, <1>5

-----------------------------------------------------------------------------
(* Steps.                                                                  *)

(* What becomes of the jobs when that of task t goes on with plan p.       *)
LEMMA Proceeds ==
  ASSUME TypeInv, NEW t \in Tasks, Running(t), NEW p \in Seq(LegalWrite),
         NEW clean \in BOOLEAN, NEW changed \in BOOLEAN, Proceed(t, p, clean, changed)
  PROVE  /\ job' \in [Tasks -> Jobs]
         /\ \A u \in Tasks : IF job'[u].plan = <<>> THEN job'[u] = Idle
                             ELSE job'[u].command # None
         /\ \A u \in Tasks \ {t} :
                /\ job'[u].command = job[u].command /\ job'[u].plan = job[u].plan
                /\ job'[u].clean /\ Running(u) => job[u].clean /\ ~changed
         /\ p # <<>> => /\ job'[t].command = job[t].command /\ job'[t].plan = p
                        /\ job'[t].clean = clean
         /\ p = <<>> => job'[t] = Idle
<1>1. /\ job \in [Tasks -> Jobs]
      /\ \A u \in Tasks : IF job[u].plan = <<>> THEN job[u] = Idle ELSE job[u].command # None
  BY DEF TypeInv
<1>2. Idle \in Jobs /\ Idle.plan = <<>>
  BY DEF Idle, Jobs
<1>3. /\ job[t] \in Jobs /\ job[t].command # None
      /\ job'[t] = IF p = <<>> THEN Idle
                   ELSE [job[t] EXCEPT !.plan = p, !.clean = clean]
  BY <1>1 DEF Proceed, Running
<1>4. /\ job'[t] \in Jobs
      /\ p # <<>> => /\ job'[t].command = job[t].command /\ job'[t].plan = p
                     /\ job'[t].clean = clean
  <2>1. CASE p = <<>>
    BY <1>2, <1>3, <2>1
  <2>2. CASE p # <<>>
    <3>1. job'[t] = [job[t] EXCEPT !.plan = p, !.clean = clean]
      BY <1>3, <2>2
    <3> QED  BY <1>3, <3>1 DEF Jobs
  <2> QED  BY <2>1, <2>2
<1>5. ASSUME NEW u \in Tasks \ {t}
      PROVE  /\ job'[u] \in Jobs
             /\ job'[u].command = job[u].command /\ job'[u].plan = job[u].plan
             /\ job'[u].clean /\ Running(u) => job[u].clean /\ ~changed
             /\ job[u] = Idle => job'[u] = Idle
  <2> DEFINE c == job[u].clean /\ (changed => job[u] = Idle)
  <2>1. job'[u] = [job[u] EXCEPT !.clean = c] /\ job[u] \in Jobs /\ c \in BOOLEAN
    BY <1>1, <1>5 DEF Proceed
  <2>2. Running(u) => job[u] # Idle
    BY <1>2 DEF Running
  <2>3. c /\ Running(u) => job[u].clean /\ ~changed
    BY <2>2
  <2>4. job[u] = Idle => c = TRUE
    <3>1. job[u] = Idle => job[u].clean = TRUE
      BY DEF Idle
    <3> QED  BY <3>1
  <2> HIDE DEF c
  <2>5. job'[u] \in Jobs /\ job'[u].command = job[u].command /\ job'[u].plan = job[u].plan
        /\ job'[u].clean = c
    <3> DEFINE j == job[u]
               k == job'[u]
    <3> HIDE DEF j, k
    <3>1. k = [j EXCEPT !.clean = c] /\ j \in Jobs /\ c \in BOOLEAN
      BY <2>1 DEF j, k
    <3>2. k \in Jobs /\ k.command = j.command /\ k.plan = j.plan /\ k.clean = c
      BY <3>1 DEF Jobs
    <3> QED  BY <3>2 DEF j, k
  <2>6. ASSUME job[u] = Idle PROVE job'[u] = Idle
    <3>1. c = TRUE
      BY <2>4, <2>6
    <3>2. /\ job'[u] \in Jobs /\ job'[u].command = None /\ job'[u].plan = <<>>
          /\ job'[u].clean = TRUE
      BY <2>5, <2>6, <3>1 DEF Idle
    <3> DEFINE k == job'[u]
    <3> HIDE DEF k
    <3>3. k = [command |-> None, plan |-> <<>>, clean |-> TRUE]
      BY <3>2 DEF Jobs, k
    <3> QED  BY <3>3 DEF Idle, k
  <2> QED  BY <2>3, <2>5, <2>6
<1>6. job' \in [Tasks -> Jobs]
  <2>1. job' = [u \in Tasks |-> job'[u]]
    BY DEF Proceed
  <2>2. \A u \in Tasks : job'[u] \in Jobs
    BY <1>4, <1>5
  <2> QED  BY <2>1, <2>2
<1>7. ASSUME NEW u \in Tasks
      PROVE  IF job'[u].plan = <<>> THEN job'[u] = Idle ELSE job'[u].command # None
  <2>1. CASE u = t
    <3>1. CASE p = <<>>
      BY <1>2, <1>3, <2>1, <3>1
    <3>2. CASE p # <<>>
      BY <1>3, <1>4, <2>1, <3>2
    <3> QED  BY <3>1, <3>2
  <2>2. CASE u # t
    BY <1>1, <1>5, <2>2
  <2> QED  BY <2>1, <2>2
<1>8. p = <<>> => job'[t] = Idle
  BY <1>3
<1> QED  BY <1>4, <1>5, <1>6, <1>7, <1>8

(* A change of the switch leaves no other command undisturbed.             *)
LEMMA JobsGoOn ==
  ASSUME TypeInv, JobInv, NEW t \in Tasks, Running(t), NEW p \in Seq(LegalWrite),
         NEW clean \in BOOLEAN, NEW changed \in BOOLEAN, Proceed(t, p, clean, changed),
         changed \/ switch' = switch,
         p # <<>> /\ clean => Ahead(job[t].command, p, switch')
  PROVE  JobInv'
<1> SUFFICES ASSUME NEW u \in Tasks, job'[u].plan # <<>>, job'[u].clean
             PROVE  Ahead(job'[u].command, job'[u].plan, switch')
  BY DEF JobInv, Running
<1>1. CASE u = t
  <2>1. p # <<>>
    <3>1. Idle.plan = <<>>
      BY DEF Idle
    <3> QED  BY <1>1, <3>1, Proceeds
  <2>2. job'[t].command = job[t].command /\ job'[t].plan = p /\ job'[t].clean = clean
    BY <2>1, Proceeds
  <2> QED  BY <1>1, <2>1, <2>2
<1>2. CASE u # t
  <2>1. /\ job'[u].command = job[u].command /\ job'[u].plan = job[u].plan
        /\ job'[u].clean /\ Running(u) => job[u].clean /\ ~changed
    BY <1>2, Proceeds
  <2>2. Running(u) /\ job[u].clean /\ switch' = switch
    BY <2>1 DEF Running
  <2>3. Ahead(job[u].command, job[u].plan, switch)
    BY <2>2 DEF JobInv
  <2> QED  BY <2>1, <2>2, <2>3
<1> QED  BY <1>1, <1>2

(* A mirror command that has nothing left to write has replaced it all.    *)
LEMMA ReplacedAtLast ==
  ASSUME NEW s, Legal(s), NEW c \in CommandTypes, c.kind = "mirror",
         MirrorAhead(c, <<>>, s)
  PROVE  /\ s.mirror.on = c.on
         /\ c.on => /\ s.mirror.destination = c.destination
                    /\ s.mirror.ingress = c.ingress
                    /\ s.mirror.egress = c.egress
<1>1. s.mirror \in Mirrors /\ c.on \in BOOLEAN
  BY DEF Legal, Configurations, CommandTypes
<1>2. s.mirror.on \in BOOLEAN /\ s.mirror.ingress \subseteq Ports /\ s.mirror.egress \subseteq Ports
  BY <1>1 DEF Mirrors
<1>3. CASE ~c.on
  <2>1. ~s.mirror.on
    BY <1>3 DEF MirrorAhead
  <2> QED  BY <1>1, <1>2, <1>3, <2>1
<1>4. CASE c.on
  <2>1. /\ s.mirror.on /\ s.mirror.destination = c.destination
        /\ \A p \in Ports : /\ p \in s.mirror.ingress <=> p \in c.ingress
                            /\ p \in s.mirror.egress <=> p \in c.egress
        /\ c.ingress \subseteq Ports /\ c.egress \subseteq Ports
    BY <1>4, NothingPending DEF MirrorAhead
  <2>2. s.mirror.ingress = c.ingress /\ s.mirror.egress = c.egress
    BY <1>2, <2>1
  <2> QED  BY <1>1, <1>2, <1>4, <2>1, <2>2
<1> QED  BY <1>1, <1>3, <1>4

(* A command starts, and is undisturbed; if there is nothing to write, the *)
(* switch is as asked already.                                             *)
LEMMA StartStep ==
  ASSUME IInv, NEW t \in Tasks, NEW c \in Commands, Start(t, c)
  PROVE  IInv'
<1> DEFINE w == Writes(c, switch)
           j == [command |-> c, plan |-> w, clean |-> TRUE]
<1>1. /\ UNCHANGED <<switch, blind, faults>>
      /\ settled' = IF w = <<>> THEN [settled EXCEPT !["mtu"] = c] ELSE settled
  BY DEF Start
<1>2. Legal(switch) /\ c \in CommandTypes /\ c # None
  BY CommandFacts DEF IInv, TypeInv
<1>3. w \in Seq(LegalWrite) /\ Ahead(c, w, switch) /\ (w = <<>> => c.kind = "mtu")
  BY <1>2, StartPlan DEF Start
<1>4. job' = IF w = <<>> THEN job ELSE [job EXCEPT ![t] = j]
  BY DEF Start
<1> HIDE DEF w
<1>5. j \in Jobs
  BY <1>3 DEF Jobs
<1>6. job \in [Tasks -> Jobs]
  BY DEF IInv, TypeInv
<1>7. ASSUME NEW u \in Tasks PROVE job'[u] = IF u = t /\ w # <<>> THEN j ELSE job[u]
  <2> HIDE DEF j
  <2> QED  BY <1>4, <1>6
<1>8. TypeInv'
  <2>1. commands' \in 0..MaxCommands
    BY BoundsAssumption DEF Start, IInv, TypeInv
  <2>2. job' \in [Tasks -> Jobs]
    <3> HIDE DEF j
    <3> QED  BY <1>4, <1>5, <1>6
  <2>3. ASSUME NEW u \in Tasks
        PROVE  IF job'[u].plan = <<>> THEN job'[u] = Idle ELSE job'[u].command # None
    <3>1. CASE u = t /\ w # <<>>
      <4>1. job'[u] = j
        BY <1>7, <3>1
      <4>2. j.plan = w /\ j.command = c
        OBVIOUS
      <4> HIDE DEF j
      <4> QED  BY <1>2, <3>1, <4>1, <4>2
    <3>2. CASE ~(u = t /\ w # <<>>)
      <4>1. job'[u] = job[u]
        BY <1>7, <3>2
      <4> QED  BY <4>1 DEF IInv, TypeInv
    <3> QED  BY <3>1, <3>2
  <2>4. settled' \in [{"mirror", "mtu"} -> Commands \cup {None}]
    BY <1>1 DEF IInv, TypeInv
  <2> QED  BY <1>1, <2>1, <2>2, <2>3, <2>4 DEF IInv, TypeInv
<1>9. JobInv'
  <2> SUFFICES ASSUME NEW u \in Tasks, job'[u].plan # <<>>, job'[u].clean
               PROVE  Ahead(job'[u].command, job'[u].plan, switch')
    BY DEF JobInv, Running
  <2>1. CASE u = t /\ w # <<>>
    <3>1. job'[u] = j
      BY <1>7, <2>1
    <3>2. j.plan = w /\ j.command = c
      OBVIOUS
    <3> HIDE DEF j
    <3> QED  BY <1>1, <1>3, <2>1, <3>1, <3>2
  <2>2. CASE ~(u = t /\ w # <<>>)
    <3>1. job'[u] = job[u]
      BY <1>7, <2>2
    <3> QED  BY <1>1, <3>1 DEF IInv, JobInv, Running
  <2> QED  BY <2>1, <2>2
<1>10. VlansFit'
  BY <1>1 DEF IInv, VlansFit
<1>11. /\ settled'["mirror"] = settled["mirror"]
       /\ settled'["mtu"] = IF w = <<>> THEN c ELSE settled["mtu"]
  BY <1>1 DEF IInv, TypeInv
<1>12. MirrorReplaced'
  BY <1>1, <1>11 DEF IInv, MirrorReplaced
<1>13. MtuSettled'
  <2>1. CASE w = <<>>
    <3>1. MtuAhead(c, <<>>, switch)
      BY <1>3, <2>1 DEF Ahead
    <3> QED  BY <1>1, <1>11, <2>1, <3>1, NothingPending DEF MtuSettled, MtuAhead
  <2>2. CASE w # <<>>
    BY <1>1, <1>11, <2>2 DEF IInv, MtuSettled
  <2> QED  BY <2>1, <2>2
<1> QED  BY <1>8, <1>9, <1>10, <1>12, <1>13 DEF IInv

(* What the history says stays true when a write is carried out.           *)
LEMMA HistoryKept ==
  ASSUME IInv, NEW w \in LegalWrite, switch' \in Effects(w, switch),
         Subject(w) = "mirror" => settled'["mirror"] = None,
         Subject(w) = "mtu" => settled'["mtu"] = None,
         Subject(w) # "mirror" => settled'["mirror"] = settled["mirror"],
         Subject(w) # "mtu" => settled'["mtu"] = settled["mtu"]
  PROVE  MirrorReplaced' /\ MtuSettled'
<1>1. /\ Subject(w) # "mirror" => switch'.mirror = switch.mirror
      /\ Subject(w) # "mtu" => switch'.mode = switch.mode /\ switch'.uplink = switch.uplink
  BY EffectOf DEF IInv, TypeInv
<1>2. MirrorReplaced'
  <2>1. CASE Subject(w) = "mirror"
    BY <2>1 DEF MirrorReplaced
  <2>2. CASE Subject(w) # "mirror"
    BY <1>1, <2>2 DEF IInv, MirrorReplaced
  <2> QED  BY <2>1, <2>2
<1>3. MtuSettled'
  <2>1. CASE Subject(w) = "mtu"
    BY <2>1 DEF MtuSettled
  <2>2. CASE Subject(w) # "mtu"
    BY <1>1, <2>2 DEF IInv, MtuSettled
  <2> QED  BY <2>1, <2>2
<1> QED  BY <1>2, <1>3

(* The facts about the job of a task that is at a write.                   *)
LEMMA AtWrite ==
  ASSUME IInv, NEW t \in Tasks, Running(t)
  PROVE  /\ job[t].command \in Commands /\ job[t].clean \in BOOLEAN
         /\ job[t].plan \in Seq(LegalWrite) /\ job[t].plan # <<>>
         /\ Head(job[t].plan) \in LegalWrite /\ Tail(job[t].plan) \in Seq(LegalWrite)
         /\ job[t].clean => Ahead(job[t].command, job[t].plan, switch)
         /\ Legal(switch)
<1>1. /\ job[t].plan \in Seq(LegalWrite) /\ job[t].clean \in BOOLEAN
      /\ job[t].command \in Commands \cup {None} /\ job[t].plan # <<>>
      /\ job[t].command # None
  BY DEF IInv, TypeInv, Jobs, Running
<1>2. Head(job[t].plan) \in LegalWrite /\ Tail(job[t].plan) \in Seq(LegalWrite)
  <2> DEFINE p == job[t].plan
  <2> HIDE DEF p
  <2>1. p \in Seq(LegalWrite) /\ p # <<>>
    BY <1>1 DEF p
  <2>2. Head(p) \in LegalWrite /\ Tail(p) \in Seq(LegalWrite)
    BY <2>1, HeadAndTail
  <2> QED  BY <2>2 DEF p
<1> QED  BY <1>1, <1>2 DEF IInv, JobInv, TypeInv

(* There is room for what an undisturbed command writes.                   *)
LEMMA FitKept ==
  ASSUME IInv, NEW t \in Tasks, Running(t), switch' \in Effects(Head(job[t].plan), switch),
         blind' = (blind \/ ~job[t].clean)
  PROVE  VlansFit'
<1> SUFFICES ASSUME ~blind' PROVE Cardinality(DOMAIN switch'.vlans) <= MaxVlans
  BY DEF VlansFit
<1>1. ~blind /\ job[t].clean
  BY AtWrite DEF IInv, TypeInv
<1>2. Apt(Head(job[t].plan), switch)
  BY <1>1, AtWrite, CommandFacts, NextIsApt
<1> QED  BY <1>1, <1>2, AtWrite, StillFit DEF IInv, VlansFit

(* A write is carried out and its command goes on.                         *)
LEMMA WriteStep ==
  ASSUME IInv, NEW t \in Tasks, Write(t)
  PROVE  IInv'
<1> DEFINE w == Head(job[t].plan)
           rest == Tail(job[t].plan)
           c == job[t].command
           subject == Subject(w)
<1>1. /\ Running(t) /\ switch' \in Effects(w, switch)
      /\ Proceed(t, rest, job[t].clean, TRUE)
      /\ blind' = (blind \/ ~job[t].clean)
      /\ settled' = IF subject = "other" THEN settled
                    ELSE [settled EXCEPT ![subject] =
                              IF rest = <<>> /\ job[t].clean /\ c.kind = subject
                              THEN c ELSE None]
      /\ UNCHANGED <<commands, faults>>
  BY DEF Write
<1>2. /\ c \in Commands /\ job[t].clean \in BOOLEAN /\ w \in LegalWrite
      /\ rest \in Seq(LegalWrite) /\ Legal(switch)
  BY <1>1, AtWrite
<1>3. /\ job[t].clean => /\ rest # <<>> => Ahead(c, rest, switch')
                         /\ c.kind = "mirror" => MirrorAhead(c, rest, switch')
                         /\ c.kind = "mtu" => MtuAhead(c, rest, switch')
  BY <1>1, AtWrite, CommandFacts, GoesOn
<1> HIDE DEF w, rest, c
<1>4. Legal(switch')
  BY <1>1, <1>2, EffectOf
<1>5. TypeInv /\ JobInv
  BY DEF IInv
<1>6. settled \in [{"mirror", "mtu"} -> Commands \cup {None}]
  BY <1>5 DEF TypeInv
<1>7. subject \in {"mirror", "mtu", "other"}
  BY DEF Subject
<1> HIDE DEF subject
<1>8. settled' \in [{"mirror", "mtu"} -> Commands \cup {None}]
  BY <1>1, <1>2, <1>6, <1>7
<1>9. TypeInv'
  <2>1. /\ job' \in [Tasks -> Jobs]
        /\ \A u \in Tasks : IF job'[u].plan = <<>> THEN job'[u] = Idle
                            ELSE job'[u].command # None
    BY <1>1, <1>2, <1>5, Proceeds
  <2>2. blind' \in BOOLEAN
    BY <1>1
  <2> QED  BY <1>1, <1>4, <1>5, <1>8, <2>1, <2>2 DEF TypeInv
<1>10. JobInv'
  BY <1>1, <1>2, <1>3, <1>5, JobsGoOn DEF c
<1>11. VlansFit'
  BY <1>1, FitKept DEF w
<1>12. /\ settled'["mirror"] = IF subject = "mirror"
                               THEN IF rest = <<>> /\ job[t].clean /\ c.kind = "mirror"
                                    THEN c ELSE None
                               ELSE settled["mirror"]
       /\ settled'["mtu"] = IF subject = "mtu"
                            THEN IF rest = <<>> /\ job[t].clean /\ c.kind = "mtu"
                                 THEN c ELSE None
                            ELSE settled["mtu"]
  BY <1>1, <1>6, <1>7
<1>13. CASE subject \in {"mirror", "mtu"} /\ rest = <<>> /\ job[t].clean /\ c.kind = subject
  <2>1. CASE subject = "mirror"
    <3>1. MirrorAhead(c, <<>>, switch') /\ settled'["mirror"] = c
      BY <1>3, <1>12, <1>13, <2>1
    <3>2. MirrorReplaced'
      BY <1>2, <1>4, <1>13, <2>1, <3>1, CommandFacts, ReplacedAtLast DEF MirrorReplaced
    <3>3. switch'.mode = switch.mode /\ switch'.uplink = switch.uplink
      BY <1>1, <1>2, <2>1, EffectOf DEF subject
    <3>4. MtuSettled'
      BY <1>12, <2>1, <3>3 DEF IInv, MtuSettled
    <3> QED  BY <1>9, <1>10, <1>11, <3>2, <3>4 DEF IInv
  <2>2. CASE subject = "mtu"
    <3>1. MtuAhead(c, <<>>, switch') /\ settled'["mtu"] = c
      BY <1>3, <1>12, <1>13, <2>2
    <3>2. MtuSettled'
      BY <3>1, NothingPending DEF MtuSettled, MtuAhead
    <3>3. switch'.mirror = switch.mirror
      BY <1>1, <1>2, <2>2, EffectOf DEF subject
    <3>4. MirrorReplaced'
      BY <1>12, <2>2, <3>3 DEF IInv, MirrorReplaced
    <3> QED  BY <1>9, <1>10, <1>11, <3>2, <3>4 DEF IInv
  <2> QED  BY <1>13, <2>1, <2>2
<1>14. CASE ~(subject \in {"mirror", "mtu"} /\ rest = <<>> /\ job[t].clean /\ c.kind = subject)
  <2>1. /\ subject = "mirror" => settled'["mirror"] = None
        /\ subject = "mtu" => settled'["mtu"] = None
        /\ subject # "mirror" => settled'["mirror"] = settled["mirror"]
        /\ subject # "mtu" => settled'["mtu"] = settled["mtu"]
    BY <1>12, <1>14
  <2>2. MirrorReplaced' /\ MtuSettled'
    BY <1>1, <1>2, <2>1, HistoryKept DEF subject
  <2> QED  BY <1>9, <1>10, <1>11, <2>2 DEF IInv
<1> QED  BY <1>13, <1>14

(* A write is lost and its command goes on.                                *)
LEMMA ForgivenStep ==
  ASSUME IInv, NEW t \in Tasks, Forgiven(t)
  PROVE  IInv'
<1> DEFINE rest == Tail(job[t].plan)
<1>1. /\ Running(t) /\ Proceed(t, rest, FALSE, FALSE)
      /\ faults < MaxFaults /\ faults' = faults + 1
      /\ UNCHANGED <<switch, settled, blind, commands>>
  BY DEF Forgiven
<1>2. rest \in Seq(LegalWrite)
  BY <1>1, AtWrite
<1> HIDE DEF rest
<1>3. TypeInv /\ JobInv
  BY DEF IInv
<1>4. /\ job' \in [Tasks -> Jobs]
      /\ \A u \in Tasks : IF job'[u].plan = <<>> THEN job'[u] = Idle
                          ELSE job'[u].command # None
  BY <1>1, <1>2, <1>3, Proceeds
<1>5. JobInv'
  BY <1>1, <1>2, <1>3, JobsGoOn
<1>6. faults' \in 0..MaxFaults
  BY <1>1, <1>3, BoundsAssumption DEF TypeInv
<1>7. TypeInv'
  BY <1>1, <1>3, <1>4, <1>6 DEF TypeInv
<1> QED  BY <1>1, <1>5, <1>7 DEF IInv, VlansFit, MirrorReplaced, MtuSettled

(* A write fails, after or before the switch has carried it out.           *)
LEMMA FailStep ==
  ASSUME IInv, NEW t \in Tasks, Fail(t)
  PROVE  IInv'
<1> DEFINE w == Head(job[t].plan)
           subject == Subject(w)
<1>1. /\ Running(t) /\ faults < MaxFaults /\ faults' = faults + 1
      /\ UNCHANGED commands
      /\ \/ /\ switch' \in Effects(w, switch)
            /\ Proceed(t, <<>>, TRUE, TRUE)
            /\ blind' = (blind \/ ~job[t].clean)
            /\ settled' = IF subject = "other" THEN settled
                          ELSE [settled EXCEPT ![subject] = None]
         \/ /\ Proceed(t, <<>>, TRUE, FALSE)
            /\ UNCHANGED <<switch, settled, blind>>
  BY DEF Fail
<1>2. w \in LegalWrite /\ Legal(switch)
  BY <1>1, AtWrite
<1> HIDE DEF w
<1>3. TypeInv /\ JobInv
  BY DEF IInv
<1>4. <<>> \in Seq(LegalWrite)
  OBVIOUS
<1>5. faults' \in 0..MaxFaults
  BY <1>1, <1>3, BoundsAssumption DEF TypeInv
<1>6. CASE /\ switch' \in Effects(w, switch)
           /\ Proceed(t, <<>>, TRUE, TRUE)
           /\ blind' = (blind \/ ~job[t].clean)
           /\ settled' = IF subject = "other" THEN settled
                         ELSE [settled EXCEPT ![subject] = None]
  <2>1. Legal(switch')
    BY <1>2, <1>6, EffectOf
  <2>2. settled \in [{"mirror", "mtu"} -> Commands \cup {None}]
    BY <1>3 DEF TypeInv
  <2>3. subject \in {"mirror", "mtu", "other"}
    BY DEF Subject
  <2> HIDE DEF subject
  <2>4. /\ settled' \in [{"mirror", "mtu"} -> Commands \cup {None}]
        /\ settled'["mirror"] = IF subject = "mirror" THEN None ELSE settled["mirror"]
        /\ settled'["mtu"] = IF subject = "mtu" THEN None ELSE settled["mtu"]
    BY <1>6, <2>2, <2>3
  <2>5. /\ job' \in [Tasks -> Jobs]
        /\ \A u \in Tasks : IF job'[u].plan = <<>> THEN job'[u] = Idle
                            ELSE job'[u].command # None
    BY <1>1, <1>3, <1>4, <1>6, Proceeds
  <2>6. blind' \in BOOLEAN
    BY <1>6
  <2>7. TypeInv'
    BY <1>1, <1>3, <1>5, <2>1, <2>4, <2>5, <2>6 DEF TypeInv
  <2>8. JobInv'
    BY <1>1, <1>3, <1>4, <1>6, JobsGoOn
  <2>9. VlansFit'
    BY <1>1, <1>6, FitKept DEF w
  <2>10. MirrorReplaced' /\ MtuSettled'
    BY <1>2, <1>6, <2>4, HistoryKept DEF subject
  <2> QED  BY <2>7, <2>8, <2>9, <2>10 DEF IInv
<1>7. CASE /\ Proceed(t, <<>>, TRUE, FALSE)
           /\ UNCHANGED <<switch, settled, blind>>
  <2>1. /\ job' \in [Tasks -> Jobs]
        /\ \A u \in Tasks : IF job'[u].plan = <<>> THEN job'[u] = Idle
                            ELSE job'[u].command # None
    BY <1>1, <1>3, <1>4, <1>7, Proceeds
  <2>2. JobInv'
    BY <1>1, <1>3, <1>4, <1>7, JobsGoOn
  <2>3. TypeInv'
    BY <1>1, <1>3, <1>5, <1>7, <2>1 DEF TypeInv
  <2> QED  BY <1>7, <2>2, <2>3 DEF IInv, VlansFit, MirrorReplaced, MtuSettled
<1> QED  BY <1>1, <1>6, <1>7

-----------------------------------------------------------------------------
(* The theorems.                                                           *)

(* A switch as it is delivered or with a LAG is configured legally.        *)
LEMMA InitInv == Init => IInv
<1> SUFFICES ASSUME Init PROVE IInv
  OBVIOUS
<1>1. PICK mode \in {"none", "port", "8021q"},
           lag \in {{}, 1..MinOf(PortsPerGroup, PortCount)} :
          switch = [groups |-> [g \in Groups |-> IF g = 1 THEN lag ELSE {}],
                    mode |-> mode, uplink |-> 1,
                    portvlans |-> DefaultPortVlans, vlans |-> DefaultVlans,
                    pvid |-> [p \in Ports |-> 1],
                    mirror |-> [on |-> FALSE, destination |-> None,
                                ingress |-> {}, egress |-> {}],
                    rate |-> [p \in Ports |-> 0]]
  BY DEF Init
<1>2. /\ lag \in SUBSET Ports
      /\ Cardinality(lag) <= PortsPerGroup
      /\ lag \subseteq GroupPorts(1)
  <2> DEFINE m == MinOf(PortsPerGroup, PortCount)
  <2>1. m \in Nat /\ m <= PortsPerGroup /\ m <= PortCount
    BY SizesAssumption DEF MinOf
  <2>2. (1 - 1) * PortsPerGroup + 1 = 1 /\ 1 * PortsPerGroup = PortsPerGroup
    BY SizesAssumption
  <2>3. GroupPorts(1) = 1..m
    BY <2>2 DEF GroupPorts
  <2> HIDE DEF m
  <2>4. Cardinality(1..m) = m
    BY <2>1, FS_Interval
  <2>5. Cardinality({}) = 0
    BY FS_EmptySet
  <2>6. CASE lag = {}
    BY <2>5, <2>6, SizesAssumption
  <2>7. CASE lag = 1..m
    BY <2>1, <2>3, <2>4, <2>7, SizesAssumption DEF Ports
  <2> QED  BY <2>6, <2>7 DEF m
<1>3. Cardinality({}) <= PortsPerGroup
  <2>1. Cardinality({}) = 0
    BY FS_EmptySet
  <2> QED  BY <2>1, SizesAssumption
<1>4. /\ switch.groups = [g \in Groups |-> IF g = 1 THEN lag ELSE {}]
      /\ switch.mode = mode /\ switch.uplink = 1
      /\ switch.portvlans = DefaultPortVlans /\ switch.vlans = DefaultVlans
      /\ switch.pvid = [p \in Ports |-> 1]
      /\ switch.mirror = [on |-> FALSE, destination |-> None, ingress |-> {}, egress |-> {}]
      /\ switch.rate = [p \in Ports |-> 0]
  BY <1>1
<1>5. switch \in Configurations
  <2>1. switch.groups \in [Groups -> SUBSET Ports]
    BY <1>2, <1>4
  <2>2. switch.mirror \in Mirrors
    BY <1>4 DEF Mirrors
  <2>3. switch.pvid \in [Ports -> VlanIds] /\ switch.rate \in [Ports -> Nat]
    BY <1>4, PortFacts
  <2>4. switch.mode \in Modes
    BY <1>4 DEF Modes
  <2> QED  BY <1>1, <1>4, <2>1, <2>2, <2>3, <2>4, PortFacts, Defaults DEF Configurations
<1>6. Legal(switch)
  <2>1. ASSUME NEW g \in Groups
        PROVE  /\ switch.groups[g] \subseteq GroupPorts(g)
               /\ Cardinality(switch.groups[g]) <= PortsPerGroup
    <3>1. switch.groups[g] = IF g = 1 THEN lag ELSE {}
      BY <1>4
    <3> QED  BY <1>2, <1>3, <3>1
  <2>2. /\ 1 \in DOMAIN switch.vlans
        /\ \A v \in DOMAIN switch.vlans : switch.vlans[v].tagged \cap switch.vlans[v].untagged = {}
    BY <1>4, Defaults
  <2> QED  BY <1>5, <2>1, <2>2 DEF Legal
<1>7. job \in [Tasks -> Jobs] /\ \A t \in Tasks : job[t] = Idle
  <2>1. Idle \in Jobs
    BY DEF Idle, Jobs
  <2> QED  BY <2>1 DEF Init
<1>8. Idle.plan = <<>>
  BY DEF Idle
<1>9. settled = [k \in {"mirror", "mtu"} |-> None]
  BY DEF Init
<1>10. TypeInv
  <2>1. settled \in [{"mirror", "mtu"} -> Commands \cup {None}]
    BY <1>9
  <2>2. blind \in BOOLEAN
    BY DEF Init
  <2>3. commands \in 0..MaxCommands /\ faults \in 0..MaxFaults
    <3>1. commands = 0 /\ faults = 0
      BY DEF Init
    <3> QED  BY <3>1, BoundsAssumption
  <2> QED  BY <1>6, <1>7, <1>8, <2>1, <2>2, <2>3 DEF TypeInv
<1>11. JobInv
  BY <1>7, <1>8 DEF JobInv, Running
<1>12. VlansFit
  <2>1. Cardinality(DOMAIN switch.vlans) = 1
    BY <1>4, Defaults, FS_Singleton
  <2> QED  BY <2>1, SizesAssumption DEF VlansFit
<1>13. MirrorReplaced /\ MtuSettled
  BY <1>9 DEF MirrorReplaced, MtuSettled
<1> QED  BY <1>10, <1>11, <1>12, <1>13 DEF IInv

(* Every step keeps the invariant.                                         *)
LEMMA NextInv == IInv /\ [Next]_vars => IInv'
<1> SUFFICES ASSUME IInv, [Next]_vars PROVE IInv'
  OBVIOUS
<1>1. CASE UNCHANGED vars
  BY <1>1 DEF vars, IInv, TypeInv, JobInv, Running, VlansFit, MirrorReplaced, MtuSettled
<1>2. CASE Next
  BY <1>2, StartStep, WriteStep, ForgivenStep, FailStep DEF Next
<1> QED  BY <1>1, <1>2

LEMMA Always == Spec => []IInv
BY InitInv, NextInv, PTL DEF Spec

(* Whatever commands do at once and whatever goes wrong, the configuration *)
(* keeps its type.                                                         *)
THEOREM TypeCorrect == Spec => []TypeOK
<1>1. IInv => TypeOK
  <2> SUFFICES ASSUME IInv PROVE TypeOK
    OBVIOUS
  <2>1. switch \in Configurations
    BY DEF IInv, TypeInv, Legal
  <2>2. /\ DOMAIN switch.portvlans \subseteq Ports
        /\ \A v \in DOMAIN switch.portvlans : switch.portvlans[v] \subseteq Ports
    BY <2>1 DEF Configurations, PortVlans
  <2>3. /\ DOMAIN switch.vlans \subseteq VlanIds
        /\ \A v \in DOMAIN switch.vlans : switch.vlans[v] \in Memberships
    BY <2>1 DEF Configurations, Vlans
  <2>4. ASSUME NEW t \in Tasks
        PROVE  /\ job[t].command \in Commands \cup {None}
               /\ job[t].clean \in BOOLEAN
               /\ job[t].command = None <=> job[t].plan = <<>>
    <3>1. job[t] \in Jobs /\ IF job[t].plan = <<>> THEN job[t] = Idle ELSE job[t].command # None
      BY DEF IInv, TypeInv
    <3>2. Idle.command = None
      BY DEF Idle
    <3> QED  BY <3>1, <3>2 DEF Jobs
  <2> QED  BY <2>1, <2>2, <2>3, <2>4 DEF IInv, TypeInv, TypeOK, Configurations
<1> QED  BY <1>1, Always, PTL

(* No port is in two LAGs, and no LAG has too many.                        *)
THEOREM GroupsKeptApart == Spec => []LagsApart
<1>1. IInv => LagsApart
  <2> SUFFICES ASSUME IInv, NEW g \in Groups, NEW h \in Groups
               PROVE  /\ g # h => switch.groups[g] \cap switch.groups[h] = {}
                      /\ Cardinality(switch.groups[g]) <= PortsPerGroup
    BY DEF LagsApart
  <2>1. /\ switch.groups[g] \subseteq GroupPorts(g) /\ switch.groups[h] \subseteq GroupPorts(h)
        /\ Cardinality(switch.groups[g]) <= PortsPerGroup
    BY DEF IInv, TypeInv, Legal
  <2> QED  BY <2>1, GroupsApart
<1> QED  BY <1>1, Always, PTL

(* VLAN 1 is always there, and no port is tagged and untagged in a VLAN.   *)
THEOREM WellFormed == Spec => []VlansWellFormed
<1>1. IInv => VlansWellFormed
  BY DEF IInv, TypeInv, Legal, VlansWellFormed
<1> QED  BY <1>1, Always, PTL

(* There is room for all VLANs, unless a command went by an old page.      *)
THEOREM Fit == Spec => []VlansFit
<1>1. IInv => VlansFit
  BY DEF IInv
<1> QED  BY <1>1, Always, PTL

(* An undisturbed mirror command replaces the whole mirror configuration.  *)
THEOREM Replaces == Spec => []MirrorReplaced
<1>1. IInv => MirrorReplaced
  BY DEF IInv
<1> QED  BY <1>1, Always, PTL

(* An undisturbed MTU VLAN command leaves mode and uplink as asked, also   *)
(* one that submits one form only, and one that finds nothing to write.    *)
THEOREM Settles == Spec => []MtuSettled
<1>1. IInv => MtuSettled
  BY DEF IInv
<1> QED  BY <1>1, Always, PTL

-----------------------------------------------------------------------------
(* LAGs are treated as one.                                                *)

(* From s to n, no member of a LAG is treated otherwise than the rest.     *)
TreatedAsOne(s, n) ==
    \A g \in Groups : \A p, q \in s.groups[g] :
        /\ n.rate[p] # s.rate[p] => n.rate[q] = n.rate[p]
        /\ n.pvid[p] # s.pvid[p] => n.pvid[q] = n.pvid[p]
        /\ \A v \in Changed(s.portvlans, n.portvlans) :
               p \in n.portvlans[v] => q \in n.portvlans[v]
        /\ \A v \in Changed(s.vlans, n.vlans) :
               \A side \in {"tagged", "untagged"} :
                   p \in n.vlans[v][side] => q \in n.vlans[v][side]

(* What is new in the VLANs of a new switch has all ports or none.         *)
LEMMA DefaultsAsOne ==
  ASSUME NEW s, Legal(s), NEW g \in Groups, NEW p \in s.groups[g], NEW q \in s.groups[g]
  PROVE  /\ \A v \in DOMAIN DefaultPortVlans :
                p \in DefaultPortVlans[v] => q \in DefaultPortVlans[v]
         /\ \A v \in DOMAIN DefaultVlans : \A side \in {"tagged", "untagged"} :
                p \in DefaultVlans[v][side] => q \in DefaultVlans[v][side]
<1>1. q \in Ports
  BY DEF Legal, Configurations
<1> QED  BY <1>1 DEF DefaultPortVlans, DefaultVlans

(* A write that is right treats the members of a LAG alike.                *)
LEMMA AptTreatsAsOne ==
  ASSUME NEW s, Legal(s), NEW w \in LegalWrite, NEW n \in Effects(w, s), Apt(w, s)
  PROVE  TreatedAsOne(s, n)
<1> SUFFICES ASSUME NEW g \in Groups, NEW p \in s.groups[g], NEW q \in s.groups[g]
             PROVE  /\ n.rate[p] # s.rate[p] => n.rate[q] = n.rate[p]
                    /\ n.pvid[p] # s.pvid[p] => n.pvid[q] = n.pvid[p]
                    /\ \A v \in Changed(s.portvlans, n.portvlans) :
                           p \in n.portvlans[v] => q \in n.portvlans[v]
                    /\ \A v \in Changed(s.vlans, n.vlans) :
                           \A side \in {"tagged", "untagged"} :
                               p \in n.vlans[v][side] => q \in n.vlans[v][side]
  BY DEF TreatedAsOne
<1>1. p \in Ports /\ q \in Ports
  BY DEF Legal, Configurations
<1>2. CASE w \in MirrorWrite
  BY <1>2, MirrorEffect DEF Changed
<1>3. CASE w \in ModeWrite
  <2>1. /\ n.pvid = s.pvid /\ n.rate = s.rate
        /\ n.portvlans \in {s.portvlans, DefaultPortVlans}
        /\ n.vlans \in {s.vlans, DefaultVlans}
    BY <1>3, ModeEffect
  <2>2. \A v \in Changed(s.portvlans, n.portvlans) :
            p \in n.portvlans[v] => q \in n.portvlans[v]
    BY <2>1, DefaultsAsOne DEF Changed
  <2>3. \A v \in Changed(s.vlans, n.vlans) : \A side \in {"tagged", "untagged"} :
            p \in n.vlans[v][side] => q \in n.vlans[v][side]
    BY <2>1, DefaultsAsOne DEF Changed
  <2> QED  BY <2>1, <2>2, <2>3
<1>4. CASE w \in LegalWrite \ (MirrorWrite \cup ModeWrite)
  <2>0. /\ n.portvlans = IF w.op = "portvlan" THEN Set(s.portvlans, w.vid, w.ports)
                         ELSE IF w.op = "no_portvlan" THEN Unset(s.portvlans, w.vid)
                         ELSE s.portvlans
        /\ n.vlans = IF w.op = "vlan" THEN Set(s.vlans, w.vid, w.members)
                     ELSE IF w.op = "no_vlan" THEN Unset(s.vlans, w.vid)
                     ELSE s.vlans
        /\ n.pvid = IF w.op = "pvid"
                    THEN [x \in Ports |-> IF x \in w.ports THEN w.vid ELSE s.pvid[x]]
                    ELSE s.pvid
        /\ n.rate = IF w.op = "rate"
                    THEN [x \in Ports |-> IF x \in w.ports THEN w.value ELSE s.rate[x]]
                    ELSE s.rate
    BY <1>4, PlainEffect, ZenonT(60)
  <2>1. n.rate[p] # s.rate[p] => n.rate[q] = n.rate[p]
    <3>1. CASE w.op = "rate"
      <4>1. n.rate = [x \in Ports |-> IF x \in w.ports THEN w.value ELSE s.rate[x]]
        BY <2>0, <3>1
      <4>2. p \in w.ports => q \in w.ports
        BY <3>1 DEF Apt, Whole
      <4> QED  BY <1>1, <4>1, <4>2
    <3>2. CASE w.op # "rate"
      BY <2>0, <3>2
    <3> QED  BY <3>1, <3>2
  <2>2. n.pvid[p] # s.pvid[p] => n.pvid[q] = n.pvid[p]
    <3>1. CASE w.op = "pvid"
      <4>1. n.pvid = [x \in Ports |-> IF x \in w.ports THEN w.vid ELSE s.pvid[x]]
        BY <2>0, <3>1
      <4>2. p \in w.ports => q \in w.ports
        BY <3>1 DEF Apt, Whole
      <4> QED  BY <1>1, <4>1, <4>2
    <3>2. CASE w.op # "pvid"
      BY <2>0, <3>2
    <3> QED  BY <3>1, <3>2
  <2>3. ASSUME NEW v \in Changed(s.portvlans, n.portvlans), p \in n.portvlans[v]
        PROVE  q \in n.portvlans[v]
    <3>1. w.op \in {"portvlan", "no_portvlan"}
      BY <2>0, <2>3 DEF Changed
    <3>2. CASE w.op = "portvlan"
      <4>1. n.portvlans = Set(s.portvlans, w.vid, w.ports)
        BY <2>0, <3>2
      <4>2. v = w.vid /\ n.portvlans[v] = w.ports
        BY <4>1 DEF Changed, Set
      <4>3. p \in w.ports => q \in w.ports
        BY <3>2 DEF Apt, Whole
      <4> QED  BY <2>3, <4>2, <4>3
    <3>3. CASE w.op = "no_portvlan"
      <4>1. n.portvlans = Unset(s.portvlans, w.vid)
        BY <2>0, <3>3
      <4> QED  BY <4>1 DEF Changed, Unset
    <3> QED  BY <3>1, <3>2, <3>3
  <2>4. ASSUME NEW v \in Changed(s.vlans, n.vlans), NEW side \in {"tagged", "untagged"},
               p \in n.vlans[v][side]
        PROVE  q \in n.vlans[v][side]
    <3>1. w.op \in {"vlan", "no_vlan"}
      BY <2>0, <2>4 DEF Changed
    <3>2. CASE w.op = "vlan"
      <4>1. n.vlans = Set(s.vlans, w.vid, w.members)
        BY <2>0, <3>2
      <4>2. v = w.vid /\ n.vlans[v] = w.members
        BY <4>1 DEF Changed, Set
      <4>3. Whole(w.members.tagged, s) /\ Whole(w.members.untagged, s)
        BY <3>2 DEF Apt
      <4>4. CASE side = "tagged"
        BY <2>4, <4>2, <4>3, <4>4 DEF Whole
      <4>5. CASE side = "untagged"
        BY <2>4, <4>2, <4>3, <4>5 DEF Whole
      <4> QED  BY <4>4, <4>5
    <3>3. CASE w.op = "no_vlan"
      <4>1. n.vlans = Unset(s.vlans, w.vid)
        BY <2>0, <3>3
      <4> QED  BY <4>1 DEF Changed, Unset
    <3> QED  BY <3>1, <3>2, <3>3
  <2> QED  BY <2>1, <2>2, <2>3, <2>4
<1> QED  BY <1>2, <1>3, <1>4

(* A switch that has not changed.                                          *)
LEMMA UnchangedAsOne == ASSUME NEW s PROVE TreatedAsOne(s, s)
BY DEF TreatedAsOne, Changed

(* Unless a command went by an old page, every step is a write that is     *)
(* right.                                                                  *)
LEMMA StepIsApt ==
  ASSUME IInv, [Next]_vars, ~blind'
  PROVE  \/ switch' = switch
         \/ /\ Legal(switch)
            /\ \E w \in LegalWrite : switch' \in Effects(w, switch) /\ Apt(w, switch)
<1> DEFINE Right == /\ Legal(switch)
                    /\ \E w \in LegalWrite : switch' \in Effects(w, switch) /\ Apt(w, switch)
<1>1. SUFFICES switch' = switch \/ Right
  OBVIOUS
<1>2. ASSUME NEW t \in Tasks, Running(t), switch' \in Effects(Head(job[t].plan), switch),
             blind' = (blind \/ ~job[t].clean)
      PROVE  Right
  <2>1. job[t].clean
    BY <1>2, AtWrite
  <2>2. Apt(Head(job[t].plan), switch)
    BY <1>2, <2>1, AtWrite, CommandFacts, NextIsApt
  <2> QED  BY <1>2, <2>2, AtWrite
<1> HIDE DEF Right
<1>3. CASE Next
  <2>1. PICK t \in Tasks : (\E c \in Commands : Start(t, c)) \/ Write(t) \/ Forgiven(t) \/ Fail(t)
    BY <1>3 DEF Next
  <2>2. CASE (\E c \in Commands : Start(t, c)) \/ Forgiven(t)
    BY <2>2 DEF Start, Forgiven
  <2>3. CASE Write(t)
    BY <1>2, <2>3 DEF Write
  <2>4. CASE Fail(t)
    BY <1>2, <2>4 DEF Fail
  <2> QED  BY <2>1, <2>2, <2>3, <2>4
<1>4. CASE UNCHANGED vars
  BY <1>4 DEF vars
<1> QED  BY <1>3, <1>4

(* What is changed for one member of a LAG is changed for all of them.     *)
THEOREM ActsOnWholeLags == Spec => LagTreatedAsOne
<1>1. IInv /\ [Next]_vars =>
          [~blind' =>
            \A g \in Groups : \A p, q \in switch.groups[g] :
                /\ switch'.rate[p] # switch.rate[p] => switch'.rate[q] = switch'.rate[p]
                /\ switch'.pvid[p] # switch.pvid[p] => switch'.pvid[q] = switch'.pvid[p]
                /\ \A v \in Changed(switch.portvlans, switch'.portvlans) :
                       p \in switch'.portvlans[v] => q \in switch'.portvlans[v]
                /\ \A v \in Changed(switch.vlans, switch'.vlans) :
                       \A side \in {"tagged", "untagged"} :
                           p \in switch'.vlans[v][side] => q \in switch'.vlans[v][side]]_vars
  BY StepIsApt, AptTreatsAsOne, UnchangedAsOne DEF TreatedAsOne
<1> QED  BY <1>1, Always, PTL DEF Spec, LagTreatedAsOne

-----------------------------------------------------------------------------
(* No port is left without the VLAN it needs.                              *)

(* From s to n, VLAN 1 strands no port and no port gets a PVID of a VLAN   *)
(* it is not in.                                                           *)
PortsChecked(s, n) ==
    /\ n.vlans[1] # s.vlans[1] => Orphans(n) = {}
    /\ \A p \in Ports : n.pvid[p] # s.pvid[p] =>
           /\ n.pvid[p] \in DOMAIN n.vlans
           /\ p \in Members(n.vlans[n.pvid[p]])

(* A write that is right leaves every port the VLAN it needs.              *)
LEMMA AptChecked ==
  ASSUME NEW s, Legal(s), NEW w \in LegalWrite, NEW n \in Effects(w, s), Apt(w, s)
  PROVE  PortsChecked(s, n)
<1>1. CASE w \in MirrorWrite
  BY <1>1, MirrorEffect DEF PortsChecked
<1>2. CASE w \in ModeWrite
  <2>1. n.pvid = s.pvid /\ n.vlans \in {s.vlans, DefaultVlans}
    BY <1>2, ModeEffect
  <2>2. CASE n.vlans = DefaultVlans
    <3>1. 1 \in DOMAIN DefaultVlans /\ Members(DefaultVlans[1]) = Ports
      BY DEF DefaultVlans, Members
    <3>2. Orphans(n) = {}
      BY <2>2, <3>1 DEF Orphans
    <3> QED  BY <2>1, <3>2 DEF PortsChecked
  <2> QED  BY <2>1, <2>2 DEF PortsChecked
<1>3. CASE w \in LegalWrite \ (MirrorWrite \cup ModeWrite)
  <2>0. /\ n.vlans = IF w.op = "vlan" THEN Set(s.vlans, w.vid, w.members)
                     ELSE IF w.op = "no_vlan" THEN Unset(s.vlans, w.vid)
                     ELSE s.vlans
        /\ n.pvid = IF w.op = "pvid"
                    THEN [x \in Ports |-> IF x \in w.ports THEN w.vid ELSE s.pvid[x]]
                    ELSE s.pvid
    BY <1>3, PlainEffect, ZenonT(60)
  <2>1. ASSUME n.vlans[1] # s.vlans[1] PROVE Orphans(n) = {}
    <3>1. 1 \in DOMAIN s.vlans
      BY DEF Legal
    <3>2. CASE w.op = "vlan"
      <4>1. n.vlans = Set(s.vlans, w.vid, w.members)
        BY <2>0, <3>2
      <4>2. w.vid = 1
        BY <2>1, <3>1, <4>1 DEF Set
      <4>3. Covered(w.members, s)
        BY <3>2, <4>2 DEF Apt
      <4>4. /\ 1 \in DOMAIN n.vlans /\ n.vlans[1] = w.members
            /\ \A v \in DOMAIN s.vlans \ {1} : v \in DOMAIN n.vlans /\ n.vlans[v] = s.vlans[v]
        BY <4>1, <4>2 DEF Set
      <4>5. \A p \in Ports : \E v \in DOMAIN n.vlans : p \in Members(n.vlans[v])
        BY <4>3, <4>4 DEF Covered
      <4> QED  BY <4>5 DEF Orphans
    <3>3. CASE w.op = "no_vlan"
      <4>1. n.vlans = Unset(s.vlans, w.vid)
        BY <2>0, <3>3
      <4>2. w.vid # 1
        BY <3>3 DEF LegalWrite, MirrorWrite, ModeWrite, UplinkWrite, LagWrite,
                    PortVlanWrite, VlanWrite, NoVlanWrite, PvidWrite, RateWrite
      <4> QED  BY <2>1, <3>1, <4>1, <4>2 DEF Unset
    <3> QED  BY <2>0, <2>1, <3>2, <3>3
  <2>2. ASSUME NEW p \in Ports, n.pvid[p] # s.pvid[p]
        PROVE  n.pvid[p] \in DOMAIN n.vlans /\ p \in Members(n.vlans[n.pvid[p]])
    <3>1. w.op = "pvid"
      BY <2>0, <2>2
    <3>2. n.vlans = s.vlans
      BY <2>0, <3>1
    <3>3. p \in w.ports /\ n.pvid[p] = w.vid
      BY <2>0, <2>2, <3>1
    <3> QED  BY <3>1, <3>2, <3>3 DEF Apt
  <2> QED  BY <2>1, <2>2 DEF PortsChecked
<1> QED  BY <1>1, <1>2, <1>3

(* A switch that has not changed.                                          *)
LEMMA UnchangedChecked == ASSUME NEW s PROVE PortsChecked(s, s)
BY DEF PortsChecked

(* A command for VLAN 1 leaves no port without a VLAN, and a port is only  *)
(* given a PVID of a VLAN it is in: what upsert_8021q_vlan and set_pvid    *)
(* look after, while the run switch_orphan shows that the commands for the *)
(* other VLANs do not.                                                     *)
THEOREM ChecksPorts == Spec => VlanPortsChecked
<1>1. IInv /\ [Next]_vars =>
          [~blind' =>
            /\ switch'.vlans[1] # switch.vlans[1] => Orphans(switch') = {}
            /\ \A p \in Ports : switch'.pvid[p] # switch.pvid[p] =>
                   /\ switch'.pvid[p] \in DOMAIN switch'.vlans
                   /\ p \in Members(switch'.vlans[switch'.pvid[p]])]_vars
  BY StepIsApt, AptChecked, UnchangedChecked DEF PortsChecked
<1> QED  BY <1>1, Always, PTL DEF Spec, VlanPortsChecked

=============================================================================
