-------------------------- MODULE Coordinator_proofs --------------------------
(***************************************************************************)
(* What the coordinator knows of its switch, for any set of tasks, any     *)
(* pages in any order, any number of commands and any faults.              *)
(***************************************************************************)
EXTENDS Coordinator, TLAPS, WellFoundedInduction

(* The values a page can have.                                             *)
PageValues(p) == IF p = "qos" THEN QosValues ELSE Values

TypeInv ==
    /\ TypeOK
    /\ \A p \in Pages : /\ device[p] \in PageValues(p)
                        /\ cache[p] \in PageValues(p) \cup {None}
                        /\ shown[p] \in PageValues(p) \cup {None}
    /\ Pages \cap Mandatory \subseteq exposed

(* A call that is open is the one its task's job has come to.              *)
CallInv ==
    /\ job[Poller] = Idle
    /\ \A t \in Tasks :
           open[t] => /\ kind[t] = IF job[t].step = "write" THEN "apply" ELSE "read"
                      /\ IF t = Poller THEN at # 0 ELSE job[t].step # "idle"

(* What a command that is under way may be about.                          *)
WellFormed(j) ==
    /\ j.asks \subseteq DOMAIN j.change
    /\ IF j.page \in Patched THEN j.asks # {} ELSE DOMAIN j.change = Fields
    /\ j.page \notin {"info", "statistics", "mtu"}
    /\ j.step = "write" => j.page \in exposed \cup {"cable"}
    /\ j.step = "refresh" => j.page \in Reread

JobInv == \A t \in Tasks : job[t].step # "idle" => WellFormed(job[t])

(* Page p is set as ch says, and the rest of a page that is patched is     *)
(* what the coordinator knows.                                             *)
Agrees(p, ch) ==
    /\ \A f \in DOMAIN ch : device[p][f] = ch[f]
    /\ p \in Patched \ unsure /\ cache[p] # None
           => \A f \in Fields \ DOMAIN ch : cache[p][f] = device[p][f]

(* One call is on the wire at a time, and what it has read or written is   *)
(* still there.                                                            *)
WireInv ==
    /\ \A t, u \in Wire : t = u
    /\ \A t \in Wire : kind[t] = "read" => got[t] = device[Target(t)]
    /\ \A t \in Wire :
           job[t].step = "write" /\ job[t].page \in exposed
               => Agrees(job[t].page, job[t].change)

(* A command has changed page p, or may have, and is not through with it.  *)
Writing(p) ==
    \E t \in Tasks \ {Poller} :
        /\ job[t].page = p
        /\ \/ job[t].step = "write" /\ t \in Wire /\ p \in exposed
           \/ job[t].step = "refresh"

CoherentInv ==
    \A p \in Pages \ (LeftAlone \cup unsure) :
        cache[p] # None /\ ~Writing(p)
            => \A f \in Fields : cache[p][f] = device[p][f]

(* What a poll that has passed page p has found out for good.              *)
Settled(p) ==
    /\ p \in Mandatory => cache[p] # None
    /\ p \in Gated => features # "unknown"

PollInv ==
    /\ \A p \in Pages \ Optional : supported[p] = "unknown"
    /\ ready => \A p \in Pages : Settled(p)
    /\ \A i \in 1..Len(PollOrder) : i < at => Settled(PollOrder[i])

(* The inductive invariant.                                                *)
IInv == TypeInv /\ CallInv /\ JobInv /\ WireInv /\ CoherentInv /\ PollInv

-----------------------------------------------------------------------------
(* The pages.                                                              *)

(* A set of natural numbers has a least element.                           *)
LEMMA Least ==
  ASSUME NEW T \in SUBSET Nat, T # {}
  PROVE  \E j \in T : \A k \in T : j <= k
<1> DEFINE R == OpToRel(<, Nat)
<1>1. PICK j \in T : \A k \in T : ~(<<k, j>> \in R)
  <2> HIDE DEF R
  <2>1. IsWellFoundedOn(R, Nat)
    BY NatLessThanWellFounded DEF R
  <2> QED  BY <2>1, WFMin
<1>2. ASSUME NEW k \in T PROVE j <= k
  <2>1. <<k, j>> \in Nat \X Nat /\ ~(<<k, j>> \in {ss \in Nat \X Nat : ss[1] < ss[2]})
    BY <1>1 DEF OpToRel
  <2> QED  BY <2>1
<1> QED  BY <1>2

LEMMA PageFacts ==
  /\ Pages \subseteq Mandatory \cup Optional \cup Gated
  /\ Len(PollOrder) \in Nat
  /\ \A i \in 1..Len(PollOrder) : PollOrder[i] \in Pages
  /\ \A p \in Pages : \E i \in 1..Len(PollOrder) : PollOrder[i] = p
BY PollOrderAssumption DEF Pages

(* The pages between the one the poll is at and the next are skipped.      *)
LEMMA Following ==
  ASSUME NEW i \in 0..Len(PollOrder), NEW s, NEW f
  PROVE  /\ NextAt(i, s, f) \in 0..Len(PollOrder)
         /\ \A k \in 1..Len(PollOrder) :
                i < k /\ (NextAt(i, s, f) = 0 \/ k < NextAt(i, s, f))
                    => ~Polled(PollOrder[k], s, f)
<1> DEFINE rest == {j \in (i + 1)..Len(PollOrder) : Polled(PollOrder[j], s, f)}
<1>1. CASE rest = {}
  BY <1>1, PageFacts DEF NextAt
<1>2. CASE rest # {}
  <2>1. \E j \in rest : \A k \in rest : j <= k
    <3>1. rest \in SUBSET Nat
      BY PageFacts
    <3> HIDE DEF rest
    <3> QED  BY <3>1, <1>2, Least
  <2>2. NextAt(i, s, f) \in rest /\ \A k \in rest : NextAt(i, s, f) <= k
    BY <1>2, <2>1 DEF NextAt
  <2> QED  BY <2>2, PageFacts
<1> QED  BY <1>1, <1>2

(* Changes and values are functions from some of the fields to BOOLEAN.    *)
LEMMA ChangesAre ==
  ASSUME NEW ch
  PROVE  ch \in Changes <=> DOMAIN ch \subseteq Fields /\ ch \in [DOMAIN ch -> BOOLEAN]
BY DEF Changes

LEMMA EmptyChange == <<>> \in Changes
<1>1. DOMAIN <<>> = {} /\ <<>> \in [DOMAIN <<>> -> BOOLEAN]
  OBVIOUS
<1> QED  BY <1>1, ChangesAre

LEMMA OverlaidChange ==
  ASSUME NEW ch \in Changes, NEW v \in Changes
  PROVE  Overlay(ch, v) \in Changes
<1>1. DOMAIN Overlay(ch, v) = DOMAIN ch \cup DOMAIN v
  BY DEF Overlay
<1>2. \A f \in DOMAIN Overlay(ch, v) : Overlay(ch, v)[f] \in BOOLEAN
  BY ChangesAre DEF Overlay
<1> QED  BY <1>1, <1>2, ChangesAre DEF Overlay

(* Writing some fields of a page leaves a page of the same kind.           *)
LEMMA OverlaidPage ==
  ASSUME NEW ch \in Changes, NEW p, NEW v \in PageValues(p)
  PROVE  /\ Overlay(ch, v) \in PageValues(p)
         /\ \A f \in DOMAIN ch : Overlay(ch, v)[f] = ch[f]
         /\ \A f \in Fields \ DOMAIN ch : Overlay(ch, v)[f] = v[f]
<1>1. DOMAIN ch \subseteq Fields /\ \A f \in DOMAIN ch : ch[f] \in BOOLEAN
  BY ChangesAre
<1>2. CASE p = "qos"
  BY <1>1, <1>2 DEF Overlay, PageValues, QosValues
<1>3. CASE p # "qos"
  BY <1>1, <1>3 DEF Overlay, PageValues, Values
<1> QED  BY <1>2, <1>3

LEMMA SpreadChange ==
  ASSUME NEW ch \in Changes, DOMAIN ch # {}, NEW trunk \in BOOLEAN
  PROVE  /\ Spread(ch, trunk) \in Changes
         /\ DOMAIN ch \subseteq DOMAIN Spread(ch, trunk)
<1>1. (CHOOSE g \in DOMAIN ch : TRUE) \in DOMAIN ch
  OBVIOUS
<1>2. DOMAIN ch \subseteq Fields /\ \A f \in DOMAIN ch : ch[f] \in BOOLEAN
  BY ChangesAre
<1> QED  BY <1>1, <1>2, ChangesAre DEF Spread

(* A page that is there is not None.                                       *)
LEMMA NotNone == \A p : None \notin PageValues(p)
BY NoneAssumption DEF PageValues

-----------------------------------------------------------------------------
(* Calls.                                                                  *)

CallTypeOK ==
    /\ open \in [Tasks -> BOOLEAN]
    /\ kind \in [Tasks -> Api!Kinds]
    /\ handled \in [Tasks -> {0, 1}]
    /\ result \in [Tasks -> Api!Results]

(* Nothing is on the wire after an answer: it was the one that was, or the *)
(* call had not got there and nothing else was.                            *)
LEMMA ReplyWire ==
  ASSUME IInv, NEW t \in Tasks, NEW a \in Answers, Reply(t, a)
  PROVE  /\ CallTypeOK' /\ kind' = kind
         /\ open[t] /\ ~open'[t] /\ \A u \in Tasks \ {t} : open'[u] = open[u]
         /\ Wire' = {} /\ Wire \subseteq {t}
         /\ got' = [got EXCEPT ![t] = AllOff]
         /\ faults' \in 0..MaxFaults
<1>1. /\ open[t] /\ open' = [open EXCEPT ![t] = FALSE] /\ handled' = handled
      /\ kind' = kind /\ result' = [result EXCEPT ![t] = ResultOf(t, a)]
  BY DEF Reply, Api!End
<1>2. ResultOf(t, a) \in Api!Results
  BY DEF ResultOf, Answers, Api!Results
<1>3. CallTypeOK'
  BY <1>1, <1>2 DEF CallTypeOK, IInv, TypeInv, TypeOK
<1>4. Wire \subseteq {t}
  BY <1>1 DEF IInv, WireInv, TypeInv, TypeOK, Wire, Reply
<1>5. Wire' = {}
  BY <1>1, <1>4 DEF Wire, IInv, TypeInv, TypeOK
<1>6. faults' \in 0..MaxFaults
  BY BoundsAssumption DEF Reply, IInv, TypeInv, TypeOK
<1> QED  BY <1>1, <1>3, <1>4, <1>5, <1>6 DEF Reply, IInv, TypeInv, TypeOK

(* Data that come back are the page the switch has now, and a page that    *)
(* comes back without them was asked of the switch.                        *)
LEMMA ReplyMeans ==
  ASSUME IInv, NEW t \in Tasks, NEW a \in Answers, Reply(t, a),
         kind[t] = "read", a \in {"data", "absent"}
  PROVE  /\ t \in Wire
         /\ got[t] = device[Target(t)]
         /\ a = "data" => Target(t) \in exposed
         /\ a = "absent" /\ ~Malformed => Target(t) \notin exposed
<1>1. handled[t] = 1 /\ open[t]
  BY DEF Reply, ResultOf, Api!End, Api!Honest
<1>2. t \in Wire
  BY <1>1 DEF Wire
<1> QED  BY <1>1, <1>2 DEF IInv, WireInv, Reply, GoesWrong, Expected

LEMMA PollerReads ==
  ASSUME IInv, NEW a \in Answers, Reply(Poller, a)
  PROVE  /\ kind[Poller] = "read"
         /\ at \in 1..Len(PollOrder)
         /\ Target(Poller) = PollOrder[at]
<1>1. open[Poller]
  BY ReplyWire, TasksAssumption
<1> QED  BY <1>1, TasksAssumption, PageFacts
            DEF IInv, CallInv, TypeInv, TypeOK, Idle, Target

-----------------------------------------------------------------------------
(* The poll.                                                               *)

(* What the end of a call of the poll may do.                              *)
PollStep(a) ==
    /\ at # 0
    /\ Reply(Poller, a)
    /\ UNCHANGED <<switchVars, job, commands, asked>>
    /\ \/ cache' \in {cache, NotKnown} /\ unsure' = unsure
       \/ cache' = Stored(PollOrder[at], a) /\ Cleared(PollOrder[at], a)
    /\ supported' \in [Pages -> {"unknown", "yes", "no"}]
    /\ features' \in {"unknown", "yes", "no"}
    /\ ready' \in BOOLEAN /\ last_update_success' \in BOOLEAN /\ visible' \subseteq Pages
    /\ shown' \in {shown, cache, cache'}
    /\ at' \in 0..Len(PollOrder)
    /\ PollInv'

LEMMA StoredPage ==
  ASSUME IInv, NEW a \in Answers, Reply(Poller, a)
  PROVE  /\ Stored(PollOrder[at], a) \in [Pages -> Values \cup QosValues \cup {None}]
         /\ \A q \in Pages : Stored(PollOrder[at], a)[q] \in PageValues(q) \cup {None}
         /\ \A q \in Pages : q # PollOrder[at] => Stored(PollOrder[at], a)[q] = cache[q]
         /\ a = "data" => Stored(PollOrder[at], a)[PollOrder[at]] = device[PollOrder[at]]
         /\ a # "data" => Stored(PollOrder[at], a)[PollOrder[at]] = None
<1>1. PollOrder[at] \in Pages
  BY PollerReads, PageFacts
<1>2. a = "data" => got[Poller] = device[PollOrder[at]]
  BY PollerReads, ReplyMeans, TasksAssumption
<1>3. device[PollOrder[at]] \in PageValues(PollOrder[at])
  BY <1>1 DEF IInv, TypeInv
<1>4. PageValues(PollOrder[at]) \subseteq Values \cup QosValues
  BY DEF PageValues
<1> QED  BY <1>1, <1>2, <1>3, <1>4 DEF Stored, IInv, TypeInv, TypeOK

LEMMA PollStepInv ==
  ASSUME IInv, NEW a \in Answers, PollStep(a)
  PROVE  IInv'
<1> DEFINE p == PollOrder[at]
<1>0. Reply(Poller, a)
  BY DEF PollStep
<1>1. /\ CallTypeOK' /\ kind' = kind /\ Wire' = {} /\ Wire \subseteq {Poller}
      /\ \A u \in Tasks : open'[u] => open[u] /\ u # Poller
      /\ got' = [got EXCEPT ![Poller] = AllOff]
      /\ faults' \in 0..MaxFaults
  BY <1>0, ReplyWire, TasksAssumption
<1>2. p \in Pages
  BY <1>0, PollerReads, PageFacts
<1>3. /\ cache' \in [Pages -> Values \cup QosValues \cup {None}]
      /\ \A q \in Pages : cache'[q] \in PageValues(q) \cup {None}
  BY <1>0, StoredPage DEF PollStep, IInv, TypeInv, TypeOK, NotKnown
<1>4. UNCHANGED <<device, exposed, job, commands, asked>>
  BY DEF PollStep, switchVars
<1>5. TypeInv'
  <2>1. got' \in [Tasks -> Values \cup QosValues]
    BY <1>1 DEF IInv, TypeInv, TypeOK, AllOff, Values
  <2>2. unsure' \subseteq Pages
    BY DEF PollStep, Cleared, IInv, TypeInv, TypeOK
  <2>3. /\ shown' \in [Pages -> Values \cup QosValues \cup {None}]
        /\ \A q \in Pages : shown'[q] \in PageValues(q) \cup {None}
    BY <1>3 DEF PollStep, IInv, TypeInv, TypeOK
  <2>4. TypeOK'
    BY <1>1, <1>3, <1>4, <2>1, <2>2, <2>3 DEF PollStep, IInv, TypeInv, TypeOK, CallTypeOK
  <2> QED  BY <1>3, <1>4, <2>3, <2>4 DEF IInv, TypeInv, PageValues
<1>6. CallInv'
  BY <1>1, <1>4 DEF IInv, CallInv, Idle
<1>7. JobInv'
  BY <1>4 DEF IInv, JobInv, WellFormed
<1>8. WireInv'
  BY <1>1 DEF WireInv
<1>9. CoherentInv'
  <2> SUFFICES ASSUME NEW q \in Pages \ (LeftAlone \cup unsure'),
                      cache'[q] # None, ~Writing(q)', NEW f \in Fields
               PROVE  cache'[q][f] = device[q][f]
    BY <1>4 DEF CoherentInv
  <2>1. ~Writing(q)
    <3>1. Wire \subseteq {Poller}
      BY <1>1
    <3> QED  BY <1>4, <3>1 DEF Writing
  <2>2. CASE q \notin unsure /\ cache'[q] = cache[q]
    BY <2>1, <2>2 DEF IInv, CoherentInv
  <2>3. CASE q = p /\ a = "data" /\ cache' = Stored(p, a)
    BY <1>0, <2>3, StoredPage
  <2> QED  BY <1>0, <1>2, <2>2, <2>3, StoredPage DEF PollStep, Cleared, NotKnown
<1> QED  BY <1>5, <1>6, <1>7, <1>8, <1>9 DEF IInv, PollStep

(* The poll goes on: every page up to the next it stops at is settled.     *)
LEMMA GoOnSettles ==
  ASSUME IInv, NEW a \in Answers, Reply(Poller, a),
         NEW c, NEW s, NEW f, GoOn(c, s, f),
         \A q \in Pages \cap Mandatory : cache[q] # None => c[q] # None,
         \A q \in Pages \ Optional : s[q] = "unknown",
         features # "unknown" => f # "unknown",
         PollOrder[at] \in Mandatory => c[PollOrder[at]] # None,
         PollOrder[at] \in Gated => f # "unknown"
  PROVE  PollInv'
<1> DEFINE Now(q) == (q \in Mandatory => c[q] # None) /\ (q \in Gated => f # "unknown")
<1>1. at \in 1..Len(PollOrder)
  BY PollerReads
<1>2. \A q \in Pages : Settled(q) => Now(q)
  BY DEF Settled
<1>3. at' = NextAt(at, s, f) /\ cache' = c /\ supported' = s /\ features' = f
  BY DEF GoOn
<1>4. ASSUME NEW i \in 1..Len(PollOrder), at' = 0 \/ i < at'
      PROVE  Now(PollOrder[i])
  <2>1. CASE i < at
    BY <1>1, <1>2, <2>1, PageFacts DEF IInv, PollInv
  <2>2. CASE i = at
    BY <2>2
  <2>3. CASE at < i
    <3>1. ~Polled(PollOrder[i], s, f)
      BY <1>1, <1>3, <1>4, <2>3, Following
    <3>2. PollOrder[i] \in Pages
      BY PageFacts
    <3>3. PollOrder[i] \notin Optional => PollOrder[i] \in Gated /\ f = "no"
      BY <3>1, <3>2 DEF Polled
    <3> QED  BY <3>3 DEF Mandatory, Optional, Gated
  <2> QED  BY <1>1, <2>1, <2>2, <2>3, PageFacts
<1>5. ASSUME ready', NEW q \in Pages PROVE Now(q)
  <2>1. CASE at' = 0
    BY <1>4, <2>1, PageFacts
  <2>2. CASE at' # 0
    BY <1>2, <1>5, <2>2 DEF GoOn, entityVars, IInv, PollInv
  <2> QED  BY <2>1, <2>2
<1>6. \A q : Now(q) => Settled(q)'
  BY <1>3 DEF Settled
<1>7. \A i \in 1..Len(PollOrder) : i < at' => Settled(PollOrder[i])'
  BY <1>4, <1>6
<1>8. ready' => \A q \in Pages : Settled(q)'
  BY <1>5, <1>6
<1> HIDE DEF Now
<1> QED  BY <1>3, <1>7, <1>8 DEF PollInv

(* What an updater makes of the knowledge has its type.                    *)
LEMMA GoOnTypes ==
  ASSUME IInv, NEW a \in Answers, Reply(Poller, a),
         NEW c, NEW s, NEW f, GoOn(c, s, f)
  PROVE  /\ ready' \in BOOLEAN /\ last_update_success' \in BOOLEAN
         /\ visible' \subseteq Pages
         /\ shown' \in {shown, c}
         /\ at' \in 0..Len(PollOrder)
<1>1. at' \in 0..Len(PollOrder)
  BY PollerReads, Following DEF GoOn
<1>2. Entities(c, s, f) \subseteq Pages
  BY DEF Entities
<1> QED  BY <1>1, <1>2 DEF GoOn, entityVars, IInv, TypeInv, TypeOK

(* The poll fails: the data stay, or the coordinator starts afresh.        *)
LEMMA PollFailsStep ==
  ASSUME IInv, NEW a \in Answers, Reply(Poller, a), at # 0, PollFails,
         UNCHANGED <<switchVars, job, commands, asked, unsure>>
  PROVE  PollStep(a)
<1>1. at' = 0 /\ at' \in 0..Len(PollOrder)
  BY PageFacts DEF PollFails
<1>2. /\ cache' \in {cache, NotKnown}
      /\ supported' \in [Pages -> {"unknown", "yes", "no"}]
      /\ features' \in {"unknown", "yes", "no"}
      /\ ready' = ready /\ last_update_success' \in BOOLEAN /\ visible' \subseteq Pages
      /\ shown' \in {shown, cache, cache'}
  BY DEF PollFails, entityVars, IInv, TypeInv, TypeOK
<1>3. PollInv'
  <2>1. \A i \in 1..Len(PollOrder) : ~(i < at')
    BY <1>1
  <2>2. CASE ready
    BY <1>2, <2>1, <2>2 DEF PollFails, IInv, PollInv, Settled
  <2>3. CASE ~ready
    BY <1>2, <2>1, <2>3 DEF PollFails, PollInv
  <2> QED  BY <2>2, <2>3
<1> QED  BY <1>1, <1>2, <1>3 DEF PollStep, IInv, TypeInv, TypeOK

LEMMA MandatoryStep ==
  ASSUME IInv, NEW a \in Answers, UpdateMandatory(a)
  PROVE  PollStep(a)
<1> DEFINE p == PollOrder[at]
<1>1. /\ at # 0 /\ p \in Mandatory /\ Reply(Poller, a)
      /\ UNCHANGED <<switchVars, job, commands, asked>>
      /\ Cleared(p, a)
  BY DEF UpdateMandatory, ReadFor
<1>2. p \in Pages
  BY <1>1, PollerReads, PageFacts
<1>3. CASE a = "data"
  <2>1. GoOn(Stored(p, a), supported, features)
    BY <1>3 DEF UpdateMandatory
  <2>2. Stored(p, a)[p] # None
    BY <1>1, <1>2, <1>3, StoredPage, NotNone DEF IInv, TypeInv
  <2>3. PollInv'
    <3>1. \A q \in Pages \cap Mandatory : cache[q] # None => Stored(p, a)[q] # None
      BY <1>1, <2>2, StoredPage
    <3>2. p \notin Gated
      BY <1>1 DEF Mandatory, Gated
    <3> HIDE DEF p
    <3> QED  BY <1>1, <2>1, <2>2, <3>1, <3>2, GoOnSettles DEF IInv, PollInv, p
  <2>4. cache' = Stored(p, a) /\ supported' = supported /\ features' = features
    BY <2>1 DEF GoOn
  <2> QED  BY <1>1, <2>1, <2>3, <2>4, GoOnTypes DEF PollStep, IInv, TypeInv, TypeOK
<1>4. CASE a # "data"
  <2>1. PollFails /\ unsure' = unsure
    BY <1>1, <1>4 DEF UpdateMandatory, Cleared
  <2> QED  BY <1>1, <2>1, PollFailsStep
<1> QED  BY <1>3, <1>4

LEMMA OptionalStep ==
  ASSUME IInv, NEW a \in Answers, UpdateOptional(a)
  PROVE  PollStep(a)
<1> DEFINE p == PollOrder[at]
           s == [supported EXCEPT ![p] = Verdict(@, a)]
<1>1. /\ at # 0 /\ p \in Optional /\ Reply(Poller, a)
      /\ UNCHANGED <<switchVars, job, commands, asked>>
      /\ Cleared(p, a)
      /\ GoOn(Stored(p, a), s, features)
  BY DEF UpdateOptional, ReadFor
<1>2. p \in Pages /\ p \notin Mandatory /\ p \notin Gated
  BY <1>1, PollerReads, PageFacts DEF Mandatory, Optional, Gated
<1>3. s \in [Pages -> {"unknown", "yes", "no"}] /\ \A q \in Pages \ Optional : s[q] = "unknown"
  BY <1>1, <1>2 DEF Verdict, IInv, TypeInv, TypeOK, PollInv
<1>4. \A q \in Pages \cap Mandatory : cache[q] # None => Stored(p, a)[q] # None
  BY <1>1, <1>2, StoredPage
<1>5. PollInv'
  <2> HIDE DEF p, s
  <2> QED  BY <1>1, <1>2, <1>3, <1>4, GoOnSettles DEF p
<1>6. cache' = Stored(p, a) /\ supported' = s /\ features' = features
  BY <1>1 DEF GoOn
<1> QED  BY <1>1, <1>3, <1>5, <1>6, GoOnTypes DEF PollStep, IInv, TypeInv, TypeOK

LEMMA ProbeStep ==
  ASSUME IInv, NEW a \in Answers, ProbeFeatures(a)
  PROVE  PollStep(a)
<1> DEFINE p == PollOrder[at]
<1>1. /\ at # 0 /\ p \in Gated /\ Reply(Poller, a)
      /\ UNCHANGED <<switchVars, job, commands, asked, unsure>>
      /\ features = "unknown"
  BY DEF ProbeFeatures, ReadFor
<1>2. p \notin Mandatory
  BY <1>1 DEF Mandatory, Gated
<1>3. CASE a = "data"
  <2>1. features' = "yes" /\ UNCHANGED <<at, cache, supported, ready, visible,
                                         last_update_success, shown>>
    BY <1>3 DEF ProbeFeatures, entityVars
  <2>2. PollInv'
    BY <2>1 DEF IInv, PollInv, Settled
  <2> QED  BY <1>1, <2>1, <2>2 DEF PollStep, IInv, TypeInv, TypeOK
<1>4. CASE a \in {"absent", "disconnected"}
  <2>1. GoOn(cache, supported, "no")
    BY <1>4 DEF ProbeFeatures
  <2>2. PollInv'
    BY <1>1, <1>2, <2>1, GoOnSettles DEF IInv, PollInv
  <2>3. cache' = cache /\ supported' = supported /\ features' = "no"
    BY <2>1 DEF GoOn
  <2> QED  BY <1>1, <2>1, <2>2, <2>3, GoOnTypes DEF PollStep, IInv, TypeInv, TypeOK
<1>5. CASE a \notin {"data", "absent", "disconnected"}
  <2>1. PollFails
    BY <1>5 DEF ProbeFeatures
  <2> QED  BY <1>1, <2>1, PollFailsStep
<1> QED  BY <1>3, <1>4, <1>5

LEMMA GatedStep ==
  ASSUME IInv, NEW a \in Answers, UpdateGated(a)
  PROVE  PollStep(a)
<1> DEFINE p == PollOrder[at]
<1>1. /\ at # 0 /\ p \in Gated /\ Reply(Poller, a)
      /\ UNCHANGED <<switchVars, job, commands, asked>>
      /\ Cleared(p, a)
      /\ features = "yes"
      /\ GoOn(Stored(p, a), supported, features)
  BY DEF UpdateGated, ReadFor
<1>2. p \in Pages /\ p \notin Mandatory
  BY <1>1, PollerReads, PageFacts DEF Mandatory, Gated
<1>3. \A q \in Pages \cap Mandatory : cache[q] # None => Stored(p, a)[q] # None
  BY <1>1, <1>2, StoredPage
<1>4. PollInv'
  <2> HIDE DEF p
  <2> QED  BY <1>1, <1>2, <1>3, GoOnSettles DEF IInv, PollInv, p
<1>5. cache' = Stored(p, a) /\ supported' = supported /\ features' = features
  BY <1>1 DEF GoOn
<1> QED  BY <1>1, <1>4, <1>5, GoOnTypes DEF PollStep, IInv, TypeInv, TypeOK

-----------------------------------------------------------------------------
(* Commands.                                                               *)

LEMMA BeginInv ==
  ASSUME IInv, NEW t \in Tasks, NEW p \in Pages, NEW ch \in Changes,
         NEW fs \in SUBSET Fields, BeginCommand(t, p, ch, fs),
         fs \subseteq DOMAIN ch,
         IF p \in Patched THEN fs # {} ELSE DOMAIN ch = Fields,
         p \notin {"info", "statistics", "mtu"}
  PROVE  IInv'
<1> DEFINE j == [step |-> FirstStep(p), page |-> p, change |-> ch, asks |-> fs]
<1>1. /\ t # Poller /\ job[t].step = "idle" /\ ~open[t]
      /\ job' = [job EXCEPT ![t] = j]
      /\ UNCHANGED <<apiVars, switchVars, got, knowledge, entityVars, history, at,
                     faults>>
      /\ commands' \in 0..MaxCommands
  BY BoundsAssumption DEF BeginCommand, IInv, CallInv, TypeInv, TypeOK
<1>2. j.step \in {"check", "write"} /\ (j.step = "write" => p \in {"ports", "cable"})
  BY DEF FirstStep
<1>3. WellFormed(j)
  <2>1. p = "ports" => p \in exposed
    BY DEF Mandatory, IInv, TypeInv
  <2> QED  BY <1>2, <2>1 DEF WellFormed
<1>4. /\ t \notin Wire /\ Wire' = Wire
      /\ \A u \in Tasks \ {t} : job'[u] = job[u]
      /\ job'[t] = j
  BY <1>1 DEF Wire, apiVars, IInv, TypeInv, TypeOK
<1>5. TypeInv'
  <2>1. job' \in [Tasks -> [step : {"idle", "check", "write", "refresh"},
                            page : Pages, change : Changes, asks : SUBSET Fields]]
    BY <1>1, <1>2 DEF IInv, TypeInv, TypeOK
  <2> QED  BY <1>1, <2>1 DEF IInv, TypeInv, TypeOK, apiVars, switchVars, knowledge,
                             entityVars, history, PageValues
<1>6. CallInv'
  BY <1>1, <1>4, TasksAssumption DEF IInv, CallInv, apiVars, Idle
<1>7. JobInv'
  BY <1>1, <1>3, <1>4 DEF IInv, JobInv, WellFormed, switchVars
<1>8. WireInv'
  BY <1>1, <1>4 DEF IInv, WireInv, Target, Agrees, apiVars, switchVars, knowledge, history
<1>9. CoherentInv'
  <2>1. \A q : Writing(q) => Writing(q)'
    BY <1>1, <1>4 DEF Writing, switchVars
  <2> QED  BY <1>1, <2>1 DEF IInv, CoherentInv, knowledge, switchVars, history
<1>10. PollInv'
  BY <1>1 DEF IInv, PollInv, Settled, knowledge, entityVars
<1> QED  BY <1>5, <1>6, <1>7, <1>8, <1>9, <1>10 DEF IInv

LEMMA EntityCommandInv ==
  ASSUME IInv, NEW t \in Tasks, NEW p \in Pages, NEW f \in Fields, NEW v \in BOOLEAN,
         EntityCommand(t, p, f, v)
  PROVE  IInv'
<1>1. CASE /\ p \in Shared /\ Known(p, f) # None
           /\ BeginCommand(t, p, [Known(p, f) EXCEPT ![f] = v], {f})
  <2>1. p \notin Patched \cup {"info", "statistics", "mtu", "qos"}
    BY <1>1 DEF Shared, Patched
  <2>2. Known(p, f) \in Values
    BY <1>1, <2>1 DEF Known, IInv, TypeInv, PageValues
  <2> DEFINE ch == [Known(p, f) EXCEPT ![f] = v]
  <2>3. ch \in Values /\ DOMAIN ch = Fields
    BY <2>2 DEF Values
  <2>4. ch \in Changes
    BY <2>3, ChangesAre DEF Values
  <2>5. BeginCommand(t, p, ch, {f})
    BY <1>1
  <2> HIDE DEF ch
  <2> QED  BY <2>1, <2>3, <2>4, <2>5, BeginInv
<1>2. CASE p \in Patched /\ BeginCommand(t, p, [x \in {f} |-> v], {f})
  <2>1. p \notin {"info", "statistics", "mtu"}
    BY <1>2 DEF Patched
  <2>2. [x \in {f} |-> v] \in Changes
    BY ChangesAre
  <2> QED  BY <1>2, <2>1, <2>2, BeginInv
<1> QED  BY <1>1, <1>2 DEF EntityCommand

LEMMA DirectCommandInv ==
  ASSUME IInv, NEW t \in Tasks, NEW p \in Pages, NEW ch \in Values,
         DirectCommand(t, p, ch)
  PROVE  IInv'
<1>1. p \notin {"info", "statistics", "mtu"}
  BY DEF DirectCommand, Direct, LeftAlone
<1>2. ch \in Changes /\ DOMAIN ch = Fields
  BY ChangesAre DEF Values
<1>3. ASSUME NEW f \in Fields, p \in Patched, BeginCommand(t, p, [x \in {f} |-> ch[f]], {f})
      PROVE  IInv'
  <2>1. [x \in {f} |-> ch[f]] \in Changes
    BY ChangesAre DEF Values
  <2> QED  BY <1>1, <1>3, <2>1, BeginInv
<1>4. CASE p \notin Patched /\ BeginCommand(t, p, ch, Fields)
  BY <1>1, <1>2, <1>4, BeginInv
<1> QED  BY <1>3, <1>4 DEF DirectCommand

LEMMA SendInv ==
  ASSUME IInv, NEW t \in Tasks, Send(t)
  PROVE  IInv'
<1> DEFINE k == IF job[t].step = "write" THEN "apply" ELSE "read"
<1>1. /\ ~open[t] /\ open' = [open EXCEPT ![t] = TRUE]
      /\ kind' = [kind EXCEPT ![t] = k] /\ handled' = [handled EXCEPT ![t] = 0]
      /\ result' = [result EXCEPT ![t] = "none"]
      /\ IF t = Poller THEN at # 0 ELSE job[t].step # "idle"
      /\ UNCHANGED <<switchVars, got, knowledge, entityVars, history, at, job, commands,
                     faults>>
  BY DEF Send, Api!Begin
<1>2. Wire' = Wire /\ t \notin Wire
  BY <1>1 DEF Wire, IInv, TypeInv, TypeOK
<1>3. TypeInv'
  BY <1>1 DEF IInv, TypeInv, TypeOK, switchVars, knowledge, entityVars, history,
              PageValues, Api!Kinds, Api!Results
<1>4. CallInv'
  BY <1>1 DEF IInv, CallInv, Idle, TypeInv, TypeOK
<1>5. JobInv'
  BY <1>1 DEF IInv, JobInv, WellFormed, switchVars
<1>6. WireInv'
  BY <1>1, <1>2 DEF IInv, WireInv, Target, Agrees, switchVars, knowledge, history,
                    TypeInv, TypeOK, Wire
<1>7. CoherentInv'
  BY <1>1, <1>2 DEF IInv, CoherentInv, Writing, switchVars, knowledge, history
<1>8. PollInv'
  BY <1>1 DEF IInv, PollInv, Settled, knowledge, entityVars
<1> QED  BY <1>3, <1>4, <1>5, <1>6, <1>7, <1>8 DEF IInv

LEMMA StartPollInv ==
  ASSUME IInv, StartPoll
  PROVE  IInv'
<1>1. /\ at = 0 /\ at' = NextAt(0, supported, features)
      /\ UNCHANGED <<apiVars, switchVars, got, knowledge, entityVars, history, job,
                     commands, faults>>
  BY DEF StartPoll
<1>2. at' \in 0..Len(PollOrder)
  BY <1>1, PageFacts, Following
<1>3. ~open[Poller] /\ Wire' = Wire /\ Poller \notin Wire
  BY <1>1, TasksAssumption DEF IInv, CallInv, Wire, apiVars
<1>4. TypeInv'
  BY <1>1, <1>2 DEF IInv, TypeInv, TypeOK, apiVars, switchVars, knowledge, entityVars,
                    history, PageValues
<1>5. CallInv'
  BY <1>1, <1>3 DEF IInv, CallInv, Idle, apiVars
<1>6. JobInv'
  BY <1>1 DEF IInv, JobInv, WellFormed, switchVars
<1>7. WireInv'
  BY <1>1, <1>3 DEF IInv, WireInv, Target, Agrees, apiVars, switchVars, knowledge, history
<1>8. CoherentInv'
  BY <1>1, <1>3 DEF IInv, CoherentInv, Writing, switchVars, knowledge, history
<1>9. PollInv'
  <2>1. ASSUME NEW i \in 1..Len(PollOrder), i < at' PROVE Settled(PollOrder[i])
    <3>1. ~Polled(PollOrder[i], supported, features)
      BY <1>1, <2>1, PageFacts, Following
    <3>2. PollOrder[i] \in Pages
      BY PageFacts
    <3> QED  BY <3>1, <3>2 DEF Polled, Settled, IInv, PollInv, Mandatory, Optional, Gated
  <2> QED  BY <1>1, <2>1 DEF IInv, PollInv, Settled, knowledge, entityVars
<1> QED  BY <1>4, <1>5, <1>6, <1>7, <1>8, <1>9 DEF IInv

(* A write changes the fields it names on the page it is for, if the       *)
(* switch has that page, and no setting of another page.                   *)
LEMMA AppliedPages ==
  ASSUME IInv, NEW t \in Tasks, WellFormed(job[t])
  PROVE  \A q \in Pages :
             /\ Applied(t)[q] \in PageValues(q)
             /\ q # job[t].page \/ job[t].page \notin exposed
                    => \A f \in Fields : Applied(t)[q][f] = device[q][f]
             /\ q = job[t].page /\ job[t].page \in exposed
                    => Applied(t)[q] = Overlay(job[t].change, device[q])
<1> DEFINE p == job[t].page
<1>1. p \in Pages /\ job[t].change \in Changes
  BY DEF IInv, TypeInv, TypeOK
<1> SUFFICES ASSUME NEW q \in Pages
             PROVE  /\ Applied(t)[q] \in PageValues(q)
                    /\ q # p \/ p \notin exposed
                           => \A f \in Fields : Applied(t)[q][f] = device[q][f]
                    /\ q = p /\ p \in exposed
                           => Applied(t)[q] = Overlay(job[t].change, device[q])
  OBVIOUS
<1>2. device[q] \in PageValues(q)
  BY DEF IInv, TypeInv
<1>3. CASE p \notin exposed
  BY <1>2, <1>3 DEF Applied
<1>4. CASE p \in exposed /\ q = p
  BY <1>1, <1>2, <1>4, OverlaidPage DEF Applied
<1>5. CASE p \in exposed /\ q # p /\ p = "lag" /\ q = "qos"
  <2>1. Applied(t)[q] = [device[q] EXCEPT !["trunk"] = job[t].change["enabled"]]
    BY <1>5 DEF Applied
  <2>2. job[t].change["enabled"] \in BOOLEAN
    BY <1>1, <1>5, ChangesAre DEF WellFormed, Patched, Fields
  <2>3. device[q] \in QosValues
    BY <1>2, <1>5 DEF PageValues
  <2>4. Applied(t)[q] \in QosValues
    BY <2>1, <2>2, <2>3 DEF QosValues
  <2>5. \A f \in Fields : Applied(t)[q][f] = device[q][f]
    BY <2>1, <2>3 DEF QosValues, Fields
  <2> QED  BY <1>5, <2>4, <2>5 DEF PageValues
<1>6. CASE p \in exposed /\ q # p /\ ~(p = "lag" /\ q = "qos")
  <2>1. Applied(t)[q] = device[q]
    BY <1>6 DEF Applied
  <2> QED  BY <1>2, <1>6, <2>1
<1> QED  BY <1>3, <1>4, <1>5, <1>6

LEMMA CarryOutInv ==
  ASSUME IInv, NEW t \in Tasks, CarryOut(t)
  PROVE  IInv'
<1> DEFINE p == job[t].page
<1>1. /\ open[t] /\ handled[t] = 0 /\ handled' = [handled EXCEPT ![t] = 1]
      /\ Wire = {}
      /\ UNCHANGED <<open, kind, result, exposed, knowledge, entityVars, history, at, job,
                     commands, faults>>
  BY DEF CarryOut, Api!CarryOut
<1>2. Wire' = {t} /\ CallTypeOK'
  BY <1>1 DEF Wire, CallTypeOK, IInv, TypeInv, TypeOK
<1>3. PollInv' /\ CallInv' /\ JobInv'
  BY <1>1 DEF IInv, PollInv, CallInv, JobInv, WellFormed, Settled, Idle, knowledge,
              entityVars
<1>4. CASE kind[t] = "read"
  <2>1. device' = device /\ got' = [got EXCEPT ![t] = device[Target(t)]]
    BY <1>4 DEF CarryOut
  <2>2. Target(t) \in Pages /\ job[t].step # "write"
    BY <1>1, <1>4, PageFacts DEF IInv, CallInv, TypeInv, TypeOK, Target
  <2>3. TypeInv'
    BY <1>1, <1>2, <2>1, <2>2 DEF IInv, TypeInv, TypeOK, CallTypeOK, knowledge,
                                  entityVars, history, PageValues
  <2>4. WireInv'
    BY <1>1, <1>2, <2>1, <2>2 DEF WireInv, Target, IInv, TypeInv, TypeOK
  <2>5. CoherentInv'
    <3>1. \A q \in Pages : Writing(q) => Writing(q)'
      BY <1>1 DEF Writing
    <3> QED  BY <1>1, <2>1, <3>1 DEF IInv, CoherentInv, knowledge, history
  <2> QED  BY <1>3, <2>3, <2>4, <2>5 DEF IInv
<1>5. CASE kind[t] # "read"
  <2>1. device' = Applied(t) /\ got' = got
    BY <1>5 DEF CarryOut
  <2>2. t # Poller /\ job[t].step = "write" /\ WellFormed(job[t])
    BY <1>1, <1>5 DEF IInv, CallInv, JobInv, Idle
  <2>3. p \in Pages /\ job[t].change \in Changes
    BY DEF IInv, TypeInv, TypeOK
  <2>4. \A q \in Pages :
            /\ device'[q] \in PageValues(q)
            /\ q # p \/ p \notin exposed => \A f \in Fields : device'[q][f] = device[q][f]
            /\ q = p /\ p \in exposed => device'[q] = Overlay(job[t].change, device[q])
    BY <2>1, <2>2, AppliedPages
  <2>5. TypeInv'
    <3>1. device' \in [Pages -> Values \cup QosValues]
      BY <2>1, <2>4 DEF Applied, PageValues, IInv, TypeInv, TypeOK
    <3> QED  BY <1>1, <1>2, <2>1, <2>4, <3>1
             DEF IInv, TypeInv, TypeOK, CallTypeOK, knowledge, entityVars, history,
                 PageValues
  <2>6. WireInv'
    <3>1. kind'[t] # "read"
      BY <1>1, <1>5
    <3>2. ASSUME p \in exposed PROVE Agrees(p, job[t].change)'
      <4>1. /\ \A f \in DOMAIN job[t].change : device'[p][f] = job[t].change[f]
            /\ \A f \in Fields \ DOMAIN job[t].change : device'[p][f] = device[p][f]
        BY <2>3, <2>4, <3>2, OverlaidPage DEF IInv, TypeInv
      <4>2. ASSUME p \in Patched \ unsure, cache[p] # None,
                   NEW f \in Fields \ DOMAIN job[t].change
            PROVE  cache[p][f] = device[p][f]
        <5>1. ~Writing(p)
          BY <1>1, <4>2 DEF Writing, IInv, JobInv, WellFormed, Patched, Reread
        <5>2. p \notin LeftAlone
          BY <4>2 DEF Patched, LeftAlone
        <5> QED  BY <2>3, <4>2, <5>1, <5>2 DEF IInv, CoherentInv
      <4>3. job' = job /\ cache' = cache /\ unsure' = unsure
        BY <1>1 DEF knowledge, history
      <4> QED  BY <4>1, <4>2, <4>3 DEF Agrees
    <3> QED  BY <1>1, <1>2, <3>1, <3>2 DEF WireInv
  <2>7. CoherentInv'
    <3> SUFFICES ASSUME NEW q \in Pages \ (LeftAlone \cup unsure),
                        cache[q] # None, ~Writing(q)', NEW f \in Fields
                 PROVE  cache[q][f] = device'[q][f]
      BY <1>1 DEF CoherentInv, knowledge, history
    <3>1. ~Writing(q) /\ (q # p \/ p \notin exposed)
      BY <1>1, <1>2, <2>2 DEF Writing
    <3>2. cache[q][f] = device[q][f]
      BY <3>1 DEF IInv, CoherentInv
    <3> QED  BY <2>4, <3>1, <3>2
  <2> QED  BY <1>3, <2>5, <2>6, <2>7 DEF IInv
<1> QED  BY <1>4, <1>5

(* The call of a command ends.                                             *)
Ended(t) ==
    /\ t # Poller /\ job[t].page \in Pages
    /\ CallTypeOK' /\ kind' = kind
    /\ \A u \in Tasks : open'[u] => open[u] /\ u # t
    /\ Wire' = Wire \ {t}
    /\ got' = [got EXCEPT ![t] = AllOff]
    /\ faults' \in 0..MaxFaults

LEMMA CommandReply ==
  ASSUME IInv, NEW t \in Tasks, NEW a \in Answers, t # Poller, Reply(t, a)
  PROVE  /\ Ended(t) /\ Wire' = {}
         /\ job[t].step # "idle" /\ WellFormed(job[t])
         /\ kind[t] = IF job[t].step = "write" THEN "apply" ELSE "read"
         /\ Target(t) = job[t].page
<1>1. open[t] /\ ~open'[t] /\ \A u \in Tasks \ {t} : open'[u] = open[u]
  BY ReplyWire
<1>2. job[t].step # "idle" /\ job[t].page \in Pages
  BY <1>1 DEF IInv, CallInv, TypeInv, TypeOK
<1>3. Ended(t) /\ Wire' = {}
  <2>1. Wire' = {} /\ Wire \subseteq {t}
    BY ReplyWire
  <2>2. Wire' = Wire \ {t}
    BY <2>1
  <2> QED  BY <1>1, <1>2, <2>1, <2>2, ReplyWire DEF Ended
<1> QED  BY <1>1, <1>2, <1>3 DEF IInv, CallInv, JobInv, Target

(* The command is over, or goes on with what is well formed.               *)
Proceeds(t) ==
    \E s \in {"idle", "write", "refresh"}, ch \in Changes :
        /\ job' = [job EXCEPT ![t] = IF s = "idle" THEN Idle
                                     ELSE [job[t] EXCEPT !.step = s, !.change = ch]]
        /\ s # "idle" => WellFormed(job'[t])

(* What a command has made of page p: what is known of it is what the      *)
(* switch has, or is in doubt, or will be read again.                      *)
Learns(p) ==
    /\ \E v \in PageValues(p) \cup {None} : cache' = [cache EXCEPT ![p] = v]
    /\ p \in Mandatory /\ cache[p] # None => cache'[p] # None
    /\ shown' \in {shown, cache'}
    /\ supported' \in [Pages -> {"unknown", "yes", "no"}]
    /\ \A q \in Pages \ Optional : supported'[q] = supported[q]
    /\ unsure' \subseteq Pages
    /\ \A q \in Pages \ {p} : q \in unsure' <=> q \in unsure
    /\ asked' \in [Pages -> Changes]
    /\ \A q \in Pages \ (LeftAlone \cup unsure') :
           q = p /\ cache'[q] # None /\ ~Writing(q)'
               => \A f \in Fields : cache'[q][f] = device[q][f]

(* What the end of a call of a command may do.                             *)
CommandStep(t) ==
    /\ Ended(t)
    /\ Wire' = {} \/ (cache' = cache /\ unsure \subseteq unsure')
    /\ UNCHANGED <<switchVars, features, ready, visible, last_update_success, at, commands>>
    /\ Proceeds(t)
    /\ Learns(job[t].page)

LEMMA CommandStepInv ==
  ASSUME IInv, NEW t \in Tasks, CommandStep(t)
  PROVE  IInv'
<1> DEFINE p == job[t].page
<1>1. /\ t # Poller /\ p \in Pages /\ Wire' = Wire \ {t}
      /\ UNCHANGED <<kind, device, exposed, features, ready, visible, last_update_success,
                     at, commands>>
      /\ \A u \in Tasks : open'[u] => open[u] /\ u # t
  BY DEF CommandStep, Ended, switchVars
<1>2. PICK s \in {"idle", "write", "refresh"}, ch \in Changes :
          /\ job' = [job EXCEPT ![t] = IF s = "idle" THEN Idle
                                       ELSE [job[t] EXCEPT !.step = s, !.change = ch]]
          /\ s # "idle" => WellFormed(job'[t])
  BY DEF CommandStep, Proceeds
<1>3. PICK v \in PageValues(p) \cup {None} : cache' = [cache EXCEPT ![p] = v]
  BY DEF CommandStep, Learns
<1>4. /\ job' \in [Tasks -> [step : {"idle", "check", "write", "refresh"},
                             page : Pages, change : Changes, asks : SUBSET Fields]]
      /\ \A u \in Tasks \ {t} : job'[u] = job[u]
      /\ s = "idle" => job'[t].step = "idle"
  <2>1. 1 \in 1..Len(PollOrder)
    BY PollOrderAssumption, PageFacts DEF Pages
  <2>2. PollOrder[1] \in Pages
    BY <2>1, PageFacts
  <2>3. Idle \in [step : {"idle", "check", "write", "refresh"},
                  page : Pages, change : Changes, asks : SUBSET Fields]
    BY <2>2, EmptyChange DEF Idle
  <2> QED  BY <1>2, <2>3 DEF IInv, TypeInv, TypeOK, Idle
<1>5. /\ cache' \in [Pages -> Values \cup QosValues \cup {None}]
      /\ \A q \in Pages : cache'[q] \in PageValues(q) \cup {None}
      /\ \A q \in Pages : q # p => cache'[q] = cache[q]
  BY <1>1, <1>3 DEF IInv, TypeInv, TypeOK, PageValues
<1>6. TypeInv'
  <2>1. got' \in [Tasks -> Values \cup QosValues]
    BY DEF CommandStep, Ended, IInv, TypeInv, TypeOK, AllOff, Values
  <2>2. /\ shown' \in [Pages -> Values \cup QosValues \cup {None}]
        /\ \A q \in Pages : shown'[q] \in PageValues(q) \cup {None}
    BY <1>5 DEF CommandStep, Learns, IInv, TypeInv, TypeOK
  <2>3. TypeOK'
    BY <1>1, <1>4, <1>5, <2>1, <2>2 DEF CommandStep, Ended, Learns, CallTypeOK, IInv, TypeInv, TypeOK
  <2> QED  BY <1>1, <1>5, <2>2, <2>3 DEF IInv, TypeInv, PageValues
<1>7. CallInv'
  <2>1. job'[Poller] = Idle
    BY <1>1, <1>4, TasksAssumption DEF IInv, CallInv
  <2>2. ASSUME NEW u \in Tasks, open'[u]
        PROVE  /\ kind'[u] = IF job'[u].step = "write" THEN "apply" ELSE "read"
               /\ IF u = Poller THEN at' # 0 ELSE job'[u].step # "idle"
    <3>1. open[u] /\ job'[u] = job[u] /\ kind'[u] = kind[u] /\ at' = at
      BY <1>1, <1>4, <2>2
    <3> QED  BY <3>1 DEF IInv, CallInv
  <2> QED  BY <2>1, <2>2 DEF CallInv, Idle
<1>8. JobInv'
  BY <1>1, <1>2, <1>4 DEF IInv, JobInv, WellFormed
<1>9. WireInv'
  <2>1. CASE Wire' = {}
    BY <2>1 DEF WireInv
  <2>2. CASE cache' = cache /\ unsure \subseteq unsure'
    <3>1. \A u \in Wire' : u \in Wire /\ u \in Tasks /\ u # t
      BY <1>1 DEF Wire
    <3>2. \A u \in Wire' : got'[u] = got[u]
      BY <3>1 DEF CommandStep, Ended, IInv, TypeInv, TypeOK
    <3>3. \A u \in Wire' : Target(u)' = Target(u)
      BY <1>1, <1>4, <3>1 DEF Target
    <3>4. \A u \in Wire' : job'[u].step = "write" /\ job'[u].page \in exposed'
                              => Agrees(job[u].page, job[u].change)
      BY <1>1, <1>4, <3>1 DEF IInv, WireInv
    <3>5. ASSUME NEW u \in Wire', job'[u].step = "write" /\ job'[u].page \in exposed'
          PROVE  Agrees(job[u].page, job[u].change)'
      <4> DEFINE q == job[u].page
                 c == job[u].change
      <4>1. job'[u] = job[u]
        BY <1>4, <3>1, <3>5
      <4>2. Agrees(q, c)
        BY <3>4, <3>5
      <4> QED  BY <1>1, <2>2, <4>1, <4>2 DEF Agrees
    <3>6. \A u, w \in Wire' : u = w
      BY <3>1 DEF IInv, WireInv
    <3>7. \A u \in Wire' : kind'[u] = "read" => got'[u] = device'[Target(u)']
      BY <1>1, <3>1, <3>2, <3>3 DEF IInv, WireInv
    <3> QED  BY <3>5, <3>6, <3>7 DEF WireInv
  <2> QED  BY <2>1, <2>2 DEF CommandStep
<1>10. CoherentInv'
  <2> SUFFICES ASSUME NEW q \in Pages \ (LeftAlone \cup unsure'),
                      cache'[q] # None, ~Writing(q)', NEW f \in Fields
               PROVE  cache'[q][f] = device[q][f]
    BY <1>1 DEF CoherentInv
  <2>1. CASE q = p
    <3>1. Learns(p)
      BY DEF CommandStep
    <3> QED  BY <2>1, <3>1 DEF Learns
  <2>2. CASE q # p
    <3>1. ~Writing(q)
      BY <1>1, <1>4, <2>2 DEF Writing
    <3>2. q \notin unsure
      BY <2>2 DEF CommandStep, Learns
    <3> QED  BY <1>5, <2>2, <3>1, <3>2 DEF IInv, CoherentInv
  <2> QED  BY <2>1, <2>2
<1>11. PollInv'
  <2>1. \A q \in Pages : Settled(q) => Settled(q)'
    BY <1>1, <1>5 DEF CommandStep, Learns, Settled
  <2>2. \A q \in Pages \ Optional : supported'[q] = "unknown"
    BY DEF CommandStep, Learns, IInv, PollInv
  <2>3. ready' => \A q \in Pages : Settled(q)'
    BY <1>1, <2>1 DEF IInv, PollInv
  <2>4. ASSUME NEW i \in 1..Len(PollOrder), i < at' PROVE Settled(PollOrder[i])'
    <3>1. Settled(PollOrder[i])
      BY <1>1, <2>4 DEF IInv, PollInv
    <3>2. PollOrder[i] \in Pages
      BY PageFacts
    <3> QED  BY <2>1, <3>1, <3>2
  <2> QED  BY <2>2, <2>3, <2>4 DEF PollInv
<1> QED  BY <1>6, <1>7, <1>8, <1>9, <1>10, <1>11 DEF IInv

LEMMA CheckInv ==
  ASSUME IInv, NEW t \in Tasks, NEW a \in Answers, Check(t, a)
  PROVE  IInv'
<1> DEFINE p == job[t].page
<1>1. /\ t # Poller /\ job[t].step = "check" /\ Reply(t, a)
      /\ UNCHANGED <<switchVars, knowledge, entityVars, history, at, commands>>
  BY DEF Check
<1>2. Ended(t) /\ Wire' = {} /\ WellFormed(job[t]) /\ kind[t] = "read" /\ Target(t) = p /\ p \in Pages
  BY <1>1, CommandReply DEF Ended
<1>3. Proceeds(t)
  <2>1. CASE a # "data"
    <3>1. job' = [job EXCEPT ![t] = Idle]
      BY <2>1 DEF Check, Done
    <3> QED  BY <3>1, EmptyChange DEF Proceeds
  <2>2. CASE a = "data"
    <3> DEFINE ch == IF p \in Patched THEN Spread(job[t].change, got[t]["trunk"])
                     ELSE job[t].change
    <3>1. p \in exposed /\ got[t] \in PageValues(p)
      BY <1>1, <1>2, <2>2, ReplyMeans DEF IInv, TypeInv
    <3>2. job[t].change \in Changes
      BY DEF IInv, TypeInv, TypeOK
    <3>3. ch \in Changes /\ DOMAIN job[t].change \subseteq DOMAIN ch
      <4>1. CASE p \in Patched
        <5>1. got[t]["trunk"] \in BOOLEAN
          BY <3>1, <4>1 DEF Patched, PageValues, QosValues
        <5>2. DOMAIN job[t].change # {}
          BY <1>2, <4>1 DEF WellFormed
        <5> QED  BY <3>2, <4>1, <5>1, <5>2, SpreadChange
      <4>2. CASE p \notin Patched
        BY <3>2, <4>2
      <4> QED  BY <4>1, <4>2
    <3>4. job' = [job EXCEPT ![t] = [job[t] EXCEPT !.step = "write", !.change = ch]]
      BY <2>2 DEF Check, IInv, TypeInv, TypeOK
    <3>5. /\ job'[t].step = "write" /\ job'[t].change = ch /\ job'[t].page = p
          /\ job'[t].asks = job[t].asks
      BY <3>4 DEF IInv, TypeInv, TypeOK
    <3>6. p \notin Patched => ch = job[t].change
      OBVIOUS
    <3> HIDE DEF ch
    <3>7. WellFormed(job'[t])
      BY <1>2, <3>1, <3>3, <3>5, <3>6 DEF WellFormed
    <3> QED  BY <3>3, <3>4, <3>7 DEF Proceeds
  <2> QED  BY <2>1, <2>2
<1>4. UNCHANGED <<device, cache, supported, shown, unsure, asked>>
  BY <1>1 DEF switchVars, knowledge, entityVars, history
<1>5. \A q \in Pages : Writing(q) => Writing(q)'
  <2>1. Wire' = Wire \ {t}
    BY <1>2 DEF Ended
  <2>2. \A u \in Tasks \ {t} : job'[u] = job[u]
    BY <1>3 DEF Proceeds, IInv, TypeInv, TypeOK
  <2> QED  BY <1>1, <2>1, <2>2 DEF Writing, switchVars
<1>6. Learns(p)
  <2>1. cache' = [cache EXCEPT ![p] = cache[p]] /\ cache[p] \in PageValues(p) \cup {None}
    BY <1>2, <1>4 DEF IInv, TypeInv, TypeOK
  <2>2. \A q \in Pages \ (LeftAlone \cup unsure') :
            q = p /\ cache'[q] # None /\ ~Writing(q)'
                => \A f \in Fields : cache'[q][f] = device[q][f]
    BY <1>2, <1>4, <1>5 DEF IInv, CoherentInv
  <2> QED  BY <1>4, <2>1, <2>2 DEF Learns, IInv, TypeInv, TypeOK
<1>7. CommandStep(t)
  BY <1>1, <1>2, <1>3, <1>6 DEF CommandStep, knowledge, entityVars
<1> QED  BY <1>7, CommandStepInv

(* A write leaves the other pages as certain as they were, and no page     *)
(* more certain.                                                           *)
LEMMA WriteHistoryTypes ==
  ASSUME IInv, NEW t \in Tasks, NEW ok \in BOOLEAN, WriteHistory(t, ok)
  PROVE  /\ unsure \subseteq unsure' /\ unsure' \subseteq unsure \cup {job[t].page}
         /\ job[t].page \in Pages => unsure' \subseteq Pages
         /\ job[t].step # "idle" => asked' \in [Pages -> Changes]
<1> DEFINE p == job[t].page
<1>1. unsure' = unsure \/ unsure' = unsure \cup {p}
  BY DEF WriteHistory, Doubt
<1>2. ASSUME job[t].step # "idle" PROVE asked' \in [Pages -> Changes]
  <2>1. job[t].change \in Changes /\ asked \in [Pages -> Changes] /\ p \in Pages
    BY DEF IInv, TypeInv, TypeOK
  <2>2. Asked(t) \in Changes
    <3>1. job[t].asks \subseteq DOMAIN job[t].change
      BY <1>2 DEF IInv, JobInv, WellFormed
    <3>2. DOMAIN job[t].change \subseteq Fields /\ \A f \in DOMAIN job[t].change :
              job[t].change[f] \in BOOLEAN
      BY <2>1, ChangesAre
    <3>3. DOMAIN Asked(t) = job[t].asks /\ \A f \in job[t].asks : Asked(t)[f] \in BOOLEAN
      BY <3>1, <3>2 DEF Asked
    <3> QED  BY <3>1, <3>2, <3>3, ChangesAre DEF Asked
  <2> DEFINE d == IF p \in Patched THEN job[t].change ELSE Asked(t)
             v == Overlay(d, asked[p])
  <2>3. d \in Changes
    BY <2>1, <2>2
  <2>4. v \in Changes
    <3> HIDE DEF d
    <3> QED  BY <2>1, <2>3, OverlaidChange
  <2>5. \/ asked' = asked
        \/ asked' = [asked EXCEPT ![p] = <<>>]
        \/ asked' = [asked EXCEPT ![p] = v]
    BY DEF WriteHistory, Doubt
  <2> HIDE DEF v
  <2> QED  BY <2>1, <2>4, <2>5, EmptyChange
<1> QED  BY <1>1, <1>2 DEF IInv, TypeInv, TypeOK

(* What the coordinator publishes after a write it is sure of is what the  *)
(* switch has.                                                             *)
LEMMA WrittenPage ==
  ASSUME IInv, NEW t \in Tasks, job[t].step = "write", WellFormed(job[t]),
         job[t].page \in Pages, job[t].page \in Replaced \cup Patched
  PROVE  LET p == job[t].page IN
         \E v \in PageValues(p) \cup {None} :
             /\ Written(t) = [cache EXCEPT ![p] = v]
             /\ p \notin Patched => v # None
             /\ v # None /\ t \in Wire /\ p \notin unsure /\ ~PatchedAmiss(t)
                    => \A f \in Fields : v[f] = device[p][f]
<1> DEFINE p == job[t].page
<1>1. p \in exposed /\ job[t].change \in Changes /\ p \in Pages
  BY DEF WellFormed, Replaced, Patched, IInv, TypeInv, TypeOK
<1>2. CASE p \notin Patched
  <2>1. DOMAIN job[t].change = Fields
    BY <1>2 DEF WellFormed
  <2>2. job[t].change \in Values
    BY <1>1, <2>1, ChangesAre DEF Values
  <2>3. job[t].change \in PageValues(p)
    BY <1>2, <2>2 DEF Patched, PageValues
  <2>4. Written(t) = [cache EXCEPT ![p] = job[t].change]
    BY <1>2 DEF Written
  <2>5. t \in Wire => \A f \in Fields : job[t].change[f] = device[p][f]
    BY <1>1, <2>1 DEF IInv, WireInv, Agrees
  <2> QED  BY <2>3, <2>4, <2>5, NotNone
<1>3. CASE p \in Patched /\ cache[p] = None
  <2>1. Written(t) = [cache EXCEPT ![p] = None]
    BY <1>3 DEF Written
  <2> QED  BY <1>3, <2>1
<1>4. CASE p \in Patched /\ cache[p] # None
  <2>1. cache[p] \in PageValues(p) /\ cache[p]["trunk"] \in BOOLEAN
    <3>1. cache[p] \in PageValues(p)
      BY <1>1, <1>4 DEF IInv, TypeInv
    <3> QED  BY <1>4, <3>1 DEF Patched, PageValues, QosValues
  <2>2. Asked(t) \in Changes /\ DOMAIN Asked(t) # {}
    <3>1. job[t].asks \subseteq DOMAIN job[t].change /\ job[t].asks # {}
      BY <1>4 DEF WellFormed
    <3>2. DOMAIN job[t].change \subseteq Fields /\ \A f \in DOMAIN job[t].change :
              job[t].change[f] \in BOOLEAN
      BY <1>1, ChangesAre
    <3>3. DOMAIN Asked(t) = job[t].asks /\ \A f \in job[t].asks : Asked(t)[f] \in BOOLEAN
      BY <3>1, <3>2 DEF Asked
    <3> QED  BY <3>1, <3>2, <3>3, ChangesAre DEF Asked
  <2>3. Patch(t) \in Changes
    BY <2>1, <2>2, SpreadChange DEF Patch
  <2> DEFINE v == Overlay(Patch(t), cache[p])
  <2>4. /\ v \in PageValues(p)
        /\ \A f \in DOMAIN Patch(t) : v[f] = Patch(t)[f]
        /\ \A f \in Fields \ DOMAIN Patch(t) : v[f] = cache[p][f]
    BY <2>1, <2>3, OverlaidPage
  <2>5. Written(t) = [cache EXCEPT ![p] = v]
    BY <1>4 DEF Written
  <2>6. ASSUME t \in Wire, p \notin unsure, ~PatchedAmiss(t), NEW f \in Fields
        PROVE  v[f] = device[p][f]
    <3>1. Patch(t) = job[t].change
      BY <1>4, <2>6 DEF PatchedAmiss, Patch
    <3>2. Agrees(p, job[t].change)
      BY <1>1, <2>6 DEF IInv, WireInv
    <3> HIDE DEF v
    <3> QED  BY <1>4, <2>4, <2>6, <3>1, <3>2 DEF Agrees
  <2> HIDE DEF v
  <2> QED  BY <1>4, <2>4, <2>5, <2>6
<1> QED  BY <1>2, <1>3, <1>4

(* When the call of a write is over, its page is in doubt if the switch    *)
(* may have changed it and the client does not know.                       *)
LEMMA WriteDoubt ==
  ASSUME IInv, NEW t \in Tasks, NEW ok \in BOOLEAN, WriteHistory(t, ok),
         job[t].page \in exposed, job[t].page \notin unsure'
  PROVE  /\ ok <=> handled[t] = 1
         /\ ok => ~PatchedAmiss(t)
BY DEF WriteHistory, Doubt, IInv, TypeInv, TypeOK

LEMMA WriteInv ==
  ASSUME IInv, NEW t \in Tasks, NEW a \in Answers, Write(t, a)
  PROVE  IInv'
<1> DEFINE p == job[t].page
           ok == a = "data"
<1>1. /\ t # Poller /\ job[t].step = "write" /\ Reply(t, a)
      /\ WriteHistory(t, ok)
      /\ UNCHANGED <<switchVars, at, commands>>
  BY DEF Write
<1>2. Ended(t) /\ Wire' = {} /\ WellFormed(job[t]) /\ p \in Pages
  BY <1>1, CommandReply DEF Ended
<1>3. /\ unsure \subseteq unsure' /\ unsure' \subseteq unsure \cup {p}
      /\ unsure' \subseteq Pages /\ asked' \in [Pages -> Changes]
  <2> HIDE DEF ok
  <2>1. ok \in BOOLEAN
    BY DEF ok
  <2> QED  BY <1>1, <1>2, <2>1, WriteHistoryTypes
<1>4. open[t] /\ (t \in Wire <=> handled[t] = 1)
  BY <1>1, ReplyWire DEF Wire
<1>5. p \in exposed /\ p \notin unsure' => (ok <=> t \in Wire) /\ (ok => ~PatchedAmiss(t))
  <2> HIDE DEF ok
  <2>1. ok \in BOOLEAN
    BY DEF ok
  <2> QED  BY <1>1, <1>4, <2>1, WriteDoubt
<1>6. UNCHANGED <<device, exposed>>
  BY <1>1 DEF switchVars
<1>7. CASE \/ a # "data" /\ Done(t) /\ UNCHANGED <<knowledge, entityVars>>
           \/ a = "data" /\ p \in LeftAlone /\ Done(t) /\ UNCHANGED <<knowledge, entityVars>>
           \/ a = "data" /\ p \in Reread /\ Goes(t, "refresh")
                         /\ UNCHANGED <<knowledge, entityVars>>
  <2>1. UNCHANGED <<cache, supported, shown, features, ready, visible, last_update_success>>
    BY <1>7 DEF knowledge, entityVars
  <2>2. Proceeds(t) /\ (a = "data" /\ p \notin LeftAlone => job'[t] = [job[t] EXCEPT !.step = "refresh"])
    <3>1. CASE Done(t) /\ (a # "data" \/ p \in LeftAlone)
      <4>1. job' = [job EXCEPT ![t] = Idle]
        BY <3>1 DEF Done
      <4> QED  BY <3>1, <4>1, EmptyChange DEF Proceeds
    <3>2. CASE Goes(t, "refresh") /\ p \in Reread
      <4>1. job[t].change \in Changes /\ job[t] = [step |-> job[t].step, page |-> p,
                change |-> job[t].change, asks |-> job[t].asks]
        BY DEF IInv, TypeInv, TypeOK
      <4>2. job' = [job EXCEPT ![t] = [job[t] EXCEPT !.step = "refresh",
                                                    !.change = job[t].change]]
        BY <3>2, <4>1 DEF Goes, IInv, TypeInv, TypeOK
      <4>3. job'[t] = [job[t] EXCEPT !.step = "refresh"]
        BY <3>2 DEF Goes, IInv, TypeInv, TypeOK
      <4>4. WellFormed(job'[t])
        BY <1>2, <3>2, <4>1, <4>3 DEF WellFormed
      <4> QED  BY <4>1, <4>2, <4>3, <4>4 DEF Proceeds
    <3> QED  BY <1>7, <3>1, <3>2
  <2>3. \A q \in Pages \ (LeftAlone \cup unsure') :
            q = p /\ cache'[q] # None /\ ~Writing(q)'
                => \A f \in Fields : cache'[q][f] = device[q][f]
    <3> SUFFICES ASSUME p \notin LeftAlone \cup unsure', cache[p] # None,
                        NEW q \in Pages, q = p, ~Writing(q)', NEW f \in Fields
                 PROVE  cache[q][f] = device[q][f]
      BY <2>1
    <3>1. a # "data"
      <4>1. ASSUME a = "data" PROVE FALSE
        <5>1. job'[t].page = q /\ job'[t].step = "refresh"
          BY <2>2, <4>1 DEF IInv, TypeInv, TypeOK
        <5> QED  BY <1>1, <5>1 DEF Writing
      <4> QED  BY <4>1
    <3>2. t \in Wire => p \notin exposed
      BY <1>5, <3>1
    <3>3. \A u \in Tasks \ {t} : job'[u] = job[u]
      BY <2>2 DEF Proceeds, IInv, TypeInv, TypeOK
    <3>4. ~Writing(q)
      <4>1. Wire \subseteq {t}
        BY <1>1, ReplyWire
      <4> QED  BY <1>1, <3>2, <3>3, <4>1 DEF Writing
    <3> QED  BY <1>3, <3>4 DEF IInv, CoherentInv
  <2>4. Learns(p)
    <3>1. cache' = [cache EXCEPT ![p] = cache[p]] /\ cache[p] \in PageValues(p) \cup {None}
      BY <1>2, <2>1 DEF IInv, TypeInv, TypeOK
    <3> QED  BY <1>3, <2>1, <2>3, <3>1 DEF Learns, IInv, TypeInv, TypeOK
  <2> QED  BY <1>1, <1>2, <2>1, <2>2, <2>4, CommandStepInv DEF CommandStep
<1>8. CASE a = "data" /\ p \notin Reread \cup LeftAlone
  <2>1. /\ Done(t) /\ cache' = Written(t) /\ shown' = cache'
        /\ supported' = IF p = "led" THEN [supported EXCEPT ![p] = "yes"] ELSE supported
        /\ UNCHANGED <<features, ready, visible, last_update_success>>
    BY <1>8 DEF Write, Publish
  <2>2. p \in Replaced \cup Patched /\ p \in exposed
    <3>1. p \in Mandatory \cup Optional \cup Gated /\ p \notin {"info", "statistics", "mtu"}
      BY <1>2, PageFacts DEF WellFormed
    <3>2. p \in Replaced \cup Patched
      BY <1>8, <3>1 DEF Mandatory, Optional, Gated, Replaced, Patched, Reread, LeftAlone
    <3> QED  BY <1>1, <1>2, <3>2 DEF WellFormed, Replaced, Patched
  <2>3. PICK v \in PageValues(p) \cup {None} :
             /\ Written(t) = [cache EXCEPT ![p] = v]
             /\ p \notin Patched => v # None
             /\ v # None /\ t \in Wire /\ p \notin unsure /\ ~PatchedAmiss(t)
                    => \A f \in Fields : v[f] = device[p][f]
    BY <1>1, <1>2, <2>2, WrittenPage
  <2>4. Proceeds(t)
    <3>1. job' = [job EXCEPT ![t] = Idle]
      BY <2>1 DEF Done
    <3> QED  BY <3>1, EmptyChange DEF Proceeds
  <2>5. cache' = [cache EXCEPT ![p] = v] /\ cache'[p] = v
    BY <1>2, <2>1, <2>3 DEF IInv, TypeInv, TypeOK
  <2>6. \A q \in Pages \ (LeftAlone \cup unsure') :
            q = p /\ cache'[q] # None /\ ~Writing(q)'
                => \A f \in Fields : cache'[q][f] = device[q][f]
    <3>1. p \notin unsure' /\ v # None => \A f \in Fields : v[f] = device[p][f]
      BY <1>3, <1>5, <1>8, <2>2, <2>3
    <3> QED  BY <2>5, <3>1
  <2>7. Learns(p)
    <3>1. p \in Mandatory => v # None
      BY <2>3 DEF Mandatory, Patched
    <3>2. /\ supported' \in [Pages -> {"unknown", "yes", "no"}]
          /\ \A q \in Pages \ Optional : supported'[q] = supported[q]
      BY <2>1 DEF Optional, IInv, TypeInv, TypeOK
    <3> QED  BY <1>3, <2>1, <2>5, <2>6, <3>1, <3>2 DEF Learns
  <2> QED  BY <1>1, <1>2, <2>1, <2>4, <2>7, CommandStepInv DEF CommandStep
<1> QED  BY <1>7, <1>8 DEF Write

LEMMA RefreshInv ==
  ASSUME IInv, NEW t \in Tasks, NEW a \in Answers, Refresh(t, a)
  PROVE  IInv'
<1> DEFINE p == job[t].page
<1>1. /\ t # Poller /\ job[t].step = "refresh" /\ Reply(t, a) /\ Done(t)
      /\ UNCHANGED <<switchVars, features, at, commands>>
  BY DEF Refresh
<1>2. /\ Ended(t) /\ Wire' = {} /\ WellFormed(job[t]) /\ p \in Pages
      /\ kind[t] = "read" /\ Target(t) = p
  BY <1>1, CommandReply DEF Ended
<1>3. p \in Reread /\ p \notin Mandatory /\ p # "qos"
  BY <1>1, <1>2 DEF WellFormed, Reread, Mandatory
<1>4. Proceeds(t)
  <2>1. job' = [job EXCEPT ![t] = Idle]
    BY <1>1 DEF Done
  <2> QED  BY <2>1, EmptyChange DEF Proceeds
<1>5. UNCHANGED <<ready, visible, last_update_success>> /\ Learns(p)
  <2>1. CASE a = "data"
    <3>1. /\ cache' = [cache EXCEPT ![p] = got[t]] /\ shown' = cache'
          /\ UNCHANGED <<ready, visible, last_update_success>>
          /\ unsure' = unsure \ {p} /\ asked' = asked
          /\ supported' = IF p = "cable" THEN [supported EXCEPT ![p] = "yes"] ELSE supported
      BY <2>1 DEF Refresh, Publish
    <3>2. got[t] = device[p] /\ device[p] \in PageValues(p)
      BY <1>1, <1>2, <2>1, ReplyMeans DEF IInv, TypeInv
    <3>3. cache'[p] = device[p]
      BY <1>2, <3>1, <3>2 DEF IInv, TypeInv, TypeOK
    <3>4. /\ supported' \in [Pages -> {"unknown", "yes", "no"}]
          /\ \A q \in Pages \ Optional : supported'[q] = supported[q]
      BY <3>1 DEF Optional, IInv, TypeInv, TypeOK
    <3>5. unsure' \subseteq Pages /\ asked' \in [Pages -> Changes]
          /\ \A q \in Pages \ {p} : q \in unsure' <=> q \in unsure
      BY <3>1 DEF IInv, TypeInv, TypeOK
    <3> QED  BY <1>3, <3>1, <3>2, <3>3, <3>4, <3>5 DEF Learns
  <2>2. CASE a # "data" /\ p = "cable"
    <3>1. /\ UNCHANGED <<cache, supported, shown, ready, visible, last_update_success>>
          /\ unsure' = unsure \cup {p} /\ asked' = [asked EXCEPT ![p] = <<>>]
      BY <2>2 DEF Refresh, Doubt, entityVars
    <3>2. cache' = [cache EXCEPT ![p] = cache[p]] /\ cache[p] \in PageValues(p) \cup {None}
      BY <1>2, <3>1 DEF IInv, TypeInv, TypeOK
    <3>3. unsure' \subseteq Pages /\ asked' \in [Pages -> Changes]
      BY <1>2, <3>1, EmptyChange DEF IInv, TypeInv, TypeOK
    <3> QED  BY <1>3, <3>1, <3>2, <3>3 DEF Learns, IInv, TypeInv, TypeOK
  <2>3. CASE a # "data" /\ p # "cable"
    <3>1. /\ cache' = [cache EXCEPT ![p] = None] /\ shown' = cache'
          /\ UNCHANGED <<supported, unsure, asked, ready, visible, last_update_success>>
      BY <2>3 DEF Refresh, Publish, history
    <3>2. cache'[p] = None
      BY <1>2, <3>1 DEF IInv, TypeInv, TypeOK
    <3> QED  BY <1>3, <3>1, <3>2 DEF Learns, IInv, TypeInv, TypeOK
  <2> QED  BY <2>1, <2>2, <2>3
<1> QED  BY <1>1, <1>2, <1>4, <1>5, CommandStepInv DEF CommandStep

LEMMA CancelInv ==
  ASSUME IInv, NEW t \in Tasks, CancelCommand(t)
  PROVE  IInv'
<1> DEFINE p == job[t].page
<1>1. /\ t # Poller /\ open[t]
      /\ open' = [open EXCEPT ![t] = FALSE] /\ handled' = handled /\ kind' = kind
      /\ result' = [result EXCEPT ![t] = "cancelled"]
      /\ got' = [got EXCEPT ![t] = AllOff]
      /\ UNCHANGED <<switchVars, knowledge, entityVars, at, commands, faults>>
  BY DEF CancelCommand, Api!End
<1>2. job[t].step # "idle" /\ p \in Pages
  BY <1>1 DEF IInv, CallInv, TypeInv, TypeOK
<1>3. Wire' = Wire \ {t}
  BY <1>1 DEF Wire, IInv, TypeInv, TypeOK
<1>4. Ended(t)
  <2>1. CallTypeOK'
    BY <1>1 DEF CallTypeOK, IInv, TypeInv, TypeOK, Api!Results
  <2>2. \A u \in Tasks : open'[u] => open[u] /\ u # t
    BY <1>1 DEF IInv, TypeInv, TypeOK
  <2>3. faults' \in 0..MaxFaults
    BY <1>1 DEF IInv, TypeInv, TypeOK
  <2> QED  BY <1>1, <1>2, <1>3, <2>1, <2>2, <2>3 DEF Ended
<1>5. Proceeds(t)
  <2>1. job' = [job EXCEPT ![t] = Idle]
    BY DEF CancelCommand, Done
  <2> QED  BY <2>1, EmptyChange DEF Proceeds
<1>6. /\ unsure \subseteq unsure' /\ unsure' \subseteq unsure \cup {p}
      /\ asked' \in [Pages -> Changes]
      /\ p \notin unsure' => job[t].step # "refresh"
      /\ p \notin unsure' /\ p \in exposed /\ job[t].step = "write" => t \notin Wire
  <2>1. CASE job[t].step = "write"
    <3>1. WriteHistory(t, FALSE)
      BY <2>1 DEF CancelCommand
    <3>2. p \in exposed /\ p \notin unsure' => handled[t] # 1
      BY <3>1, WriteDoubt
    <3> QED  BY <1>2, <2>1, <3>1, <3>2, WriteHistoryTypes DEF Wire
  <2>2. CASE job[t].step = "refresh"
    <3>1. unsure' = unsure \cup {p} /\ asked' = [asked EXCEPT ![p] = <<>>]
      BY <2>2 DEF CancelCommand, Doubt
    <3> QED  BY <2>2, <3>1, EmptyChange DEF IInv, TypeInv, TypeOK
  <2>3. CASE job[t].step \notin {"write", "refresh"}
    <3>1. unsure' = unsure /\ asked' = asked
      BY <2>3 DEF CancelCommand, history
    <3> QED  BY <2>3, <3>1 DEF IInv, TypeInv, TypeOK
  <2> QED  BY <2>1, <2>2, <2>3
<1>7. UNCHANGED <<device, exposed, cache, supported, features, shown, ready, visible,
                  last_update_success>>
  BY <1>1 DEF switchVars, knowledge, entityVars
<1>8. Learns(p)
  <2>1. cache' = [cache EXCEPT ![p] = cache[p]] /\ cache[p] \in PageValues(p) \cup {None}
    BY <1>2, <1>7 DEF IInv, TypeInv, TypeOK
  <2>2. \A q \in Pages \ (LeftAlone \cup unsure') :
            q = p /\ cache'[q] # None /\ ~Writing(q)'
                => \A f \in Fields : cache'[q][f] = device[q][f]
    <3> SUFFICES ASSUME p \notin LeftAlone \cup unsure', cache[p] # None,
                        NEW q \in Pages, q = p, ~Writing(q)', NEW f \in Fields
                 PROVE  cache[q][f] = device[q][f]
      BY <1>7
    <3>1. \A u \in Tasks \ {t} : job'[u] = job[u]
      BY <1>5 DEF Proceeds, IInv, TypeInv, TypeOK
    <3>2. ~Writing(q)
      BY <1>3, <1>6, <1>7, <3>1 DEF Writing
    <3> QED  BY <1>6, <3>2 DEF IInv, CoherentInv
  <2> QED  BY <1>2, <1>6, <1>7, <2>1, <2>2 DEF Learns, IInv, TypeInv, TypeOK
<1>9. CommandStep(t)
  BY <1>1, <1>4, <1>5, <1>6, <1>7, <1>8 DEF CommandStep
<1> QED  BY <1>9, CommandStepInv

-----------------------------------------------------------------------------
(* The invariant.                                                          *)

LEMMA InitInv == Init => IInv
<1> SUFFICES ASSUME Init PROVE IInv
  OBVIOUS
<1>1. PollOrder[1] \in Pages
  <2>1. 1 \in 1..Len(PollOrder)
    BY PollOrderAssumption, PageFacts DEF Pages
  <2> QED  BY <2>1, PageFacts
<1>2. Wire = {} /\ \A t \in Tasks : ~open[t]
  BY DEF Init, Api!Init, Wire
<1>3. AllOff \in Values /\ QosOff \in QosValues
  BY DEF AllOff, QosOff, Values, QosValues
<1>4. TypeInv
  <2>1. CallTypeOK
    BY DEF Init, Api!Init, CallTypeOK, Api!Kinds, Api!Results
  <2>2. Idle \in [step : {"idle", "check", "write", "refresh"},
                  page : Pages, change : Changes, asks : SUBSET Fields]
    BY <1>1, EmptyChange DEF Idle
  <2>3. job \in [Tasks -> [step : {"idle", "check", "write", "refresh"},
                           page : Pages, change : Changes, asks : SUBSET Fields]]
    BY <2>2 DEF Init
  <2>4. asked \in [Pages -> Changes]
    BY EmptyChange DEF Init
  <2>5. commands \in 0..MaxCommands /\ faults \in 0..MaxFaults /\ at \in 0..Len(PollOrder)
    BY BoundsAssumption, PageFacts DEF Init
  <2>6. /\ device \in [Pages -> Values \cup QosValues]
        /\ \A p \in Pages : device[p] \in PageValues(p)
    BY <1>3 DEF Init, PageValues
  <2>7. TypeOK
    BY <1>3, <2>1, <2>3, <2>4, <2>5, <2>6 DEF Init, TypeOK, CallTypeOK, NotKnown
  <2> QED  BY <2>6, <2>7 DEF TypeInv, Init, NotKnown
<1>5. CallInv
  BY <1>2, TasksAssumption DEF CallInv, Init
<1>6. JobInv
  BY DEF JobInv, Init, Idle
<1>7. WireInv
  BY <1>2 DEF WireInv
<1>8. CoherentInv
  BY DEF CoherentInv, Init, NotKnown
<1>9. PollInv
  BY PageFacts DEF PollInv, Init
<1> QED  BY <1>4, <1>5, <1>6, <1>7, <1>8, <1>9 DEF IInv

LEMMA StutterInv ==
  ASSUME IInv, UNCHANGED vars
  PROVE  IInv'
<1>1. Wire' = Wire
  BY DEF vars, Wire
<1> USE DEF vars
<1>2. TypeInv'
  BY DEF IInv, TypeInv, TypeOK, PageValues
<1>3. CallInv' /\ JobInv'
  BY DEF IInv, CallInv, JobInv, WellFormed, Idle
<1>4. WireInv'
  BY <1>1 DEF IInv, WireInv, Agrees, Target
<1>5. CoherentInv'
  BY <1>1 DEF IInv, CoherentInv, Writing
<1>6. PollInv'
  BY DEF IInv, PollInv, Settled
<1> QED  BY <1>2, <1>3, <1>4, <1>5, <1>6 DEF IInv

LEMMA NextInv ==
  ASSUME IInv, [Next]_vars
  PROVE  IInv'
<1>1. CASE StartPoll
  BY <1>1, StartPollInv
<1>2. ASSUME NEW t \in Tasks, Send(t) PROVE IInv'
  BY <1>2, SendInv
<1>3. ASSUME NEW t \in Tasks, CarryOut(t) PROVE IInv'
  BY <1>3, CarryOutInv
<1>4. ASSUME NEW t \in Tasks, CancelCommand(t) PROVE IInv'
  BY <1>4, CancelInv
<1>5. ASSUME NEW t \in Tasks, NEW a \in Answers, Check(t, a) PROVE IInv'
  BY <1>5, CheckInv
<1>6. ASSUME NEW t \in Tasks, NEW a \in Answers, Write(t, a) PROVE IInv'
  BY <1>6, WriteInv
<1>7. ASSUME NEW t \in Tasks, NEW a \in Answers, Refresh(t, a) PROVE IInv'
  BY <1>7, RefreshInv
<1>8. ASSUME NEW t \in Tasks, NEW p \in Pages, NEW f \in Fields, NEW v \in BOOLEAN,
             EntityCommand(t, p, f, v)
      PROVE  IInv'
  BY <1>8, EntityCommandInv
<1>9. ASSUME NEW t \in Tasks, NEW p \in Pages, NEW ch \in Values, DirectCommand(t, p, ch)
      PROVE  IInv'
  BY <1>9, DirectCommandInv
<1>10. ASSUME NEW a \in Answers,
              \/ UpdateMandatory(a) \/ UpdateOptional(a)
              \/ ProbeFeatures(a) \/ UpdateGated(a)
       PROVE  IInv'
  BY <1>10, MandatoryStep, OptionalStep, ProbeStep, GatedStep, PollStepInv
<1>11. CASE UNCHANGED vars
  BY <1>11, StutterInv
<1> QED  BY <1>1, <1>2, <1>3, <1>4, <1>5, <1>6, <1>7, <1>8, <1>9, <1>10, <1>11 DEF Next

LEMMA Always == Spec => []IInv
BY InitInv, NextInv, PTL DEF Spec

(* All variables stay within their types, whatever polls, commands and     *)
(* faults come together.                                                   *)
THEOREM TypeCorrect == Spec => []TypeOK
<1>1. IInv => TypeOK
  BY DEF IInv, TypeInv
<1> QED  BY <1>1, Always, PTL

(* What the coordinator knows of a page it keeps up to date is what the    *)
(* switch has set, unless a command is at it or the client was deceived.   *)
THEOREM Coherent == Spec => []CacheCoherent
<1>1. IInv => CacheCoherent
  <2>1. \A p : Writing(p) => BeingWritten(p)
    BY DEF Writing, BeingWritten
  <2> QED  BY <2>1 DEF IInv, CoherentInv, CacheCoherent
<1> QED  BY <1>1, Always, PTL

(* Port entities never lose their data once the entry is set up.           *)
THEOREM KeepsMandatory == Spec => []MandatoryKept
<1>1. IInv => MandatoryKept
  BY DEF IInv, PollInv, Settled, MandatoryKept
<1> QED  BY <1>1, Always, PTL

-----------------------------------------------------------------------------
(* What one step may do to the knowledge of the switch.                    *)

KeptSupport ==
    \A p \in Pages : ready /\ supported[p] = "yes" => supported'[p] = "yes"

MandatoryFailed ==
    last_update_success /\ ~last_update_success' => PollOrder[at] \in Mandatory

(* No page is given up that the firmware has.                              *)
Truthful ==
    ~Malformed /\ LatchedOnlyIfAbsent => LatchedOnlyIfAbsent'

(* A step in which no page is given up and no poll fails.                  *)
Harmless ==
    /\ exposed' = exposed
    /\ \A p \in Pages : supported'[p] # supported[p] => supported'[p] = "yes"
    /\ last_update_success => last_update_success'

LEMMA HarmlessStep ==
  ASSUME Harmless
  PROVE  KeptSupport /\ MandatoryFailed /\ Truthful
BY DEF Harmless, KeptSupport, MandatoryFailed, Truthful, LatchedOnlyIfAbsent

LEMMA CommandsHarmless ==
  ASSUME IInv, NEW t \in Tasks,
         \/ StartPoll \/ Send(t) \/ CarryOut(t) \/ CancelCommand(t)
         \/ \E a \in Answers : Check(t, a) \/ Write(t, a) \/ Refresh(t, a)
         \/ \E p \in Pages, f \in Fields, v \in BOOLEAN : EntityCommand(t, p, f, v)
         \/ \E p \in Pages, ch \in Values : DirectCommand(t, p, ch)
         \/ UNCHANGED vars
  PROVE  Harmless
<1>1. CASE UNCHANGED <<switchVars, knowledge, entityVars>>
  BY <1>1 DEF switchVars, knowledge, entityVars, Harmless
<1>2. CASE StartPoll \/ Send(t) \/ CancelCommand(t) \/ UNCHANGED vars
  BY <1>1, <1>2 DEF StartPoll, Send, CancelCommand, vars, switchVars, knowledge, entityVars
<1>3. CASE CarryOut(t)
  BY <1>3 DEF CarryOut, knowledge, entityVars, Harmless
<1>4. ASSUME NEW a \in Answers, Check(t, a) PROVE Harmless
  BY <1>1, <1>4 DEF Check
<1>5. ASSUME NEW a \in Answers, Write(t, a) PROVE Harmless
  <2>1. /\ exposed' = exposed /\ last_update_success' = last_update_success
        /\ supported' = supported \/ supported' = [supported EXCEPT !["led"] = "yes"]
    BY <1>5 DEF Write, Publish, switchVars, knowledge, entityVars
  <2> QED  BY <2>1 DEF Harmless, IInv, TypeInv, TypeOK
<1>6. ASSUME NEW a \in Answers, Refresh(t, a) PROVE Harmless
  <2>1. /\ exposed' = exposed /\ last_update_success' = last_update_success
        /\ supported' = supported \/ supported' = [supported EXCEPT !["cable"] = "yes"]
    BY <1>6 DEF Refresh, Publish, switchVars, entityVars
  <2> QED  BY <2>1 DEF Harmless, IInv, TypeInv, TypeOK
<1>7. ASSUME NEW p \in Pages, NEW f \in Fields, NEW v \in BOOLEAN, EntityCommand(t, p, f, v)
      PROVE  Harmless
  <2>1. UNCHANGED <<switchVars, knowledge, entityVars>>
    BY <1>7 DEF EntityCommand, BeginCommand
  <2> QED  BY <1>1, <2>1
<1>8. ASSUME NEW p \in Pages, NEW ch \in Values, DirectCommand(t, p, ch)
      PROVE  Harmless
  <2>1. UNCHANGED <<switchVars, knowledge, entityVars>>
    BY <1>8 DEF DirectCommand, BeginCommand
  <2> QED  BY <1>1, <2>1
<1> QED  BY <1>2, <1>3, <1>4, <1>5, <1>6, <1>7, <1>8

LEMMA PollCareful ==
  ASSUME IInv, NEW a \in Answers,
         UpdateMandatory(a) \/ UpdateOptional(a) \/ ProbeFeatures(a) \/ UpdateGated(a)
  PROVE  KeptSupport /\ MandatoryFailed /\ Truthful
<1> DEFINE p == PollOrder[at]
<1>1. /\ Reply(Poller, a) /\ exposed' = exposed
  BY DEF UpdateMandatory, UpdateOptional, ProbeFeatures, UpdateGated, ReadFor, switchVars
<1>2. p \in Pages
  BY <1>1, PollerReads, PageFacts
<1>3. ASSUME NEW c, NEW f, GoOn(c, supported, f)
      PROVE  Harmless
  BY <1>1, <1>3 DEF GoOn, entityVars, Harmless
<1>4. CASE UpdateMandatory(a)
  <2>1. CASE a = "data"
    BY <1>3, <1>4, <2>1, HarmlessStep DEF UpdateMandatory
  <2>2. CASE a # "data"
    <3>1. p \in Mandatory /\ PollFails
      BY <1>4, <2>2 DEF UpdateMandatory, ReadFor
    <3>2. \A q \in Pages : supported'[q] # supported[q] => ~ready /\ supported'[q] = "unknown"
      BY <3>1 DEF PollFails
    <3> QED  BY <1>1, <3>1, <3>2 DEF KeptSupport, MandatoryFailed, Truthful,
                                     LatchedOnlyIfAbsent
  <2> QED  BY <2>1, <2>2
<1>5. CASE UpdateOptional(a)
  <2>1. /\ supported' = [supported EXCEPT ![p] = Verdict(supported[p], a)]
        /\ last_update_success => last_update_success'
    BY <1>5 DEF UpdateOptional, GoOn, entityVars
  <2>2. \A q \in Pages : supported'[q] = IF q = p THEN Verdict(supported[p], a)
                                         ELSE supported[q]
    BY <2>1 DEF IInv, TypeInv, TypeOK
  <2>3. supported[p] = "yes" => Verdict(supported[p], a) = "yes"
    BY DEF Verdict
  <2>4. ASSUME ~Malformed, Verdict(supported[p], a) = "no", supported[p] # "no"
        PROVE  p \notin exposed
    <3>1. a = "absent"
      BY <2>4 DEF Verdict
    <3> QED  BY <1>1, <2>4, <3>1, PollerReads, ReplyMeans, TasksAssumption
  <2> QED  BY <1>1, <2>1, <2>2, <2>3, <2>4
           DEF KeptSupport, MandatoryFailed, Truthful, LatchedOnlyIfAbsent
<1>6. CASE ProbeFeatures(a)
  <2>1. ~ready
    BY <1>2, <1>6 DEF ProbeFeatures, ReadFor, IInv, PollInv, Settled
  <2>2. CASE a = "data"
    BY <1>1, <1>6, <2>2, HarmlessStep DEF ProbeFeatures, entityVars, Harmless
  <2>3. CASE a \in {"absent", "disconnected"}
    BY <1>3, <1>6, <2>3, HarmlessStep DEF ProbeFeatures
  <2>4. CASE a \notin {"data", "absent", "disconnected"}
    <3>1. PollFails
      BY <1>6, <2>4 DEF ProbeFeatures
    <3>2. /\ \A q \in Pages : supported'[q] = "unknown"
          /\ last_update_success' = last_update_success
      BY <2>1, <3>1 DEF PollFails, entityVars
    <3> QED  BY <1>1, <2>1, <3>2 DEF KeptSupport, MandatoryFailed, Truthful,
                                     LatchedOnlyIfAbsent
  <2> QED  BY <2>2, <2>3, <2>4
<1>7. CASE UpdateGated(a)
  <2>1. GoOn(Stored(p, a), supported, features)
    BY <1>7 DEF UpdateGated
  <2> QED  BY <1>3, <2>1, HarmlessStep
<1> QED  BY <1>4, <1>5, <1>6, <1>7

LEMMA StepsCareful ==
  ASSUME IInv, [Next]_vars
  PROVE  KeptSupport /\ MandatoryFailed /\ Truthful
<1>1. CASE \E a \in Answers : \/ UpdateMandatory(a) \/ UpdateOptional(a)
                              \/ ProbeFeatures(a) \/ UpdateGated(a)
  BY <1>1, PollCareful
<1>2. CASE StartPoll \/ UNCHANGED vars
  BY <1>2, CommandsHarmless, HarmlessStep, TasksAssumption
<1>3. ASSUME NEW t \in Tasks,
             \/ Send(t) \/ CarryOut(t) \/ CancelCommand(t)
             \/ \E a \in Answers : Check(t, a) \/ Write(t, a) \/ Refresh(t, a)
             \/ \E p \in Pages, f \in Fields, v \in BOOLEAN : EntityCommand(t, p, f, v)
             \/ \E p \in Pages, ch \in Values : DirectCommand(t, p, ch)
      PROVE  KeptSupport /\ MandatoryFailed /\ Truthful
  BY <1>3, CommandsHarmless, HarmlessStep
<1> QED  BY <1>1, <1>2, <1>3 DEF Next

(* Once a page was read, its support is not given up.                      *)
THEOREM KeepsSupport == Spec => SupportKept
<1>1. IInv /\ [Next]_vars => [KeptSupport]_vars
  BY StepsCareful
<1>2. Spec => [][KeptSupport]_vars
  BY <1>1, Always, PTL DEF Spec
<1> QED  BY <1>2 DEF SupportKept, KeptSupport

(* A poll of an entry that is set up only fails for a mandatory page.      *)
THEOREM OnlyMandatory == Spec => OnlyMandatoryFailsPoll
<1>1. IInv /\ [Next]_vars => [MandatoryFailed]_vars
  BY StepsCareful
<1>2. Spec => [][MandatoryFailed]_vars
  BY <1>1, Always, PTL DEF Spec
<1> QED  BY <1>2 DEF OnlyMandatoryFailsPoll, MandatoryFailed

(* If the pages the switch has come with their data, the coordinator only  *)
(* stops asking for a page that the firmware does not have.                *)
THEOREM Latches ==
  ASSUME ~Malformed
  PROVE  Spec => []LatchedOnlyIfAbsent
<1>1. Init => LatchedOnlyIfAbsent
  BY DEF Init, LatchedOnlyIfAbsent
<1>2. IInv /\ LatchedOnlyIfAbsent /\ [Next]_vars => LatchedOnlyIfAbsent'
  BY StepsCareful DEF Truthful
<1> QED  BY <1>1, <1>2, Always, PTL DEF Spec

=============================================================================
