---------------------- MODULE CoordinatorUpdates_proofs ----------------------
(***************************************************************************)
(* What a command has set stays set, as long as no other command is under  *)
(* way for the page of one that writes fields it was not asked to set: the *)
(* run coordinator_concurrent shows why that is needed.                    *)
(***************************************************************************)
EXTENDS Coordinator_proofs

Commanders == Tasks \ {Poller}

(* The command of task t writes fields as an entity knew them.             *)
Borrows(t) ==
    /\ job[t].step # "idle"
    /\ job[t].page \notin Patched
    /\ job[t].asks # DOMAIN job[t].change

(* The page of such a command is left to it.                               *)
CommandsApart ==
    \A s, t \in Commanders :
        s # t /\ Borrows(t) /\ job[s].step # "idle" => job[s].page # job[t].page

(* A write of field f of page p is under way.                              *)
Overwriting(p, f) ==
    \E t \in Commanders :
        /\ t \in Wire
        /\ job[t].step = "write"
        /\ job[t].page = p
        /\ f \in DOMAIN job[t].change

Refreshing(p) == \E t \in Commanders : job[t].step = "refresh" /\ job[t].page = p

(* Page data x have what was asked of page p.                              *)
Obeys(x, p) == x # None => \A f \in DOMAIN asked[p] : x[f] = asked[p][f]

(* The switch has every field as it was asked to, unless it is being       *)
(* written.                                                                *)
Kept ==
    \A p \in Pages :
        /\ DOMAIN asked[p] # {} => p \in exposed
        /\ \A f \in DOMAIN asked[p] :
               ~Overwriting(p, f) => device[p][f] = asked[p][f]

(* What an entity may take fields from has them as they were asked for.    *)
Told ==
    \A p \in Pages \cap Shared :
        ~Refreshing(p) => Obeys(cache[p], p) /\ Obeys(shown[p], p)

(* A field that a command writes and was not asked for has been taken over *)
(* as it was asked for.                                                    *)
Borrowed ==
    \A t \in Commanders :
        job[t].step \in {"check", "write"} /\ job[t].page \notin Patched
            => \A f \in DOMAIN asked[job[t].page] \ job[t].asks :
                   job[t].change[f] = asked[job[t].page][f]

UpdateInv == Kept /\ Told /\ Borrowed

-----------------------------------------------------------------------------
(* Steps that ask for nothing.                                             *)

(* Page p is asked for what it was, or for nothing.                        *)
AsksNoMore ==
    \A p \in Pages : asked'[p] = asked[p] \/ DOMAIN asked'[p] = {}

(* Nothing is written by a write that is given up unless it is forgotten   *)
(* what was asked for.                                                     *)
LEMMA KeptStep ==
  ASSUME Kept, AsksNoMore, UNCHANGED <<device, exposed>>,
         \A p \in Pages : \A f \in DOMAIN asked'[p] :
             Overwriting(p, f) => Overwriting(p, f)'
  PROVE  Kept'
BY DEF Kept, AsksNoMore

(* What the entities are told is what they or the coordinator knew, or     *)
(* what the switch has.                                                    *)
LEMMA ToldStep ==
  ASSUME Told, AsksNoMore,
         \A p \in Pages \cap Shared :
             DOMAIN asked'[p] # {} /\ ~Refreshing(p)'
                 => /\ Refreshing(p) => Obeys(cache'[p], p) /\ Obeys(shown'[p], p)
                    /\ cache'[p] = cache[p] \/ Obeys(cache'[p], p)
                    /\ shown'[p] \in {shown[p], cache[p], cache'[p]}
  PROVE  Told'
<1> SUFFICES ASSUME NEW p \in Pages \cap Shared, ~Refreshing(p)'
             PROVE  Obeys(cache[p], p)' /\ Obeys(shown[p], p)'
  BY DEF Told
<1>1. CASE DOMAIN asked'[p] = {}
  BY <1>1 DEF Obeys
<1>2. CASE DOMAIN asked'[p] # {}
  <2>1. asked'[p] = asked[p]
    BY <1>2 DEF AsksNoMore
  <2>2. Obeys(cache'[p], p) /\ Obeys(shown'[p], p)
    BY <1>2 DEF Told
  <2> QED  BY <2>1, <2>2 DEF Obeys
<1> QED  BY <1>1, <1>2

LEMMA BorrowedStep ==
  ASSUME Borrowed, AsksNoMore, TypeInv',
         \A t \in Commanders :
             job'[t].step \in {"check", "write"} /\ job'[t].page \notin Patched
                 => /\ job[t].step \in {"check", "write"}
                    /\ job'[t].page = job[t].page
                    /\ job'[t].asks = job[t].asks
                    /\ job'[t].change = job[t].change
  PROVE  Borrowed'
<1> SUFFICES ASSUME NEW t \in Commanders, job'[t].step \in {"check", "write"},
                    job'[t].page \notin Patched,
                    NEW f \in DOMAIN asked'[job'[t].page] \ job'[t].asks
             PROVE  job'[t].change[f] = asked'[job'[t].page][f]
  BY DEF Borrowed
<1>1. job[t].page \in Pages
  BY DEF TypeInv, TypeOK, Commanders
<1>2. asked'[job[t].page] = asked[job[t].page]
  BY <1>1 DEF AsksNoMore
<1> QED  BY <1>2 DEF Borrowed

(* The page the switch has obeys, unless it is being written.              *)
LEMMA DeviceObeys ==
  ASSUME Kept, NEW p \in Pages, \A f : ~Overwriting(p, f)
  PROVE  Obeys(device[p], p)
BY DEF Kept, Obeys

(* A step that neither asks for anything nor changes what is known.        *)
LEMMA QuietStep ==
  ASSUME UpdateInv, TypeInv',
         UNCHANGED <<device, exposed, cache, shown, asked>>,
         \A p, f : Overwriting(p, f) => Overwriting(p, f)',
         \A p : Refreshing(p) => Refreshing(p)',
         \A t \in Commanders :
             job'[t].step \in {"check", "write"} /\ job'[t].page \notin Patched
                 => /\ job[t].step \in {"check", "write"}
                    /\ job'[t].page = job[t].page
                    /\ job'[t].asks = job[t].asks
                    /\ job'[t].change = job[t].change
  PROVE  UpdateInv'
<1>1. AsksNoMore
  BY DEF AsksNoMore
<1>2. Kept'
  BY <1>1, KeptStep DEF UpdateInv
<1>3. Told'
  BY <1>1, ToldStep DEF UpdateInv
<1>4. Borrowed'
  BY <1>1, BorrowedStep DEF UpdateInv
<1> QED  BY <1>2, <1>3, <1>4 DEF UpdateInv

LEMMA WaitingUpdates ==
  ASSUME IInv, UpdateInv, TypeInv',
         StartPoll \/ (\E t \in Tasks : Send(t)) \/ UNCHANGED vars
  PROVE  UpdateInv'
<1>1. Wire' = Wire
  <2>1. ASSUME NEW t \in Tasks, Send(t) PROVE Wire' = Wire
    BY <2>1 DEF Send, Api!Begin, Wire, IInv, TypeInv, TypeOK
  <2>2. CASE StartPoll \/ UNCHANGED vars
    BY <2>2 DEF StartPoll, apiVars, vars, Wire
  <2> QED  BY <2>1, <2>2
<1>2. UNCHANGED <<job, device, exposed, cache, shown, asked>>
  BY DEF StartPoll, Send, vars, switchVars, knowledge, entityVars, history
<1>3. /\ \A p, f : Overwriting(p, f) => Overwriting(p, f)'
      /\ \A p : Refreshing(p) => Refreshing(p)'
  BY <1>1, <1>2 DEF Overwriting, Refreshing
<1>4. \A t \in Commanders :
          job'[t].step \in {"check", "write"} => job[t].step \in {"check", "write"}
  BY <1>2
<1> QED  BY <1>2, <1>3, <1>4, QuietStep

LEMMA CheckUpdates ==
  ASSUME IInv, UpdateInv, TypeInv', NEW t \in Tasks, NEW a \in Answers, Check(t, a)
  PROVE  UpdateInv'
<1>1. /\ job[t].step = "check" /\ Reply(t, a)
      /\ UNCHANGED <<device, exposed, cache, shown, asked>>
  BY DEF Check, switchVars, knowledge, entityVars, history
<1>2. \A p, f : ~Overwriting(p, f)
  <2>1. Wire \subseteq {t}
    BY <1>1, ReplyWire
  <2> QED  BY <1>1, <2>1 DEF Overwriting
<1>3. /\ \A u \in Tasks \ {t} : job'[u] = job[u]
      /\ job'[t].step \in {"idle", "write"}
      /\ job'[t].step = "write" => /\ job'[t].page = job[t].page
                                   /\ job'[t].asks = job[t].asks
                                   /\ job[t].page \notin Patched
                                          => job'[t].change = job[t].change
  BY DEF Check, Done, Idle, IInv, TypeInv, TypeOK
<1>4. \A p : Refreshing(p) => Refreshing(p)'
  BY <1>1, <1>3 DEF Refreshing, Commanders
<1>5. \A u \in Commanders :
          job'[u].step \in {"check", "write"} /\ job'[u].page \notin Patched
              => /\ job[u].step \in {"check", "write"}
                 /\ job'[u].page = job[u].page
                 /\ job'[u].asks = job[u].asks
                 /\ job'[u].change = job[u].change
  BY <1>1, <1>3 DEF Commanders
<1> QED  BY <1>1, <1>2, <1>4, <1>5, QuietStep

(* A poll stores what the switch has, or nothing.                          *)
LEMMA PollUpdates ==
  ASSUME IInv, UpdateInv, TypeInv', NEW a \in Answers, PollStep(a)
  PROVE  UpdateInv'
<1>1. /\ Reply(Poller, a) /\ UNCHANGED <<device, exposed, job, asked>>
      /\ cache' \in {cache, NotKnown, Stored(PollOrder[at], a)}
      /\ shown' \in {shown, cache, cache'}
  BY DEF PollStep, switchVars
<1>2. \A p, f : ~Overwriting(p, f)
  <2>1. Wire \subseteq {Poller}
    BY <1>1, ReplyWire, TasksAssumption
  <2> QED  BY <2>1 DEF Overwriting, Commanders
<1>3. AsksNoMore
  BY <1>1 DEF AsksNoMore
<1>4. Kept'
  BY <1>1, <1>2, <1>3, KeptStep DEF UpdateInv
<1>5. \A p \in Pages : cache'[p] \in {cache[p], device[p], None}
  BY <1>1, StoredPage DEF NotKnown
<1>6. \A p \in Pages : cache'[p] = cache[p] \/ Obeys(cache'[p], p)
  <2>1. \A p \in Pages : Obeys(device[p], p) /\ Obeys(None, p)
    BY <1>2, DeviceObeys DEF UpdateInv, Obeys
  <2> QED  BY <1>5, <2>1
<1>7. \A p : Refreshing(p) => Refreshing(p)'
  BY <1>1 DEF Refreshing
<1>8. \A p \in Pages : shown'[p] \in {shown[p], cache[p], cache'[p]}
  BY <1>1
<1>9. Told'
  BY <1>3, <1>6, <1>7, <1>8, ToldStep DEF UpdateInv
<1>10. Borrowed'
  BY <1>1, <1>3, BorrowedStep DEF UpdateInv
<1> QED  BY <1>4, <1>9, <1>10 DEF UpdateInv

-----------------------------------------------------------------------------
(* The write.                                                              *)

LEMMA CarryOutUpdates ==
  ASSUME IInv, UpdateInv, TypeInv', NEW t \in Tasks, CarryOut(t)
  PROVE  UpdateInv'
<1> DEFINE p == job[t].page
<1>1. /\ open[t] /\ handled[t] = 0 /\ handled' = [handled EXCEPT ![t] = 1]
      /\ Wire = {}
      /\ UNCHANGED <<open, kind, exposed, cache, shown, asked, job>>
  BY DEF CarryOut, Api!CarryOut, knowledge, entityVars, history
<1>2. Wire' = {t}
  BY <1>1 DEF Wire, IInv, TypeInv, TypeOK
<1>3. \A q, f : ~Overwriting(q, f)
  BY <1>1 DEF Overwriting
<1>4. \A q : Refreshing(q) => Refreshing(q)'
  BY <1>1 DEF Refreshing
<1>5. CASE kind[t] = "read"
  <2>1. device' = device
    BY <1>5 DEF CarryOut
  <2> QED  BY <1>1, <1>3, <1>4, <2>1, QuietStep
<1>6. CASE kind[t] # "read"
  <2>1. device' = Applied(t)
    BY <1>6 DEF CarryOut
  <2>2. t \in Commanders /\ job[t].step = "write" /\ WellFormed(job[t])
    BY <1>1, <1>6 DEF IInv, CallInv, JobInv, Idle, Commanders
  <2>3. job[t].change \in Changes /\ \A q \in Pages : asked[q] \in Changes
    BY DEF IInv, TypeInv, TypeOK
  <2>4. ASSUME NEW q \in Pages, NEW f \in DOMAIN asked[q], ~Overwriting(q, f)'
        PROVE  device'[q][f] = asked[q][f]
    <3>1. f \in Fields /\ device[q][f] = asked[q][f]
      BY <1>3, <2>3, <2>4, ChangesAre DEF UpdateInv, Kept
    <3>2. q = p => f \notin DOMAIN job[t].change
      BY <1>1, <1>2, <2>2, <2>4 DEF Overwriting
    <3>3. device'[q][f] = device[q][f]
      <4>1. CASE q # p \/ p \notin exposed
        BY <2>1, <2>2, <3>1, <4>1, AppliedPages
      <4>2. CASE q = p /\ p \in exposed
        <5>1. device'[q] = Overlay(job[t].change, device[q])
          BY <2>1, <2>2, <4>2, AppliedPages
        <5>2. device[q] \in PageValues(q)
          BY DEF IInv, TypeInv
        <5> QED  BY <2>3, <3>1, <3>2, <4>2, <5>1, <5>2, OverlaidPage
      <4> QED  BY <4>1, <4>2
    <3> QED  BY <3>1, <3>3
  <2>5. Kept'
    BY <1>1, <2>4 DEF UpdateInv, Kept
  <2>6. AsksNoMore
    BY <1>1 DEF AsksNoMore
  <2>7. Told'
    BY <1>1, <1>4, <2>6, ToldStep DEF UpdateInv
  <2>8. Borrowed'
    BY <1>1, <2>6, BorrowedStep DEF UpdateInv
  <2> QED  BY <2>5, <2>7, <2>8 DEF UpdateInv
<1> QED  BY <1>5, <1>6

(* What the end of a write does to the rest.                               *)
WriteEnds(t) ==
    /\ t \in Commanders /\ job[t].step = "write" /\ WellFormed(job[t])
    /\ job[t].page \in Pages
    /\ UNCHANGED <<device, exposed>>
    /\ Wire' = Wire \ {t}
    /\ \A u \in Tasks \ {t} : job'[u] = job[u]
    /\ job'[t].step \notin {"check", "write"}
    /\ \A q \in Pages \ {job[t].page} : cache'[q] = cache[q]
    /\ shown' \in {shown, cache'}

(* It has failed, or nobody knows: nothing more is asked for, and nothing  *)
(* that was asked for has been written over.                               *)
LEMMA FailedWrite ==
  ASSUME UpdateInv, TypeInv', NEW t \in Tasks, WriteEnds(t),
         \/ asked' = asked /\ (t \in Wire => job[t].page \notin exposed)
         \/ asked' = [asked EXCEPT ![job[t].page] = <<>>] /\ asked \in [Pages -> Changes],
         \/ UNCHANGED <<cache, shown>>
         \/ DOMAIN asked'[job[t].page] = {}
  PROVE  UpdateInv'
<1> DEFINE p == job[t].page
<1>1. AsksNoMore
  BY DEF AsksNoMore
<1>2. \A q \in Pages : \A f \in DOMAIN asked'[q] : Overwriting(q, f) => Overwriting(q, f)'
  <2> SUFFICES ASSUME NEW q \in Pages, NEW f \in DOMAIN asked'[q], Overwriting(q, f)
               PROVE  Overwriting(q, f)'
    OBVIOUS
  <2>1. PICK u \in Commanders : /\ u \in Wire /\ job[u].step = "write"
                                /\ job[u].page = q /\ f \in DOMAIN job[u].change
    BY DEF Overwriting
  <2>2. u # t
    <3>1. CASE asked' = asked /\ (t \in Wire => p \notin exposed)
      BY <2>1, <3>1 DEF UpdateInv, Kept
    <3>2. CASE asked' = [asked EXCEPT ![p] = <<>>] /\ asked \in [Pages -> Changes]
      <4>1. asked'[p] = <<>>
        BY <3>2 DEF WriteEnds
      <4>2. q # p
        BY <4>1
      <4> QED  BY <2>1, <4>2
    <3> QED  BY <3>1, <3>2
  <2>3. u \in Wire' /\ job'[u] = job[u]
    BY <2>1, <2>2 DEF WriteEnds, Commanders
  <2> QED  BY <2>1, <2>3 DEF Overwriting
<1>3. Kept'
  BY <1>1, <1>2, KeptStep DEF UpdateInv, WriteEnds
<1>4. \A q : Refreshing(q) => Refreshing(q)'
  BY DEF WriteEnds, Refreshing, Commanders
<1>5. Told'
  <2>1. \A q \in Pages : DOMAIN asked'[q] # {}
            => cache'[q] = cache[q] /\ shown'[q] \in {shown[q], cache'[q]}
    BY DEF WriteEnds
  <2> QED  BY <1>1, <1>4, <2>1, ToldStep DEF UpdateInv
<1>6. Borrowed'
  <2>1. \A u \in Commanders : job'[u].step \in {"check", "write"} => job'[u] = job[u]
    BY DEF WriteEnds, Commanders
  <2> QED  BY <1>1, <2>1, BorrowedStep DEF UpdateInv
<1> QED  BY <1>3, <1>5, <1>6 DEF UpdateInv

(* What an acknowledged write of task t asks for, with what was asked of   *)
(* its page before.                                                        *)
AskedOf(t) ==
    Overlay(IF job[t].page \in Patched THEN job[t].change ELSE Asked(t),
            asked[job[t].page])

(* It is what the switch has, and for a page that is not patched what was  *)
(* written.                                                                *)
LEMMA AskedIsSet ==
  ASSUME IInv, UpdateInv, NEW t \in Wire, t \in Commanders, job[t].step = "write",
         job[t].page \in exposed, WellFormed(job[t])
  PROVE  /\ \A f \in DOMAIN AskedOf(t) : device[job[t].page][f] = AskedOf(t)[f]
         /\ job[t].page \notin Patched
                => \A f \in DOMAIN AskedOf(t) : job[t].change[f] = AskedOf(t)[f]
<1> DEFINE p == job[t].page
           d == IF p \in Patched THEN job[t].change ELSE Asked(t)
<1>1. p \in Pages /\ asked[p] \in Changes /\ job[t].change \in Changes
  BY DEF IInv, TypeInv, TypeOK, Wire
<1>2. DOMAIN asked[p] \subseteq Fields
  BY <1>1, ChangesAre
<1>3. \A f \in DOMAIN job[t].change : device[p][f] = job[t].change[f]
  BY DEF IInv, WireInv, Agrees
<1>4. /\ DOMAIN d \subseteq DOMAIN job[t].change
      /\ \A f \in DOMAIN d : d[f] = job[t].change[f]
  BY DEF Asked, WellFormed
<1>5. ASSUME NEW f \in DOMAIN asked[p], f \notin DOMAIN d
      PROVE  /\ device[p][f] = asked[p][f]
             /\ p \notin Patched => job[t].change[f] = asked[p][f]
  <2>1. CASE p \in Patched
    <3>1. \A u \in Wire : u = t
      BY DEF IInv, WireInv
    <3>2. ~Overwriting(p, f)
      BY <1>5, <2>1, <3>1 DEF Overwriting
    <3> QED  BY <1>1, <1>5, <2>1, <3>2 DEF UpdateInv, Kept
  <2>2. CASE p \notin Patched
    <3>1. f \notin job[t].asks /\ f \in DOMAIN job[t].change
      BY <1>2, <1>5, <2>2 DEF Asked, WellFormed
    <3>2. job[t].change[f] = asked[p][f]
      BY <1>5, <2>2, <3>1 DEF UpdateInv, Borrowed
    <3> QED  BY <1>3, <3>1, <3>2
  <2> QED  BY <2>1, <2>2
<1>6. /\ DOMAIN AskedOf(t) = DOMAIN d \cup DOMAIN asked[p]
      /\ \A f \in DOMAIN AskedOf(t) :
             AskedOf(t)[f] = IF f \in DOMAIN d THEN d[f] ELSE asked[p][f]
  BY DEF AskedOf, Overlay
<1> HIDE DEF d
<1> QED  BY <1>3, <1>4, <1>5, <1>6

(* The write is acknowledged.                                              *)
LEMMA GoodWrite ==
  ASSUME IInv, UpdateInv, CommandsApart, TypeInv', NEW t \in Wire, WriteEnds(t),
         job[t].page \in exposed,
         asked' = [asked EXCEPT ![job[t].page] = AskedOf(t)],
         \/ job'[t].step = "refresh" /\ job'[t].page = job[t].page
         \/ job[t].page \notin Shared
         \/ cache'[job[t].page] = job[t].change /\ shown' = cache'
  PROVE  UpdateInv'
<1> DEFINE p == job[t].page
           v == AskedOf(t)
<1>1. /\ t \in Commanders /\ p \in Pages /\ job[t].step = "write" /\ WellFormed(job[t])
      /\ Wire' = {}
  <2>1. Wire = {t}
    BY DEF IInv, WireInv
  <2> QED  BY <2>1 DEF WriteEnds
<1>2. asked'[p] = v /\ \A q \in Pages : q # p => asked'[q] = asked[q]
  BY <1>1 DEF IInv, TypeInv, TypeOK
<1>3. /\ \A f \in DOMAIN v : device[p][f] = v[f]
      /\ p \notin Patched => \A f \in DOMAIN v : job[t].change[f] = v[f]
  BY <1>1, AskedIsSet
<1>4. \A q, f : q # p => ~Overwriting(q, f)
  <2>1. Wire = {t}
    BY DEF IInv, WireInv
  <2> QED  BY <2>1 DEF Overwriting
<1>5. Kept'
  <2> HIDE DEF v
  <2> SUFFICES ASSUME NEW q \in Pages
               PROVE  /\ DOMAIN asked'[q] # {} => q \in exposed
                      /\ \A f \in DOMAIN asked'[q] : device[q][f] = asked'[q][f]
    BY DEF Kept, WriteEnds
  <2>1. CASE q = p
    BY <1>2, <1>3, <2>1
  <2>2. CASE q # p
    BY <1>2, <1>4, <2>2 DEF UpdateInv, Kept
  <2> QED  BY <2>1, <2>2
<1>6. Told'
  <2> SUFFICES ASSUME NEW q \in Pages \cap Shared, ~Refreshing(q)'
               PROVE  Obeys(cache[q], q)' /\ Obeys(shown[q], q)'
    BY DEF Told
  <2>1. CASE q = p
    <3>1. p \notin Patched
      BY <2>1 DEF Shared, Patched
    <3>2. ~(job'[t].step = "refresh" /\ job'[t].page = p)
      BY <1>1, <2>1 DEF Refreshing
    <3>3. cache'[p] = job[t].change /\ shown'[p] = job[t].change
      BY <2>1, <3>2
    <3> HIDE DEF v
    <3> QED  BY <1>2, <1>3, <2>1, <3>1, <3>3 DEF Obeys
  <2>2. CASE q # p
    <3>1. ~Refreshing(q)
      BY <1>1, <2>2 DEF Refreshing, WriteEnds, Commanders
    <3>2. Obeys(cache[q], q) /\ Obeys(shown[q], q)
      BY <3>1 DEF UpdateInv, Told
    <3>3. cache'[q] = cache[q] /\ shown'[q] \in {shown[q], cache'[q]} /\ asked'[q] = asked[q]
      BY <1>2, <2>2 DEF WriteEnds
    <3> QED  BY <3>2, <3>3 DEF Obeys
  <2> QED  BY <2>1, <2>2
<1>7. Borrowed'
  <2> SUFFICES ASSUME NEW u \in Commanders, job'[u].step \in {"check", "write"},
                      job'[u].page \notin Patched,
                      NEW f \in DOMAIN asked'[job'[u].page] \ job'[u].asks
               PROVE  job'[u].change[f] = asked'[job'[u].page][f]
    BY DEF Borrowed
  <2>1. u # t /\ job'[u] = job[u] /\ job[u].page \in Pages
    BY DEF WriteEnds, Commanders, IInv, TypeInv, TypeOK
  <2>2. job[u].page # p
    <3>1. ASSUME job[u].page = p PROVE FALSE
      <4>1. ~Borrows(u)
        BY <1>1, <2>1, <3>1 DEF CommandsApart
      <4>2. job[u].asks = DOMAIN job[u].change /\ WellFormed(job[u])
        BY <2>1, <4>1 DEF Borrows, IInv, JobInv, Commanders
      <4>3. job[u].asks = Fields
        BY <2>1, <4>2 DEF WellFormed
      <4>4. asked'[p] \in Changes
        BY <1>1 DEF TypeInv, TypeOK
      <4>5. DOMAIN asked'[p] \subseteq Fields
        BY <4>4, ChangesAre
      <4> QED  BY <2>1, <3>1, <4>3, <4>5
    <3> QED  BY <3>1
  <2> QED  BY <1>2, <2>1, <2>2 DEF UpdateInv, Borrowed
<1> QED  BY <1>5, <1>6, <1>7 DEF UpdateInv

LEMMA WriteUpdates ==
  ASSUME IInv, UpdateInv, CommandsApart, TypeInv',
         NEW t \in Tasks, NEW a \in Answers, Write(t, a)
  PROVE  UpdateInv'
<1> DEFINE p == job[t].page
           ok == a = "data"
<1>1. /\ t \in Commanders /\ job[t].step = "write" /\ Reply(t, a) /\ WriteHistory(t, ok)
      /\ UNCHANGED <<device, exposed>>
  BY DEF Write, switchVars, Commanders
<1>2. p \in Pages /\ WellFormed(job[t]) /\ Wire' = Wire \ {t} /\ open[t]
  BY <1>1, CommandReply, ReplyWire DEF Ended, Commanders
<1>3. t \in Wire <=> handled[t] = 1
  BY <1>2 DEF Wire
<1>4. \/ /\ job'[t].step = "idle"
         /\ UNCHANGED <<cache, shown>>
         /\ a # "data" \/ p \in LeftAlone
      \/ /\ p \in Reread /\ job'[t].step = "refresh" /\ job'[t].page = p
         /\ UNCHANGED <<cache, shown>>
      \/ job'[t].step = "idle" /\ a = "data" /\ cache' = Written(t) /\ shown' = cache'
  BY DEF Write, Done, Goes, Publish, Idle, knowledge, entityVars, IInv, TypeInv, TypeOK
<1>5. \A u \in Tasks \ {t} : job'[u] = job[u]
  BY DEF Write, Done, Goes, IInv, TypeInv, TypeOK
<1>6. \A q \in Pages \ {p} : Written(t)[q] = cache[q]
  BY DEF Written, IInv, TypeInv, TypeOK
<1>7. WriteEnds(t)
  BY <1>1, <1>2, <1>4, <1>5, <1>6 DEF WriteEnds
<1>8. CASE ok # (handled[t] = 1) /\ p \in exposed
  <2>1. asked' = [asked EXCEPT ![p] = <<>>] /\ asked \in [Pages -> Changes]
    BY <1>1, <1>8 DEF WriteHistory, Doubt, IInv, TypeInv, TypeOK
  <2>2. DOMAIN asked'[p] = {}
    BY <1>2, <2>1
  <2> QED  BY <1>7, <2>1, <2>2, FailedWrite
<1>9. CASE ~(ok # (handled[t] = 1) /\ p \in exposed) /\ ~(ok /\ p \in exposed)
  <2>1. asked' = asked
    BY <1>1, <1>9 DEF WriteHistory
  <2>2. t \in Wire => p \notin exposed
    BY <1>3, <1>9
  <2>3. UNCHANGED <<cache, shown>> \/ DOMAIN asked'[p] = {}
    <3>1. p \notin exposed => DOMAIN asked[p] = {}
      BY <1>2 DEF UpdateInv, Kept
    <3> QED  BY <1>4, <1>9, <2>1, <3>1
  <2> QED  BY <1>7, <2>1, <2>2, <2>3, FailedWrite
<1>10. CASE ok /\ handled[t] = 1 /\ p \in exposed
  <2>1. asked' = [asked EXCEPT ![p] = AskedOf(t)]
    BY <1>1, <1>10 DEF WriteHistory, AskedOf
  <2>2. t \in Wire
    BY <1>3, <1>10
  <2>3. \/ job'[t].step = "refresh" /\ job'[t].page = p
        \/ p \notin Shared
        \/ cache'[p] = job[t].change /\ shown' = cache'
    <3>1. CASE cache' = Written(t) /\ shown' = cache' /\ p \in Shared
      <4>1. p \notin Patched
        BY <3>1 DEF Shared, Patched
      <4> QED  BY <1>2, <3>1, <4>1 DEF Written, IInv, TypeInv, TypeOK
    <3>2. p \in LeftAlone => p \notin Shared
      BY DEF LeftAlone, Shared
    <3> QED  BY <1>4, <1>10, <3>1, <3>2
  <2> QED  BY <1>7, <1>10, <2>1, <2>2, <2>3, GoodWrite
<1> QED  BY <1>8, <1>9, <1>10

LEMMA CancelUpdates ==
  ASSUME IInv, UpdateInv, TypeInv', NEW t \in Tasks, CancelCommand(t)
  PROVE  UpdateInv'
<1> DEFINE p == job[t].page
<1>1. /\ t \in Commanders /\ open[t] /\ open' = [open EXCEPT ![t] = FALSE]
      /\ handled' = handled /\ Done(t)
      /\ UNCHANGED <<device, exposed, cache, shown>>
  BY DEF CancelCommand, Api!End, Commanders, switchVars, knowledge, entityVars
<1>2. p \in Pages /\ job[t].step # "idle" /\ WellFormed(job[t]) /\ asked \in [Pages -> Changes]
  BY <1>1 DEF IInv, CallInv, JobInv, TypeInv, TypeOK, Commanders
<1>3. Wire' = Wire \ {t} /\ (t \in Wire <=> handled[t] = 1)
  BY <1>1 DEF Wire, IInv, TypeInv, TypeOK
<1>4. job'[t].step = "idle" /\ \A u \in Tasks \ {t} : job'[u] = job[u]
  BY <1>1 DEF Done, Idle, IInv, TypeInv, TypeOK
<1>5. CASE job[t].step = "write"
  <2>1. WriteEnds(t)
    BY <1>1, <1>2, <1>3, <1>4, <1>5 DEF WriteEnds
  <2>2. \/ asked' = asked /\ (t \in Wire => p \notin exposed)
        \/ asked' = [asked EXCEPT ![p] = <<>>]
    BY <1>3, <1>5 DEF CancelCommand, WriteHistory, Doubt
  <2> QED  BY <1>1, <1>2, <2>1, <2>2, FailedWrite
<1>6. CASE job[t].step # "write"
  <2>1. /\ asked' = asked \/ asked' = [asked EXCEPT ![p] = <<>>]
        /\ job[t].step = "refresh" => asked' = [asked EXCEPT ![p] = <<>>]
    BY <1>6 DEF CancelCommand, Doubt, history
  <2>2. AsksNoMore /\ (job[t].step = "refresh" => DOMAIN asked'[p] = {})
    <3>1. \A q \in Pages : [asked EXCEPT ![p] = <<>>][q] = IF q = p THEN <<>> ELSE asked[q]
      BY <1>2
    <3> QED  BY <1>2, <2>1, <3>1 DEF AsksNoMore
  <2>3. \A q, f : Overwriting(q, f) => Overwriting(q, f)'
    BY <1>3, <1>4, <1>6 DEF Overwriting, Commanders
  <2>4. Kept'
    BY <1>1, <2>2, <2>3, KeptStep DEF UpdateInv
  <2>5. \A q : q # p \/ job[t].step # "refresh" => (Refreshing(q) => Refreshing(q)')
    BY <1>4 DEF Refreshing, Commanders
  <2>6. Told'
    BY <1>1, <2>2, <2>5, ToldStep DEF UpdateInv
  <2>7. Borrowed'
    <3>1. \A u \in Commanders : job'[u].step \in {"check", "write"} => job'[u] = job[u]
      BY <1>4 DEF Commanders
    <3> QED  BY <2>2, <3>1, BorrowedStep DEF UpdateInv
  <2> QED  BY <2>4, <2>6, <2>7 DEF UpdateInv
<1> QED  BY <1>5, <1>6

(* A page that is read again after a write is known as the switch has it,  *)
(* or not at all.                                                          *)
LEMMA RefreshUpdates ==
  ASSUME IInv, UpdateInv, TypeInv', NEW t \in Tasks, NEW a \in Answers, Refresh(t, a)
  PROVE  UpdateInv'
<1> DEFINE p == job[t].page
<1>1. /\ t \in Commanders /\ job[t].step = "refresh" /\ Reply(t, a) /\ Done(t)
      /\ UNCHANGED <<device, exposed>>
  BY DEF Refresh, switchVars, Commanders
<1>2. p \in Pages /\ kind[t] = "read" /\ Target(t) = p
  BY <1>1, CommandReply DEF Ended, Commanders
<1>3. job'[t].step = "idle" /\ \A u \in Tasks \ {t} : job'[u] = job[u]
  BY <1>1 DEF Done, Idle, IInv, TypeInv, TypeOK
<1>4. \A q, f : ~Overwriting(q, f)
  <2>1. Wire \subseteq {t}
    BY <1>1, ReplyWire
  <2> QED  BY <1>1, <2>1 DEF Overwriting
<1>5. \/ /\ asked' = asked /\ shown' = cache'
         /\ cache'[p] \in {device[p], None}
         /\ \A q \in Pages : q # p => cache'[q] = cache[q]
      \/ /\ DOMAIN asked'[p] = {} /\ UNCHANGED <<cache, shown>>
         /\ \A q \in Pages : q # p => asked'[q] = asked[q]
  <2>1. CASE a = "data"
    <3>1. got[t] = device[p]
      BY <1>1, <1>2, <2>1, ReplyMeans
    <3>2. cache' = [cache EXCEPT ![p] = device[p]] /\ shown' = cache' /\ asked' = asked
      BY <2>1, <3>1 DEF Refresh, Publish
    <3> QED  BY <1>2, <3>2 DEF IInv, TypeInv, TypeOK
  <2>2. CASE a # "data" /\ p = "cable"
    <3>1. asked' = [asked EXCEPT ![p] = <<>>] /\ UNCHANGED <<cache, shown>>
      BY <2>2 DEF Refresh, Doubt, entityVars
    <3>2. asked'[p] = <<>>
      BY <1>2, <3>1 DEF IInv, TypeInv, TypeOK
    <3> QED  BY <3>1, <3>2 DEF IInv, TypeInv, TypeOK
  <2>3. CASE a # "data" /\ p # "cable"
    <3>1. cache' = [cache EXCEPT ![p] = None] /\ shown' = cache' /\ asked' = asked
      BY <2>3 DEF Refresh, Publish, history
    <3> QED  BY <1>2, <3>1 DEF IInv, TypeInv, TypeOK
  <2> QED  BY <2>1, <2>2, <2>3
<1>6. AsksNoMore
  BY <1>5 DEF AsksNoMore
<1>7. Kept'
  BY <1>1, <1>4, <1>6, KeptStep DEF UpdateInv
<1>8. Told'
  <2>1. \A q : q # p => (Refreshing(q) => Refreshing(q)')
    BY <1>3 DEF Refreshing, Commanders
  <2>2. Obeys(device[p], p) /\ Obeys(None, p)
    BY <1>2, <1>4, DeviceObeys DEF UpdateInv, Obeys
  <2>3. CASE asked' = asked /\ shown' = cache'
    BY <1>5, <1>6, <2>1, <2>2, <2>3, ToldStep DEF UpdateInv
  <2>4. CASE DOMAIN asked'[p] = {} /\ UNCHANGED <<cache, shown>>
    BY <1>6, <2>1, <2>4, ToldStep DEF UpdateInv
  <2> QED  BY <1>5, <2>3, <2>4
<1>9. Borrowed'
  <2>1. \A u \in Commanders : job'[u].step \in {"check", "write"} => job'[u] = job[u]
    BY <1>3 DEF Commanders
  <2> QED  BY <1>6, <2>1, BorrowedStep DEF UpdateInv
<1> QED  BY <1>7, <1>8, <1>9 DEF UpdateInv

-----------------------------------------------------------------------------
(* The begin of a command.                                                 *)

LEMMA BeginUpdates ==
  ASSUME IInv, UpdateInv, TypeInv', NEW t \in Tasks, NEW p \in Pages, NEW ch \in Changes,
         NEW fs \in SUBSET Fields, BeginCommand(t, p, ch, fs),
         p \notin Patched => \A f \in DOMAIN asked[p] \ fs : ch[f] = asked[p][f]
  PROVE  UpdateInv'
<1>1. /\ t \in Commanders /\ job[t].step = "idle"
      /\ job' = [job EXCEPT ![t] = [step |-> FirstStep(p), page |-> p,
                                   change |-> ch, asks |-> fs]]
      /\ UNCHANGED <<open, handled, device, exposed, cache, shown, asked>>
  BY DEF BeginCommand, Commanders, apiVars, switchVars, knowledge, entityVars, history
<1>2. /\ job'[t] = [step |-> FirstStep(p), page |-> p, change |-> ch, asks |-> fs]
      /\ \A u \in Tasks \ {t} : job'[u] = job[u]
  BY <1>1 DEF IInv, TypeInv, TypeOK
<1>3. AsksNoMore
  BY <1>1 DEF AsksNoMore
<1>4. \A q, f : Overwriting(q, f) => Overwriting(q, f)'
  BY <1>1, <1>2 DEF Overwriting, Wire, Commanders
<1>5. Kept'
  BY <1>1, <1>3, <1>4, KeptStep DEF UpdateInv
<1>6. \A q : Refreshing(q) => Refreshing(q)'
  BY <1>1, <1>2 DEF Refreshing, Commanders
<1>7. Told'
  BY <1>1, <1>3, <1>6, ToldStep DEF UpdateInv
<1>8. Borrowed'
  <2> SUFFICES ASSUME NEW u \in Commanders, job'[u].step \in {"check", "write"},
                      job'[u].page \notin Patched,
                      NEW f \in DOMAIN asked[job'[u].page] \ job'[u].asks
               PROVE  job'[u].change[f] = asked[job'[u].page][f]
    BY <1>1 DEF Borrowed
  <2>1. CASE u = t
    BY <1>2, <2>1
  <2>2. CASE u # t
    BY <1>2, <2>2 DEF UpdateInv, Borrowed, Commanders
  <2> QED  BY <2>1, <2>2
<1> QED  BY <1>5, <1>7, <1>8 DEF UpdateInv

(* A command that borrows begins when nothing else is at its page.         *)
LEMMA BorrowsAlone ==
  ASSUME IInv, CommandsApart', NEW t \in Tasks, NEW p \in Pages, NEW ch \in Changes,
         NEW fs \in SUBSET Fields, BeginCommand(t, p, ch, fs),
         p \notin Patched, fs # DOMAIN ch
  PROVE  ~Refreshing(p)
<1>1. /\ t \in Commanders /\ job[t].step = "idle"
      /\ job'[t] = [step |-> FirstStep(p), page |-> p, change |-> ch, asks |-> fs]
      /\ \A u \in Tasks \ {t} : job'[u] = job[u]
  BY DEF BeginCommand, Commanders, IInv, TypeInv, TypeOK
<1>2. Borrows(t)'
  BY <1>1 DEF Borrows, FirstStep
<1>3. ASSUME NEW u \in Commanders, job[u].step = "refresh", job[u].page = p PROVE FALSE
  <2>1. u # t /\ job'[u] = job[u]
    BY <1>1, <1>3 DEF Commanders
  <2> QED  BY <1>1, <1>2, <1>3, <2>1 DEF CommandsApart
<1> QED  BY <1>3 DEF Refreshing

LEMMA EntityUpdates ==
  ASSUME IInv, UpdateInv, CommandsApart', TypeInv', NEW t \in Tasks, NEW p \in Pages,
         NEW f \in Fields, NEW v \in BOOLEAN, EntityCommand(t, p, f, v)
  PROVE  UpdateInv'
<1>1. CASE /\ p \in Shared /\ Known(p, f) # None
           /\ BeginCommand(t, p, [Known(p, f) EXCEPT ![f] = v], {f})
  <2>1. p \notin Patched /\ p # "qos"
    BY <1>1 DEF Shared, Patched
  <2>2. Known(p, f) \in Values
    BY <1>1, <2>1 DEF Known, IInv, TypeInv, PageValues
  <2> DEFINE ch == [Known(p, f) EXCEPT ![f] = v]
  <2>3. DOMAIN ch = Fields /\ ch \in Changes /\ {f} # DOMAIN ch
        /\ \A g \in Fields \ {f} : ch[g] = Known(p, f)[g]
    <3>1. ch \in Values /\ DOMAIN ch = Fields /\ \A g \in Fields \ {f} : ch[g] = Known(p, f)[g]
      BY <2>2 DEF Values
    <3>2. ch \in Changes
      BY <3>1, ChangesAre DEF Values
    <3>3. {f} # Fields
      BY DEF Fields
    <3> QED  BY <3>1, <3>2, <3>3
  <2>4. BeginCommand(t, p, ch, {f})
    BY <1>1
  <2> HIDE DEF ch
  <2>5. ~Refreshing(p)
    BY <2>1, <2>3, <2>4, BorrowsAlone
  <2>6. Obeys(Known(p, f), p)
    BY <1>1, <2>5 DEF UpdateInv, Told, Known
  <2>7. DOMAIN asked[p] \subseteq Fields
    BY ChangesAre DEF IInv, TypeInv, TypeOK
  <2>8. \A g \in DOMAIN asked[p] \ {f} : ch[g] = asked[p][g]
    BY <1>1, <2>3, <2>6, <2>7 DEF Obeys
  <2> QED  BY <2>3, <2>4, <2>8, BeginUpdates
<1>2. CASE p \in Patched /\ BeginCommand(t, p, [x \in {f} |-> v], {f})
  <2>1. [x \in {f} |-> v] \in Changes
    BY ChangesAre
  <2> QED  BY <1>2, <2>1, BeginUpdates
<1> QED  BY <1>1, <1>2 DEF EntityCommand

LEMMA DirectUpdates ==
  ASSUME IInv, UpdateInv, TypeInv', NEW t \in Tasks, NEW p \in Pages,
         NEW ch \in Values, DirectCommand(t, p, ch)
  PROVE  UpdateInv'
<1>1. ASSUME NEW f \in Fields, p \in Patched, BeginCommand(t, p, [x \in {f} |-> ch[f]], {f})
      PROVE  UpdateInv'
  <2>1. [x \in {f} |-> ch[f]] \in Changes
    BY ChangesAre DEF Values
  <2> QED  BY <1>1, <2>1, BeginUpdates
<1>2. CASE p \notin Patched /\ BeginCommand(t, p, ch, Fields)
  <2>1. ch \in Changes
    BY ChangesAre DEF Values
  <2>2. DOMAIN asked[p] \subseteq Fields
    BY ChangesAre DEF IInv, TypeInv, TypeOK
  <2> QED  BY <1>2, <2>1, <2>2, BeginUpdates
<1> QED  BY <1>1, <1>2 DEF DirectCommand

-----------------------------------------------------------------------------

LEMMA NextUpdates ==
  ASSUME IInv, UpdateInv, CommandsApart, CommandsApart', [Next]_vars
  PROVE  UpdateInv'
<1>0. TypeInv'
  BY NextInv DEF IInv
<1>1. CASE StartPoll \/ (\E t \in Tasks : Send(t)) \/ UNCHANGED vars
  BY <1>0, <1>1, WaitingUpdates
<1>2. ASSUME NEW t \in Tasks, CarryOut(t) PROVE UpdateInv'
  BY <1>0, <1>2, CarryOutUpdates
<1>3. ASSUME NEW t \in Tasks, CancelCommand(t) PROVE UpdateInv'
  BY <1>0, <1>3, CancelUpdates
<1>4. ASSUME NEW t \in Tasks, NEW a \in Answers, Check(t, a) \/ Write(t, a) \/ Refresh(t, a)
      PROVE  UpdateInv'
  BY <1>0, <1>4, CheckUpdates, WriteUpdates, RefreshUpdates
<1>5. ASSUME NEW t \in Tasks, NEW p \in Pages, NEW f \in Fields, NEW v \in BOOLEAN,
             EntityCommand(t, p, f, v)
      PROVE  UpdateInv'
  BY <1>0, <1>5, EntityUpdates
<1>6. ASSUME NEW t \in Tasks, NEW p \in Pages, NEW ch \in Values, DirectCommand(t, p, ch)
      PROVE  UpdateInv'
  BY <1>0, <1>6, DirectUpdates
<1>7. ASSUME NEW a \in Answers,
             \/ UpdateMandatory(a) \/ UpdateOptional(a)
             \/ ProbeFeatures(a) \/ UpdateGated(a)
      PROVE  UpdateInv'
  <2>1. PollStep(a)
    BY <1>7, MandatoryStep, OptionalStep, ProbeStep, GatedStep
  <2> QED  BY <1>0, <2>1, PollUpdates
<1> QED  BY <1>1, <1>2, <1>3, <1>4, <1>5, <1>6, <1>7 DEF Next

LEMMA InitUpdates == Init => UpdateInv
<1> SUFFICES ASSUME Init PROVE UpdateInv
  OBVIOUS
<1>1. \A p \in Pages : DOMAIN asked[p] = {}
  BY DEF Init
<1>2. Kept /\ Told
  BY <1>1 DEF Kept, Told, Obeys
<1>3. Borrowed
  BY DEF Init, Borrowed, Idle, Commanders
<1> QED  BY <1>2, <1>3 DEF UpdateInv

(* What a command has set stays set until another one is asked to set it,  *)
(* however polls, faults and other commands come in between, if a command  *)
(* that writes fields it was not asked for has its page to itself.         *)
THEOREM KeepsUpdates == Spec /\ []CommandsApart => []NoLostUpdate
<1>1. IInv /\ UpdateInv => NoLostUpdate
  BY DEF UpdateInv, Kept, NoLostUpdate, Overwriting, Commanders
<1>2. /\ IInv /\ UpdateInv /\ CommandsApart /\ CommandsApart' /\ [Next]_vars
      => UpdateInv'
  BY NextUpdates
<1> QED  BY <1>1, <1>2, InitUpdates, Always, PTL DEF Spec

(* One task that gives commands one after the other has every page to      *)
(* itself.                                                                 *)
THEOREM OneCommanderKeeps ==
  ASSUME \A s, t \in Commanders : s = t
  PROVE  Spec => []NoLostUpdate
<1>1. CommandsApart
  BY DEF CommandsApart
<1> QED  BY <1>1, KeepsUpdates, PTL

=============================================================================
