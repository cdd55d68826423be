---------------------- MODULE CoordinatorStartup_proofs ----------------------
(***************************************************************************)
(* Which entities are there once the entry is set up.  The run             *)
(* coordinator_startup shows that those of the PoE pages need not be: here *)
(* all others are, whatever goes wrong, and so are those of the PoE pages  *)
(* if no call goes wrong before.                                           *)
(***************************************************************************)
EXTENDS Coordinator_proofs

(* The entities of every page but the PoE ones.                            *)
OthersRemain == ready => exposed \ Gated \subseteq visible

(* There are no commands before the entry is set up.                       *)
Quiet == ~ready => \A t \in Tasks : job[t].step = "idle"

(* The switch is set up from what the coordinator knows at the end of a    *)
(* poll, once.                                                             *)
SetsUp ==
    /\ exposed' = exposed
    /\ \/ UNCHANGED <<ready, visible>>
       \/ /\ ~ready /\ ready'
          /\ at' = 0
          /\ visible' = Entities(cache', supported', features')

LEMMA CommandsSetUp ==
  ASSUME IInv, NEW t \in Tasks,
         \/ StartPoll \/ Send(t) \/ CarryOut(t) \/ CancelCommand(t)
         \/ \E a \in Answers : Check(t, a) \/ Write(t, a) \/ Refresh(t, a)
         \/ \E p \in Pages, f \in Fields, v \in BOOLEAN : EntityCommand(t, p, f, v)
         \/ \E p \in Pages, ch \in Values : DirectCommand(t, p, ch)
         \/ UNCHANGED vars
  PROVE  SetsUp
<1>1. CASE StartPoll \/ Send(t) \/ CarryOut(t) \/ CancelCommand(t) \/ UNCHANGED vars
  BY <1>1 DEF StartPoll, Send, CarryOut, CancelCommand, vars, switchVars, entityVars, SetsUp
<1>2. ASSUME NEW a \in Answers, Check(t, a) PROVE SetsUp
  BY <1>2 DEF Check, switchVars, entityVars, SetsUp
<1>3. ASSUME NEW a \in Answers, Write(t, a) PROVE SetsUp
  BY <1>3 DEF Write, Publish, switchVars, entityVars, SetsUp
<1>4. ASSUME NEW a \in Answers, Refresh(t, a) PROVE SetsUp
  BY <1>4 DEF Refresh, Publish, switchVars, entityVars, SetsUp
<1>5. ASSUME NEW p \in Pages, NEW f \in Fields, NEW v \in BOOLEAN, EntityCommand(t, p, f, v)
      PROVE  SetsUp
  BY <1>5 DEF EntityCommand, BeginCommand, switchVars, entityVars, SetsUp
<1>6. ASSUME NEW p \in Pages, NEW ch \in Values, DirectCommand(t, p, ch)
      PROVE  SetsUp
  BY <1>6 DEF DirectCommand, BeginCommand, switchVars, entityVars, SetsUp
<1> QED  BY <1>1, <1>2, <1>3, <1>4, <1>5, <1>6

LEMMA PollSetsUp ==
  ASSUME IInv, NEW a \in Answers,
         UpdateMandatory(a) \/ UpdateOptional(a) \/ ProbeFeatures(a) \/ UpdateGated(a)
  PROVE  SetsUp
<1>1. exposed' = exposed
  BY DEF UpdateMandatory, UpdateOptional, ProbeFeatures, UpdateGated, ReadFor, switchVars
<1>2. ASSUME NEW c, NEW s, NEW f, GoOn(c, s, f) PROVE SetsUp
  BY <1>1, <1>2 DEF GoOn, entityVars, SetsUp, IInv, TypeInv, TypeOK
<1>3. CASE PollFails
  BY <1>1, <1>3 DEF PollFails, entityVars, SetsUp
<1>4. CASE UNCHANGED entityVars
  BY <1>1, <1>4 DEF entityVars, SetsUp
<1> QED  BY <1>2, <1>3, <1>4 DEF UpdateMandatory, UpdateOptional, ProbeFeatures, UpdateGated

LEMMA NextSetsUp ==
  ASSUME IInv, [Next]_vars
  PROVE  SetsUp
<1>1. CASE \E a \in Answers : \/ UpdateMandatory(a) \/ UpdateOptional(a)
                              \/ ProbeFeatures(a) \/ UpdateGated(a)
  BY <1>1, PollSetsUp
<1>2. CASE StartPoll \/ UNCHANGED vars
  BY <1>2, CommandsSetUp, TasksAssumption
<1>3. ASSUME NEW t \in Tasks,
             \/ Send(t) \/ CarryOut(t) \/ CancelCommand(t)
             \/ \E a \in Answers : Check(t, a) \/ Write(t, a) \/ Refresh(t, a)
             \/ \E p \in Pages, f \in Fields, v \in BOOLEAN : EntityCommand(t, p, f, v)
             \/ \E p \in Pages, ch \in Values : DirectCommand(t, p, ch)
      PROVE  SetsUp
  BY <1>3, CommandsSetUp
<1> QED  BY <1>1, <1>2, <1>3 DEF Next

-----------------------------------------------------------------------------
(* The pages that are read without a probe.                                *)

LEMMA OthersStep ==
  ASSUME IInv, IInv', LatchedOnlyIfAbsent', OthersRemain, SetsUp
  PROVE  OthersRemain'
<1>1. CASE UNCHANGED <<ready, visible>>
  BY <1>1 DEF SetsUp, OthersRemain
<1>2. CASE visible' = Entities(cache', supported', features')
  <2> SUFFICES ASSUME NEW p \in exposed' \ Gated PROVE p \in visible'
    BY DEF OthersRemain
  <2>1. p \in Pages
    BY DEF IInv, TypeInv, TypeOK
  <2>2. supported'[p] # "no"
    <3>1. CASE p \in Optional
      BY <2>1, <3>1 DEF LatchedOnlyIfAbsent
    <3>2. CASE p \notin Optional
      BY <2>1, <3>2 DEF IInv, PollInv
    <3> QED  BY <3>1, <3>2
  <2> QED  BY <1>2, <2>1, <2>2 DEF Entities, Gated
<1> QED  BY <1>1, <1>2 DEF SetsUp

(* "If an optional page only fails temporarily during startup, its         *)
(* entities remain visible" (README.md): if the pages the switch has come  *)
(* with their data or not at all, the entities of every page it has are    *)
(* there, those of the PoE pages excepted, whatever calls failed when the  *)
(* entry was set up.                                                       *)
THEOREM OthersStay ==
  ASSUME ~Malformed
  PROVE  Spec => []OthersRemain
<1>1. Init => OthersRemain
  BY DEF Init, OthersRemain
<1>2. IInv /\ IInv' /\ LatchedOnlyIfAbsent' /\ OthersRemain /\ [Next]_vars => OthersRemain'
  BY NextSetsUp, OthersStep
<1>3. Spec => []LatchedOnlyIfAbsent
  BY Latches
<1> QED  BY <1>1, <1>2, <1>3, Always, PTL DEF Spec

-----------------------------------------------------------------------------
(* The first poll, when nothing goes wrong.                                *)

(* No call goes wrong before the entry is set up.                          *)
Undisturbed == ~ready => faults' = faults

(* What the first poll has found out about the pages it has passed.        *)
Found ==
    /\ \A p \in Pages : supported[p] = "no" => p \notin exposed
    /\ features = "no" => Gated \cap exposed = {}
    /\ \A i \in 1..Len(PollOrder) :
           i < at /\ PollOrder[i] = "portpoe" /\ "portpoe" \in exposed
               => cache["portpoe"] # None

StartInv ==
    /\ Quiet
    /\ Pages \cap Gated \subseteq exposed \/ Gated \cap exposed = {}
    /\ ~ready => Found
    /\ EntitiesRemain

(* The poll goes on from a page it has read as the switch has it.          *)
LEMMA GoOnFinds ==
  ASSUME IInv, IInv', StartInv, ~ready, exposed' = exposed,
         NEW a \in Answers, Reply(Poller, a),
         NEW c, NEW s, NEW f, GoOn(c, s, f),
         \A p \in Pages : s[p] = "no" => p \notin exposed,
         f = "no" => Gated \cap exposed = {},
         "portpoe" \in exposed /\ cache["portpoe"] # None => c["portpoe"] # None,
         PollOrder[at] = "portpoe" /\ "portpoe" \in exposed => c["portpoe"] # None
  PROVE  Found' /\ EntitiesRemain'
<1>1. at \in 1..Len(PollOrder)
  BY PollerReads
<1>2. at' = NextAt(at, s, f) /\ cache' = c /\ supported' = s /\ features' = f
  BY DEF GoOn
<1>3. ASSUME NEW i \in 1..Len(PollOrder), at' = 0 \/ i < at',
             PollOrder[i] = "portpoe", "portpoe" \in exposed
      PROVE  c["portpoe"] # None
  <2>1. CASE i < at
    BY <1>3, <2>1 DEF StartInv, Found
  <2>2. CASE i = at
    BY <1>3, <2>2
  <2>3. CASE at < i
    <3>1. ~Polled(PollOrder[i], s, f)
      BY <1>1, <1>2, <1>3, <2>3, Following
    <3>2. s["portpoe"] = "unknown" /\ "portpoe" \in Gated
      BY <1>2, <1>3, PageFacts DEF IInv, PollInv, Optional, Gated
    <3> QED  BY <1>3, <3>1, <3>2 DEF Polled
  <2> QED  BY <1>1, <2>1, <2>2, <2>3, PageFacts
<1>4. Found'
  BY <1>2, <1>3 DEF Found
<1>5. ASSUME ready', NEW p \in exposed PROVE p \in visible'
  <2>1. at' = 0 /\ visible' = Entities(c, s, f)
    BY <1>5 DEF GoOn, entityVars
  <2>2. p \in Pages
    BY DEF IInv, TypeInv, TypeOK
  <2>3. CASE p = "poe"
    <3>1. f # "unknown" /\ f # "no" /\ f \in {"unknown", "yes", "no"}
      BY <1>2, <1>5, <2>2, <2>3 DEF IInv, PollInv, Settled, TypeInv, TypeOK, Gated
    <3> QED  BY <2>1, <2>2, <2>3, <3>1 DEF Entities
  <2>4. CASE p = "portpoe"
    <3>1. c[p] # None
      BY <1>3, <2>1, <2>2, <2>4, PageFacts
    <3> QED  BY <2>1, <2>2, <2>4, <3>1 DEF Entities
  <2>5. CASE p # "poe" /\ p # "portpoe"
    BY <2>1, <2>2, <2>5 DEF Entities
  <2> QED  BY <2>3, <2>4, <2>5
<1> QED  BY <1>4, <1>5 DEF EntitiesRemain

(* A poll that fails before the entry is set up starts afresh.             *)
LEMMA FailsFinds ==
  ASSUME StartInv, ~ready, exposed' = exposed, PollFails
  PROVE  Found' /\ EntitiesRemain'
<1>1. /\ at' = 0 /\ ready' = ready /\ features' = "unknown"
      /\ supported' = [p \in Pages |-> "unknown"]
  BY DEF PollFails, entityVars
<1> QED  BY <1>1, PageFacts DEF Found, EntitiesRemain

LEMMA PollFinds ==
  ASSUME IInv, IInv', StartInv, ~ready, faults' = faults, NEW a \in Answers,
         UpdateMandatory(a) \/ UpdateOptional(a) \/ ProbeFeatures(a) \/ UpdateGated(a)
  PROVE  Found' /\ EntitiesRemain'
<1> DEFINE p == PollOrder[at]
<1>1. Reply(Poller, a) /\ exposed' = exposed
  BY DEF UpdateMandatory, UpdateOptional, ProbeFeatures, UpdateGated, ReadFor, switchVars
<1>2. p \in Pages
  BY <1>1, PollerReads, PageFacts
<1>3. a = IF p \in exposed THEN "data" ELSE "absent"
  <2>1. faults \in Nat
    BY BoundsAssumption DEF IInv, TypeInv, TypeOK
  <2>2. a = Expected(Poller)
    BY <1>1, <2>1 DEF Reply
  <2> QED  BY <1>1, <2>2, PollerReads DEF Expected
<1>4. \A q \in Pages : supported[q] = "no" => q \notin exposed
  BY DEF StartInv, Found
<1>5. features = "no" => Gated \cap exposed = {}
  BY DEF StartInv, Found
<1>6. p # "portpoe" => Stored(p, a)["portpoe"] = cache["portpoe"]
  BY DEF IInv, TypeInv, TypeOK, Stored
<1>7. p \in exposed => Stored(p, a)[p] # None
  BY <1>1, <1>2, <1>3, StoredPage, NotNone DEF IInv, TypeInv
<1>8. "portpoe" \in exposed /\ cache["portpoe"] # None => Stored(p, a)["portpoe"] # None
  BY <1>6, <1>7
<1>9. p = "portpoe" /\ "portpoe" \in exposed => Stored(p, a)["portpoe"] # None
  BY <1>7
<1>10. CASE UpdateMandatory(a)
  <2>1. CASE a = "data"
    <3>1. GoOn(Stored(p, a), supported, features)
      BY <1>10, <2>1 DEF UpdateMandatory
    <3> HIDE DEF p
    <3> QED  BY <1>1, <1>4, <1>5, <1>8, <1>9, <3>1, GoOnFinds DEF p
  <2>2. CASE a # "data"
    BY <1>1, <1>10, <2>2, FailsFinds DEF UpdateMandatory
  <2> QED  BY <2>1, <2>2
<1>11. CASE UpdateOptional(a)
  <2> DEFINE s == [supported EXCEPT ![p] = Verdict(@, a)]
  <2>1. GoOn(Stored(p, a), s, features)
    BY <1>11 DEF UpdateOptional
  <2>2. \A q \in Pages : s[q] = "no" => q \notin exposed
    BY <1>2, <1>3, <1>4 DEF Verdict, IInv, TypeInv, TypeOK
  <2> HIDE DEF p, s
  <2> QED  BY <1>1, <1>5, <1>8, <1>9, <2>1, <2>2, GoOnFinds DEF p
<1>12. CASE ProbeFeatures(a)
  <2>1. p \in Gated /\ features = "unknown"
    BY <1>12 DEF ProbeFeatures, ReadFor
  <2>2. CASE a = "data"
    <3>1. features' = "yes" /\ UNCHANGED <<at, cache, supported, ready, visible>>
      BY <1>12, <2>2 DEF ProbeFeatures, entityVars
    <3> QED  BY <1>1, <3>1 DEF StartInv, Found, EntitiesRemain
  <2>3. CASE a # "data"
    <3>1. Gated \cap exposed = {}
      BY <1>2, <1>3, <2>1, <2>3 DEF StartInv
    <3>2. GoOn(cache, supported, "no")
      BY <1>3, <1>12, <2>3 DEF ProbeFeatures
    <3>3. "portpoe" \notin exposed
      BY <3>1 DEF Gated
    <3> HIDE DEF p
    <3> QED  BY <1>1, <1>4, <3>1, <3>2, <3>3, GoOnFinds DEF p
  <2> QED  BY <2>2, <2>3
<1>13. CASE UpdateGated(a)
  <2>1. GoOn(Stored(p, a), supported, features)
    BY <1>13 DEF UpdateGated
  <2> HIDE DEF p
  <2> QED  BY <1>1, <1>4, <1>5, <1>8, <1>9, <2>1, GoOnFinds DEF p
<1> QED  BY <1>10, <1>11, <1>12, <1>13

(* No command does anything before the entry is set up.                    *)
LEMMA CommandsFind ==
  ASSUME IInv, StartInv, ~ready, NEW t \in Tasks,
         \/ StartPoll \/ Send(t) \/ CarryOut(t) \/ CancelCommand(t)
         \/ \E a \in Answers : Check(t, a) \/ Write(t, a) \/ Refresh(t, a)
         \/ \E p \in Pages, f \in Fields, v \in BOOLEAN : EntityCommand(t, p, f, v)
         \/ \E p \in Pages, ch \in Values : DirectCommand(t, p, ch)
         \/ UNCHANGED vars
  PROVE  Found'
<1>1. job[t].step = "idle"
  BY DEF StartInv, Quiet
<1>2. CASE StartPoll
  <2>1. /\ at' = NextAt(0, supported, features)
        /\ UNCHANGED <<exposed, cache, supported, features>>
    BY <1>2 DEF StartPoll, switchVars, knowledge
  <2>2. ASSUME NEW i \in 1..Len(PollOrder), i < at',
               PollOrder[i] = "portpoe", "portpoe" \in exposed
        PROVE  cache["portpoe"] # None
    <3>1. ~Polled(PollOrder[i], supported, features)
      BY <2>1, <2>2, Following, PageFacts
    <3>2. supported["portpoe"] = "unknown" /\ "portpoe" \in Gated
      BY <2>2, PageFacts DEF IInv, PollInv, Optional, Gated
    <3> QED  BY <2>2, <3>1, <3>2 DEF Polled, StartInv, Found
  <2> QED  BY <2>1, <2>2 DEF StartInv, Found
<1>3. CASE UNCHANGED <<exposed, cache, supported, features, at>>
  BY <1>3 DEF StartInv, Found
<1>4. CASE Send(t) \/ CarryOut(t) \/ CancelCommand(t) \/ UNCHANGED vars
  BY <1>3, <1>4 DEF Send, CarryOut, CancelCommand, vars, switchVars, knowledge
<1>5. ASSUME NEW a \in Answers, Check(t, a) \/ Write(t, a) \/ Refresh(t, a)
      PROVE  FALSE
  BY <1>1, <1>5 DEF Check, Write, Refresh
<1>6. ~\E p \in Pages, f \in Fields, v \in BOOLEAN : EntityCommand(t, p, f, v)
  BY DEF EntityCommand, BeginCommand
<1>7. ~\E p \in Pages, ch \in Values : DirectCommand(t, p, ch)
  BY DEF DirectCommand, BeginCommand
<1> QED  BY <1>2, <1>3, <1>4, <1>5, <1>6, <1>7

(* A step keeps the commands waiting for the entry.                        *)
LEMMA NextQuiet ==
  ASSUME IInv, Quiet, SetsUp, [Next]_vars
  PROVE  Quiet'
<1> SUFFICES ASSUME ~ready' PROVE \A t \in Tasks : job'[t].step = "idle"
  BY DEF Quiet
<1>1. ~ready
  BY DEF SetsUp
<1>2. \A t \in Tasks : job[t].step = "idle"
  BY <1>1 DEF Quiet
<1>3. CASE job' = job
  BY <1>2, <1>3
<1>4. ASSUME NEW t \in Tasks, CancelCommand(t) PROVE \A u \in Tasks : job'[u].step = "idle"
  BY <1>2, <1>4 DEF CancelCommand, Done, Idle, IInv, TypeInv, TypeOK
<1>5. ASSUME NEW t \in Tasks, NEW a \in Answers, Check(t, a) \/ Write(t, a) \/ Refresh(t, a)
      PROVE  FALSE
  BY <1>2, <1>5 DEF Check, Write, Refresh
<1>6. ASSUME NEW t \in Tasks
      PROVE  /\ ~\E p \in Pages, f \in Fields, v \in BOOLEAN : EntityCommand(t, p, f, v)
             /\ ~\E p \in Pages, ch \in Values : DirectCommand(t, p, ch)
  BY <1>1 DEF EntityCommand, DirectCommand, BeginCommand
<1>7. ASSUME NEW a \in Answers, UpdateMandatory(a) \/ UpdateOptional(a)
                                \/ ProbeFeatures(a) \/ UpdateGated(a)
      PROVE  job' = job
  BY <1>7 DEF UpdateMandatory, UpdateOptional, ProbeFeatures, UpdateGated, ReadFor
<1>8. ASSUME NEW t \in Tasks, Send(t) \/ CarryOut(t) \/ StartPoll \/ UNCHANGED vars
      PROVE  job' = job
  BY <1>8 DEF Send, CarryOut, StartPoll, vars
<1> QED  BY <1>3, <1>4, <1>5, <1>6, <1>7, <1>8, TasksAssumption DEF Next

LEMMA NextStarts ==
  ASSUME IInv, IInv', StartInv, Undisturbed, [Next]_vars
  PROVE  StartInv'
<1>1. SetsUp
  BY NextSetsUp
<1>2. Quiet'
  BY <1>1, NextQuiet DEF StartInv
<1>3. Pages \cap Gated \subseteq exposed' \/ Gated \cap exposed' = {}
  BY <1>1 DEF StartInv, SetsUp
<1>4. CASE ready
  <2>1. ready' /\ visible' = visible
    BY <1>1, <1>4 DEF SetsUp
  <2> QED  BY <1>1, <1>2, <1>3, <1>4, <2>1 DEF StartInv, EntitiesRemain, SetsUp
<1>5. CASE ~ready
  <2>1. CASE \E a \in Answers : \/ UpdateMandatory(a) \/ UpdateOptional(a)
                                \/ ProbeFeatures(a) \/ UpdateGated(a)
    BY <1>2, <1>3, <1>5, <2>1, PollFinds DEF StartInv, Undisturbed
  <2>2. ASSUME NEW t \in Tasks,
               \/ StartPoll \/ Send(t) \/ CarryOut(t) \/ CancelCommand(t)
               \/ \E a \in Answers : Check(t, a) \/ Write(t, a) \/ Refresh(t, a)
               \/ \E p \in Pages, f \in Fields, v \in BOOLEAN : EntityCommand(t, p, f, v)
               \/ \E p \in Pages, ch \in Values : DirectCommand(t, p, ch)
               \/ UNCHANGED vars
        PROVE  StartInv'
    <3>1. Found'
      BY <1>5, <2>2, CommandsFind
    <3>2. ready' = ready
      BY <1>5, <2>2 DEF StartPoll, Send, CarryOut, CancelCommand, Check, Write, Refresh,
           Publish, EntityCommand, DirectCommand, BeginCommand, vars, entityVars
    <3> QED  BY <1>2, <1>3, <1>5, <3>1, <3>2 DEF StartInv, EntitiesRemain
  <2> QED  BY <2>1, <2>2, TasksAssumption DEF Next
<1> QED  BY <1>4, <1>5

(* If no call goes wrong before the entry is set up, every page the switch *)
(* has gets its entities, those of the PoE pages among them, and keeps     *)
(* them whatever goes wrong later.                                         *)
THEOREM UndisturbedStart == Spec /\ [][Undisturbed]_vars => []EntitiesRemain
<1>1. Init => StartInv
  <2> SUFFICES ASSUME Init PROVE StartInv
    OBVIOUS
  <2>1. Quiet
    BY DEF Init, Idle, Quiet
  <2>2. Found
    BY PageFacts DEF Init, Found
  <2> QED  BY <2>1, <2>2 DEF Init, StartInv, EntitiesRemain
<1>2. IInv /\ IInv' /\ StartInv /\ [Undisturbed]_vars /\ [Next]_vars => StartInv'
  <2> SUFFICES ASSUME IInv, IInv', StartInv, [Undisturbed]_vars, [Next]_vars
               PROVE  StartInv'
    OBVIOUS
  <2>1. Undisturbed
    BY DEF Undisturbed, vars
  <2> QED  BY <2>1, NextStarts
<1>3. StartInv => EntitiesRemain
  BY DEF StartInv
<1> QED  BY <1>1, <1>2, <1>3, Always, PTL DEF Spec

=============================================================================
