----------------------------- MODULE Coordinator -----------------------------
(***************************************************************************)
(* TpLinkDataUpdateCoordinator (update_coordinator.py): what one config    *)
(* entry knows of its switch, kept up to date by the periodic poll and by  *)
(* the commands of entities and services, which all call one TpLinkApi.    *)
(* A call keeps the promises of SwitchCalls, and the lock of the client    *)
(* (WebApi!OneOnTheWire) lets one call at a time through to the switch.    *)
(*                                                                         *)
(* A page holds the settings of one subject; its value is a function of    *)
(* two fields, the one an entity sets and the rest of what is written      *)
(* along with it.  The code from the end of a call to the next await is    *)
(* one step.  Home Assistant polls one at a time (the debouncer's lock)    *)
(* and, for lack of PARALLEL_UPDATES, runs entity commands concurrently.   *)
(***************************************************************************)
EXTENDS Naturals, Sequences

CONSTANTS Tasks,        \* the tasks that use the coordinator
          Poller,       \* the one of them that polls
          PollOrder,    \* the pages in the order of async_update
          None,         \* a page the coordinator has no data of
          Malformed,    \* may an exposed page come without its variables?
          MaxCommands,  \* bound on the commands that are begun
          MaxFaults     \* bound on the calls that go wrong

Fields == {"enabled", "rest"}

Values == [Fields -> BOOLEAN]

AllOff == [f \in Fields |-> FALSE]

(* The fields of the QoS page are the priorities of two ports.  It also    *)
(* tells (pTrunk) if they are members of one LAG, which is what the        *)
(* "enabled" of the LAG page means.                                        *)
QosValues == [Fields \cup {"trunk"} -> BOOLEAN]

QosOff == [f \in Fields \cup {"trunk"} |-> FALSE]

(* A command may write one field of a page and leave the others alone.     *)
Changes == UNION {[F -> BOOLEAN] : F \in SUBSET Fields}

Pages == {PollOrder[i] : i \in 1..Len(PollOrder)}

Mandatory == {"info", "ports"}

(* Pages of which the coordinator remembers if the switch exposes them.    *)
Optional == {"led", "statistics", "igmp", "loop", "cable", "qos", "lag", "mtu",
             "portvlan", "8021q", "pvid"}

(* Pages that are only read if the switch has FEATURE_POE.                 *)
Gated == {"poe", "portpoe"}

(* How the coordinator learns what a command has written: from the command *)
(* itself, from it if the page is known, by reading the page again, or by  *)
(* the next poll.                                                          *)
Replaced == {"ports", "led", "igmp", "loop"}
Patched == {"qos"}
Reread == {"cable", "poe", "portpoe"}
LeftAlone == {"lag", "mtu", "portvlan", "8021q", "pvid"}

(* Entities that write the fields they do not change as they know them.    *)
Shared == {"ports", "igmp", "portpoe"}

(* Services and entities that say everything they write; the MTU VLAN,     *)
(* which takes two writes, is not among the commands of this module.       *)
Direct == {"led", "igmp", "loop", "cable", "qos", "poe", "portpoe"}
              \cup (LeftAlone \ {"mtu"})

ASSUME TasksAssumption == Poller \in Tasks

ASSUME PollOrderAssumption ==
    /\ PollOrder \in Seq(Mandatory \cup Optional \cup Gated)
    /\ Pages \cap Mandatory # {}

ASSUME NoneAssumption == None \notin Values \cup QosValues

ASSUME MalformedAssumption == Malformed \in BOOLEAN

ASSUME BoundsAssumption == MaxCommands \in Nat /\ MaxFaults \in Nat

VARIABLES device,    \* what is set on the switch
          exposed,   \* the pages its firmware has
          cache,     \* _port_states, _igmp_state, ...: what the last read gave
          supported, \* _igmp_supported, ...
          features,  \* FEATURE_POE, and "unknown" until _is_features_updated
          ready,     \* the first refresh succeeded, the platforms are set up
          visible,   \* the pages whose entities were created
          last_update_success,
          shown,     \* what the entities were last notified of
          at,        \* the page the poll is at, 0 between polls
          job,       \* what each command does
          got,       \* what the page under way to the task shows
          open, kind, handled, result,  \* the calls, as in SwitchCalls
          unsure,    \* history: pages whose last write went wrong unnoticed
          asked,     \* history: what acknowledged commands asked for
          commands, faults

apiVars == <<open, kind, handled, result>>
switchVars == <<device, exposed>>
knowledge == <<cache, supported, features>>
entityVars == <<ready, visible, last_update_success, shown>>
history == <<unsure, asked>>

vars == <<device, exposed, cache, supported, features, ready, visible,
          last_update_success, shown, at, job, got, open, kind, handled,
          result, unsure, asked, commands, faults>>

Api == INSTANCE SwitchCalls

Idle == [step |-> "idle", page |-> PollOrder[1], change |-> <<>>, asks |-> {}]

NotKnown == [p \in Pages |-> None]

TypeOK ==
    /\ device \in [Pages -> Values \cup QosValues]
    /\ exposed \subseteq Pages
    /\ cache \in [Pages -> Values \cup QosValues \cup {None}]
    /\ supported \in [Pages -> {"unknown", "yes", "no"}]
    /\ features \in {"unknown", "yes", "no"}
    /\ ready \in BOOLEAN
    /\ visible \subseteq Pages
    /\ last_update_success \in BOOLEAN
    /\ shown \in [Pages -> Values \cup QosValues \cup {None}]
    /\ at \in 0..Len(PollOrder)
    /\ job \in [Tasks -> [step : {"idle", "check", "write", "refresh"},
                          page : Pages,
                          change : Changes,
                          asks : SUBSET Fields]]
    /\ got \in [Tasks -> Values \cup QosValues]
    /\ open \in [Tasks -> BOOLEAN]
    /\ kind \in [Tasks -> Api!Kinds]
    /\ handled \in [Tasks -> {0, 1}]
    /\ result \in [Tasks -> Api!Results]
    /\ unsure \subseteq Pages
    /\ asked \in [Pages -> Changes]
    /\ commands \in 0..MaxCommands
    /\ faults \in 0..MaxFaults

(* A switch with every setting off; its firmware may lack any page the     *)
(* coordinator can do without.                                             *)
Init ==
    /\ device = [p \in Pages |-> IF p = "qos" THEN QosOff ELSE AllOff]
    /\ exposed \in {E \in SUBSET Pages :
                        /\ Pages \cap Mandatory \subseteq E
                        /\ Pages \cap Gated \subseteq E \/ Gated \cap E = {}}
    /\ cache = NotKnown
    /\ supported = [p \in Pages |-> "unknown"]
    /\ features = "unknown"
    /\ ready = FALSE
    /\ visible = {}
    /\ last_update_success = TRUE
    /\ shown = NotKnown
    /\ at = 0
    /\ job = [t \in Tasks |-> Idle]
    /\ got = [t \in Tasks |-> AllOff]
    /\ Api!Init
    /\ unsure = {}
    /\ asked = [p \in Pages |-> <<>>]
    /\ commands = 0
    /\ faults = 0

-----------------------------------------------------------------------------
(* Calls.                                                                  *)

Target(t) == IF t = Poller THEN PollOrder[at] ELSE job[t].page

(* Settings v with the fields of change ch replaced.                       *)
Overlay(ch, v) ==
    [f \in DOMAIN ch \cup DOMAIN v |-> IF f \in DOMAIN ch THEN ch[f] ELSE v[f]]

(* The call that is on the wire: carried out, its answer not yet read.     *)
Wire == {t \in Tasks : open[t] /\ handled[t] = 1}

(* A task makes the next call of what it is doing.                         *)
Send(t) ==
    /\ IF t = Poller THEN at # 0 ELSE job[t].step # "idle"
    /\ Api!Begin(t, IF job[t].step = "write" THEN "apply" ELSE "read")
    /\ UNCHANGED <<switchVars, got, knowledge, entityVars, history, at, job, commands,
                   faults>>

(* The switch after the write of task t.  That ports join a LAG or leave   *)
(* it shows on the QoS page too.                                           *)
Applied(t) ==
    LET p == job[t].page IN
    IF p \notin exposed THEN device
    ELSE [q \in Pages |->
              IF q = p THEN Overlay(job[t].change, device[q])
              ELSE IF p = "lag" /\ q = "qos"
              THEN [device[q] EXCEPT !["trunk"] = job[t].change["enabled"]]
              ELSE device[q]]

(* Fault of CarryOut: the call does not wait for the lock.                 *)
FaultyCarryOutUnlocked(t) ==
    /\ Api!CarryOut(t)
    /\ IF kind[t] = "read"
       THEN /\ got' = [got EXCEPT ![t] = device[Target(t)]]
            /\ UNCHANGED device
       ELSE device' = Applied(t) /\ UNCHANGED got
    /\ UNCHANGED <<exposed, knowledge, entityVars, history, at, job, commands,
                   faults>>

(* The call gets the lock and the switch carries it out.                   *)
CarryOut(t) ==
    /\ Wire = {}
    /\ Api!CarryOut(t)
    /\ IF kind[t] = "read"
       THEN /\ got' = [got EXCEPT ![t] = device[Target(t)]]
            /\ UNCHANGED device
       ELSE device' = Applied(t) /\ UNCHANGED got
    /\ UNCHANGED <<exposed, knowledge, entityVars, history, at, job, commands,
                   faults>>

(* How a call may end for its caller: with the data it asked for, without  *)
(* them (DataFormatError or status 404: _is_unsupported_error), with the   *)
(* connection closed, or with any other error.                             *)
Answers == {"data", "absent", "disconnected", "request"}

(* The answer of a switch that does as it should.                          *)
Expected(t) == IF Target(t) \in exposed THEN "data" ELSE "absent"

(* What may come instead.  A write never ends "disconnected": its wrapper  *)
(* takes that for success (WebApi!Forgiven).                               *)
GoesWrong(t, a) ==
    \/ a = "request"
    \/ a = "disconnected" /\ kind[t] = "read"
    \/ a = "absent" /\ kind[t] = "read" /\ handled[t] = 1 /\ Malformed
    \/ a = "data" /\ kind[t] = "apply" /\ handled[t] = 0

(* The result SwitchCalls knows.  A page that was read but lacks its       *)
(* variables is a success of the call; a write to no page is not.          *)
ResultOf(t, a) ==
    IF a = "data" \/ (a = "absent" /\ kind[t] = "read") THEN "ok"
    ELSE IF a = "absent" THEN "request" ELSE a

(* The call of task t ends with answer a and gives the lock back.          *)
Reply(t, a) ==
    /\ handled[t] = 0 => Wire = {}
    /\ Api!End(t, ResultOf(t, a))
    /\ got' = [got EXCEPT ![t] = AllOff]
    /\ \/ /\ handled[t] = 1 /\ a = Expected(t)
          /\ UNCHANGED faults
       \/ /\ ~(handled[t] = 1 /\ a = Expected(t))
          /\ GoesWrong(t, a)
          /\ faults < MaxFaults
          /\ faults' = faults + 1

-----------------------------------------------------------------------------
(* The poll.                                                               *)

(* The poll does not skip page p.                                          *)
Polled(p, s, f) ==
    /\ s[p] # "no"
    /\ p \in Gated => f # "no"

(* Fault of NextAt: the poll does not end after the last page.             *)
FaultyNextAtRunsOn(i, s, f) ==
    LET rest == {j \in (i + 1)..Len(PollOrder) : Polled(PollOrder[j], s, f)}
    IN IF rest = {} THEN i + 1
       ELSE CHOOSE j \in rest : \A k \in rest : j <= k

(* The position after i of the next page to read, 0 if there is none.      *)
NextAt(i, s, f) ==
    LET rest == {j \in (i + 1)..Len(PollOrder) : Polled(PollOrder[j], s, f)}
    IN IF rest = {} THEN 0
       ELSE CHOOSE j \in rest : \A k \in rest : j <= k

(* The pages the platforms create entities for: those that may still turn  *)
(* out to be supported, the PoE consumption if there is PoE, the PoE ports *)
(* that are known.                                                         *)
Entities(c, s, f) ==
    {p \in Pages : CASE p = "poe" -> f = "yes"
                     [] p = "portpoe" -> c[p] # None
                     [] OTHER -> s[p] # "no" \/ p = "cable"}

(* The updater of the page is through: on to the next one.  After the last *)
(* one the poll has succeeded and the entities are notified; the first     *)
(* success lets the platforms create them.                                 *)
GoOn(c, s, f) ==
    /\ cache' = c
    /\ supported' = s
    /\ features' = f
    /\ at' = NextAt(at, s, f)
    /\ IF at' # 0
       THEN UNCHANGED entityVars
       ELSE /\ ready' = TRUE
            /\ visible' = IF ready THEN visible ELSE Entities(c, s, f)
            /\ last_update_success' = TRUE
            /\ shown' = c

(* The poll raises.  The first time the entry is not set up, and will be   *)
(* tried again with another coordinator; later the entities are notified   *)
(* unless the poll before failed too.                                      *)
PollFails ==
    /\ at' = 0
    /\ IF ready
       THEN /\ last_update_success' = FALSE
            /\ shown' = IF last_update_success THEN cache ELSE shown
            /\ UNCHANGED <<ready, visible, cache, supported, features>>
       ELSE /\ cache' = NotKnown
            /\ supported' = [p \in Pages |-> "unknown"]
            /\ features' = "unknown"
            /\ UNCHANGED entityVars

StartPoll ==
    /\ at = 0
    /\ at' = NextAt(0, supported, features)
    /\ UNCHANGED <<apiVars, switchVars, got, knowledge, entityVars, history, job,
                   commands, faults>>

(* Is the page read now, and are its data what the switch has?             *)
ReadFor(P, a) ==
    /\ at # 0
    /\ PollOrder[at] \in P
    /\ Reply(Poller, a)
    /\ UNCHANGED <<switchVars, job, commands, asked>>

(* The cache and the doubts after page p was read with answer a.           *)
Stored(p, a) == [cache EXCEPT ![p] = IF a = "data" THEN got[Poller] ELSE None]

Cleared(p, a) == unsure' = IF a = "data" THEN unsure \ {p} ELSE unsure

(* Fault of UpdateMandatory: the old data are dropped before the read.     *)
FaultyUpdateMandatoryDrops(a) ==
    /\ ReadFor(Mandatory, a)
    /\ IF a = "data" \/ ready
       THEN GoOn(Stored(PollOrder[at], a), supported, features)
       ELSE PollFails
    /\ Cleared(PollOrder[at], a)

(* _update_switch_info, _update_port_states: without an answer the poll    *)
(* fails and the old data stay.                                            *)
UpdateMandatory(a) ==
    /\ ReadFor(Mandatory, a)
    /\ IF a = "data"
       THEN GoOn(Stored(PollOrder[at], a), supported, features)
       ELSE PollFails
    /\ Cleared(PollOrder[at], a)

(* Fault of Verdict: support is given up although it was once there.       *)
FaultyVerdictForgets(old, a) ==
    IF a = "data" THEN "yes" ELSE IF a = "absent" THEN "no" ELSE old

(* Fault of Verdict: any error is taken for a page that does not exist.    *)
FaultyVerdictAnyError(old, a) ==
    IF a = "data" THEN "yes" ELSE IF old = "unknown" THEN "no" ELSE old

(* What becomes of _xxx_supported.                                         *)
Verdict(old, a) ==
    IF a = "data" THEN "yes"
    ELSE IF a = "absent" /\ old = "unknown" THEN "no" ELSE old

(* _update_led_state, _update_igmp_state, ..., _update_pvid_state.         *)
UpdateOptional(a) ==
    LET p == PollOrder[at] IN
    /\ ReadFor(Optional, a)
    /\ GoOn(Stored(p, a), [supported EXCEPT ![p] = Verdict(@, a)], features)
    /\ Cleared(p, a)

(* _ensure_features_updated: a closed connection counts as a switch        *)
(* without PoE, any other error fails the poll; once there is an answer    *)
(* there is no other probe.                                                *)
ProbeFeatures(a) ==
    /\ ReadFor(Gated, a)
    /\ features = "unknown"
    /\ CASE a = "data" -> /\ features' = "yes"
                          /\ UNCHANGED <<at, cache, supported, entityVars>>
         [] a \in {"absent", "disconnected"} -> GoOn(cache, supported, "no")
         [] OTHER -> PollFails
    /\ UNCHANGED unsure

(* Fault of UpdateGated: the exception is not caught.                      *)
FaultyUpdateGatedRaises(a) ==
    LET p == PollOrder[at] IN
    /\ ReadFor(Gated, a)
    /\ features = "yes"
    /\ IF a = "data" THEN GoOn(Stored(p, a), supported, features) ELSE PollFails
    /\ Cleared(p, a)

(* _update_poe_state, _update_port_poe_states.                             *)
UpdateGated(a) ==
    LET p == PollOrder[at] IN
    /\ ReadFor(Gated, a)
    /\ features = "yes"
    /\ GoOn(Stored(p, a), supported, features)
    /\ Cleared(p, a)

-----------------------------------------------------------------------------
(* Commands.                                                               *)

(* Only the ports and the cable test are written without reading the page  *)
(* first.                                                                  *)
FirstStep(p) == IF p \in {"ports", "cable"} THEN "write" ELSE "check"

BeginCommand(t, p, ch, fs) ==
    /\ t # Poller
    /\ ready
    /\ job[t].step = "idle"
    /\ commands < MaxCommands
    /\ commands' = commands + 1
    /\ job' = [job EXCEPT ![t] = [step |-> FirstStep(p), page |-> p,
                                  change |-> ch, asks |-> fs]]
    /\ UNCHANGED <<apiVars, switchVars, got, knowledge, entityVars, history, at,
                   faults>>

(* Where an entity takes the fields it does not change from: the switches  *)
(* for a port and its PoE from what they were last shown (_port_info,      *)
(* _port_poe_info), the others from the coordinator.                       *)
Known(p, f) ==
    IF p = "portpoe" \/ (p = "ports" /\ f = "enabled") THEN shown[p] ELSE cache[p]

(* An entity that is available sets one field (switch.py, select.py).      *)
EntityCommand(t, p, f, v) ==
    /\ p \in visible
    /\ last_update_success
    /\ shown[p] # None
    /\ \/ /\ p \in Shared
          /\ p = "portpoe" => f = "enabled"
          /\ Known(p, f) # None
          /\ BeginCommand(t, p, [Known(p, f) EXCEPT ![f] = v], {f})
       \/ /\ p \in Patched
          /\ BeginCommand(t, p, [x \in {f} |-> v], {f})

(* A service call, or an entity that needs no more than its own value.     *)
(* The services know no entity and do not ask if one is available.         *)
DirectCommand(t, p, ch) ==
    /\ p \in Direct
    /\ p = "led" => p \in visible /\ last_update_success /\ shown[p] # None
    /\ p \in Gated => features = "yes"
    /\ IF p \in Patched
       THEN \E f \in Fields : BeginCommand(t, p, [x \in {f} |-> ch[f]], {f})
       ELSE BeginCommand(t, p, ch, Fields)

Done(t) == job' = [job EXCEPT ![t] = Idle]

Goes(t, s) == job' = [job EXCEPT ![t].step = s]

(* _ports_for_trunk: a priority is set for all members of a LAG.           *)
Spread(ch, trunk) ==
    IF trunk THEN [f \in Fields |-> ch[CHOOSE g \in DOMAIN ch : TRUE]] ELSE ch

(* The read before the write, which must find the page.  Nothing of it is  *)
(* kept but the ports that a QoS priority is to be written for.            *)
Check(t, a) ==
    /\ t # Poller
    /\ job[t].step = "check"
    /\ Reply(t, a)
    /\ IF a = "data"
       THEN job' = [job EXCEPT ![t].step = "write",
                               ![t].change = IF job[t].page \in Patched
                                             THEN Spread(@, got[t]["trunk"]) ELSE @]
       ELSE Done(t)
    /\ UNCHANGED <<switchVars, knowledge, entityVars, history, at, commands>>

(* Fault of Publish: the listeners are not called.                         *)
FaultyPublishSilent(c) ==
    /\ cache' = c
    /\ UNCHANGED <<ready, visible, last_update_success, shown>>

(* The coordinator's data become c, and async_update_listeners.            *)
Publish(c) ==
    /\ cache' = c
    /\ shown' = c
    /\ UNCHANGED <<ready, visible, last_update_success>>

Asked(t) == [f \in job[t].asks |-> job[t].change[f]]

(* Fault of Patch: the members of a LAG are forgotten.                     *)
FaultyPatch(t) == Asked(t)

(* What async_set_qos_priority changes in the QoS page it knows: the       *)
(* priorities of the port and of the members of its LAG, as that page has  *)
(* them.                                                                   *)
Patch(t) == Spread(Asked(t), cache[job[t].page]["trunk"])

(* The data after the write of task t.                                     *)
Written(t) ==
    LET p == job[t].page IN
    [cache EXCEPT ![p] = IF p \in Patched /\ @ = None THEN None
                         ELSE IF p \in Patched THEN Overlay(Patch(t), @)
                         ELSE job[t].change]

(* The LAGs have changed since the page was read.                          *)
PatchedAmiss(t) ==
    /\ job[t].page \in Patched
    /\ cache[job[t].page] # None
    /\ Spread(Asked(t), cache[job[t].page]["trunk"]) # job[t].change

(* The client may be wrong about page p.                                   *)
Doubt(p) ==
    /\ unsure' = unsure \cup {p}
    /\ asked' = [asked EXCEPT ![p] = <<>>]

(* What the write did to the switch, and whether its caller was told so.   *)
WriteHistory(t, ok) ==
    LET p == job[t].page IN
    IF ok # (handled[t] = 1) /\ p \in exposed
    THEN Doubt(p)
    ELSE /\ unsure' = IF ok /\ PatchedAmiss(t) THEN unsure \cup {p} ELSE unsure
         /\ asked' = IF ok /\ p \in exposed
                     THEN [asked EXCEPT ![p] =
                               Overlay(IF p \in Patched THEN job[t].change
                                       ELSE Asked(t), @)]
                     ELSE asked

(* The write itself and what the coordinator makes of it: set_port_state,  *)
(* async_set_led_state, ..., async_set_pvid.                               *)
Write(t, a) ==
    LET p == job[t].page IN
    /\ t # Poller
    /\ job[t].step = "write"
    /\ Reply(t, a)
    /\ IF a # "data" THEN Done(t) /\ UNCHANGED <<knowledge, entityVars>>
       ELSE IF p \in Reread THEN Goes(t, "refresh") /\ UNCHANGED <<knowledge, entityVars>>
       ELSE IF p \in LeftAlone THEN Done(t) /\ UNCHANGED <<knowledge, entityVars>>
       ELSE /\ Done(t)
            /\ Publish(Written(t))
            /\ supported' = IF p = "led" THEN [supported EXCEPT ![p] = "yes"]
                            ELSE supported
            /\ UNCHANGED features
    /\ WriteHistory(t, a = "data")
    /\ UNCHANGED <<switchVars, at, commands>>

(* Reading the page again after the write.  The cable test fails if it     *)
(* cannot (run_cable_diagnostic), the PoE updaters only log it.            *)
Refresh(t, a) ==
    LET p == job[t].page IN
    /\ t # Poller
    /\ job[t].step = "refresh"
    /\ Reply(t, a)
    /\ Done(t)
    /\ IF a = "data"
       THEN /\ Publish([cache EXCEPT ![p] = got[t]])
            /\ unsure' = unsure \ {p}
            /\ UNCHANGED asked
            /\ supported' = IF p = "cable" THEN [supported EXCEPT ![p] = "yes"]
                            ELSE supported
       ELSE IF p = "cable"
       THEN Doubt(p) /\ UNCHANGED <<cache, supported, entityVars>>
       ELSE /\ Publish([cache EXCEPT ![p] = None])
            /\ UNCHANGED <<supported, history>>
    /\ UNCHANGED <<switchVars, features, at, commands>>

(* The task is cancelled while it waits for its call.                      *)
CancelCommand(t) ==
    /\ t # Poller
    /\ Api!End(t, "cancelled")
    /\ got' = [got EXCEPT ![t] = AllOff]
    /\ Done(t)
    /\ CASE job[t].step = "write" -> WriteHistory(t, FALSE)
         [] job[t].step = "refresh" -> Doubt(job[t].page)
         [] OTHER -> UNCHANGED history
    /\ UNCHANGED <<switchVars, knowledge, entityVars, at, commands, faults>>

-----------------------------------------------------------------------------

Finish(t, a) ==
    \/ /\ t = Poller
       /\ \/ UpdateMandatory(a)
          \/ UpdateOptional(a)
          \/ ProbeFeatures(a)
          \/ UpdateGated(a)
    \/ Check(t, a)
    \/ Write(t, a)
    \/ Refresh(t, a)

Next ==
    \/ StartPoll
    \/ \E t \in Tasks :
           \/ Send(t)
           \/ CarryOut(t)
           \/ CancelCommand(t)
           \/ \E a \in Answers :
                  \/ Check(t, a)
                  \/ Write(t, a)
                  \/ Refresh(t, a)
           \/ \E p \in Pages, f \in Fields, v \in BOOLEAN : EntityCommand(t, p, f, v)
           \/ \E p \in Pages, ch \in Values : DirectCommand(t, p, ch)
    \/ \E a \in Answers :
           \/ UpdateMandatory(a)
           \/ UpdateOptional(a)
           \/ ProbeFeatures(a)
           \/ UpdateGated(a)

Spec == Init /\ [][Next]_vars

(* Home Assistant polls again and again, asyncio runs every task that can  *)
(* run, a call ends within its time limit, and the lock is handed on in    *)
(* the order in which it was asked for.                                    *)
Fairness ==
    /\ WF_vars(StartPoll)
    /\ \A t \in Tasks : /\ WF_vars(Send(t))
                        /\ SF_vars(CarryOut(t))
                        /\ WF_vars(\E a \in Answers : Finish(t, a))

FairSpec == Spec /\ Fairness

-----------------------------------------------------------------------------
(* Properties.                                                             *)

(* A command that has changed page p and has not told the coordinator yet. *)
BeingWritten(p) ==
    \E t \in Tasks \ {Poller} :
        /\ job[t].page = p
        /\ \/ job[t].step = "write" /\ t \in Wire
           \/ job[t].step = "refresh"

(* What the coordinator knows of a page it keeps up to date is what the    *)
(* switch has set, whatever polls and commands overlapped, except after a  *)
(* write whose failure or success the client could not see: no read that   *)
(* was under way overwrites what a later write has set (the setters store  *)
(* their value, and the updaters the data, without an await after the      *)
(* call), and the priorities that are known for the members of a LAG are   *)
(* theirs, unless the LAGs were changed since the last poll.               *)
CacheCoherent ==
    \A p \in Pages \ (LeftAlone \cup unsure) :
        cache[p] # None /\ ~BeingWritten(p)
            => \A f \in Fields : cache[p][f] = device[p][f]

(* Once a page was read, a bad answer makes it unavailable for one poll    *)
(* and no longer: support is not given up ("and self._led_supported is     *)
(* None" in every updater).                                                *)
SupportKept ==
    [][\A p \in Pages : ready /\ supported[p] = "yes" => supported'[p] = "yes"]_vars

(* A poll of an entry that is set up only fails for the switch info or the *)
(* port states: no optional page, and no feature probe outside the try of  *)
(* the PoE updaters, takes all entities down with it.                      *)
OnlyMandatoryFailsPoll ==
    [][last_update_success /\ ~last_update_success'
           => PollOrder[at] \in Mandatory]_vars

(* Port entities never lose their data once the entry is set up: a failed  *)
(* poll keeps the old ones ("port_states" is stored after the try).        *)
MandatoryKept == ready => \A p \in Pages \cap Mandatory : cache[p] # None

(* The coordinator stops asking for a page only if the firmware does not   *)
(* have it.                                                                *)
LatchedOnlyIfAbsent ==
    \A p \in Pages \cap Optional : supported[p] = "no" => p \notin exposed

(* However calls failed and commands overlapped, and also where the client *)
(* took a failed write for a success, the polls bring the data of every    *)
(* page that is still asked for in line with the switch, and keep it so.   *)
InSync(p) ==
    \/ p \notin exposed
    \/ p \in Gated /\ features = "no"
    \/ cache[p] = device[p]

EventuallyInSync == \A p \in Pages : <>[]InSync(p)

(* "Changing report suppression preserves the current IGMP snooping state, *)
(* and vice versa" (docs/controls.md): what a command has set stays set    *)
(* until another one is asked to set it (switch.py, select.py, which write *)
(* the fields they do not change as they know them).                       *)
NoLostUpdate ==
    \A p \in Pages :
        (\A t \in Tasks \ {Poller} : job[t].page = p => ~(job[t].step = "write" /\ t \in Wire))
            => \A f \in DOMAIN asked[p] : device[p][f] = asked[p][f]

(* "If an optional page only fails temporarily during startup, its         *)
(* entities remain visible" (README.md): the entities of a page that the   *)
(* firmware has are there once the entry is set up.                        *)
EntitiesRemain == ready => exposed \subseteq visible

=============================================================================
