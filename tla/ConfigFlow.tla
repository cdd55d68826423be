----------------------------- MODULE ConfigFlow ------------------------------
(***************************************************************************)
(* The config flows of the domain (config_flow.py): a user picks a switch  *)
(* that a scan has found, or gives its address; a client logs on to the    *)
(* switch and asks for its MAC; an entry is made, or one that exists is    *)
(* changed.  Several flows may be open at once, and a switch may be        *)
(* somewhere else when it is asked than when it was found, and again when  *)
(* its answer is looked at.                                                *)
(*                                                                         *)
(* Of what the user enters the name and the address count; a password that *)
(* is wrong is one of the errors of the validation.  Home Assistant adds   *)
(* the entry a flow has made without a break after the step that made it.  *)
(***************************************************************************)
EXTENDS Discovery

CONSTANTS Entries,    \* the config entries there may be
          Names,      \* what users call them
          Initial,    \* the entries one of which may be there at the start
          MaxFlows,   \* bound on the flows that are begun
          MaxSubmits  \* bound on the forms that are sent for validation

Flows == Clients

(* An early version made entries without a unique id.                      *)
ConfigEntries == [name : Names, host : Hosts, unique_id : Switches \cup {None}]

ASSUME FlowAssumption ==
    /\ None \notin Entries \cup Names \cup Hosts
    /\ Initial \subseteq ConfigEntries
    /\ MaxFlows \in Nat /\ MaxSubmits \in Nat

VARIABLES flow,     \* what each flow does, and what it has been told
          entries,  \* hass.config_entries
          sessions, \* flows whose client has a session
          vouched,  \* history: the switch that answered at an entry's host
          raced,    \* history: flows that check a name while one is given
          flows, submits

networkVars == <<address, moves>>
flowVars == <<flow, entries, sessions, vouched, raced, flows, submits>>

vars == <<address, scanner, queue, found, late, held, moves, flow, entries,
          sessions, vouched, raced, flows, submits>>

(* What a switch has answered each flow that is validating: its address is *)
(* the one the form was sent with.                                         *)
Answers ==
    [f \in Flows |->
        [switch |-> flow[f].switch_info,
         host |-> IF flow[f].switch_info = None THEN None ELSE flow[f].host]]

Registry == INSTANCE EntryRegistry WITH answer <- Answers

NoFlow == [step |-> "none", form |-> "user", choices |-> {}, picked |-> None,
           entry |-> None, name |-> None, host |-> None, switch_info |-> None,
           errors |-> "none"]

NoEntry == [name |-> None, host |-> None, unique_id |-> None]

Exists(e) == entries[e] # NoEntry

TypeOK ==
    /\ DiscoveryTypeOK
    /\ flow \in [Flows ->
           [step : {"none", "scanning", "form", "validating"},
            form : {"user", "discovery", "discovery_credentials", "reconfigure"},
            choices : SUBSET Switches,
            picked : Switches \cup {None},
            entry : Entries \cup {None},
            name : Names \cup {None},
            host : Hosts \cup {None},
            switch_info : Switches \cup {None},
            errors : {"none", "name_exists"}]]
    /\ entries \in [Entries -> ConfigEntries \cup {NoEntry}]
    /\ sessions \subseteq Flows
    /\ vouched \in [Entries -> Switches \cup {None}]
    /\ raced \subseteq Flows
    /\ flows \in 0..MaxFlows
    /\ submits \in 0..MaxSubmits

(* One of the entries there may be already, or none.                       *)
Init ==
    /\ DiscoveryInit
    /\ flow = [f \in Flows |-> NoFlow]
    /\ LET first == CHOOSE e \in Entries : TRUE
       IN \E d \in Initial \cup {NoEntry} :
              /\ entries = [[e \in Entries |-> NoEntry] EXCEPT ![first] = d]
              /\ vouched = [[e \in Entries |-> None] EXCEPT ![first] = d.unique_id]
    /\ sessions = {}
    /\ raced = {}
    /\ flows = 0
    /\ submits = 0

-----------------------------------------------------------------------------

(* The flow is over: it has made or changed an entry, or was aborted.      *)
Ends(f) == flow' = [flow EXCEPT ![f] = NoFlow]

(* A form is shown.                                                        *)
Show(f, form) ==
    flow' = [flow EXCEPT ![f].step = "form", ![f].form = form,
                         ![f].name = None, ![f].host = None,
                         ![f].switch_info = None, ![f].errors = "none"]

Begin(f) ==
    /\ flow[f].step = "none"
    /\ flows < MaxFlows
    /\ flows' = flows + 1
    /\ UNCHANGED <<networkVars, entries, sessions, vouched, raced, submits>>

(* async_step_user, async_step_import: scan first.                         *)
StartUser(f) ==
    /\ Begin(f)
    /\ flow' = [flow EXCEPT ![f].step = "scanning"]
    /\ OpenPort(f)

(* _async_find_switches: another flow has the port, or there is no         *)
(* network; the form for an address by hand is shown.                      *)
StartManually(f) ==
    /\ Begin(f)
    /\ Show(f, "user")
    /\ UNCHANGED scanVars

(* async_step_reconfigure.                                                 *)
StartReconfigure(f, e) ==
    /\ Begin(f)
    /\ Exists(e)
    /\ flow' = [flow EXCEPT ![f].step = "form", ![f].form = "reconfigure",
                            ![f].entry = e]
    /\ UNCHANGED scanVars

(* The scan is over: what it found can be picked.                          *)
Scanned(f) ==
    /\ flow[f].step = "scanning"
    /\ Over
    /\ ClosePort(f)
    /\ IF DOMAIN found = {} THEN Show(f, "user")
       ELSE flow' = [flow EXCEPT ![f].step = "form", ![f].form = "discovery",
                                 ![f].choices = DOMAIN found]
    /\ UNCHANGED <<entries, sessions, vouched, raced, flows, submits>>

(* async_step_discovery: one of the switches, or an address by hand.       *)
Pick(f, m) ==
    /\ flow[f].step = "form" /\ flow[f].form = "discovery"
    /\ m \in flow[f].choices \cup {None}
    /\ flow' = [flow EXCEPT ![f].form = IF m = None THEN "user"
                                        ELSE "discovery_credentials",
                            ![f].picked = m,
                            ![f].choices = {}]
    /\ UNCHANGED <<networkVars, scanVars, entries, sessions, vouched, raced,
                   flows, submits>>

(* configured_instances, without the entry that is reconfigured.           *)
TakenNames(f) == {entries[e].name : e \in {x \in Entries : Exists(x)} \ {flow[f].entry}}

(* A form is sent: async_step_reconfigure, or _async_process_config from   *)
(* the other forms.  The names are looked at before the validation, which  *)
(* makes a client with a session of its own.                               *)
Submit(f, n, h) ==
    /\ flow[f].step = "form" /\ flow[f].form # "discovery"
    /\ submits < MaxSubmits
    /\ submits' = submits + 1
    /\ flow' = [flow EXCEPT ![f].step = "validating",
                            ![f].name = n, ![f].host = h,
                            ![f].errors = IF n \in TakenNames(f)
                                        THEN "name_exists" ELSE "none"]
    /\ sessions' = sessions \cup {f}
    /\ UNCHANGED <<networkVars, scanVars, entries, vouched, raced, flows>>

(* Fault of WrongDevice: the switch that was picked is not compared.       *)
FaultyWrongDevice(f, m) ==
    /\ flow[f].form = "reconfigure"
    /\ entries[flow[f].entry].unique_id \notin {None, m}

(* Fault of WrongDevice: the entry's switch is not compared.               *)
FaultyWrongDeviceReconfigure(f, m) ==
    flow[f].form = "discovery_credentials" /\ m # flow[f].picked

(* Switch m is not the one that was picked, or not the entry's.            *)
WrongDevice(f, m) ==
    \/ flow[f].form = "discovery_credentials" /\ m # flow[f].picked
    \/ /\ flow[f].form = "reconfigure"
       /\ entries[flow[f].entry].unique_id \notin {None, m}

(* Fault of Refused: the validation makes one forget the name.             *)
FaultyRefused(f, m) == m = None \/ WrongDevice(f, m)

(* The form is shown again with an error: there was one of the name        *)
(* already, or no switch has answered as it should, or the wrong one.      *)
Refused(f, m) == m = None \/ flow[f].errors # "none" \/ WrongDevice(f, m)

(* Entry e gets the name and address of flow f, where m has answered.      *)
Stores(f, e, m, d) ==
    /\ entries' = [entries EXCEPT ![e] = d]
    /\ vouched' = [vouched EXCEPT ![e] = m]
    /\ raced' = (raced \ {f})
                    \cup IF d.name = entries[e].name THEN {}
                         ELSE {g \in Flows \ {f} : flow[g].step = "validating"}

(* The entries for switch m.                                               *)
EntriesOf(m) == {e \in Entries : entries[e].unique_id = m}

(* Fault of Accepted: the unique id is not looked for.                     *)
FaultyAccepted(f, m) ==
    IF flow[f].form = "reconfigure"
    THEN Stores(f, flow[f].entry, m,
                [entries[flow[f].entry] EXCEPT !.name = flow[f].name,
                                               !.host = flow[f].host])
    ELSE \E e \in Entries :
             /\ ~Exists(e)
             /\ Stores(f, e, m, [name |-> flow[f].name, host |-> flow[f].host,
                                 unique_id |-> m])

(* What becomes of an answer of switch m without errors: the entry that is *)
(* reconfigured takes over the data (async_update_reload_and_abort); an    *)
(* entry for that switch takes over the address                            *)
(* (_abort_if_unique_id_configured); else there is a new entry.            *)
Accepted(f, m) ==
    IF flow[f].form = "reconfigure"
    THEN Stores(f, flow[f].entry, m,
                [entries[flow[f].entry] EXCEPT !.name = flow[f].name,
                                               !.host = flow[f].host])
    ELSE IF EntriesOf(m) # {}
    THEN \E e \in EntriesOf(m) :
             Stores(f, e, m, [entries[e] EXCEPT !.host = flow[f].host])
    ELSE \E e \in Entries :
             /\ ~Exists(e)
             /\ Stores(f, e, m, [name |-> flow[f].name, host |-> flow[f].host,
                                 unique_id |-> m])

(* Fault of Answered: a switch that was picked is not asked for its MAC,   *)
(* which the scan has told already.                                        *)
FaultyAnswered(f, m) ==
    /\ flow[f].step = "validating"
    /\ flow[f].switch_info = None
    /\ IF flow[f].picked = None THEN address[m] = flow[f].host ELSE m = flow[f].picked
    /\ flow' = [flow EXCEPT ![f].switch_info = m]
    /\ UNCHANGED <<networkVars, scanVars, entries, sessions, vouched, raced,
                   flows, submits>>

(* get_device_info: switch m, which is at the address of the form, tells   *)
(* its MAC.  The flow only learns of it later.                             *)
Answered(f, m) ==
    /\ flow[f].step = "validating"
    /\ flow[f].switch_info = None
    /\ address[m] = flow[f].host
    /\ flow' = [flow EXCEPT ![f].switch_info = m]
    /\ UNCHANGED <<networkVars, scanVars, entries, sessions, vouched, raced,
                   flows, submits>>

(* _async_validate_switch is through: with the answer of switch m, or      *)
(* (m = None) without one, because none came or it was lost or no good;    *)
(* the client is disconnected in any case.  What follows does not wait for *)
(* anything.                                                               *)
Validated(f, m) ==
    /\ flow[f].step = "validating"
    /\ m \in {None, flow[f].switch_info}
    /\ sessions' = sessions \ {f}
    /\ IF Refused(f, m)
       THEN /\ Show(f, flow[f].form)
            /\ raced' = raced \ {f}
            /\ UNCHANGED <<entries, vouched>>
       ELSE /\ Accepted(f, m)
            /\ Ends(f)
    /\ UNCHANGED <<networkVars, scanVars, flows, submits>>

(* The user closes the form.                                               *)
Abandon(f) ==
    /\ flow[f].step = "form"
    /\ Ends(f)
    /\ UNCHANGED <<networkVars, scanVars, entries, sessions, vouched, raced,
                   flows, submits>>

(* The task of the step is cancelled; the finally clauses are run.         *)
Cancel(f) ==
    /\ \/ flow[f].step = "scanning" /\ ClosePort(f) /\ UNCHANGED sessions
       \/ /\ flow[f].step = "validating"
          /\ sessions' = sessions \ {f}
          /\ UNCHANGED <<networkVars, scanVars>>
    /\ Ends(f)
    /\ raced' = raced \ {f}
    /\ UNCHANGED <<entries, vouched, flows, submits>>

-----------------------------------------------------------------------------

Next ==
    \/ \E f \in Flows :
           \/ StartUser(f)
           \/ StartManually(f)
           \/ \E e \in Entries : StartReconfigure(f, e)
           \/ Scanned(f)
           \/ \E m \in Switches : Answered(f, m)
           \/ \E m \in Switches \cup {None} : Pick(f, m) \/ Validated(f, m)
           \/ \E n \in Names, h \in Hosts : Submit(f, n, h)
           \/ Abandon(f)
           \/ Cancel(f)
    \/ /\ \/ \E s \in Switches, h \in Hosts \cup {Offline} : Move(s, h)
          \/ \E d \in Datagrams : Receive(d)
          \/ Turn
          \/ Deadline
       /\ UNCHANGED flowVars

Spec == Init /\ [][Next]_vars

(* The loop of the scan runs when it can, time passes, and every call of   *)
(* the validation ends within its time limit.                              *)
Fairness ==
    /\ WF_vars(Turn /\ UNCHANGED flowVars)
    /\ WF_vars(Deadline /\ UNCHANGED flowVars)
    /\ \A f \in Flows :
           /\ WF_vars(Scanned(f))
           /\ WF_vars(\E m \in Switches \cup {None} : Validated(f, m))

FairSpec == Spec /\ Fairness

-----------------------------------------------------------------------------
(* Properties.                                                             *)

(* However many flows find, enter and validate the same switch at once,    *)
(* there is one entry for it: the unique id is looked for after the last   *)
(* await (_abort_if_unique_id_configured).                                 *)
OneEntryPerSwitch ==
    \A d, e \in Entries :
        d # e /\ entries[d].unique_id # None
            => entries[d].unique_id # entries[e].unique_id

(* "Reconfiguration verifies the target MAC address to prevent silently    *)
(* attaching the entry to a different switch" (README.md): at the address  *)
(* of an entry that has a unique id the switch with that id has answered,  *)
(* whether the entry was made, reconfigured or given another address by a  *)
(* flow for a switch that was there already.                               *)
HostVouched ==
    \A e \in Entries :
        entries[e].unique_id # None => vouched[e] = entries[e].unique_id

(* A switch that was picked from the list is the one that gets the entry   *)
(* or the address, although it may have moved and another may answer at    *)
(* its address since it was found ("The address belongs to a different     *)
(* switch", strings.json).                                                 *)
PickedIsConfigured ==
    [][\A f \in Flows, e \in Entries :
           flow[f].picked # None /\ flow'[f] # flow[f] /\ entries'[e] # entries[e]
               => entries'[e].unique_id = flow[f].picked]_vars

(* A flow gives an entry a name no other has, unless an entry got its name *)
(* while this flow was validating.                                         *)
FreeNameGiven ==
    \A f \in Flows, e \in Entries :
        f \notin raced /\ flow'[f] # flow[f] /\ entries'[e].name # entries[e].name
            => \A d \in Entries \ {e} : entries'[d].name # entries'[e].name

(* Two entries only get the same name if the later one was validated while *)
(* the other got it: name_exists is decided before the validation.         *)
NamesApart == [][FreeNameGiven]_vars

(* The flows are an implementation of EntryRegistry: although switches     *)
(* move before and after they answer, and other flows store entries        *)
(* meanwhile, an entry is made or changed only by an answer to that very   *)
(* flow, which is used once, with the address the switch answered from,    *)
(* for the entry's own switch and once for each switch                     *)
(* (_async_validate_switch, _async_process_config).                        *)
ImplementsRegistry == Registry!Spec

(* Every scan ends and frees the port, also if datagrams keep coming in    *)
(* faster than they are looked at, and every client of a flow is           *)
(* disconnected.                                                           *)
Released ==
    \A f \in Flows : [](scanner = f \/ f \in sessions
                            => <>(scanner # f /\ f \notin sessions))

=============================================================================
