-------------------------- MODULE ConfigFlow_proofs --------------------------
(***************************************************************************)
(* What config flows may do to the entries, and what a scan lists, for any *)
(* number of flows, switches, addresses and entries and any bounds.        *)
(***************************************************************************)
EXTENDS ConfigFlow, TLAPS, FiniteSetTheorems

FlowStates ==
    [step : {"none", "scanning", "form", "validating"},
     form : {"user", "discovery", "discovery_credentials", "reconfigure"},
     choices : SUBSET Switches,
     picked : Switches \cup {None},
     entry : Entries \cup {None},
     name : Names \cup {None},
     host : Hosts \cup {None},
     switch_info : Switches \cup {None},
     errors : {"none", "name_exists"}]

(* What was received in answer to this scan is true.                       *)
QueueFresh ==
    \A i \in 1..Len(queue) :
        queue[i].kind = "answer" => queue[i].host \in held[queue[i].mac]

ScanInv ==
    /\ address \in [Switches -> Hosts \cup {Offline}]
    /\ queue \in Seq(Datagrams)
    /\ scanner = None => queue = <<>> /\ DOMAIN found = {}
    /\ DOMAIN found \subseteq Switches
    /\ held \in [Switches -> SUBSET Hosts]
    /\ QueueFresh
    /\ FoundIsFresh

FlowTypeOK ==
    /\ flow \in [Flows -> FlowStates]
    /\ entries \in [Entries -> ConfigEntries \cup {NoEntry}]
    /\ vouched \in [Entries -> Switches \cup {None}]
    /\ raced \subseteq Flows

(* A flow that has picked a switch asks for its credentials, one that      *)
(* reconfigures knows its entry, and no other does; only a flow that       *)
(* validates has an answer.                                                *)
Shape(s) ==
    /\ s.picked # None <=> s.form = "discovery_credentials"
    /\ s.entry # None <=> s.form = "reconfigure"
    /\ s.entry # None => Exists(s.entry)
    /\ s.step \in {"none", "scanning"} => s.form = "user"
    /\ s.step = "validating" => s.name \in Names /\ s.host \in Hosts
    /\ s.switch_info # None => s.step = "validating"

FlowShape == \A f \in Flows : Shape(flow[f])

(* A name that was free when it was looked for is still free, unless one   *)
(* was given away since.                                                   *)
NameFree ==
    \A f \in Flows :
        flow[f].step = "validating" /\ flow[f].errors = "none" /\ f \notin raced
            => flow[f].name \notin TakenNames(f)

(* The inductive invariant.                                                *)
EntryInv ==
    /\ FlowTypeOK
    /\ FlowShape
    /\ NameFree
    /\ OneEntryPerSwitch
    /\ HostVouched

-----------------------------------------------------------------------------
(* The scan.                                                               *)

(* What a step may do to the scan.                                         *)
ScanStep ==
    \/ UNCHANGED <<address, scanVars>>
    \/ \E c \in Clients : OpenPort(c) \/ ClosePort(c)
    \/ \E s \in Switches, h \in Hosts \cup {Offline} : Move(s, h)
    \/ \E d \in Datagrams : Receive(d)
    \/ Turn
    \/ Deadline

(* Flows do no more to it than open and close the port.                    *)
LEMMA NextScan == [Next]_vars => ScanStep
<1> USE DEF ScanStep, networkVars
<1>1. ASSUME UNCHANGED vars PROVE ScanStep
  BY <1>1 DEF vars, scanVars
<1>2. ASSUME NEW f \in Flows, StartUser(f) \/ Scanned(f) PROVE ScanStep
  BY <1>2 DEF StartUser, Scanned, Flows
<1>3. ASSUME NEW f \in Flows,
             \/ StartManually(f)
             \/ \E e \in Entries : StartReconfigure(f, e)
             \/ \E m \in Switches : Answered(f, m)
             \/ \E m \in Switches \cup {None} : Pick(f, m) \/ Validated(f, m)
             \/ \E n \in Names, h \in Hosts : Submit(f, n, h)
             \/ Abandon(f)
      PROVE  UNCHANGED <<address, scanVars>>
  BY <1>3 DEF StartManually, StartReconfigure, Begin, Answered, Pick, Validated, Submit,
               Abandon
<1>4. ASSUME NEW f \in Flows, Cancel(f) PROVE ScanStep
  BY <1>4 DEF Cancel, Flows
<1> QED  BY <1>1, <1>2, <1>3, <1>4 DEF Next

(* Whatever the network does and a scan is asked to, the list stays fresh. *)
LEMMA ScanInvStep ==
  ASSUME ScanInv, ScanStep
  PROVE  ScanInv'
<1> USE DEF ScanInv
<1>1. CASE UNCHANGED <<address, scanVars>>
  BY <1>1 DEF scanVars, QueueFresh, FoundIsFresh
<1>2. ASSUME NEW c \in Clients, OpenPort(c) PROVE ScanInv'
  BY <1>2, DiscoveryAssumption DEF OpenPort, QueueFresh, FoundIsFresh
<1>3. ASSUME NEW c \in Clients, ClosePort(c) PROVE ScanInv'
  BY <1>3 DEF ClosePort, QueueFresh, FoundIsFresh, NothingFound, NothingHeld
<1>4. ASSUME NEW s \in Switches, NEW h \in Hosts \cup {Offline}, Move(s, h)
      PROVE  ScanInv'
  <2>1. held' \in [Switches -> SUBSET Hosts] /\ \A t \in Switches : held[t] \subseteq held'[t]
    BY <1>4 DEF Move
  <2>2. \A i \in 1..Len(queue) : queue[i] \in Datagrams
    OBVIOUS
  <2>3. QueueFresh'
    BY <1>4, <2>1, <2>2 DEF Move, QueueFresh, Datagrams
  <2>4. FoundIsFresh'
    BY <1>4, <2>1 DEF Move, FoundIsFresh
  <2> QED  BY <1>4, <2>1, <2>3, <2>4 DEF Move
<1>5. ASSUME NEW d \in Datagrams, Receive(d) PROVE ScanInv'
  <2>1. queue' \in Seq(Datagrams) /\ Len(queue') = Len(queue) + 1
        /\ \A i \in 1..Len(queue') : queue'[i] = IF i <= Len(queue) THEN queue[i] ELSE d
    BY <1>5 DEF Receive
  <2>2. QueueFresh'
    BY <1>5, <2>1 DEF Receive, QueueFresh
  <2> QED  BY <1>5, <2>1, <2>2 DEF Receive, FoundIsFresh
<1>6. CASE Turn
  <2> DEFINE d == Head(queue)
  <2>1. /\ queue' \in Seq(Datagrams) /\ Len(queue') = Len(queue) - 1
        /\ \A i \in 1..Len(queue') : queue'[i] = queue[i + 1]
        /\ d \in Datagrams /\ d = queue[1] /\ Len(queue) >= 1
    BY <1>6 DEF Turn
  <2>2. QueueFresh'
    BY <1>6, <2>1 DEF Turn, QueueFresh
  <2>3. d.kind = "answer" => d.mac \in Switches /\ d.host \in held[d.mac]
    BY <2>1 DEF QueueFresh, Datagrams
  <2> HIDE DEF d
  <2>4. found' = IF Accepts(d)
                 THEN [m \in DOMAIN found \cup {d.mac} |->
                           IF m = d.mac THEN d.host ELSE found[m]]
                 ELSE found
    BY <1>6 DEF Turn, d
  <2>5. CASE d.kind = "answer"
    <3>1. DOMAIN found' \subseteq Switches
      BY <2>3, <2>4, <2>5 DEF Accepts
    <3>2. \A m \in DOMAIN found' : found'[m] \in held[m]
      BY <2>3, <2>4, <2>5 DEF Accepts, FoundIsFresh
    <3> QED  BY <1>6, <2>1, <2>2, <3>1, <3>2 DEF Turn, FoundIsFresh
  <2>6. CASE d.kind # "answer"
    <3>1. found' = found
      BY <2>4, <2>6 DEF Accepts
    <3> QED  BY <1>6, <2>1, <2>2, <3>1 DEF Turn, FoundIsFresh
  <2> QED  BY <2>5, <2>6
<1>7. CASE Deadline
  BY <1>7 DEF Deadline, QueueFresh, FoundIsFresh
<1> QED  BY <1>1, <1>2, <1>3, <1>4, <1>5, <1>6, <1>7 DEF ScanStep

-----------------------------------------------------------------------------
(* The entries.                                                            *)

(* A flow gets into state s.                                               *)
Becomes(f, s) ==
    /\ s \in FlowStates
    /\ Shape(s)
    /\ s.step = "validating" /\ s.errors = "none"
           => \/ s.name \notin TakenNames(f)
              \/ f \in raced /\ UNCHANGED raced
    /\ s.step = "validating" => s.entry = flow[f].entry
    /\ flow' = [flow EXCEPT ![f] = s]
    /\ raced' \in {raced, raced \ {f}}
    /\ UNCHANGED <<entries, vouched>>

(* While the entries stay as they are, a flow may do so.                   *)
LEMMA BecomesStep ==
  ASSUME EntryInv, NEW f \in Flows, NEW s, Becomes(f, s)
  PROVE  EntryInv' /\ UNCHANGED entries
<1> USE DEF EntryInv, Becomes
<1>1. FlowTypeOK'
  BY DEF FlowTypeOK
<1>2. FlowShape'
  BY DEF FlowTypeOK, FlowShape, Shape, Exists
<1>3. NameFree'
  BY DEF FlowTypeOK, NameFree, TakenNames, Exists
<1>4. OneEntryPerSwitch' /\ HostVouched'
  BY DEF OneEntryPerSwitch, HostVouched
<1> QED  BY <1>1, <1>2, <1>3, <1>4

(* A form that is shown, for whatever reason.                              *)
LEMMA ShowStep ==
  ASSUME EntryInv, NEW f \in Flows, NEW form \in {"user", flow[f].form},
         form = "user" => flow[f].form = "user",
         Show(f, form), raced' \in {raced, raced \ {f}}, UNCHANGED <<entries, vouched>>
  PROVE  EntryInv' /\ UNCHANGED entries
<1> DEFINE s == [flow[f] EXCEPT !.step = "form", !.form = form,
                                !.name = None, !.host = None,
                                !.switch_info = None, !.errors = "none"]
<1>1. flow[f] \in FlowStates /\ Shape(flow[f])
  BY DEF EntryInv, FlowTypeOK, FlowShape
<1>2. s \in FlowStates /\ Shape(s) /\ s.step = "form"
  BY <1>1 DEF FlowStates, Shape
<1>3. flow' = [flow EXCEPT ![f] = s]
  BY DEF Show, EntryInv, FlowTypeOK, FlowStates
<1>4. Becomes(f, s)
  BY <1>2, <1>3 DEF Becomes
<1> HIDE DEF s
<1> QED  BY <1>4, BecomesStep

(* A flow that ends without changing an entry.                             *)
LEMMA EndsStep ==
  ASSUME EntryInv, NEW f \in Flows, Ends(f),
         raced' \in {raced, raced \ {f}}, UNCHANGED <<entries, vouched>>
  PROVE  EntryInv' /\ UNCHANGED entries
<1>1. NoFlow \in FlowStates /\ Shape(NoFlow) /\ NoFlow.step = "none"
  BY DEF NoFlow, FlowStates, Shape
<1>2. Becomes(f, NoFlow)
  BY <1>1 DEF Becomes, Ends
<1> QED  BY <1>2, BecomesStep

(* Of all steps only the end of a validation changes the entries.          *)
LEMMA OthersStep ==
  ASSUME EntryInv, ScanInv, [Next]_vars,
         ~ \E f \in Flows, m \in Switches \cup {None} : Validated(f, m)
  PROVE  EntryInv' /\ UNCHANGED entries
<1>1. CASE UNCHANGED flowVars
  BY <1>1 DEF flowVars, EntryInv, FlowTypeOK, FlowShape, Shape, NameFree,
              TakenNames, Exists, OneEntryPerSwitch, HostVouched
<1>2. ASSUME NEW f \in Flows, StartUser(f) PROVE EntryInv' /\ UNCHANGED entries
  <2> DEFINE s == [flow[f] EXCEPT !.step = "scanning"]
  <2>1. flow[f] \in FlowStates /\ Shape(flow[f]) /\ flow[f].step = "none"
    BY <1>2 DEF EntryInv, FlowTypeOK, FlowShape, StartUser, Begin
  <2>2. s \in FlowStates /\ Shape(s) /\ s.step = "scanning"
    BY <2>1 DEF FlowStates, Shape
  <2>3. Becomes(f, s)
    BY <1>2, <2>2 DEF Becomes, StartUser, Begin, EntryInv, FlowTypeOK
  <2> HIDE DEF s
  <2> QED  BY <2>3, BecomesStep
<1>3. ASSUME NEW f \in Flows, StartManually(f) PROVE EntryInv' /\ UNCHANGED entries
  <2>1. flow[f].form = "user"
    BY <1>3 DEF EntryInv, FlowShape, Shape, StartManually, Begin
  <2> QED  BY <1>3, <2>1, ShowStep DEF StartManually, Begin
<1>4. ASSUME NEW f \in Flows, NEW e \in Entries, StartReconfigure(f, e)
      PROVE  EntryInv' /\ UNCHANGED entries
  <2> DEFINE s == [flow[f] EXCEPT !.step = "form", !.form = "reconfigure", !.entry = e]
  <2>1. flow[f] \in FlowStates /\ Shape(flow[f]) /\ flow[f].step = "none" /\ Exists(e)
    BY <1>4 DEF EntryInv, FlowTypeOK, FlowShape, StartReconfigure, Begin
  <2>2. s \in FlowStates /\ Shape(s) /\ s.step = "form"
    BY <2>1, FlowAssumption DEF FlowStates, Shape
  <2>3. Becomes(f, s)
    BY <1>4, <2>2 DEF Becomes, StartReconfigure, Begin, EntryInv, FlowTypeOK, FlowStates
  <2> HIDE DEF s
  <2> QED  BY <2>3, BecomesStep
<1>5. ASSUME NEW f \in Flows, Scanned(f) PROVE EntryInv' /\ UNCHANGED entries
  <2>1. flow[f] \in FlowStates /\ Shape(flow[f])
        /\ flow[f].step = "scanning" /\ flow[f].form = "user"
    BY <1>5 DEF EntryInv, FlowTypeOK, FlowShape, Shape, Scanned
  <2>2. CASE DOMAIN found = {}
    BY <1>5, <2>1, <2>2, ShowStep DEF Scanned
  <2>3. CASE DOMAIN found # {}
    <3> DEFINE s == [flow[f] EXCEPT !.step = "form", !.form = "discovery",
                                    !.choices = DOMAIN found]
    <3>1. s \in FlowStates /\ Shape(s) /\ s.step = "form"
      BY <2>1 DEF FlowStates, Shape, ScanInv
    <3>2. Becomes(f, s)
      BY <1>5, <2>3, <3>1 DEF Becomes, Scanned, EntryInv, FlowTypeOK, FlowStates
    <3> HIDE DEF s
    <3> QED  BY <3>2, BecomesStep
  <2> QED  BY <2>2, <2>3
<1>6. ASSUME NEW f \in Flows, NEW m \in Switches \cup {None}, Pick(f, m)
      PROVE  EntryInv' /\ UNCHANGED entries
  <2> DEFINE s == [flow[f] EXCEPT !.form = IF m = None THEN "user" ELSE "discovery_credentials",
                                  !.picked = m, !.choices = {}]
  <2>1. flow[f] \in FlowStates /\ Shape(flow[f])
        /\ flow[f].step = "form" /\ flow[f].form = "discovery"
    BY <1>6 DEF EntryInv, FlowTypeOK, FlowShape, Pick
  <2>2. s \in FlowStates /\ Shape(s) /\ s.step = "form"
    BY <2>1 DEF FlowStates, Shape
  <2>3. Becomes(f, s)
    BY <1>6, <2>2 DEF Becomes, Pick, EntryInv, FlowTypeOK, FlowStates
  <2> HIDE DEF s
  <2> QED  BY <2>3, BecomesStep
<1>7. ASSUME NEW f \in Flows, NEW n \in Names, NEW h \in Hosts, Submit(f, n, h)
      PROVE  EntryInv' /\ UNCHANGED entries
  <2> DEFINE s == [flow[f] EXCEPT !.step = "validating", !.name = n, !.host = h,
                                  !.errors = IF n \in TakenNames(f)
                                             THEN "name_exists" ELSE "none"]
  <2>1. flow[f] \in FlowStates /\ Shape(flow[f]) /\ flow[f].step = "form"
    BY <1>7 DEF EntryInv, FlowTypeOK, FlowShape, Submit
  <2>2. s \in FlowStates /\ Shape(s) /\ s.entry = flow[f].entry /\ s.name = n
        /\ (s.errors = "none" => n \notin TakenNames(f))
    BY <2>1 DEF FlowStates, Shape
  <2>3. Becomes(f, s)
    BY <1>7, <2>2 DEF Becomes, Submit, EntryInv, FlowTypeOK, FlowStates
  <2> HIDE DEF s
  <2> QED  BY <2>3, BecomesStep
<1>8. ASSUME NEW f \in Flows, Abandon(f) \/ Cancel(f) PROVE EntryInv' /\ UNCHANGED entries
  BY <1>8, EndsStep DEF Abandon, Cancel
<1>9. ASSUME NEW f \in Flows, NEW m \in Switches, Answered(f, m)
      PROVE  EntryInv' /\ UNCHANGED entries
  <2> DEFINE s == [flow[f] EXCEPT !.switch_info = m]
  <2>1. /\ flow[f] \in FlowStates /\ Shape(flow[f]) /\ flow[f].step = "validating"
        /\ flow[f].errors = "none" => flow[f].name \notin TakenNames(f) \/ f \in raced
    BY <1>9 DEF EntryInv, FlowTypeOK, FlowShape, NameFree, Answered
  <2>2. /\ s \in FlowStates /\ Shape(s) /\ s.entry = flow[f].entry
        /\ s.errors = "none" => s.name \notin TakenNames(f) \/ f \in raced
    BY <2>1 DEF FlowStates, Shape
  <2>3. Becomes(f, s)
    BY <1>9, <2>2 DEF Becomes, Answered, EntryInv, FlowTypeOK
  <2> HIDE DEF s
  <2> QED  BY <2>3, BecomesStep
<1> QED
  BY <1>1, <1>2, <1>3, <1>4, <1>5, <1>6, <1>7, <1>8, <1>9 DEF Next, vars, flowVars

(* What an accepted answer of switch m stores for flow f: entry e gets d.  *)
NewData(f, m, e, d) ==
    /\ d \in ConfigEntries
    /\ m = flow[f].switch_info
    /\ d.host = flow[f].host
    /\ d.unique_id \in {None, m}
    /\ \/ d.unique_id = entries[e].unique_id /\ Exists(e)
       \/ d.unique_id = m /\ EntriesOf(m) = {} /\ ~Exists(e)
    /\ flow[f].picked # None => d.unique_id = m /\ m = flow[f].picked
    /\ d.name # entries[e].name
           => /\ d.name = flow[f].name
              /\ flow[f].entry \in {None, e}
              /\ flow[f].entry = None => ~Exists(e)

(* An answer that is accepted is stored in one entry.                      *)
LEMMA AcceptedData ==
  ASSUME EntryInv, NEW f \in Flows, NEW m \in Switches, m = flow[f].switch_info,
         flow[f].step = "validating", ~Refused(f, m), Accepted(f, m)
  PROVE  \E e \in Entries : \E d \in ConfigEntries :
             NewData(f, m, e, d) /\ Stores(f, e, m, d)
<1>1. /\ flow[f] \in FlowStates /\ Shape(flow[f])
      /\ flow[f].name \in Names /\ flow[f].host \in Hosts
  BY DEF EntryInv, FlowTypeOK, FlowShape, Shape
<1>2. m # None
  BY DiscoveryAssumption
<1>3. \A e \in Entries : Exists(e) => entries[e] \in ConfigEntries
  BY DEF EntryInv, FlowTypeOK, Exists
<1>4. CASE flow[f].form = "reconfigure"
  <2> DEFINE e == flow[f].entry
             d == [entries[e] EXCEPT !.name = flow[f].name, !.host = flow[f].host]
  <2>1. e \in Entries /\ Exists(e) /\ flow[f].picked = None
    BY <1>1, <1>4 DEF Shape, FlowStates
  <2>2. d \in ConfigEntries /\ d.unique_id = entries[e].unique_id /\ d.name = flow[f].name
        /\ d.host = flow[f].host
    BY <1>1, <1>3, <2>1 DEF ConfigEntries
  <2>3. d.unique_id \in {None, m}
    BY <1>4, <2>2 DEF Refused, WrongDevice
  <2>4. Stores(f, e, m, d)
    BY <1>4 DEF Accepted
  <2>5. NewData(f, m, e, d)
    <3> HIDE DEF d
    <3> QED  BY <1>1, <2>1, <2>2, <2>3, FlowAssumption DEF NewData
  <2> HIDE DEF e, d
  <2> QED  BY <2>1, <2>2, <2>4, <2>5
<1>5. flow[f].form # "reconfigure" => flow[f].entry = None
  BY <1>1 DEF Shape
<1>6. flow[f].picked # None => m = flow[f].picked
  BY <1>1 DEF Shape, Refused, WrongDevice
<1>7. CASE flow[f].form # "reconfigure" /\ EntriesOf(m) # {}
  <2>1. PICK e \in EntriesOf(m) :
            Stores(f, e, m, [entries[e] EXCEPT !.host = flow[f].host])
    BY <1>7 DEF Accepted
  <2> DEFINE d == [entries[e] EXCEPT !.host = flow[f].host]
  <2>2. e \in Entries /\ entries[e].unique_id = m
    BY DEF EntriesOf
  <2>3. Exists(e) /\ entries[e] \in ConfigEntries
    BY <1>2, <1>3, <2>2 DEF Exists, NoEntry
  <2>4. d \in ConfigEntries /\ d.unique_id = m /\ d.name = entries[e].name
        /\ d.host = flow[f].host
    BY <1>1, <2>2, <2>3 DEF ConfigEntries
  <2>5. Stores(f, e, m, d)
    BY <2>1
  <2> HIDE DEF d
  <2>6. NewData(f, m, e, d)
    BY <1>6, <2>2, <2>3, <2>4 DEF NewData
  <2> QED  BY <2>2, <2>4, <2>5, <2>6
<1>8. CASE flow[f].form # "reconfigure" /\ EntriesOf(m) = {}
  <2> DEFINE d == [name |-> flow[f].name, host |-> flow[f].host, unique_id |-> m]
  <2>1. PICK e \in Entries : ~Exists(e) /\ Stores(f, e, m, d)
    BY <1>8 DEF Accepted
  <2>2. d \in ConfigEntries /\ d.unique_id = m /\ d.name = flow[f].name
        /\ d.host = flow[f].host
    BY <1>1 DEF ConfigEntries
  <2> HIDE DEF d
  <2>3. NewData(f, m, e, d)
    BY <1>5, <1>6, <1>8, <2>1, <2>2 DEF NewData
  <2> QED  BY <2>1, <2>2, <2>3
<1> QED  BY <1>4, <1>7, <1>8

(* Storing it keeps the invariant.                                         *)
LEMMA StoresStep ==
  ASSUME EntryInv, NEW f \in Flows, NEW m \in Switches, NEW e \in Entries,
         NEW d \in ConfigEntries, NewData(f, m, e, d), Stores(f, e, m, d), Ends(f)
  PROVE  EntryInv'
<1> USE DEF EntryInv, Stores, Ends
<1>1. NoFlow \in FlowStates /\ Shape(NoFlow)
  BY DEF NoFlow, FlowStates, Shape
<1>2. d # NoEntry /\ d.name # None
  BY FlowAssumption DEF ConfigEntries, NoEntry
<1>3. FlowTypeOK'
  BY <1>1 DEF FlowTypeOK
<1>4. FlowShape'
  BY <1>1, <1>2 DEF FlowTypeOK, FlowShape, Shape, Exists, NoFlow
<1>5. NameFree'
  <2> SUFFICES ASSUME NEW g \in Flows, flow'[g].step = "validating", flow'[g].errors = "none",
                      g \notin raced'
               PROVE  flow'[g].name \notin TakenNames(g)'
    BY DEF NameFree
  <2>1. g # f /\ flow'[g] = flow[g]
    BY DEF FlowTypeOK, NoFlow
  <2>2. d.name = entries[e].name /\ g \notin raced
    BY <2>1
  <2>3. TakenNames(g)' = TakenNames(g)
    <3>1. \A x \in Entries : entries'[x].name = entries[x].name
      BY <2>2 DEF FlowTypeOK
    <3>2. Exists(e) /\ Exists(e)' /\ \A x \in Entries \ {e} : Exists(x)' <=> Exists(x)
      BY <1>2, <2>2 DEF FlowTypeOK, Exists, NoEntry
    <3> QED  BY <2>1, <3>1, <3>2 DEF TakenNames
  <2> QED  BY <2>1, <2>2, <2>3 DEF NameFree
<1>6. OneEntryPerSwitch'
  BY DEF FlowTypeOK, OneEntryPerSwitch, NewData, EntriesOf
<1>7. HostVouched'
  BY DEF FlowTypeOK, HostVouched, NewData
<1> QED  BY <1>3, <1>4, <1>5, <1>6, <1>7

(* The end of a validation changes one entry, or none.                     *)
LEMMA ValidatedStep ==
  ASSUME EntryInv, NEW f \in Flows, NEW m \in Switches \cup {None}, Validated(f, m)
  PROVE  /\ EntryInv'
         /\ \/ UNCHANGED entries
            \/ /\ m \in Switches
               /\ Ends(f) /\ UNCHANGED address
               /\ flow[f].errors = "none"
               /\ flow[f].step = "validating"
               /\ \E e \in Entries : \E d \in ConfigEntries :
                      NewData(f, m, e, d) /\ Stores(f, e, m, d)
<1>1. CASE Refused(f, m)
  <2>1. flow[f].form \in {"user", flow[f].form}
    OBVIOUS
  <2> QED  BY <1>1, <2>1, ShowStep DEF Validated
<1>2. CASE ~Refused(f, m)
  <2>1. m \in Switches /\ flow[f].errors = "none" /\ flow[f].step = "validating"
        /\ Accepted(f, m) /\ Ends(f)
    BY <1>2 DEF Refused, Validated
  <2>2. m = flow[f].switch_info /\ UNCHANGED address
    BY <2>1, DiscoveryAssumption DEF Validated, networkVars
  <2>3. PICK e \in Entries : \E d \in ConfigEntries :
            NewData(f, m, e, d) /\ Stores(f, e, m, d)
    BY <1>2, <2>1, <2>2, AcceptedData
  <2> QED  BY <2>1, <2>3, <2>2, StoresStep
<1> QED  BY <1>1, <1>2

-----------------------------------------------------------------------------

IInv == ScanInv /\ EntryInv

(* Before any flow there is no scan, and one entry at most.                *)
LEMMA InitInv == Init => IInv
<1> SUFFICES ASSUME Init PROVE IInv
  OBVIOUS
<1>1. ScanInv
  BY DEF Init, DiscoveryInit, ScanInv, QueueFresh, FoundIsFresh, NothingFound, NothingHeld
<1>2. NoFlow \in FlowStates /\ Shape(NoFlow) /\ NoFlow.step = "none"
  BY DEF NoFlow, FlowStates, Shape
<1>3. PICK d \in Initial \cup {NoEntry} :
          LET first == CHOOSE e \in Entries : TRUE
          IN /\ entries = [[e \in Entries |-> NoEntry] EXCEPT ![first] = d]
             /\ vouched = [[e \in Entries |-> None] EXCEPT ![first] = d.unique_id]
  BY DEF Init
<1>4. d \in ConfigEntries \cup {NoEntry} /\ d.unique_id \in Switches \cup {None}
  BY <1>3, FlowAssumption DEF ConfigEntries, NoEntry
<1>5. FlowTypeOK
  BY <1>2, <1>3, <1>4 DEF Init, FlowTypeOK
<1>6. FlowShape /\ NameFree
  BY <1>2 DEF Init, FlowShape, NameFree
<1>7. OneEntryPerSwitch /\ HostVouched
  BY <1>3, <1>4 DEF OneEntryPerSwitch, HostVouched, NoEntry
<1> QED  BY <1>1, <1>5, <1>6, <1>7 DEF IInv, EntryInv

(* Every step keeps the invariant, and changes entries by a validation.    *)
LEMMA NextInv ==
  ASSUME IInv, [Next]_vars
  PROVE  /\ IInv'
         /\ \/ UNCHANGED entries
            \/ \E f \in Flows, m \in Switches, e \in Entries, d \in ConfigEntries :
                   /\ Ends(f) /\ UNCHANGED address
                   /\ flow[f].errors = "none"
                   /\ flow[f].step = "validating"
                   /\ NewData(f, m, e, d)
                   /\ Stores(f, e, m, d)
<1>1. ScanInv'
  BY NextScan, ScanInvStep DEF IInv
<1>2. CASE \E f \in Flows, m \in Switches \cup {None} : Validated(f, m)
  BY <1>1, <1>2, ValidatedStep DEF IInv
<1>3. CASE ~ \E f \in Flows, m \in Switches \cup {None} : Validated(f, m)
  BY <1>1, <1>3, OthersStep DEF IInv
<1> QED  BY <1>2, <1>3

(* The inductive invariant holds throughout.                               *)
LEMMA Always == Spec => []IInv
<1>1. IInv /\ [Next]_vars => IInv'
  BY NextInv
<1> QED  BY <1>1, InitInv, PTL DEF Spec

-----------------------------------------------------------------------------
(* The bounds.                                                             *)

(* The queue and the list of a scan are bounded: it drops, and it stops.   *)
ScanBounds ==
    /\ scanner \in Clients \cup {None}
    /\ Len(queue) <= MaxQueue
    /\ IsFiniteSet(DOMAIN found) /\ Cardinality(DOMAIN found) <= MaxResponses
    /\ late \in BOOLEAN

(* The scan stops before its list is longer than it may be.                *)
LEMMA TurnBounds ==
  ASSUME ScanInv, ScanBounds, Turn
  PROVE  ScanBounds'
<1> DEFINE d == Head(queue)
<1>1. queue # <<>> /\ queue' = Tail(queue) /\ UNCHANGED <<scanner, late>>
  BY DEF Turn
<1>2. Len(queue') <= MaxQueue
  BY <1>1, DiscoveryAssumption DEF ScanInv, ScanBounds
<1>3. DOMAIN found' = DOMAIN found \/ DOMAIN found' = DOMAIN found \cup {d.mac}
  BY DEF Turn
<1>4. Cardinality(DOMAIN found) \in Nat /\ Cardinality(DOMAIN found) < MaxResponses
  <2>1. Cardinality(DOMAIN found) \in Nat
    BY FS_CardinalityType DEF ScanBounds
  <2> QED  BY <2>1, DiscoveryAssumption DEF Turn, Over
<1> HIDE DEF d
<1>5. IsFiniteSet(DOMAIN found') /\ Cardinality(DOMAIN found') <= MaxResponses
  <2>1. /\ IsFiniteSet(DOMAIN found \cup {d.mac})
        /\ Cardinality(DOMAIN found \cup {d.mac}) \in
               {Cardinality(DOMAIN found), Cardinality(DOMAIN found) + 1}
    BY FS_AddElement DEF ScanBounds
  <2> QED  BY <1>3, <1>4, <2>1, DiscoveryAssumption DEF ScanBounds
<1> QED  BY <1>1, <1>2, <1>5 DEF ScanBounds

LEMMA ScanBoundsStep ==
  ASSUME ScanInv, ScanBounds, ScanStep
  PROVE  ScanBounds'
<1> USE DEF ScanBounds
<1>1. CASE UNCHANGED <<address, scanVars>>
  BY <1>1 DEF scanVars
<1>2. ASSUME NEW c \in Clients, OpenPort(c) PROVE ScanBounds'
  BY <1>2 DEF OpenPort
<1>3. ASSUME NEW c \in Clients, ClosePort(c) PROVE ScanBounds'
  <2>1. DOMAIN NothingFound = {}
    BY DEF NothingFound
  <2>2. IsFiniteSet({}) /\ Cardinality({}) = 0
    BY FS_EmptySet
  <2>3. DOMAIN found' = {} /\ queue' = <<>> /\ scanner' = None /\ late' = FALSE
    BY <1>3, <2>1 DEF ClosePort
  <2>4. Len(queue') <= MaxQueue
    BY <2>3, DiscoveryAssumption
  <2>5. IsFiniteSet(DOMAIN found') /\ Cardinality(DOMAIN found') <= MaxResponses
    BY <2>2, <2>3, DiscoveryAssumption
  <2> QED  BY <2>3, <2>4, <2>5, Zenon
<1>4. ASSUME NEW s \in Switches, NEW h \in Hosts \cup {Offline}, Move(s, h)
      PROVE  ScanBounds'
  BY <1>4 DEF Move
<1>5. ASSUME NEW d \in Datagrams, Receive(d) PROVE ScanBounds'
  <2>1. Len(queue') = Len(queue) + 1 /\ Len(queue) \in Nat
    BY <1>5 DEF Receive, ScanInv
  <2> QED  BY <1>5, <2>1, DiscoveryAssumption DEF Receive
<1>6. CASE Turn
  BY <1>6, TurnBounds
<1>7. CASE Deadline
  BY <1>7 DEF Deadline
<1> QED  BY <1>1, <1>2, <1>3, <1>4, <1>5, <1>6, <1>7 DEF ScanStep

(* The bounds of what is not the scan's.                                   *)
FlowBounds ==
    /\ moves \in 0..MaxMoves
    /\ sessions \subseteq Flows
    /\ flows \in 0..MaxFlows
    /\ submits \in 0..MaxSubmits

LEMMA FlowBoundsStep ==
  ASSUME FlowBounds, [Next]_vars
  PROVE  FlowBounds'
<1> USE DiscoveryAssumption, FlowAssumption DEF FlowBounds
<1>1. CASE UNCHANGED vars
  BY <1>1 DEF vars
<1>2. ASSUME NEW f \in Flows, StartUser(f) \/ StartManually(f)
                              \/ \E e \in Entries : StartReconfigure(f, e)
      PROVE  FlowBounds'
  BY <1>2 DEF StartUser, StartManually, StartReconfigure, Begin, networkVars
<1>3. ASSUME NEW f \in Flows, Scanned(f) PROVE FlowBounds'
  BY <1>3 DEF Scanned, ClosePort
<1>4. ASSUME NEW f \in Flows, NEW m \in Switches \cup {None}, Pick(f, m) \/ Validated(f, m)
      PROVE  FlowBounds'
  BY <1>4 DEF Pick, Validated, networkVars
<1>10. ASSUME NEW f \in Flows, NEW m \in Switches, Answered(f, m) PROVE FlowBounds'
  BY <1>10 DEF Answered, networkVars
<1>5. ASSUME NEW f \in Flows, NEW n \in Names, NEW h \in Hosts, Submit(f, n, h)
      PROVE  FlowBounds'
  BY <1>5 DEF Submit, networkVars
<1>6. ASSUME NEW f \in Flows, Abandon(f) PROVE FlowBounds'
  BY <1>6 DEF Abandon, networkVars
<1>7. ASSUME NEW f \in Flows, Cancel(f) PROVE FlowBounds'
  BY <1>7 DEF Cancel, ClosePort, networkVars
<1>8. ASSUME NEW s \in Switches, NEW h \in Hosts \cup {Offline}, Move(s, h),
             UNCHANGED flowVars
      PROVE  FlowBounds'
  BY <1>8 DEF Move, flowVars
<1>9. CASE /\ (\E d \in Datagrams : Receive(d)) \/ Turn \/ Deadline
           /\ UNCHANGED flowVars
  BY <1>9 DEF Receive, Turn, Deadline, flowVars
<1> QED
  BY <1>1, <1>2, <1>3, <1>4, <1>5, <1>6, <1>7, <1>8, <1>9, <1>10 DEF Next

(* All variables stay within their types: no scan takes in more datagrams  *)
(* or lists more switches than it may (_MAX_QUEUED_PACKETS,                *)
(* _MAX_RESPONSES).                                                        *)
THEOREM TypeCorrect == Spec => []TypeOK
<1>1. ASSUME Init PROVE ScanBounds /\ FlowBounds
  <2>1. DOMAIN found = {} /\ queue = <<>> /\ scanner = None /\ late = FALSE
    BY <1>1 DEF Init, DiscoveryInit, NothingFound
  <2>2. Len(queue) <= MaxQueue
    BY <2>1, DiscoveryAssumption
  <2>3. IsFiniteSet({}) /\ Cardinality({}) = 0
    BY FS_EmptySet
  <2>4. IsFiniteSet(DOMAIN found) /\ Cardinality(DOMAIN found) <= MaxResponses
    BY <2>1, <2>3, DiscoveryAssumption
  <2>5. FlowBounds
    BY <1>1, DiscoveryAssumption, FlowAssumption DEF Init, DiscoveryInit, FlowBounds
  <2> QED  BY <2>1, <2>2, <2>4, <2>5, Zenon DEF ScanBounds
<1>2. IInv /\ ScanBounds /\ FlowBounds /\ [Next]_vars => ScanBounds' /\ FlowBounds'
  BY NextScan, ScanBoundsStep, FlowBoundsStep DEF IInv
<1>3. IInv /\ ScanBounds /\ FlowBounds => TypeOK
  <2> SUFFICES ASSUME IInv, ScanBounds, FlowBounds PROVE TypeOK
    OBVIOUS
  <2>1. \A m \in DOMAIN found : found[m] \in Hosts
    BY DEF IInv, ScanInv, FoundIsFresh
  <2>2. DiscoveryTypeOK
    BY <2>1 DEF IInv, ScanInv, ScanBounds, FlowBounds, DiscoveryTypeOK
  <2> QED  BY <2>2 DEF IInv, EntryInv, FlowTypeOK, FlowStates, FlowBounds, TypeOK
<1> QED  BY <1>1, <1>2, <1>3, Always, PTL DEF Spec

-----------------------------------------------------------------------------
(* The properties.                                                         *)

(* A switch is listed with an address it had during this scan.             *)
THEOREM Fresh == Spec => []FoundIsFresh
<1>1. IInv => FoundIsFresh
  BY DEF IInv, ScanInv
<1> QED  BY <1>1, Always, PTL

(* There is one entry for each switch.                                     *)
THEOREM OneEntry == Spec => []OneEntryPerSwitch
<1>1. IInv => OneEntryPerSwitch
  BY DEF IInv, EntryInv
<1> QED  BY <1>1, Always, PTL

(* At the address of an entry with a unique id that switch has answered.   *)
THEOREM Vouched == Spec => []HostVouched
<1>1. IInv => HostVouched
  BY DEF IInv, EntryInv
<1> QED  BY <1>1, Always, PTL

(* A switch that was picked is the one that gets the entry or the address. *)
THEOREM Picked == Spec => PickedIsConfigured
<1> DEFINE A == \A f \in Flows, e \in Entries :
                    flow[f].picked # None /\ flow'[f] # flow[f] /\ entries'[e] # entries[e]
                        => entries'[e].unique_id = flow[f].picked
<1>1. ASSUME IInv, [Next]_vars PROVE A
  <2> SUFFICES ASSUME NEW f \in Flows, NEW e \in Entries, flow[f].picked # None,
                      flow'[f] # flow[f], entries'[e] # entries[e]
               PROVE  entries'[e].unique_id = flow[f].picked
    OBVIOUS
  <2>1. PICK g \in Flows, m \in Switches, x \in Entries, d \in ConfigEntries :
            Ends(g) /\ NewData(g, m, x, d) /\ Stores(g, x, m, d)
    BY <1>1, NextInv
  <2>2. g = f /\ x = e /\ entries'[e] = d
    BY <1>1, <2>1 DEF Ends, Stores, IInv, EntryInv, FlowTypeOK
  <2> QED  BY <2>1, <2>2 DEF NewData
<1>2. IInv /\ [Next]_vars => [A]_vars
  BY <1>1
<1> QED  BY <1>2, Always, PTL DEF Spec, PickedIsConfigured

(* Two entries only get the same name if the later one was validated while *)
(* the other got it.                                                       *)
THEOREM GivesFreeNames == Spec => NamesApart
<1>1. ASSUME IInv, [Next]_vars PROVE FreeNameGiven
  <2> SUFFICES ASSUME NEW f \in Flows, NEW e \in Entries, f \notin raced,
                      flow'[f] # flow[f], entries'[e].name # entries[e].name,
                      NEW x \in Entries \ {e}
               PROVE  entries'[x].name # entries'[e].name
    BY DEF FreeNameGiven
  <2>1. PICK g \in Flows, m \in Switches, y \in Entries, d \in ConfigEntries :
            /\ Ends(g) /\ flow[g].errors = "none" /\ flow[g].step = "validating"
            /\ NewData(g, m, y, d) /\ Stores(g, y, m, d)
    BY <1>1, NextInv
  <2>2. g = f /\ y = e /\ entries'[e] = d /\ entries'[x] = entries[x]
    BY <1>1, <2>1 DEF Ends, Stores, IInv, EntryInv, FlowTypeOK
  <2>3. d.name = flow[f].name /\ flow[f].entry \in {None, e} /\ flow[f].name \in Names
    BY <1>1, <2>1, <2>2 DEF NewData, IInv, EntryInv, FlowShape, Shape
  <2>4. flow[f].name \notin TakenNames(f)
    BY <1>1, <2>1, <2>2 DEF IInv, EntryInv, NameFree
  <2>5. CASE Exists(x)
    BY <2>2, <2>3, <2>4, <2>5, FlowAssumption DEF TakenNames
  <2>6. CASE ~Exists(x)
    BY <2>2, <2>3, <2>6, FlowAssumption DEF Exists, NoEntry
  <2> QED  BY <2>5, <2>6
<1>2. IInv /\ [Next]_vars => [FreeNameGiven]_vars
  BY <1>1
<1> QED  BY <1>2, Always, PTL DEF Spec, NamesApart

(* No flow changes the address of a switch.                                *)
LEMMA AddressStep ==
  ASSUME [Next]_vars
  PROVE  \/ UNCHANGED address
         \/ /\ \E s \in Switches, h \in Hosts \cup {Offline} : Move(s, h)
            /\ UNCHANGED flow
<1> USE DEF networkVars
<1>1. CASE UNCHANGED vars
  BY <1>1 DEF vars
<1>2. ASSUME NEW f \in Flows, StartUser(f) \/ Scanned(f) \/ Cancel(f) PROVE UNCHANGED address
  BY <1>2 DEF StartUser, Scanned, Cancel, OpenPort, ClosePort
<1>3. ASSUME NEW f \in Flows,
             \/ StartManually(f)
             \/ \E e \in Entries : StartReconfigure(f, e)
             \/ \E m \in Switches : Answered(f, m)
             \/ \E m \in Switches \cup {None} : Pick(f, m) \/ Validated(f, m)
             \/ \E n \in Names, h \in Hosts : Submit(f, n, h)
             \/ Abandon(f)
      PROVE  UNCHANGED address
  BY <1>3 DEF StartManually, StartReconfigure, Begin, Answered, Pick, Validated, Submit,
              Abandon
<1>4. CASE /\ (\E d \in Datagrams : Receive(d)) \/ Turn \/ Deadline
           /\ UNCHANGED flowVars
  BY <1>4 DEF Receive, Turn, Deadline
<1> QED  BY <1>1, <1>2, <1>3, <1>4 DEF Next, flowVars

(* What a step may do to the answers: one more flow gets one, or a flow    *)
(* loses the one it has.                                                   *)
LEMMA AnswersStep ==
  ASSUME FlowTypeOK, FlowShape, [Next]_vars
  PROVE  \/ UNCHANGED Answers
         \/ \E f \in Flows, m \in Switches : Answered(f, m)
         \/ \E f \in Flows : /\ flow[f].switch_info # None
                             /\ Answers' = [Answers EXCEPT ![f] = Registry!Silent]
<1> DEFINE Loses(f) == \E s : s.switch_info = None /\ flow' = [flow EXCEPT ![f] = s]
<1>1. CASE UNCHANGED flow
  BY <1>1 DEF Answers
<1>2. ASSUME NEW f \in Flows, Loses(f)
      PROVE  \/ UNCHANGED Answers
             \/ /\ flow[f].switch_info # None
                /\ Answers' = [Answers EXCEPT ![f] = Registry!Silent]
  <2>1. PICK s : s.switch_info = None /\ flow' = [flow EXCEPT ![f] = s]
    BY <1>2
  <2>2. \A g \in Flows : flow'[g] = IF g = f THEN s ELSE flow[g]
    BY <2>1 DEF FlowTypeOK
  <2>3. Answers' = [Answers EXCEPT ![f] = Registry!Silent]
    BY <2>1, <2>2 DEF Answers, Registry!Silent
  <2>4. flow[f].switch_info = None => Answers[f] = Registry!Silent
    BY DEF Answers, Registry!Silent
  <2>5. Answers = [g \in Flows |-> Answers[g]]
    BY DEF Answers
  <2> QED  BY <2>3, <2>4, <2>5
<1>3. ASSUME NEW f \in Flows, NEW form, Show(f, form) PROVE Loses(f)
  <2> DEFINE s == [flow[f] EXCEPT !.step = "form", !.form = form,
                                  !.name = None, !.host = None,
                                  !.switch_info = None, !.errors = "none"]
  <2>1. flow' = [flow EXCEPT ![f] = s] /\ s.switch_info = None
    BY <1>3 DEF Show, FlowTypeOK, FlowStates
  <2> HIDE DEF s
  <2> QED  BY <2>1
<1>4. ASSUME NEW f \in Flows, Ends(f) PROVE Loses(f)
  BY <1>4 DEF Ends, NoFlow
<1>5. ASSUME NEW f \in Flows, flow[f].step # "validating",
             \/ StartUser(f)
             \/ \E e \in Entries : StartReconfigure(f, e)
             \/ Scanned(f)
             \/ \E m \in Switches \cup {None} : Pick(f, m)
             \/ \E n \in Names, h \in Hosts : Submit(f, n, h)
      PROVE  Loses(f)
  <2>1. flow[f].switch_info = None /\ flow[f] \in FlowStates
    BY <1>5 DEF FlowTypeOK, FlowShape, Shape
  <2>2. CASE Scanned(f)
    <3>1. CASE DOMAIN found = {}
      BY <1>3, <2>2, <3>1 DEF Scanned
    <3>2. CASE DOMAIN found # {}
      <4> DEFINE s == [flow[f] EXCEPT !.step = "form", !.form = "discovery",
                                      !.choices = DOMAIN found]
      <4>1. flow' = [flow EXCEPT ![f] = s] /\ s.switch_info = None
        BY <2>1, <2>2, <3>2 DEF Scanned, FlowTypeOK, FlowStates
      <4> HIDE DEF s
      <4> QED  BY <4>1
    <3> QED  BY <3>1, <3>2
  <2>3. CASE StartUser(f)
    <3> DEFINE s == [flow[f] EXCEPT !.step = "scanning"]
    <3>1. flow' = [flow EXCEPT ![f] = s] /\ s.switch_info = None
      BY <2>1, <2>3 DEF StartUser, FlowTypeOK, FlowStates
    <3> HIDE DEF s
    <3> QED  BY <3>1
  <2>4. ASSUME NEW e \in Entries, StartReconfigure(f, e) PROVE Loses(f)
    <3> DEFINE s == [flow[f] EXCEPT !.step = "form", !.form = "reconfigure", !.entry = e]
    <3>1. flow' = [flow EXCEPT ![f] = s] /\ s.switch_info = None
      BY <2>1, <2>4 DEF StartReconfigure, FlowTypeOK, FlowStates
    <3> HIDE DEF s
    <3> QED  BY <3>1
  <2>5. ASSUME NEW m \in Switches \cup {None}, Pick(f, m) PROVE Loses(f)
    <3> DEFINE s == [flow[f] EXCEPT !.form = IF m = None THEN "user"
                                             ELSE "discovery_credentials",
                                    !.picked = m, !.choices = {}]
    <3>1. flow' = [flow EXCEPT ![f] = s] /\ s.switch_info = None
      BY <2>1, <2>5 DEF Pick, FlowTypeOK, FlowStates
    <3> HIDE DEF s
    <3> QED  BY <3>1
  <2>6. ASSUME NEW n \in Names, NEW h \in Hosts, Submit(f, n, h) PROVE Loses(f)
    <3> DEFINE s == [flow[f] EXCEPT !.step = "validating", !.name = n, !.host = h,
                                    !.errors = IF n \in TakenNames(f)
                                               THEN "name_exists" ELSE "none"]
    <3>1. flow' = [flow EXCEPT ![f] = s] /\ s.switch_info = None
      BY <2>1, <2>6 DEF Submit, FlowTypeOK, FlowStates
    <3> HIDE DEF s
    <3> QED  BY <3>1
  <2> QED  BY <1>5, <2>2, <2>3, <2>4, <2>5, <2>6
<1>6. ASSUME NEW f \in Flows, StartManually(f) PROVE Loses(f)
  BY <1>3, <1>6 DEF StartManually
<1>7. ASSUME NEW f \in Flows, NEW m \in Switches \cup {None}, Validated(f, m) PROVE Loses(f)
  BY <1>3, <1>4, <1>7 DEF Validated
<1>8. ASSUME NEW f \in Flows, Abandon(f) \/ Cancel(f) PROVE Loses(f)
  BY <1>4, <1>8 DEF Abandon, Cancel
<1> HIDE DEF Loses
<1>9. CASE \E f \in Flows : Loses(f)
  BY <1>2, <1>9
<1>10. ASSUME NEW f \in Flows,
              \/ StartUser(f)
              \/ \E e \in Entries : StartReconfigure(f, e)
              \/ Scanned(f)
              \/ \E m \in Switches \cup {None} : Pick(f, m)
              \/ \E n \in Names, h \in Hosts : Submit(f, n, h)
       PROVE  flow[f].step # "validating"
  BY <1>10 DEF StartUser, StartReconfigure, Begin, Scanned, Pick, Submit
<1>11. CASE \E f \in Flows, m \in Switches : Answered(f, m)
  BY <1>11
<1> QED
  BY <1>1, <1>5, <1>6, <1>7, <1>8, <1>9, <1>10, <1>11 DEF Next, vars, flowVars

(* The flows implement EntryRegistry: whatever comes between a form, the   *)
(* answer of a switch and the entry, an entry is made or changed only by   *)
(* an answer to that flow, which is used once, with the address the switch *)
(* answered from, and made only if that switch has none.                   *)
THEOREM Implements == Spec => ImplementsRegistry
<1> USE DEF Registry!Absent, NoEntry, Exists, Registry!Silent
<1>1. ASSUME Init PROVE Registry!Init
  <2>1. address \in [Switches -> Hosts \cup {Offline}] /\ Registry!Apart(address)
    BY <1>1 DEF Init, DiscoveryInit, Apart, Registry!Apart
  <2>2. entries \in [Entries -> ConfigEntries \cup {NoEntry}]
    BY <1>1, InitInv DEF IInv, EntryInv, FlowTypeOK
  <2>3. \A d, e \in Entries : d # e => NoEntry \in {entries[d], entries[e]}
    BY <1>1 DEF Init
  <2>4. Answers = [f \in Flows |-> Registry!Silent]
    BY <1>1 DEF Init, NoFlow, Answers
  <2> QED  BY <2>1, <2>2, <2>3, <2>4 DEF Registry!Init, ConfigEntries
<1>2. ASSUME IInv, [Next]_vars PROVE [Registry!Next]_(Registry!vars)
  <2> USE DEF Registry!Next, Registry!vars
  <2>1. FlowTypeOK /\ FlowShape
    BY <1>2 DEF IInv, EntryInv
  <2>2. ASSUME NEW f \in Flows, NEW m \in Switches, Answered(f, m)
        PROVE  Registry!Answer(f, m)
    <3>1. m # None /\ flow[f].host \in Hosts /\ flow[f].host = address[m]
      BY <2>1, <2>2, DiscoveryAssumption DEF Answered, FlowShape, Shape
    <3>2. Answers' = [Answers EXCEPT ![f] = [switch |-> m, host |-> address[m]]]
      <4> DEFINE s == [flow[f] EXCEPT !.switch_info = m]
      <4>1. flow' = [flow EXCEPT ![f] = s] /\ s.switch_info = m /\ s.host = address[m]
        BY <2>1, <2>2, <3>1 DEF Answered, FlowTypeOK, FlowStates
      <4> HIDE DEF s
      <4>2. \A g \in Flows : flow'[g] = IF g = f THEN s ELSE flow[g]
        BY <2>1, <4>1 DEF FlowTypeOK
      <4> QED  BY <3>1, <4>1, <4>2 DEF Answers
    <3>3. Answers[f] = Registry!Silent
      BY <2>2 DEF Answered, Answers
    <3> QED
      BY <2>2, <3>1, <3>2, <3>3, DiscoveryAssumption DEF Answered, networkVars, Registry!Answer
  <2>3. CASE UNCHANGED entries /\ ~ \E f \in Flows, m \in Switches : Answered(f, m)
    <3>1. \/ UNCHANGED address
          \/ /\ \E s \in Switches, h \in Hosts \cup {Offline} : Move(s, h)
             /\ UNCHANGED flow
      BY <1>2, AddressStep
    <3>2. ASSUME NEW s \in Switches, NEW h \in Hosts \cup {Offline}, Move(s, h),
                 UNCHANGED flow
          PROVE  Registry!Move(s, h)
      BY <2>3, <3>2 DEF Move, Registry!Move, Apart, Registry!Apart, Answers
    <3>3. \/ UNCHANGED Answers
          \/ \E f \in Flows : flow[f].switch_info # None /\ Answers' = [Answers EXCEPT ![f] = Registry!Silent]
      BY <1>2, <2>1, <2>3, AnswersStep
    <3>4. CASE UNCHANGED address
      BY <2>3, <3>3, <3>4, DiscoveryAssumption
      DEF Registry!Forget, Registry!Uses, Answers
    <3> QED  BY <3>1, <3>2, <3>4
  <2>4. CASE ~UNCHANGED entries
    <3>1. PICK f \in Flows, m \in Switches, e \in Entries, d \in ConfigEntries :
              /\ Ends(f) /\ UNCHANGED address
              /\ NewData(f, m, e, d) /\ Stores(f, e, m, d)
      BY <1>2, <2>4, NextInv
    <3>2. /\ Answers[f] = [switch |-> m, host |-> d.host]
          /\ m # None
          /\ Answers' = [Answers EXCEPT ![f] = Registry!Silent]
      BY <2>1, <3>1, DiscoveryAssumption DEF Ends, NoFlow, NewData, Answers, FlowTypeOK
    <3>3. Registry!Uses(f) /\ Answers[f].switch = m /\ Answers[f].host = d.host
      BY <3>1, <3>2, DiscoveryAssumption DEF Registry!Uses
    <3>4. /\ entries' = [entries EXCEPT ![e] = d] /\ d.name \in Names
          /\ d = [name |-> d.name, host |-> d.host, unique_id |-> d.unique_id]
      BY <3>1 DEF Stores, ConfigEntries
    <3>5. CASE d.unique_id = entries[e].unique_id /\ Exists(e)
      <4>1. entries[e] \in ConfigEntries /\ entries \in [Entries -> ConfigEntries \cup {NoEntry}]
        BY <2>1, <3>5 DEF FlowTypeOK
      <4>2. d = [entries[e] EXCEPT !.name = d.name, !.host = d.host]
        BY <3>4, <3>5, <4>1 DEF ConfigEntries
      <4>3. entries[e].unique_id \in {None, m}
        BY <3>1, <3>5 DEF NewData
      <4>4. entries' = [entries EXCEPT ![e].name = d.name, ![e].host = d.host]
        BY <3>4, <4>1, <4>2
      <4>5. Registry!Change(f, e, d.name)
        BY <3>3, <3>5, <4>3, <4>4 DEF Registry!Change
      <4> QED  BY <3>4, <4>5
    <3>6. CASE d.unique_id = m /\ EntriesOf(m) = {} /\ ~Exists(e)
      <4>1. Registry!Add(f, e, d.name)
        BY <3>3, <3>4, <3>6 DEF Registry!Add, EntriesOf
      <4> QED  BY <3>4, <4>1
    <3> QED  BY <3>1, <3>5, <3>6 DEF NewData
  <2> QED  BY <2>2, <2>3, <2>4
<1> QED  BY <1>1, <1>2, Always, PTL DEF Spec, ImplementsRegistry, Registry!Spec

=============================================================================
