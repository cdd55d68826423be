---------------------------- MODULE EntryRegistry ----------------------------
(***************************************************************************)
(* What the config flows promise of the config entries, whatever scans,    *)
(* forms and validations they use and however many run at once: a flow     *)
(* makes an entry, or gives one an address, by one answer of a switch that *)
(* was at this address when it answered that flow, and uses no answer      *)
(* twice; there is one entry for each switch, and an entry with a unique   *)
(* id stays with its switch (config_flow.py).  The switch may have moved   *)
(* on since it answered.  ConfigFlow implements this specification.        *)
(***************************************************************************)
CONSTANTS Flows, Entries, Names, Switches, Hosts, None, Offline

VARIABLES address, \* where each switch is
          answer,  \* what a switch has answered each flow, from where
          entries  \* the config entries

vars == <<address, answer, entries>>

Absent == [name |-> None, host |-> None, unique_id |-> None]

Silent == [switch |-> None, host |-> None]

(* No two switches have one address.                                       *)
Apart(a) == \A s, t \in Switches : s # t /\ a[s] = a[t] => a[s] = Offline

Init ==
    /\ address \in [Switches -> Hosts \cup {Offline}] /\ Apart(address)
    /\ answer = [f \in Flows |-> Silent]
    /\ entries \in [Entries ->
           [name : Names, host : Hosts, unique_id : Switches \cup {None}] \cup {Absent}]
    /\ \A d, e \in Entries : d # e => Absent \in {entries[d], entries[e]}

(* A switch gets another address.                                          *)
Move(s, h) ==
    /\ address' = [address EXCEPT ![s] = h]
    /\ Apart(address')
    /\ UNCHANGED <<answer, entries>>

(* Switch m answers flow f, from where it is now.                          *)
Answer(f, m) ==
    /\ address[m] # Offline
    /\ answer[f] = Silent
    /\ answer' = [answer EXCEPT ![f] = [switch |-> m, host |-> address[m]]]
    /\ UNCHANGED <<address, entries>>

Uses(f) ==
    /\ answer[f] # Silent
    /\ answer' = [answer EXCEPT ![f] = Silent]
    /\ UNCHANGED address

(* Flow f makes nothing of its answer.                                     *)
Forget(f) == Uses(f) /\ UNCHANGED entries

(* A new entry for the switch that has answered f, which has none, at the  *)
(* address it answered from.                                               *)
Add(f, e, n) ==
    /\ Uses(f)
    /\ entries[e] = Absent
    /\ \A d \in Entries : entries[d].unique_id # answer[f].switch
    /\ entries' = [entries EXCEPT ![e] = [name |-> n, host |-> answer[f].host,
                                          unique_id |-> answer[f].switch]]

(* Entry e gets another name and that address, if the switch that has      *)
(* answered is the entry's, or the entry has no unique id.                 *)
Change(f, e, n) ==
    /\ Uses(f)
    /\ entries[e] # Absent
    /\ entries[e].unique_id \in {None, answer[f].switch}
    /\ entries' = [entries EXCEPT ![e].name = n, ![e].host = answer[f].host]

Next ==
    \/ \E s \in Switches, h \in Hosts \cup {Offline} : Move(s, h)
    \/ \E f \in Flows :
           \/ \E m \in Switches : Answer(f, m)
           \/ Forget(f)
           \/ \E e \in Entries, n \in Names : Add(f, e, n) \/ Change(f, e, n)

Spec == Init /\ [][Next]_vars

=============================================================================
