---------------------------- MODULE MCConfigFlow -----------------------------
(* ConfigFlow with two switches and an entry that may be there already.    *)
EXTENDS ConfigFlow

CONSTANTS s1, h1, n1

(* An entry of an early version, and one of this version.                  *)
InitialEntries ==
    {[name |-> n1, host |-> h1, unique_id |-> u] : u \in {None, s1}}

(* The first switch is where the entry has it; the other one is at the     *)
(* other address, or off.                                                  *)
StartInit == Init /\ address[s1] = h1

StartSpec == StartInit /\ [][Next]_vars /\ Fairness

=============================================================================
