--------------------------- MODULE EntryLifecycle ---------------------------
(***************************************************************************)
(* The config entries of the domain (__init__.py, services.py,             *)
(* helpers.py): each is set up, rolled back if that fails, unloaded and    *)
(* set up again, while the others do the same.  They share hass.data and   *)
(* the services of the domain, which exist while an entry uses them.       *)
(*                                                                         *)
(* Home Assistant works on one entry in one task at a time (its setup      *)
(* lock); entries interleave at every await: the first refresh, the        *)
(* forwarding to the platforms and their unloading.  disconnect() of a     *)
(* coordinator does not suspend, because its session was injected.         *)
(***************************************************************************)
EXTENDS Naturals, FiniteSets

CONSTANTS Entries,   \* the config entries
          PLATFORMS  \* the platforms an entry is forwarded to

ASSUME EntriesAssumption == IsFiniteSet(Entries)

VARIABLES phase,       \* where the task of the entry is
          stored,      \* the entries that have a coordinator in hass.data
          client,      \* the connection of the entry's newest coordinator
          platforms,   \* the platforms that hold something of the entry
          instances,   \* hass.data[DOMAIN][DATA_KEY_SERVICES], 0 if missing
          registered,  \* the services of the domain exist
          abandoned    \* history: entries a set-up of which was cancelled

vars == <<phase, stored, client, platforms, instances, registered, abandoned>>

(* Not set up | awaits the first refresh | awaits the platforms | awaits   *)
(* their unloading after a failure | set up | awaits the unloading | could *)
(* not be unloaded, for good.                                              *)
Phases == {"out", "refreshing", "forwarding", "rollback", "loaded",
           "unloading", "failed_unload"}

(* The entries that count as instances.                                    *)
Users == {e \in Entries : phase[e] \in {"loaded", "unloading", "failed_unload"}}

TypeOK ==
    /\ phase \in [Entries -> Phases]
    /\ stored \subseteq Entries
    /\ client \in [Entries -> {"none", "connected", "disconnected"}]
    /\ platforms \in [Entries -> SUBSET PLATFORMS]
    /\ instances \in Nat
    /\ registered \in BOOLEAN
    /\ abandoned \subseteq Entries

Init ==
    /\ phase = [e \in Entries |-> "out"]
    /\ stored = {}
    /\ client = [e \in Entries |-> "none"]
    /\ platforms = [e \in Entries |-> {}]
    /\ instances = 0
    /\ registered = FALSE
    /\ abandoned = {}

-----------------------------------------------------------------------------
(* Helpers.                                                                *)

Goes(e, p) == phase' = [phase EXCEPT ![e] = p]

(* pop_coordinator and the coordinator's async_unload.                     *)
Drop(e) ==
    /\ stored' = stored \ {e}
    /\ client' = [client EXCEPT ![e] = "disconnected"]

(* _change_instances_count(hass, -1).                                      *)
OneLess == IF instances = 0 THEN 0 ELSE instances - 1

(* Fault of SetupServices: a failed registration leaves its count behind.  *)
FaultySetupServices(ok) ==
    /\ instances' = instances + 1
    /\ registered' = (IF instances = 0 THEN ok ELSE registered)

(* async_setup_services: the first instance registers the services.  If    *)
(* that fails, those registered already are removed and the count is taken *)
(* back.                                                                   *)
SetupServices(ok) ==
    /\ instances' = IF ok THEN instances + 1 ELSE instances
    /\ registered' = (IF instances = 0 THEN ok ELSE registered)

(* async_unload_services: the last instance removes the services.          *)
UnloadServices ==
    /\ instances' = OneLess
    /\ registered' = (OneLess > 0 /\ registered)

-----------------------------------------------------------------------------
(* Set-up.                                                                 *)

(* async_setup_entry up to the first await: a coordinator with a client.   *)
(* Home Assistant sets up an entry that is not, or tries again.            *)
StartSetup(e) ==
    /\ phase[e] = "out"
    /\ Goes(e, "refreshing")
    /\ client' = [client EXCEPT ![e] = "connected"]
    /\ UNCHANGED <<stored, platforms, instances, registered, abandoned>>

(* async_config_entry_first_refresh raises: nothing was stored yet.        *)
RefreshFails(e) ==
    /\ phase[e] = "refreshing"
    /\ Goes(e, "out")
    /\ client' = [client EXCEPT ![e] = "disconnected"]
    /\ UNCHANGED <<stored, platforms, instances, registered, abandoned>>

(* set_coordinator, and the entry is forwarded to the platforms.           *)
Refreshed(e) ==
    /\ phase[e] = "refreshing"
    /\ Goes(e, "forwarding")
    /\ stored' = stored \cup {e}
    /\ UNCHANGED <<client, platforms, instances, registered, abandoned>>

(* One of the platforms takes the entry on.                                *)
LoadPlatform(e, p) ==
    /\ phase[e] = "forwarding"
    /\ p \notin platforms[e]
    /\ platforms' = [platforms EXCEPT ![e] = @ \cup {p}]
    /\ UNCHANGED <<phase, stored, client, instances, registered, abandoned>>

(* A platform raises.                                                      *)
ForwardFails(e) ==
    /\ phase[e] = "forwarding"
    /\ Goes(e, "rollback")
    /\ UNCHANGED <<stored, client, platforms, instances, registered, abandoned>>

(* The platforms have the entry, and async_setup_services runs: the set-up *)
(* is complete, or is rolled back because a service cannot be registered.  *)
Forwarded(e) ==
    /\ phase[e] = "forwarding"
    /\ platforms[e] = PLATFORMS
    /\ \E ok \in BOOLEAN :
           /\ ~ok => instances = 0
           /\ SetupServices(ok)
           /\ Goes(e, IF ok THEN "loaded" ELSE "rollback")
    /\ UNCHANGED <<stored, client, platforms, abandoned>>

(* Fault of RolledBack: a use of the services is given back that was never *)
(* taken, and the count is not kept from going below zero.                 *)
FaultyRolledBackCounts(e) ==
    /\ phase[e] = "rollback"
    /\ Goes(e, "out")
    /\ Drop(e)
    /\ instances' = instances - 1
    /\ UNCHANGED <<platforms, registered, abandoned>>

(* Fault of RolledBack: the coordinator stays in hass.data.                *)
FaultyRolledBack(e) ==
    /\ phase[e] = "rollback"
    /\ Goes(e, "out")
    /\ client' = [client EXCEPT ![e] = "disconnected"]
    /\ \E P \in SUBSET platforms[e] : platforms' = [platforms EXCEPT ![e] = P]
    /\ UNCHANGED <<stored, instances, registered, abandoned>>

(* The rollback after async_unload_platforms, whose result it ignores: the *)
(* platforms P could not be unloaded.                                      *)
RolledBack(e) ==
    /\ phase[e] = "rollback"
    /\ Goes(e, "out")
    /\ Drop(e)
    /\ \E P \in SUBSET platforms[e] : platforms' = [platforms EXCEPT ![e] = P]
    /\ UNCHANGED <<instances, registered, abandoned>>

(* CancelledError is no Exception: there is no rollback.                   *)
CancelSetup(e) ==
    /\ phase[e] \in {"refreshing", "forwarding", "rollback"}
    /\ Goes(e, "out")
    /\ abandoned' = abandoned \cup {e}
    /\ UNCHANGED <<stored, client, platforms, instances, registered>>

-----------------------------------------------------------------------------
(* Unloading, which Home Assistant asks for only if the entry is set up.   *)

StartUnload(e) ==
    /\ phase[e] = "loaded"
    /\ Goes(e, "unloading")
    /\ UNCHANGED <<stored, client, platforms, instances, registered, abandoned>>

(* async_unload_platforms is true: the coordinator and the use of the      *)
(* services are given up.                                                  *)
Unloaded(e) ==
    /\ phase[e] = "unloading"
    /\ Goes(e, "out")
    /\ platforms' = [platforms EXCEPT ![e] = {}]
    /\ Drop(e)
    /\ UnloadServices
    /\ UNCHANGED abandoned

(* Fault of UnloadFails: the coordinator is given up all the same.         *)
FaultyUnloadFails(e) ==
    /\ phase[e] = "unloading"
    /\ Goes(e, "failed_unload")
    /\ Drop(e)
    /\ \E P \in SUBSET platforms[e] \ {{}} :
           platforms' = [platforms EXCEPT ![e] = P]
    /\ UNCHANGED <<instances, registered, abandoned>>

(* The platforms P could not be unloaded: everything else stays as it is.  *)
UnloadFails(e) ==
    /\ phase[e] = "unloading"
    /\ Goes(e, "failed_unload")
    /\ \E P \in SUBSET platforms[e] \ {{}} :
           platforms' = [platforms EXCEPT ![e] = P]
    /\ UNCHANGED <<stored, client, instances, registered, abandoned>>

-----------------------------------------------------------------------------

Next ==
    \E e \in Entries :
        \/ StartSetup(e)
        \/ RefreshFails(e)
        \/ Refreshed(e)
        \/ \E p \in PLATFORMS : LoadPlatform(e, p)
        \/ ForwardFails(e)
        \/ Forwarded(e)
        \/ RolledBack(e)
        \/ CancelSetup(e)
        \/ StartUnload(e)
        \/ Unloaded(e)
        \/ UnloadFails(e)

Spec == Init /\ [][Next]_vars

-----------------------------------------------------------------------------
(* Properties.                                                             *)

(* The services of the domain exist exactly while an entry that is set up  *)
(* may need them, however set-ups, rollbacks and unloads of several        *)
(* entries interleave (_change_instances_count counts up and down once per *)
(* entry).                                                                 *)
ServicesWhileUsed ==
    /\ instances = Cardinality(Users)
    /\ registered <=> Users # {}

(* Whenever Home Assistant works on the platforms of an entry, or a        *)
(* service may be asked for its switch, get_coordinator and                *)
(* _find_coordinator find a coordinator that has not been disconnected.    *)
CoordinatorFound ==
    \A e \in Entries :
        phase[e] \in {"forwarding", "rollback"} \/ e \in Users
            => e \in stored /\ client[e] = "connected"

(* An entry that is not set up, because it failed at whatever step or was  *)
(* unloaded, leaves no coordinator behind in hass.data and none that is    *)
(* still connected; only a cancelled set-up does, to which the handlers    *)
(* of async_setup_entry do not apply.                                      *)
NothingLeftBehind ==
    \A e \in Entries \ abandoned :
        phase[e] = "out" => e \notin stored /\ client[e] # "connected"

=============================================================================
