------------------------ MODULE EntryLifecycle_proofs ------------------------
(***************************************************************************)
(* What holds of the config entries of the domain, for any finite number   *)
(* of them and any platforms.                                              *)
(***************************************************************************)
EXTENDS EntryLifecycle, FiniteSetTheorems, TLAPS

(* While an entry awaits its first refresh its coordinator is connected,   *)
(* and not yet in hass.data.                                               *)
FreshCoordinator ==
    \A e \in Entries :
        phase[e] = "refreshing"
            => client[e] = "connected" /\ (e \notin abandoned => e \notin stored)

(* What an entry's own coordinator and platforms are like.                 *)
CoordinatorInv ==
    /\ TypeOK
    /\ CoordinatorFound
    /\ NothingLeftBehind
    /\ FreshCoordinator

(* The inductive invariant: with what the entries share.                   *)
IInv == CoordinatorInv /\ ServicesWhileUsed

-----------------------------------------------------------------------------
(* The entries that count.                                                 *)

(* The entries that use the services are finitely many, so that their      *)
(* number and the count in hass.data can be compared.                      *)
LEMMA UsersFinite == IsFiniteSet(Users)
BY EntriesAssumption, FS_Subset DEF Users

(* The count is zero exactly if no entry uses the services.                *)
LEMMA NoUsers == Cardinality(Users) \in Nat /\ (Cardinality(Users) = 0 <=> Users = {})
BY UsersFinite, FS_EmptySet, FS_CardinalityType

(* A step of an entry that neither starts nor ends its use of the services *)
(* leaves the users as they are.                                           *)
LEMMA SameUsers ==
  ASSUME TypeOK, NEW e \in Entries, NEW p \in Phases, Goes(e, p),
         (p \in {"loaded", "unloading", "failed_unload"}) <=> e \in Users
  PROVE  Users' = Users
BY DEF TypeOK, Goes, Users, Phases

-----------------------------------------------------------------------------
(* Every step keeps the count right.                                       *)

(* The services are counted and registered as they are used, after every   *)
(* step of any entry.                                                      *)
LEMMA CountStep ==
  ASSUME IInv, [Next]_vars
  PROVE  ServicesWhileUsed'
<1> USE DEF IInv, CoordinatorInv
<1>1. ASSUME UNCHANGED <<instances, registered>>, Users' = Users
      PROVE  ServicesWhileUsed'
  BY <1>1 DEF ServicesWhileUsed
<1>2. CASE UNCHANGED vars
  BY <1>1, <1>2 DEF vars, Users
<1>3. ASSUME NEW e \in Entries, StartSetup(e)
      PROVE  ServicesWhileUsed'
  BY <1>1, <1>3, SameUsers DEF StartSetup, Phases, Users
<1>4. ASSUME NEW e \in Entries, RefreshFails(e) PROVE ServicesWhileUsed'
  BY <1>1, <1>4, SameUsers DEF RefreshFails, Phases, Users
<1>5. ASSUME NEW e \in Entries, Refreshed(e) PROVE ServicesWhileUsed'
  BY <1>1, <1>5, SameUsers DEF Refreshed, Phases, Users
<1>6. ASSUME NEW e \in Entries, NEW p \in PLATFORMS, LoadPlatform(e, p)
      PROVE  ServicesWhileUsed'
  BY <1>1, <1>6 DEF LoadPlatform, Users
<1>7. ASSUME NEW e \in Entries, ForwardFails(e) PROVE ServicesWhileUsed'
  BY <1>1, <1>7, SameUsers DEF ForwardFails, Phases, Users
<1>8. ASSUME NEW e \in Entries, Forwarded(e) PROVE ServicesWhileUsed'
  <2>1. PICK ok \in BOOLEAN :
            /\ ~ok => instances = 0
            /\ SetupServices(ok)
            /\ Goes(e, IF ok THEN "loaded" ELSE "rollback")
    BY <1>8 DEF Forwarded
  <2>2. e \notin Users
    BY <1>8 DEF Forwarded, Users
  <2>3. CASE ok
    <3>1. Users' = Users \cup {e}
      BY <2>1, <2>3 DEF Goes, Users, TypeOK
    <3>2. instances' = Cardinality(Users')
      BY <2>1, <2>2, <2>3, <3>1, UsersFinite, FS_AddElement
         DEF SetupServices, ServicesWhileUsed
    <3>3. registered'
      BY <2>1, <2>3, NoUsers DEF SetupServices, ServicesWhileUsed
    <3> QED  BY <3>1, <3>2, <3>3 DEF ServicesWhileUsed
  <2>4. CASE ~ok
    <3>1. Users' = Users
      BY <2>1, <2>2, <2>4, SameUsers DEF Phases
    <3>2. instances' = instances /\ registered' = registered
      BY <2>1, <2>4, NoUsers DEF SetupServices, ServicesWhileUsed, TypeOK
    <3> QED  BY <1>1, <3>1, <3>2
  <2> QED  BY <2>3, <2>4
<1>9. ASSUME NEW e \in Entries, RolledBack(e) PROVE ServicesWhileUsed'
  BY <1>1, <1>9, SameUsers DEF RolledBack, Phases, Users
<1>10. ASSUME NEW e \in Entries, CancelSetup(e) PROVE ServicesWhileUsed'
  BY <1>1, <1>10, SameUsers DEF CancelSetup, Phases, Users
<1>11. ASSUME NEW e \in Entries, StartUnload(e) PROVE ServicesWhileUsed'
  BY <1>1, <1>11, SameUsers DEF StartUnload, Phases, Users
<1>12. ASSUME NEW e \in Entries, Unloaded(e) PROVE ServicesWhileUsed'
  <2>1. e \in Users
    BY <1>12 DEF Unloaded, Users
  <2>2. Users' = Users \ {e}
    BY <1>12 DEF Unloaded, Goes, Users, TypeOK
  <2>3. instances > 0 /\ registered
    BY <2>1, NoUsers DEF ServicesWhileUsed
  <2>4. instances' = instances - 1 /\ registered' = (instances' > 0)
    BY <1>12, <2>3 DEF Unloaded, UnloadServices, OneLess, TypeOK
  <2>5. instances' = Cardinality(Users')
    BY <2>1, <2>2, <2>4, UsersFinite, FS_RemoveElement DEF ServicesWhileUsed
  <2>6. IsFiniteSet(Users')
    BY <2>2, UsersFinite, FS_RemoveElement
  <2>7. Cardinality(Users') \in Nat /\ (Cardinality(Users') = 0 <=> Users' = {})
    BY <2>6, FS_EmptySet, FS_CardinalityType
  <2>8. instances' > 0 <=> Users' # {}
    BY <2>5, <2>7
  <2>9. registered' <=> Users' # {}
    BY <2>4, <2>8, Zenon
  <2> QED  BY <2>5, <2>9 DEF ServicesWhileUsed
<1>13. ASSUME NEW e \in Entries, UnloadFails(e) PROVE ServicesWhileUsed'
  BY <1>1, <1>13, SameUsers DEF UnloadFails, Phases, Users
<1> QED
  BY <1>2, <1>3, <1>4, <1>5, <1>6, <1>7, <1>8, <1>9, <1>10, <1>11, <1>12, <1>13
     DEF Next

-----------------------------------------------------------------------------
(* The rest of the invariant.                                              *)

(* Every step keeps the types, the coordinators that are needed and the    *)
(* absence of those that are not.                                          *)
LEMMA CoordinatorStep ==
  ASSUME IInv, [Next]_vars
  PROVE  CoordinatorInv'
<1> USE DEF IInv, CoordinatorInv, TypeOK, CoordinatorFound, NothingLeftBehind,
            FreshCoordinator, Users, Phases, Goes
<1>1. CASE UNCHANGED vars
  BY <1>1 DEF vars
<1>2. ASSUME NEW e \in Entries, StartSetup(e)
      PROVE  CoordinatorInv'
  BY <1>2 DEF StartSetup
<1>3. ASSUME NEW e \in Entries, RefreshFails(e)
      PROVE  CoordinatorInv'
  BY <1>3 DEF RefreshFails
<1>4. ASSUME NEW e \in Entries, Refreshed(e)
      PROVE  CoordinatorInv'
  BY <1>4 DEF Refreshed
<1>5. ASSUME NEW e \in Entries, NEW p \in PLATFORMS, LoadPlatform(e, p)
      PROVE  CoordinatorInv'
  BY <1>5 DEF LoadPlatform
<1>6. ASSUME NEW e \in Entries, ForwardFails(e)
      PROVE  CoordinatorInv'
  BY <1>6 DEF ForwardFails
<1>7. ASSUME NEW e \in Entries, Forwarded(e)
      PROVE  CoordinatorInv'
  BY <1>7 DEF Forwarded, SetupServices
<1>8. ASSUME NEW e \in Entries, RolledBack(e)
      PROVE  CoordinatorInv'
  BY <1>8 DEF RolledBack, Drop
<1>9. ASSUME NEW e \in Entries, CancelSetup(e)
      PROVE  CoordinatorInv'
  BY <1>9 DEF CancelSetup
<1>10. ASSUME NEW e \in Entries, StartUnload(e)
       PROVE  CoordinatorInv'
  BY <1>10 DEF StartUnload
<1>11. ASSUME NEW e \in Entries, Unloaded(e)
       PROVE  CoordinatorInv'
  BY <1>11 DEF Unloaded, Drop, UnloadServices, OneLess
<1>12. ASSUME NEW e \in Entries, UnloadFails(e)
       PROVE  CoordinatorInv'
  BY <1>12 DEF UnloadFails
<1> QED
  BY <1>1, <1>2, <1>3, <1>4, <1>5, <1>6, <1>7, <1>8, <1>9, <1>10, <1>11, <1>12
     DEF Next

(* The invariant holds before any entry is set up.                         *)
LEMMA InitIInv == Init => IInv
<1> SUFFICES ASSUME Init PROVE IInv
  OBVIOUS
<1>1. Users = {}
  BY DEF Init, Users
<1>2. ServicesWhileUsed
  BY <1>1, FS_EmptySet DEF Init, ServicesWhileUsed
<1>3. CoordinatorInv
  BY DEF Init, CoordinatorInv, TypeOK, CoordinatorFound, NothingLeftBehind,
         FreshCoordinator, Users, Phases
<1> QED  BY <1>2, <1>3 DEF IInv

(* The invariant always holds.                                             *)
LEMMA Inductive == Spec => []IInv
<1>1. IInv /\ [Next]_vars => IInv'
  BY CountStep, CoordinatorStep DEF IInv
<1> QED  BY InitIInv, <1>1, PTL DEF Spec

-----------------------------------------------------------------------------
(* Theorems.                                                               *)

(* The variables keep their types; the count is never negative.            *)
THEOREM TypeCorrect == Spec => []TypeOK
<1>1. IInv => TypeOK
  BY DEF IInv, CoordinatorInv
<1> QED  BY Inductive, <1>1, PTL

(* However many entries come and go, the services of the domain exist      *)
(* exactly while one of them uses them.                                    *)
THEOREM ServicesCounted == Spec => []ServicesWhileUsed
<1>1. IInv => ServicesWhileUsed
  BY DEF IInv
<1> QED  BY Inductive, <1>1, PTL

(* Platforms and services always find a coordinator that is connected.     *)
THEOREM AlwaysFound == Spec => []CoordinatorFound
<1>1. IInv => CoordinatorFound
  BY DEF IInv, CoordinatorInv
<1> QED  BY Inductive, <1>1, PTL

(* A set-up that fails and an unload leave no coordinator behind.          *)
THEOREM CleanedUp == Spec => []NothingLeftBehind
<1>1. IInv => NothingLeftBehind
  BY DEF IInv, CoordinatorInv
<1> QED  BY Inductive, <1>1, PTL

=============================================================================
