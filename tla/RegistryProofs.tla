--------------------------- MODULE RegistryProofs ---------------------------
(***************************************************************************)
(* Registry.tla for every set of registries, read through either surface.  *)
(***************************************************************************)
EXTENDS Registry, TLAPS

(* The types are right in every reachable state. *)
THEOREM TypeCorrect == Spec => []TypeOK
<1>1. Init => TypeOK
  BY DEF Init, TypeOK, NoResults, NoEntries, Entries
<1>2. TypeOK /\ [Next]_vars => TypeOK'
  <2> SUFFICES ASSUME TypeOK, [Next]_vars PROVE TypeOK'
    OBVIOUS
  <2>1. CASE HealthChange \/ \E r \in Registries : Create(r) \/ Delete(r)
    BY <2>1 DEF TypeOK, HealthChange, Create, Delete, refreshVars
  <2>2. CASE ListMulti \/ ListMultiFails \/ GetSingle
    BY <2>2 DEF TypeOK, ListMulti, ListMultiFails, GetSingle
  <2>3. CASE GetNotFound \/ GetFails \/ SubscriptionFails
    BY <2>3 DEF TypeOK, GetNotFound, GetFails, SubscriptionFails, Return, NoResults, NoEntries, Entries
  <2>4. CASE Subscription
    BY <2>4 DEF TypeOK, Subscription
  <2>5. ASSUME NEW r \in Registries, Repositories(r) \/ RepositoriesFail(r)
        PROVE  TypeOK'
    BY <2>5 DEF TypeOK, Repositories, RepositoriesFail, Result
  <2>6. CASE Finish
    <3>1. \A r \in Registries : previous(r) \in Entries
      BY DEF previous, Entries
    <3>2. snap' \in [Registries -> Entries]
      BY <2>6, <3>1, Zenon DEF Finish, swap, Entries
    <3>3. QED
      BY <2>6, <3>2 DEF TypeOK, Finish, Return, NoResults
  <2>7. CASE UNCHANGED vars
    BY <2>7 DEF TypeOK, vars, refreshVars
  <2>8. QED
    BY <2>1, <2>2, <2>3, <2>4, <2>5, <2>6, <2>7 DEF Next, Refresh
<1>3. QED
  BY <1>1, <1>2, PTL DEF Spec

-----------------------------------------------------------------------------
(* What a refresh has listed was there when it began or came after: a       *)
(* registry that was never missing is listed.  Before the listing there is  *)
(* nothing listed.                                                          *)
ListedAll ==
  /\ phase \in {"idle", "single"} => listed = {}
  /\ phase \in {"single", "subscription", "read"} => Registries \ lacked \subseteq account
  /\ phase \in {"subscription", "read"} => Registries \ lacked \subseteq listed

Inv == TypeOK /\ ListedAll

(* ListedAll is inductive: a deletion during the refresh is recorded in     *)
(* lacked, and the listing names every registry that exists.                *)
THEOREM Invariance == Spec => []Inv
<1>1. Init => Inv
  BY DEF Init, Inv, TypeOK, ListedAll, NoResults, NoEntries, Entries
<1>2. Inv /\ TypeOK' /\ [Next]_vars => Inv'
  <2> SUFFICES ASSUME Inv, TypeOK', [Next]_vars PROVE ListedAll'
    BY DEF Inv
  <2>1. ASSUME NEW r \in Registries, Create(r)
        PROVE  ListedAll'
    BY <2>1 DEF Create, Inv, TypeOK, ListedAll, refreshVars
  <2>2. ASSUME NEW r \in Registries, Delete(r)
        PROVE  ListedAll'
    BY <2>2 DEF Delete, Inv, TypeOK, ListedAll, refreshVars
  <2>3. CASE HealthChange \/ UNCHANGED vars
    BY <2>3 DEF HealthChange, vars, Inv, ListedAll, refreshVars
  <2>4. CASE ListMulti \/ ListMultiFails
    BY <2>4 DEF ListMulti, ListMultiFails, Inv, TypeOK, ListedAll
  <2>5. CASE GetSingle \/ Subscription
    BY <2>5 DEF GetSingle, Subscription, Inv, TypeOK, ListedAll
  <2>6. CASE GetNotFound \/ GetFails \/ SubscriptionFails \/ Finish
    BY <2>6 DEF GetNotFound, GetFails, SubscriptionFails, Finish, Return, ListedAll
  <2>7. ASSUME NEW r \in Registries, Repositories(r) \/ RepositoriesFail(r)
        PROVE  ListedAll'
    BY <2>7 DEF Repositories, RepositoriesFail, Result, Inv, ListedAll
  <2>8. QED
    BY <2>1, <2>2, <2>3, <2>4, <2>5, <2>6, <2>7 DEF Next, Refresh
<1>3. QED
  BY <1>1, <1>2, TypeCorrect, PTL DEF Spec

-----------------------------------------------------------------------------
(* Only the end of a refresh and an absent account change the snapshot. *)
LEMMA SnapChanges ==
  ASSUME Next, snap' # snap
  PROVE  Finish \/ GetNotFound
BY DEF Next, Refresh, ListMulti, ListMultiFails, GetSingle, GetFails, Subscription, SubscriptionFails,
       Repositories, RepositoriesFail, Result, HealthChange, Create, Delete

(* What swap makes of one registry. *)
LEMMA SwapEntry ==
  ASSUME TypeOK, Finish, NEW r \in Registries
  PROVE  /\ r \notin listed => snap'[r] = "absent"
         /\ r \in listed => snap'[r] \in {"up", previous(r)}
<1>1. CASE r \notin listed
  <2>1. r \notin Read
    BY <1>1 DEF Read
  <2>2. snap'[r] = "absent"
    BY <1>1, <2>1, Zenon DEF Finish, swap
  <2>3. QED
    BY <1>1, <2>2
<1>2. CASE r \in Read
  <2>1. r \in listed
    BY <1>2 DEF Read
  <2>2. snap'[r] = "up"
    BY <1>2, <2>1, Zenon DEF Finish, swap
  <2>3. QED
    BY <2>1, <2>2
<1>3. CASE r \in listed /\ r \notin Read
  <2>1. snap'[r] = previous(r)
    BY <1>3, Zenon DEF Finish, swap
  <2>2. QED
    BY <1>3, <2>1
<1>4. QED
  BY <1>1, <1>2, <1>3

(* A registry's repositories outlive any run of failures to list them. *)
THEOREM RepositoriesAreKept == Spec => RepositoriesSurvive
<1>1. TypeOK /\ [Next]_vars =>
        [\A r \in Registries : snap[r] \in {"down", "up"} /\ snap'[r] # "absent"
                                 => snap'[r] \in {"down", "up"}]_vars
  <2> SUFFICES ASSUME TypeOK, Next, NEW r \in Registries,
                      snap[r] \in {"down", "up"}, snap'[r] # "absent"
               PROVE  snap'[r] \in {"down", "up"}
    BY DEF vars
  <2>1. CASE Finish
    BY <2>1, SwapEntry DEF previous
  <2>2. CASE GetNotFound
    BY <2>2 DEF GetNotFound, NoEntries
  <2>3. CASE snap' = snap
    BY <2>3
  <2>4. QED
    BY <2>1, <2>2, <2>3, SnapChanges
<1>2. QED
  BY <1>1, TypeCorrect, PTL DEF Spec, RepositoriesSurvive

(* A registry that exists throughout a refresh that listed any is still     *)
(* reported at its end.                                                     *)
THEOREM ListedIsKept == Spec => ListedStays
<1>1. Inv /\ [Next]_vars =>
        [listed # {} /\ snap' # snap => Registries \ lacked \subseteq Shown']_vars
  <2> SUFFICES ASSUME Inv, Next, listed # {}, snap' # snap, NEW r \in Registries \ lacked
               PROVE  snap'[r] # "absent"
    BY DEF vars, Shown
  <2>1. Finish
    BY SnapChanges DEF GetNotFound, Inv, ListedAll
  <2>2. r \in listed
    BY <2>1 DEF Finish, Inv, ListedAll
  <2>3. QED
    BY <2>1, <2>2, SwapEntry DEF Inv, previous
<1>2. QED
  BY <1>1, Invariance, PTL DEF Spec, ListedStays
=============================================================================
