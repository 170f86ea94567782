---------------------------- MODULE SpacesProofs ----------------------------
(***************************************************************************)
(* Spaces.tla for every set of names and regions, every configuration and  *)
(* every account.  The inductive invariant Inv says where a refresh stands *)
(* and what the snapshot and the region cache owe to the results they were *)
(* made from.                                                              *)
(***************************************************************************)
EXTENDS Spaces, TLAPS

(* What would be remembered for a name is a region it was found in, if any. *)
LEMMA FoundIsRegion ==
  ASSUME NEW n \in Names, NEW kept
  PROVE  Kept(kept)[n] \in Found(n, kept) \/ Kept(kept)[n] = Nowhere
<1>1. Found(n, kept) # {} => (CHOOSE r \in Found(n, kept) : TRUE) \in Found(n, kept)
  OBVIOUS
<1>2. QED
  BY <1>1 DEF Kept

(* The types are right in every reachable state. *)
THEOREM TypeCorrect == Spec => []TypeOK
<1>1. Init => TypeOK
  BY DEF Init, TypeOK, Phases, Entries, NoResults
<1>2. TypeOK /\ [Next]_vars => TypeOK'
  <2> SUFFICES ASSUME TypeOK, [Next]_vars PROVE TypeOK'
    OBVIOUS
  <2>1. CASE HealthChange
    BY <2>1 DEF TypeOK, HealthChange, refreshVars
  <2>2. ASSUME NEW n \in Names, NEW where \in Regions \cup {Nowhere}, Move(n, where)
        PROVE  TypeOK'
    BY <2>2 DEF TypeOK, Move, refreshVars
  <2>3. CASE UseConfigured
    BY <2>3, SpacesAssumption DEF TypeOK, UseConfigured, Phases
  <2>4. CASE ListBuckets
    BY <2>4 DEF TypeOK, ListBuckets, Phases
  <2>5. CASE ListFails
    BY <2>5 DEF TypeOK, ListFails, refreshVars
  <2>6. CASE AllLocated \/ AllMeasured
    BY <2>6 DEF TypeOK, AllLocated, AllMeasured, Phases, refreshVars
  <2>7. ASSUME NEW n \in Names, UseCached(n) \/ Locate(n) \/ AssumeDefault(n)
        PROVE  TypeOK'
    <3>1. PICK region \in Regions : Choose(n, region)
      BY <2>7, SpacesAssumption DEF TypeOK, UseCached, Locate, AssumeDefault
    <3>2. QED
      BY <3>1 DEF TypeOK, Choose, Bucket
  <2>8. ASSUME NEW b \in Bucket, Head(b) \/ HeadFails(b)
        PROVE  TypeOK'
    BY <2>8 DEF TypeOK, Head, HeadFails, Measured
  <2>9. CASE Merge
    <3>1. \A b \in Bucket : Carried(b) \in Entries
      BY DEF Carried, Entries
    <3>2. snap' \in [Bucket -> Entries]
      BY <2>9, <3>1, Zenon DEF Merge, Entries
    <3>3. QED
      BY <2>9, <3>2 DEF TypeOK, Merge, Phases, refreshVars
  <2>10. CASE Finish
    <3>1. Kept({"ok"}) \in [Names -> Regions \cup {Nowhere}]
      BY FoundIsRegion DEF Kept, Found
    <3>2. located' \in [Names -> Regions \cup {Nowhere}]
      BY <2>10, <3>1 DEF TypeOK, Finish, Remember
    <3>3. QED
      BY <2>10, <3>2 DEF TypeOK, Finish, Judge, Phases, NoResults
  <2>11. CASE UNCHANGED vars
    BY <2>11 DEF TypeOK, vars, refreshVars
  <2>12. QED
    BY <2>1, <2>2, <2>3, <2>4, <2>5, <2>6, <2>7, <2>8, <2>9, <2>10, <2>11 DEF Next, Work
<1>3. QED
  BY <1>1, <1>2, PTL DEF Spec

-----------------------------------------------------------------------------
(* Only a bucket of this refresh has an answer. *)
Asked == /\ phase = "idle" => targets = {}
         /\ \A b \in Bucket : results[b] # "none" => b \in targets

(* Between the merge and the end of a refresh, whatever answered is up. *)
Shown == phase = "remember" => \A b \in targets : results[b] = "ok" => snap[b] = "up"

(* Until the next merge, the cache is what the last one proved.  Configured *)
(* buckets are never cached.                                                *)
Proven == /\ discovering /\ phase \notin {"remember"} =>
               \A n \in Names : located[n] # Nowhere => snap[<<n, located[n]>>] = "up"
          /\ ~discovering => \A n \in Names : located[n] = Nowhere

Inv == TypeOK /\ Asked /\ Shown /\ Proven

(* Inv is inductive. *)
LEMMA InvStep ==
  ASSUME Inv, TypeOK', [Next]_vars
  PROVE  Inv'
<1>1. CASE Merge
  <2>1. ASSUME NEW b \in targets, results[b] = "ok"
        PROVE  snap'[b] = "up"
    <3>1. b \in Bucket /\ ~(b \notin targets)
      BY <2>1 DEF Inv, TypeOK
    <3>2. QED
      BY <1>1, <2>1, <3>1, Zenon DEF Merge
  <2>2. QED
    BY <1>1, <2>1 DEF Merge, Inv, Asked, Shown, Proven, refreshVars
<1>2. CASE Finish
  <2>1. ASSUME NEW n \in Names, discovering, located'[n] # Nowhere
        PROVE  snap[<<n, located'[n]>>] = "up"
    <3>1. located'[n] \in Found(n, {"ok"})
      BY <1>2, <2>1, FoundIsRegion DEF Finish, Remember
    <3>2. QED
      BY <1>2, <3>1 DEF Finish, Found, Inv, Shown
  <2>2. QED
    BY <1>2, <2>1 DEF Finish, Remember, NoResults, Inv, Asked, Shown, Proven
<1>3. ASSUME NEW n \in Names, UseCached(n) \/ Locate(n) \/ AssumeDefault(n)
      PROVE  Inv'
  BY <1>3 DEF UseCached, Locate, AssumeDefault, Choose, Inv, Asked, Shown, Proven
<1>4. ASSUME NEW b \in Bucket, Head(b) \/ HeadFails(b)
      PROVE  Inv'
  BY <1>4 DEF Head, HeadFails, Measured, TypeOK, Inv, Asked, Shown, Proven
<1>5. CASE \/ UseConfigured \/ ListBuckets \/ ListFails \/ AllLocated \/ AllMeasured \/ HealthChange
           \/ \E n \in Names, where \in Regions \cup {Nowhere} : Move(n, where)
           \/ UNCHANGED vars
  BY <1>5 DEF UseConfigured, ListBuckets, ListFails, AllLocated, AllMeasured, HealthChange, Move,
              vars, refreshVars, Inv, Asked, Shown, Proven
<1>6. QED
  BY <1>1, <1>2, <1>3, <1>4, <1>5 DEF Next, Work

(* Inv holds in every reachable state. *)
THEOREM Invariance == Spec => []Inv
<1>1. Init => Inv
  BY DEF Init, Inv, TypeOK, Asked, Shown, Proven, Phases, Entries, NoResults
<1>2. Inv /\ TypeOK' /\ [Next]_vars => Inv'
  BY InvStep
<1>3. QED
  BY <1>1, <1>2, TypeCorrect, PTL DEF Spec

-----------------------------------------------------------------------------
(* No region that was only assumed is ever remembered. *)
THEOREM OnlyProvenRegions == Spec => []CacheIsProven
<1>1. Inv => CacheIsProven
  BY DEF Inv, Proven, CacheIsProven
<1>2. QED
  BY <1>1, Invariance, PTL

(* A failing bucket keeps its figures for as long as it is measured. *)
THEOREM FiguresAreKept == Spec => EntryKeepsFigures
<1>1. Inv /\ [Next]_vars =>
        [\A b \in Bucket : snap[b] \in HasFigures /\ snap'[b] # "absent" => snap'[b] \in HasFigures]_vars
  <2> SUFFICES ASSUME Inv, Next, NEW b \in Bucket, snap[b] \in HasFigures, snap'[b] # "absent"
               PROVE  snap'[b] \in HasFigures
    BY DEF vars
  <2>1. CASE Merge
    <3>1. results[b] = "ok" => b \in targets
      BY DEF Inv, Asked
    <3>2. CASE b \notin targets
      <4>1. snap'[b] = "absent"
        BY <2>1, <3>1, <3>2, Zenon DEF Merge
      <4>2. QED
        BY <4>1
    <3>3. CASE b \in targets /\ results[b] = "ok"
      <4>1. snap'[b] = "up"
        BY <2>1, <3>3, Zenon DEF Merge
      <4>2. QED
        BY <4>1 DEF HasFigures
    <3>4. CASE b \in targets /\ results[b] # "ok"
      <4>1. snap'[b] = Carried(b)
        BY <2>1, <3>4, Zenon DEF Merge
      <4>2. QED
        BY <4>1 DEF Carried, HasFigures
    <3>5. QED
      BY <3>2, <3>3, <3>4
  <2>2. CASE ~Merge
    <3>1. snap' = snap
      BY <2>2 DEF Next, Work, UseConfigured, ListBuckets, ListFails, AllLocated, AllMeasured, Finish,
                  UseCached, Locate, AssumeDefault, Choose, Head, HeadFails, Measured, HealthChange, Move
    <3>2. QED
      BY <3>1
  <2>3. QED
    BY <2>1, <2>2
<1>2. QED
  BY <1>1, Invariance, PTL DEF Spec, EntryKeepsFigures
=============================================================================
