------------------------------- MODULE Spaces -------------------------------
(***************************************************************************)
(* internal/collector/spaces/spaces.go: measuring buckets that are either  *)
(* named in the configuration or discovered, where a discovered bucket's   *)
(* region is remembered from the refresh that last measured it there.      *)
(*                                                                         *)
(* Buckets are created, deleted and re-created elsewhere at any moment,    *)
(* also between the steps of a refresh, and any request may fail.          *)
(***************************************************************************)
EXTENDS Integers, FiniteSets

CONSTANTS
  Names,       \* bucket names
  Regions,     \* Spaces regions
  Default,     \* Config.Region
  Nowhere,     \* stands for a missing region: no such bucket, no entry, not chosen
  Configured,  \* the buckets a configuration that names them names
  Movable      \* buckets that may be created, deleted and re-created elsewhere

Bucket == Names \X Regions

ASSUME SpacesAssumption == /\ Default \in Regions
                           /\ Nowhere \notin Regions
                           /\ Configured \subseteq Bucket
                           /\ Movable \subseteq Names

VARIABLES
  home,         \* where each bucket lives now, if it exists
  healthy,      \* whether requests that can succeed do
  discovering,  \* fixed by the configuration
  phase,        \* "idle", "locate", "measure", "merge" or "remember"
  listed,       \* names discovery still has to find a region for
  targets,      \* the buckets of this refresh (resolveBuckets)
  results,      \* per target measured so far, whether it answered
  snap,         \* c.snap: what each bucket's entry shows
  located,      \* c.located
  verdict       \* what the last finished refresh returned

refreshVars == <<listed, targets, results>>
vars == <<home, healthy, discovering, phase, refreshVars, snap, located, verdict>>

(* "unknown": up 0 and no figures.  "down": up 0 with earlier figures. *)
Entries == {"absent", "unknown", "down", "up"}
HasFigures == {"down", "up"}
Phases == {"idle", "locate", "measure", "merge", "remember"}

TypeOK ==
  /\ home \in [Names -> Regions \cup {Nowhere}]
  /\ healthy \in BOOLEAN /\ discovering \in BOOLEAN
  /\ phase \in Phases
  /\ listed \subseteq Names
  /\ targets \subseteq Bucket
  /\ results \in [Bucket -> {"none", "ok", "failed"}]
  /\ snap \in [Bucket -> Entries]
  /\ located \in [Names -> Regions \cup {Nowhere}]
  /\ verdict \in {"none", "ok", "error"}

NoResults == [b \in Bucket |-> "none"]

Init ==
  /\ home \in [Names -> Regions \cup {Nowhere}]
  /\ healthy = TRUE
  /\ discovering \in BOOLEAN
  /\ phase = "idle" /\ listed = {} /\ targets = {} /\ results = NoResults
  /\ snap = [b \in Bucket |-> "absent"]
  /\ located = [n \in Names |-> Nowhere]
  /\ verdict = "none"

-----------------------------------------------------------------------------
(* The account. *)

Move(n, where) == /\ n \in Movable
                  /\ home[n] # where
                  /\ home' = [home EXCEPT ![n] = where]
                  /\ UNCHANGED <<healthy, discovering, phase, refreshVars, snap, located, verdict>>

HealthChange == /\ healthy' = ~healthy
                /\ UNCHANGED <<home, discovering, phase, refreshVars, snap, located, verdict>>

-----------------------------------------------------------------------------
(* resolveBuckets *)

UseConfigured == /\ phase = "idle"
                 /\ ~discovering
                 /\ targets' = Configured
                 /\ phase' = "measure"
                 /\ UNCHANGED <<home, healthy, discovering, listed, results, snap, located, verdict>>

ListBuckets == /\ phase = "idle"
               /\ discovering
               /\ listed' = {n \in Names : home[n] # Nowhere}
               /\ phase' = "locate"
               /\ UNCHANGED <<home, healthy, discovering, targets, results, snap, located, verdict>>

ListFails == /\ phase = "idle"
             /\ discovering
             /\ ~healthy
             /\ verdict' = "error"
             /\ UNCHANGED <<home, healthy, discovering, phase, refreshVars, snap, located>>

Choose(n, region) ==
  /\ phase = "locate"
  /\ n \in listed
  /\ listed' = listed \ {n}
  /\ targets' = targets \cup {<<n, region>>}
  /\ UNCHANGED <<home, healthy, discovering, phase, results, snap, located, verdict>>

(* regionOf, with a cached region *)
UseCached(n) == located[n] # Nowhere /\ Choose(n, located[n])

(* regionOf: asked and answered, or assumed to be the default (locate) *)
Locate(n) == located[n] = Nowhere /\ home[n] # Nowhere /\ Choose(n, home[n])

AssumeDefault(n) == /\ located[n] = Nowhere
                    /\ ~healthy \/ home[n] = Nowhere
                    /\ Choose(n, Default)

AllLocated == /\ phase = "locate"
              /\ listed = {}
              /\ phase' = "measure"
              /\ UNCHANGED <<home, healthy, discovering, refreshVars, snap, located, verdict>>

-----------------------------------------------------------------------------
(* measureAll: one HEAD per bucket, in any order; a bucket answers only     *)
(* where it lives.                                                          *)

Measured(b, outcome) ==
  /\ phase = "measure"
  /\ b \in targets
  /\ results[b] = "none"
  /\ results' = [results EXCEPT ![b] = outcome]
  /\ UNCHANGED <<home, healthy, discovering, phase, listed, targets, snap, located, verdict>>

Head(b) == home[b[1]] = b[2] /\ Measured(b, "ok")

HeadFails(b) == (~healthy \/ home[b[1]] # b[2]) /\ Measured(b, "failed")

AllMeasured == /\ phase = "measure"
               /\ \A b \in targets : results[b] # "none"
               /\ phase' = "merge"
               /\ UNCHANGED <<home, healthy, discovering, refreshVars, snap, located, verdict>>

-----------------------------------------------------------------------------
(* Mutant: a bucket that failed is reported without its earlier figures. *)
CarriedBlank(b) == "unknown"

(* Mutant: the outcome of the request is taken for the entry. *)
CarriedOutcome(b) == results[b]

Carried(b) == IF snap[b] \in HasFigures THEN "down" ELSE "unknown"

Merge == /\ phase = "merge"
         /\ snap' = [b \in Bucket |-> CASE b \notin targets    -> "absent"
                                        [] results[b] = "ok"   -> "up"
                                        [] OTHER               -> Carried(b)]
         /\ phase' = "remember"
         /\ UNCHANGED <<home, healthy, discovering, refreshVars, located, verdict>>

Found(n, kept) == {r \in Regions : <<n, r>> \in targets /\ results[<<n, r>>] \in kept}

Kept(kept) == [n \in Names |-> IF Found(n, kept) = {} THEN Nowhere
                               ELSE CHOOSE r \in Found(n, kept) : TRUE]

(* Mutant: a region is remembered whether or not the bucket answered there. *)
RememberAll == located' = IF discovering THEN Kept({"ok", "failed"}) ELSE located

(* Mutant: what was remembered before is kept beside what this refresh proved. *)
RememberAdds ==
  located' = IF discovering
               THEN [n \in Names |-> IF Kept({"ok"})[n] = Nowhere THEN located[n] ELSE Kept({"ok"})[n]]
               ELSE located

(* rememberRegions *)
Remember == located' = IF discovering THEN Kept({"ok"}) ELSE located

Answered == {b \in targets : results[b] = "ok"}

Judge == IF targets # {} /\ Answered = {} THEN "error" ELSE "ok"

Finish == /\ phase = "remember"
          /\ Remember
          /\ verdict' = Judge
          /\ phase' = "idle"
          /\ targets' = {} /\ results' = NoResults
          /\ UNCHANGED <<home, healthy, discovering, listed, snap>>

-----------------------------------------------------------------------------
Work == \/ UseConfigured \/ ListBuckets \/ ListFails \/ AllLocated \/ AllMeasured \/ Merge \/ Finish
        \/ \E n \in Names : UseCached(n) \/ Locate(n) \/ AssumeDefault(n)
        \/ \E b \in Bucket : Head(b) \/ HeadFails(b)

Next == \/ Work \/ HealthChange
        \/ \E n \in Names, where \in Regions \cup {Nowhere} : Move(n, where)

Spec == Init /\ [][Next]_vars

(* The scheduler refreshes for ever and every request is bounded. *)
FairSpec == Spec /\ WF_vars(Work)

-----------------------------------------------------------------------------
(* A region is remembered only on the strength of the entry that shows it:  *)
(* between refreshes, a cached region is one the bucket is up in, so a      *)
(* region that was assumed is never measured against again (rememberRegions)*)
CacheIsProven ==
  phase = "idle" /\ discovering =>
    \A n \in Names : located[n] # Nowhere => snap[<<n, located[n]>>] = "up"

(* However a bucket was mislaid - assumed to be in the default region, or   *)
(* re-created elsewhere under a cached name - once it stays put and the API *)
(* is well it is up where it lives, and shown nowhere else.                 *)
FoundAgain ==
  \A n \in Names, r \in Regions :
    <>[](discovering /\ healthy /\ home[n] = r) =>
      <>[](/\ snap[<<n, r>>] = "up"
           /\ \A q \in Regions \ {r} : snap[<<n, q>>] = "absent")

(* A bucket entry that has shown figures shows them for as long as it is    *)
(* measured under the same name and region (merge).                         *)
EntryKeepsFigures ==
  [][\A b \in Bucket : snap[b] \in HasFigures /\ snap'[b] # "absent" => snap'[b] \in HasFigures]_vars
=============================================================================
