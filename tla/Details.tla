------------------------------ MODULE Details ------------------------------
(***************************************************************************)
(* The collectors that list and then look something up per item:           *)
(*   kubernetes  the versions a cluster can be upgraded to                 *)
(*   databases   a cluster's replicas, then its backups                    *)
(*   projects    how many resources a project holds                        *)
(* uptime looks its checks' states up the way kubernetes does, without the *)
(* filter and the switch, so it is not told apart here.                    *)
(* Each walks the list (Paging.tla), looks the items up one by one and     *)
(* swaps the finished snapshot in.  An entry is the pair of its two halves *)
(* (replicas and backups; only databases can tell them apart), each        *)
(* "unknown", "stale" (an earlier refresh's) or "fresh".                   *)
(***************************************************************************)
EXTENDS Paging

VARIABLES
  asking,   \* the configuration asks for the details
  next,     \* per item: its entry in the snapshot being built
  half,     \* databases: the replicas of the cluster in hand have been read
  snap      \* c.snap

buildVars == <<next, half>>
detailVars == <<asking, buildVars, snap>>
vars == <<worldVars, phase, walkVars, detailVars>>

Entry(h) == <<h, h>>
Absent   == Entry("absent")
Unlooked == Entry("")   \* mutant: the zero value of an entry
Unknown  == Entry("unknown")
Fresh    == Entry("fresh")
Stages   == {"absent", "unknown", "stale", "fresh"}
Entries  == Stages \X Stages
Empty    == [i \in Items |-> Absent]

IsKnown(entry) == entry[1] \in {"stale", "fresh"}

TypeOK ==
  /\ WalkTypeOK
  /\ phase \in {"idle", "walk", "listed", "lookup"}
  /\ asking \in BOOLEAN /\ half \in BOOLEAN
  /\ next \in [Items -> Entries] /\ snap \in [Items -> Entries]

Init ==
  /\ WalkInit
  /\ asking \in BOOLEAN
  /\ asking \/ kind \in {"kubernetes", "databases"}
  /\ next = Empty /\ half = FALSE
  /\ snap = Empty

-----------------------------------------------------------------------------
(* Where in the list what is still to be looked up stands. *)
Waiting == {k \in DOMAIN out : out[k] \in Kept({out[k]}) /\ next[out[k]] = Absent}

(* The refresh returns, and what it held in its locals is gone. *)
Return == /\ phase' = "idle"
          /\ late' = FALSE
          /\ out' = << >> /\ next' = Empty /\ half' = FALSE
          /\ ForgetWalk
          /\ UNCHANGED <<kind, server, account, healthy, asking>>

Fails == Return /\ UNCHANGED snap

(* The first failure ends the walk and nothing is returned. *)
WalkFails == phase = "walk" /\ ~Answering /\ Fails

StartLookups == /\ phase = "listed"
                /\ phase' = "lookup"
                /\ ForgetWalk
                /\ UNCHANGED <<worldVars, out, detailVars>>

-----------------------------------------------------------------------------
Fill(i, entry) ==
  /\ next' = [next EXCEPT ![i] = entry]
  /\ half' = FALSE
  /\ UNCHANGED <<worldVars, phase, walkVars, asking, snap>>

(* refreshUpgrades, refreshDetails: the lookup is switched off. *)
Skip(i) == ~asking /\ Fill(i, Unknown)

(* A deleted item no longer answers; but to databases the 404 is an answer, *)
(* that of an engine without replicas or backups (engineDoesNotOffer).      *)
Responds(i) == Answering /\ (i \in Present \/ kind = "databases")

(* listReplicas *)
Replicas(i) ==
  /\ kind = "databases" /\ asking /\ ~half
  /\ Responds(i)
  /\ half' = TRUE
  /\ UNCHANGED <<worldVars, phase, walkVars, asking, next, snap>>

(* The lookup, or its second request, is answered. *)
LookUp(i) ==
  /\ asking
  /\ kind = "databases" => half
  /\ Responds(i)
  /\ Fill(i, Fresh)

(* previousUpgrades, previousDetails, previousStates, and measure's previous *)
Previous(i) == IF IsKnown(snap[i]) THEN Entry("stale") ELSE Unknown

(* Mutant: the replicas just read are kept beside the earlier backups. *)
KeepReplicas(i) ==
  /\ asking
  /\ ~Responds(i)
  /\ ~late \/ kind = "projects"
  /\ Fill(i, IF half THEN <<"fresh", Previous(i)[2]>> ELSE Previous(i))

LookUpFails(i) ==
  /\ asking
  /\ ~Responds(i)
  /\ ~late \/ kind = "projects"
  /\ Fill(i, Previous(i))

(* ... and with the context done the whole refresh fails, but in projects. *)
OutOfTime == /\ asking /\ late
             /\ kind # "projects"
             /\ Fails

-----------------------------------------------------------------------------
NoneMeasured == kind = "projects" /\ out # << >> /\ \A i \in Items : next[i] # Fresh

AllFailed == /\ phase = "lookup"
             /\ Waiting = {}
             /\ NoneMeasured
             /\ Fails

(* Mutant: what has been built so far is swapped in whenever the refresh ends. *)
SwapEarly == /\ phase = "lookup"
             /\ Waiting = {} \/ late
             /\ ~NoneMeasured
             /\ snap' = next
             /\ Return

Swap == /\ phase = "lookup"
        /\ Waiting = {}
        /\ ~NoneMeasured
        /\ snap' = next
        /\ Return

-----------------------------------------------------------------------------
Lookup == /\ phase = "lookup"
          /\ Waiting # {}
          /\ LET i == out[Min(Waiting)]
             IN  Skip(i) \/ Replicas(i) \/ LookUp(i) \/ LookUpFails(i) \/ OutOfTime

Refresh == \/ (Begin \/ All \/ listClusters) /\ UNCHANGED detailVars
           \/ WalkFails \/ StartLookups \/ Lookup \/ AllFailed \/ Swap

World == /\ \/ \E i \in Items : Create(i) \/ Destroy(i)
            \/ HealthChange \/ Expire
         /\ UNCHANGED detailVars

Next == Refresh \/ World

Spec == Init /\ [][Next]_vars

(* The scheduler refreshes for ever and every request is bounded. *)
FairSpec == Spec /\ WF_vars(Refresh)

-----------------------------------------------------------------------------
Shown == {i \in Items : snap[i] # Absent}

(* A cluster's details are one refresh's answer, never half of one and half *)
(* of another, whichever of its two requests fails (lookupDetails).         *)
DetailsWhole == \A i \in Items : snap[i][1] = snap[i][2]

(* Details that were once known stay known for as long as the item is       *)
(* listed, through any run of failed lookups - and through refreshes that    *)
(* end between two lookups, whose half-built list is never shown: whenever   *)
(* the report changes, exactly what was listed is in it.  And of the projects *)
(* it does not change at all unless one could be counted: a list of counts   *)
(* carried over is no new report (ErrNoProjectMeasured).                     *)
CarriesOver(i) == IF i \in Kept(ToSet(out)) THEN IsKnown(snap[i]) => IsKnown(snap'[i])
                                     ELSE snap'[i] = Absent

KnownSurvives ==
  [][snap' # snap => /\ \A i \in Items : CarriesOver(i)
                     /\ kind = "projects" /\ out # << >> => \E i \in Items : snap'[i] = Fresh]_vars

(* Once DigitalOcean answers and the account stands still, the collector    *)
(* shows exactly the account, every detail this refresh's own - whatever    *)
(* walks were cut short, shifted or failed before.                          *)
Settles ==
  <>[](healthy /\ asking) /\ <>[][UNCHANGED account]_vars =>
    <>[](/\ Shown = Kept(Present)
         /\ \A i \in Shown : snap[i] = Fresh)
=============================================================================
