------------------------------ MODULE Registry ------------------------------
(***************************************************************************)
(* internal/collector/registry/registry.go: an account's container         *)
(* registries are read through /v2/registries, or through the older        *)
(* single-registry /v2/registry where that names none - and a refresh has  *)
(* to stay on the surface its listing came from.                           *)
(*                                                                         *)
(* Registries are created and deleted at any moment, also between the      *)
(* requests of a refresh, and any request may fail.  One registry's        *)
(* repositories, however many pages, are one outcome.                      *)
(***************************************************************************)
EXTENDS FiniteSets, Naturals

CONSTANT Registries

VARIABLES
  account,   \* the registries that exist
  offered,   \* /v2/registries serves this account; otherwise it fails or names nothing
  healthy,   \* DigitalOcean answers, well-formed and in time
  phase,     \* "idle", then "single", "subscription", "read"
  listErr,   \* listing /v2/registries failed (list's err)
  listed, multi, results,  \* what the listing named, from which surface; readAll's results
  snap,      \* c.snap: what each registry's entry shows
  lacked     \* history: registries that did not exist at some moment of the refresh

refreshVars == <<phase, listErr, listed, multi, results>>
vars == <<account, offered, healthy, refreshVars, snap, lacked>>

(* "unknown": up 0, no repositories ever listed.  "down": up 0 with those of *)
(* an earlier refresh.                                                       *)
Entries == {"absent", "unknown", "down", "up"}

TypeOK ==
  /\ account \subseteq Registries
  /\ offered \in BOOLEAN /\ healthy \in BOOLEAN
  /\ phase \in {"idle", "single", "subscription", "read"}
  /\ listErr \in BOOLEAN /\ multi \in BOOLEAN
  /\ listed \subseteq Registries
  /\ results \in [Registries -> {"none", "ok", "failed"}]
  /\ snap \in [Registries -> Entries]
  /\ lacked \subseteq Registries

NoResults == [r \in Registries |-> "none"]
NoEntries == [r \in Registries |-> "absent"]

Init ==
  /\ account = {} /\ offered \in BOOLEAN /\ healthy = TRUE
  /\ phase = "idle" /\ listErr = FALSE /\ multi = FALSE
  /\ listed = {} /\ results = NoResults
  /\ snap = NoEntries
  /\ lacked = {}

-----------------------------------------------------------------------------
(* The account.  Only the newer API can hold more than one registry. *)

Create(r) == /\ r \notin account
             /\ offered \/ account = {}
             /\ account' = account \cup {r}
             /\ UNCHANGED <<offered, healthy, refreshVars, snap, lacked>>

Delete(r) == /\ r \in account
             /\ account' = account \ {r}
             /\ lacked' = IF phase = "idle" THEN lacked ELSE lacked \cup {r}
             /\ UNCHANGED <<offered, healthy, refreshVars, snap>>

HealthChange == /\ healthy' = ~healthy
                /\ UNCHANGED <<account, offered, refreshVars, snap, lacked>>

(* Once an account holds several, the single-registry surface stops answering. *)
SingleAnswers == Cardinality(account) <= 1

-----------------------------------------------------------------------------
(* Refresh returns: its locals are gone. *)
Return == /\ phase' = "idle"
          /\ listErr' = FALSE /\ multi' = FALSE
          /\ listed' = {} /\ results' = NoResults
          /\ lacked' = {}
          /\ UNCHANGED <<account, offered, healthy>>

(* list, first through /v2/registries *)
ListMulti ==
  /\ phase = "idle"
  /\ lacked' = Registries \ account
  /\ IF offered /\ account # {}
       THEN phase' = "subscription" /\ listed' = account /\ multi' = TRUE
       ELSE phase' = "single" /\ UNCHANGED <<listed, multi>>
  /\ UNCHANGED <<account, offered, healthy, listErr, results, snap>>

ListMultiFails ==
  /\ phase = "idle"
  /\ ~offered \/ ~healthy
  /\ lacked' = Registries \ account
  /\ phase' = "single"
  /\ listErr' = TRUE
  /\ UNCHANGED <<account, offered, healthy, listed, multi, results, snap>>

(* ... then through /v2/registry *)
GetSingle ==
  /\ phase = "single"
  /\ SingleAnswers /\ account # {}
  /\ phase' = "subscription"
  /\ listed' = account /\ multi' = FALSE
  /\ UNCHANGED <<account, offered, healthy, listErr, results, snap, lacked>>

(* markAbsent: the API said 404, which it may also say for several. *)
GetNotFound ==
  /\ phase = "single"
  /\ account = {} \/ ~SingleAnswers
  /\ snap' = NoEntries
  /\ Return

GetFails == /\ phase = "single"
            /\ ~healthy \/ ~SingleAnswers
            /\ UNCHANGED snap
            /\ Return

-----------------------------------------------------------------------------
(* Mutant: the requests after the listing go to the single-registry surface. *)
ForgetsSurface == SingleAnswers

(* subscription, repositories: the surface the registries were listed from. *)
Surface == multi \/ SingleAnswers

Subscription == /\ phase = "subscription"
                /\ Surface
                /\ phase' = "read"
                /\ UNCHANGED <<account, offered, healthy, listErr, listed, multi, results, snap, lacked>>

SubscriptionFails == /\ phase = "subscription"
                     /\ ~healthy \/ ~Surface
                     /\ UNCHANGED snap
                     /\ Return

Result(r, outcome) ==
  /\ phase = "read"
  /\ r \in listed /\ results[r] = "none"
  /\ results' = [results EXCEPT ![r] = outcome]
  /\ UNCHANGED <<account, offered, healthy, phase, listErr, listed, multi, snap, lacked>>

(* repositories *)
Repositories(r) == Surface /\ r \in account /\ Result(r, "ok")

RepositoriesFail(r) == (~healthy \/ ~Surface \/ r \notin account) /\ Result(r, "failed")

-----------------------------------------------------------------------------
Read == {r \in listed : results[r] = "ok"}

(* Mutant: a registry that could not be listed starts over. *)
PreviousForgotten(r) == "unknown"

(* Mutant: the entry is left to whatever the listing's outcome was. *)
PreviousUnjudged(r) == results[r]

previous(r) == IF snap[r] \in {"down", "up"} THEN "down" ELSE "unknown"

(* Mutant: a registry that could not be listed is left out of the snapshot. *)
SwapReadOnly == snap' = [r \in Registries |-> IF r \in Read THEN "up" ELSE "absent"]

swap == snap' = [r \in Registries |-> CASE r \notin listed -> "absent"
                                        [] r \in Read      -> "up"
                                        [] OTHER           -> previous(r)]

(* reportFailures decides no more than what the scheduler is told. *)
Finish == /\ phase = "read"
          /\ \A r \in listed : results[r] # "none"
          /\ swap
          /\ Return

-----------------------------------------------------------------------------
Refresh == \/ ListMulti \/ ListMultiFails
           \/ GetSingle \/ GetNotFound \/ GetFails
           \/ Subscription \/ SubscriptionFails
           \/ \E r \in Registries : Repositories(r) \/ RepositoriesFail(r)
           \/ Finish

Next == \/ Refresh \/ HealthChange
        \/ \E r \in Registries : Create(r) \/ Delete(r)

Spec == Init /\ [][Next]_vars

(* The scheduler refreshes for ever and every request is bounded. *)
FairSpec == Spec /\ WF_vars(Refresh)

-----------------------------------------------------------------------------
Shown == {r \in Registries : snap[r] # "absent"}

(* A registry that cannot be read does not cost the others, or itself: once *)
(* its repositories were listed they are reported for as long as it is      *)
(* itself, through any run of failures (swap).                              *)
RepositoriesSurvive ==
  [][\A r \in Registries : snap[r] \in {"down", "up"} /\ snap'[r] # "absent" => snap'[r] \in {"down", "up"}]_vars

(* A registry that is there from the first request of a refresh to the last *)
(* does not vanish at its end, if the listing named any at all: however     *)
(* many of the others are deleted or fail meanwhile.                        *)
ListedStays ==
  [][listed # {} /\ snap' # snap => Registries \ lacked \subseteq Shown']_vars

(* Once DigitalOcean answers and the account stands still, the collector    *)
(* shows exactly the account's registries, all of them up, whichever        *)
(* surface the account has to be read through.                              *)
Settles ==
  <>[]healthy /\ <>[][UNCHANGED account]_vars =>
    <>[](Shown = account /\ \A r \in Shown : snap[r] = "up")
=============================================================================
