----------------------------- MODULE Exposition -----------------------------
(***************************************************************************)
(* One collector of the inventory between its refreshes and the scrapes:   *)
(* a refresh asks, converts and swaps its snapshot under c.mu; a scrape    *)
(* takes the snapshot under c.mu and emits from it after the lock is gone, *)
(* so refreshes may come and go while it does.  The loop in the scheduler  *)
(* runs one refresh of a collector at a time.                              *)
(*                                                                         *)
(* DigitalOcean is external: each answer is any the account could give.    *)
(***************************************************************************)
EXTENDS DetailSeries

CONSTANTS
  Resources,  \* [Kinds -> sets of API records]; variants of one resource share its id
  Filters     \* the filters an operator may configure

NoFilter == [tags |-> {}, regions |-> {}]
Filtering == {"droplets", "volumes", "loadbalancers", "firewalls", "kubernetes", "databases"}

(* A record is what the client decodes: an array of the API is a sequence,  *)
(* and a field that may be left out is there once or not at all.            *)
IsArray(list) == list \in Seq(ToSet(list))
AtMostOne(S)  == \A v, w \in S : v = w

WellFormed(kind, r) ==
  /\ kind \in {"droplets", "volumes", "loadbalancers", "kubernetes", "databases"} => AtMostOne(r.region)
  /\ kind \in {"droplets", "images", "apps"} => AtMostOne(r.created)
  /\ kind = "loadbalancers" => AtMostOne(r.health) /\ IsArray(r.rules)
  /\ kind = "certificates" => AtMostOne(r.not_after)
  /\ kind = "dropletautoscale" => AtMostOne(r.current)
  /\ kind = "apps" =>
       /\ AtMostOne(r.spec) /\ AtMostOne(r.active) /\ AtMostOne(r.last_active)
       /\ \A s \in r.spec : /\ IsArray(s.services) /\ IsArray(s.workers)
                           /\ IsArray(s.jobs) /\ IsArray(s.static_sites)
  /\ kind = "kubernetes" =>
       /\ AtMostOne(r.upgrades) /\ \A versions \in r.upgrades : IsArray(versions)
       /\ IsArray(r.pools)
       /\ \A p \in ToSet(r.pools) : IsArray(p.members) /\ \A n \in ToSet(p.members) : AtMostOne(n)
  /\ kind = "databases" => AtMostOne(r.details) /\ \A d \in r.details : IsArray(d.replicas)
  /\ kind = "uptime" =>
       AtMostOne(r.state) /\ \A s \in r.state : IsArray(s.regions) /\ AtMostOne(s.outage.start)
  /\ kind = "projects" => AtMostOne(r.resources) /\ \A urns \in r.resources : IsArray(urns)
  /\ kind = "registry" =>
       /\ AtMostOne(r.measured) /\ AtMostOne(r.repositories) /\ AtMostOne(r.tier)
       /\ \A list \in r.repositories :
            IsArray(list) /\ \A p \in ToSet(list) : AtMostOne(p.latest) /\ AtMostOne(pushedAt(p))
  /\ kind = "spaces" => AtMostOne(r.stats)

(* What the API tells the parts of one resource apart by ("the API keeps the *)
(* entry protocol and port unique within one load balancer").                *)
Differ(list, field) == \A i, j \in DOMAIN list : list[i][field] = list[j][field] => i = j

KeptApart(kind, r) ==
  /\ kind = "loadbalancers" => IsInjective(r.rules) /\ \A rule \in ToSet(r.rules) : IsArray(rule)
  /\ kind = "tags" => AtMostOne(r.resources) /\ \A counts \in r.resources : IsFiniteSet(DOMAIN counts)
  /\ kind = "apps" => \A s \in r.spec : /\ Differ(s.services, "name") /\ Differ(s.workers, "name")
                                        /\ Differ(s.jobs, "name") /\ Differ(s.static_sites, "name")
  /\ kind = "kubernetes" =>
       /\ \A versions \in r.upgrades : IsInjective(versions)
       /\ Differ(r.pools, "id")
       /\ \A p \in ToSet(r.pools) : \A i, j \in DOMAIN p.members :
            \A n \in p.members[i], m \in p.members[j] : n.id = m.id => i = j
  /\ kind = "databases" => \A d \in r.details : Differ(d.replicas, "name")
  /\ kind = "uptime" => \A s \in r.state : Differ(s.regions, "region")
  /\ kind = "registry" => \A list \in r.repositories : Differ(list, "name")

(* splitList drops the empty values of a flag; an address has one version. *)
ASSUME ExpositionAssumption ==
  /\ NoFilter \in Filters /\ \A f \in Filters : IsFiniteSet(f.tags) /\ "" \notin f.regions
  /\ DOMAIN Resources = Kinds
  /\ \A k \in Kinds : \A r \in Resources[k] : WellFormed(k, r) /\ KeptApart(k, r)
  /\ \A r, q \in Resources["reservedips"] : r.id = q.id => r.version = q.version

VARIABLES
  kind, filter,  \* which collector, and Config's filter: never change
  refreshing, account, answers,  \* what there was (history), and what the requests returned
  snap,          \* c.snap, and the account it was made of (history): at most one
  view,          \* the snapshot a scrape in progress took: at most one
  emitted, sent  \* how much of it the scrape went through, and the series it sent

setup  == <<kind, filter>>
answer == <<refreshing, account, answers>>
emission == <<view, emitted, sent>>
expositionVars == <<setup, answer, snap, emission>>

(* A listing holds a resource once; an answer about one thing has one record. *)
Listings(records) ==
  {SetToSeq(S) : S \in {S \in SUBSET records : IsFiniteSet(S) /\ \A r, s \in S : r.id = s.id => r = s}}
Answers(n) ==
  CASE kind \in {"account", "balance"} -> {<<r>> : r \in Resources[kind]}
    [] kind = "limits" ->
         {<<r>> : r \in {r \in Resources[kind] : r.id = <<"droplets", "reserved_ips", "volumes">>[n]}}
    [] kind = "registry" -> {L \in Listings(Resources[kind]) : \A r, q \in ToSet(L) : r.tier = q.tier}
    [] kind = "reservedips" -> Listings({r \in Resources[kind] : r.version = <<"4", "6">>[n]})
    [] OTHER -> Listings(Resources[kind])

ExpositionTypeOK ==
  /\ kind \in Kinds /\ filter \in Filters
  /\ refreshing \in BOOLEAN /\ (~refreshing => answers = << >>)
  /\ Len(answers) <= Requests(kind) /\ Len(account) = Len(answers)
  /\ \A s \in snap \cup view : /\ DOMAIN s = {"items", "counts", "of"}
                               /\ \A n \in DOMAIN s.of : CanBeUsed(kind, s.of[n])
  /\ Cardinality(snap) <= 1 /\ Cardinality(view) <= 1
  /\ view # {} => snap # {}

ExpositionInit ==
  /\ kind \in Kinds
  /\ filter \in IF kind \in Filtering THEN Filters ELSE {NoFilter}
  /\ refreshing = FALSE /\ account = << >> /\ answers = << >>
  /\ snap = {} /\ view = {} /\ emitted = 0 /\ sent = << >>

-----------------------------------------------------------------------------
(* Refresh *)

Refresh ==
  /\ ~refreshing
  /\ refreshing' = TRUE
  /\ UNCHANGED <<setup, account, answers, snap, emission>>

(* Mutant: what a failed refresh heard is kept for the next. *)
EndRefreshKeeping == refreshing' = FALSE /\ UNCHANGED <<account, answers>>

EndRefresh == refreshing' = FALSE /\ account' = << >> /\ answers' = << >>

(* The next request is answered, and the answer can be used. *)
Answered ==
  /\ refreshing /\ Len(answers) < Requests(kind)
  /\ \E a \in Answers(Len(answers) + 1) :
       /\ CanBeUsed(kind, a)
       /\ account' = Append(account, a)
       /\ answers' = Append(answers, Listing(kind, filter, a))
  /\ UNCHANGED <<setup, refreshing, snap, emission>>

(* It fails, or its answer cannot be used. *)
Failed ==
  /\ refreshing /\ Len(answers) < Requests(kind)
  /\ EndRefresh
  /\ UNCHANGED <<setup, snap, emission>>

(* The loop over what was listed: skip it, or convert and keep it. *)
Kept == LET listed  == FlattenSeq(answers)
            passing == Only(listed, {r \in ToSet(listed) : Passing(kind, filter, r)})
        IN  Map(LAMBDA r : New(kind, r), passing)

Swap ==
  /\ refreshing /\ Len(answers) = Requests(kind)
  /\ snap' = {[items |-> Kept, counts |-> Counts(kind, Kept), of |-> account]}
  /\ EndRefresh
  /\ UNCHANGED <<setup, emission>>

-----------------------------------------------------------------------------
(* Collect; it returns at once while there is no snapshot *)

Collect ==
  /\ view = {} /\ snap # {}
  /\ view' = snap
  /\ UNCHANGED <<setup, answer, snap, emitted, sent>>

(* Mutant: the loop goes back to the collector for each item. *)
CollectedLive == snap

Collected == view

(* The loop over the items, one at a time, then the one over the counts. *)
Emit ==
  /\ view # {}
  /\ \E s \in Collected :
       /\ emitted <= Len(s.items)
       /\ sent' = sent \o IF emitted < Len(s.items)
                          THEN CollectItem(kind, s.items[emitted + 1])
                          ELSE collectCounts(s.counts)
  /\ emitted' = emitted + 1
  /\ UNCHANGED <<setup, answer, snap, view>>

Done == \E s \in view : emitted > Len(s.items)

Return ==
  /\ \E s \in Collected : emitted > Len(s.items)
  /\ view' = {} /\ emitted' = 0 /\ sent' = << >>
  /\ UNCHANGED <<setup, answer, snap>>

ExpositionNext == Refresh \/ Answered \/ Failed \/ Swap \/ Collect \/ Emit \/ Return

ExpositionSpec == ExpositionInit /\ [][ExpositionNext]_expositionVars

-----------------------------------------------------------------------------
(* No scrape sends a series twice, whatever refreshes run while it emits:    *)
(* the registry rejects a repeated metric and label set (comment of          *)
(* internal/paging/paging.go, and newHandler's ContinueOnError).             *)
SeriesUnique ==
  \A i, j \in DOMAIN sent :
    i # j => <<sent[i].metric, sent[i].labels>> # <<sent[j].metric, sent[j].labels>>

Labelled(metric) == {sent[i].labels[1] : i \in {n \in DOMAIN sent : sent[n].metric = metric}}
Always == CASE kind = "domains" -> "ttl" [] kind \in {"registry", "spaces"} -> "up" [] OTHER -> "info"
There(s) == UNION {ToSet(s.of[n]) : n \in DOMAIN s.of}

(* The conditions of docs/configuration/index.md, "Filtering". *)
Wanted(r) ==
  \/ kind \notin Filtering
  \/ /\ filter.tags = {} \/ \E t \in r.tags : t \in filter.tags
     /\ filter.regions = {} \/ kind = "firewalls" \/ r.region \cap filter.regions # {}

(* A whole scrape names every resource the filter asks for and no other,     *)
(* however the droplets were listed: by tag or all of them (listing).  A     *)
(* firewall has no region and is never filtered by it (MatchTags).           *)
ShowsWhatPasses ==
  Done => \A s \in view :
    kind \notin {"account", "balance", "limits", "tags"} =>
      Labelled(Always) = {r.id : r \in {r \in There(s) : Wanted(r)}}

(* What is counted is what is shown: every total agrees with the series of   *)
(* the same scrape it is the total of, and every known image type has one.   *)
With(metric, labels) ==
  {i \in DOMAIN sent : sent[i].metric = metric /\ labels \subseteq ToSet(sent[i].labels)}
Shown(metric, labels, value) == {i \in With(metric, labels) : sent[i].value = value}
Totals == {"count", "running", "replicas", "repositories", "upgrade_available"}

Counted(total) ==
  LET id == {total.labels[1]} IN
  CASE kind = "images" -> {i \in With("info", {}) : total.labels = <<sent[i].labels[3]>>}
    [] kind = "reservedips" -> {i \in With("info", {}) : total.labels = SubSeq(sent[i].labels, 2, 3)}
    [] total.metric = "running" ->
         Shown("node_state", id \cup {total.labels[3], "running"}, 1)
    [] total.metric = "replicas" -> Shown("replica_status", id \cup {"online"}, 1)
                                      \cup Shown("replica_status", id \cup {"online"}, 0)
    [] total.metric = "repositories" -> With("tags", id)
    [] OTHER -> With("available_version", id)

CountsAgree ==
  /\ \A i \in DOMAIN sent :
       sent[i].metric \in Totals =>
         LET counted == Cardinality(Counted(sent[i]))
         IN  sent[i].value = IF sent[i].metric = "upgrade_available" THEN boolToFloat(counted > 0)
                             ELSE counted
  /\ kind = "images" => \A t \in knownTypes : With("count", {t}) # {}

(* The states the API named, each with the labels that tell its series apart. *)
State(labels, state) == [labels |-> labels, state |-> state]
Named(r) ==
  CASE kind = "account"    -> {State({}, r.status)}
    [] kind = "apps"       -> {State({r.id}, p) : p \in r.active}
    [] kind = "kubernetes" -> LET nodes == UNION UNION {ToSet(p.members) : p \in ToSet(r.pools)}
                              IN  UNION {{State({r.id, n.id}, s) : s \in n.state} : n \in nodes}
    [] kind = "databases"  -> UNION {{State({r.id, q.name}, q.status) : q \in ToSet(d.replicas)} :
                                       d \in r.details}
    [] kind = "uptime"     -> UNION {{State({r.id, q.region}, q.status) : q \in ToSet(s.regions)} :
                                       s \in r.state}
    [] OTHER -> {}

(* The one state of a resource that is 1 is the one the API named, known or  *)
(* not; without it every series of the resource would read 0.                *)
OneHotMetric == CASE kind = "account"    -> "status"
                  [] kind = "apps"       -> "phase"
                  [] kind = "kubernetes" -> "node_state"
                  [] kind = "databases"  -> "replica_status"
                  [] OTHER               -> "region_status"

OneState ==
  \A s \in view : \A r \in {r \in There(s) : Wanted(r)} : \A n \in Named(r) :
    n.state # "" =>
      {Last(sent[i].labels) : i \in Shown(OneHotMetric, n.labels, 1)} = {n.state}

(* A resource whose details no lookup ever brought back. *)
DetailMetrics == {"upgrade_available", "replicas", "last_backup", "region_status", "ratio",
                  "outage_duration", "resources", "repositories", "tags", "size", "objects"}
Unasked(r) == CASE kind = "kubernetes" -> r.upgrades = {}
                [] kind = "databases"  -> r.details = {}
                [] kind = "uptime"     -> r.state = {}
                [] kind = "projects"   -> r.resources = {}
                [] kind = "registry"   -> r.repositories = {}
                [] kind = "spaces"     -> r.stats = {}
                [] OTHER               -> FALSE

(* Where a series would say something the API did not: a time of 1970, the   *)
(* bounds of a pool that has none, a count or an amount that was not read,   *)
(* details nobody has looked up, an outage that never was.                   *)
NothingInvented ==
  /\ \A i \in DOMAIN sent :
       sent[i].metric \in {"created", "expiry", "last_active", "max", "target", "target_cpu",
                           "target_memory", "last_backup", "outage_start", "storage_updated",
                           "last_push"} => sent[i].value # 0
  /\ \A s \in view : \A r \in There(s) :
       /\ kind = "limits" => r.total # {}
       /\ kind = "balance" => {} \notin {r.balance, r.month_to_date, r.usage}
  /\ \A s \in view : \A r \in {r \in There(s) : Unasked(r)} :
       \A m \in DetailMetrics : With(m, {r.id}) = {}
  /\ With("outage_duration", {""}) = {}

(* The figures of a whole scrape agree with each other and with the account  *)
(* they were read from (Refresh and Collect of every collector here).        *)
FiguresAddUp == Done => CountsAgree /\ OneState /\ NothingInvented
=============================================================================
