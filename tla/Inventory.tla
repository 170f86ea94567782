----------------------------- MODULE Inventory -----------------------------
(***************************************************************************)
(* What the collectors of plain inventory make of an API answer: which     *)
(* resources the filter lets through (internal/filter), what a refresh     *)
(* keeps of each (newX), and the series a scrape reads off it (Collect).   *)
(*                                                                         *)
(* A field the API may leave out, or write so that it cannot be parsed, is *)
(* a set of at most one value.  Figures keep the API's own unit, and texts *)
(* that only describe a resource are one field, about.                     *)
(***************************************************************************)
EXTENDS Lists, FiniteSets, SequencesExt

Given(optional, default) == IF optional = {} THEN default ELSE CHOOSE v \in optional : TRUE

boolToFloat(b) == IF b THEN 1 ELSE 0

Map(Op(_), seq) == [i \in DOMAIN seq |-> Op(seq[i])]

-----------------------------------------------------------------------------
(* filter.Filter; a set nobody configured is empty *)

MatchTags(filter, tags) == filter.tags = {} \/ filter.tags \cap tags # {}
matchRegion(filter, region) == filter.regions = {} \/ region \in filter.regions
Match(filter, tags, region) == MatchTags(filter, tags) /\ matchRegion(filter, region)
SingleTag(filter) == Cardinality(filter.tags) = 1 /\ filter.regions = {}

(* regionSlug *)
regionSlug(r) == Given(r.region, "")

(* Mutant: every filtered collector asks the whole question. *)
PassingByRegionToo(kind, filter, r) ==
  CASE kind \in {"droplets", "volumes", "loadbalancers", "kubernetes", "databases"} ->
         Match(filter, r.tags, regionSlug(r))
    [] kind = "firewalls" -> Match(filter, r.tags, "")
    [] OTHER -> TRUE

(* The condition in a Refresh that skips a resource.  A firewall has no region. *)
Passing(kind, filter, r) ==
  CASE kind \in {"droplets", "volumes", "loadbalancers", "kubernetes", "databases"} ->
         Match(filter, r.tags, regionSlug(r))
    [] kind = "firewalls" -> MatchTags(filter, r.tags)
    [] OTHER -> TRUE

(* listing: a filter of one tag and no region lists the tag's droplets only. *)
Listing(kind, filter, items) ==
  IF kind = "droplets" /\ SingleTag(filter)
  THEN Only(items, {d \in ToSet(items) : filter.tags \subseteq d.tags})
  ELSE items

(* How many requests one refresh makes, lists being one request each here:  *)
(* Paging.tla has their pages.                                              *)
Requests(kind) ==
  CASE kind = "limits" -> 3
    [] kind = "reservedips" -> 2
    [] OTHER -> 1

(* What makes an answer fail the refresh: total, parseAmount. *)
CanBeUsed(kind, answer) ==
  CASE kind = "limits" -> \A r \in ToSet(answer) : r.total # {}
    [] kind = "balance" -> \A r \in ToSet(answer) : {} \notin {r.balance, r.month_to_date, r.usage}
    [] OTHER -> TRUE

-----------------------------------------------------------------------------
Gauge(metric, value, labels) == [metric |-> metric, value |-> value, labels |-> labels]

(* One gauge for each figure of an item that carries no other label. *)
Gauges(metrics, item, labels) == Map(LAMBDA m : Gauge(m, item[m], labels), metrics)

(* A gauge that is left out when the API did not report its figure. *)
Optional(metric, optional, labels) ==
  Map(LAMBDA v : Gauge(metric, v, labels), SetToSeq(optional))

(* Mutant: only the documented states have a series. *)
KnownStates(known, state) == known

(* The states a one-hot metric has a series for: collectStatus, collectPhases. *)
States(known, state) ==
  IF state = "" \/ Contains(known, state) THEN known ELSE Append(known, state)

OneHot(metric, known, state, labels) ==
  Map(LAMBDA s : Gauge(metric, boolToFloat(s = state), Append(labels, s)), States(known, state))

-----------------------------------------------------------------------------
newDroplet(d) ==
  [ id |-> d.id, name |-> d.name, region |-> regionSlug(d), about |-> d.about,
    up |-> boolToFloat(d.status = "active"),
    cpus |-> d.cpus, memory |-> d.memory, disk |-> d.disk,
    price_hourly  |-> Given(d.size, [hourly |-> 0, monthly |-> 0]).hourly,
    price_monthly |-> Given(d.size, [hourly |-> 0, monthly |-> 0]).monthly,
    backups |-> boolToFloat("backups" \in d.features),
    monitoring_agent |-> boolToFloat("monitoring" \in d.features),
    created |-> d.created ]

collectDroplet(d) ==
  LET labels == <<d.id, d.name, d.region>> IN
    Gauges(<<"up", "cpus", "memory", "disk", "price_hourly", "price_monthly", "backups",
             "monitoring_agent">>, d, labels)
      \o Optional("created", d.created, labels)
      \o <<Gauge("info", 1, labels \o <<d.about>>)>>

newVolume(v) ==
  [ id |-> v.id, name |-> v.name, region |-> regionSlug(v), about |-> v.about,
    size |-> v.size, droplets |-> Cardinality(v.droplets) ]

collectVolume(v) ==
  LET labels == <<v.id, v.name, v.region>> IN
    Gauges(<<"size", "droplets">>, v, labels) \o <<Gauge("info", 1, labels \o <<v.about>>)>>

newLoadBalancer(lb) ==
  LET firewall == Given(lb.firewall, [allow |-> {}, deny |-> {}]) IN
    [ id |-> lb.id, name |-> lb.name, ip |-> lb.ip, about |-> <<regionSlug(lb), lb.about>>,
      status |-> boolToFloat(lb.status = "active"),
      droplets |-> Cardinality(lb.droplets), size_units |-> lb.size_units,
      forwarding_rules |-> Len(lb.rules),
      rules |-> lb.rules, health |-> lb.health,
      allow |-> Cardinality(firewall.allow), deny |-> Cardinality(firewall.deny) ]

(* A rule is told apart by its entry protocol and port. *)
collectLoadBalancer(lb) ==
  LET labels == <<lb.id, lb.name, lb.ip>>
      healthCheck(h) == <<Gauge("health_check_info", 1, labels \o <<h.about>>)>>
                          \o Gauges(<<"interval", "timeout", "healthy", "unhealthy">>, h, labels)
  IN  Gauges(<<"status", "droplets", "size_units", "forwarding_rules">>, lb, labels)
        \o << Gauge("info", 1, labels \o lb.about),
              Gauge("firewall_rules", lb.allow, labels \o <<"allow">>),
              Gauge("firewall_rules", lb.deny, labels \o <<"deny">>) >>
        \o Map(LAMBDA r : Gauge("forwarding_rule_info", 1, labels \o r), lb.rules)
        \o FlattenSeq(Map(healthCheck, SetToSeq(lb.health)))

(* The inbound rules the whole internet reaches. *)
countOpen(rules) ==
  Cardinality({i \in DOMAIN rules : Given(rules[i], {}) \cap {"0.0.0.0/0", "::/0"} # {}})

newFirewall(f) ==
  [ id |-> f.id, name |-> f.name, status |-> f.status,
    droplets |-> Cardinality(f.droplets), tags |-> Cardinality(f.tags),
    inbound |-> Len(f.inbound), outbound |-> Len(f.outbound),
    open |-> countOpen(f.inbound), pending |-> Cardinality(f.pending) ]

collectFirewall(f) ==
  <<Gauge("info", 1, <<f.id, f.name, f.status>>)>>
    \o Gauges(<<"droplets", "tags", "inbound", "outbound", "open", "pending">>, f,
              <<f.id, f.name>>)

-----------------------------------------------------------------------------
newImage(i) ==
  [ id |-> i.id, name |-> i.name, type |-> i.type, about |-> i.about,
    size |-> i.size, min_disk |-> i.min_disk, created |-> i.created ]

collectImage(i) ==
  LET labels == <<i.id, i.name, i.type>> IN
    Gauges(<<"size", "min_disk">>, i, labels)
      \o Optional("created", i.created, labels)
      \o <<Gauge("info", 1, labels \o <<i.about>>)>>

knownTypes == {"snapshot", "backup", "custom"}

(* newIPv4, newIPv6 and assign: of an IPv6 address the project is not known. *)
newReservedIP(ip) ==
  [ id |-> ip.id, version |-> ip.version, region |-> regionSlug(ip),
    assigned |-> boolToFloat(ip.droplet # {}), droplet |-> Given(ip.droplet, ""),
    project |-> IF ip.version = "4" THEN ip.project ELSE "" ]

collectReservedIP(ip) ==
  LET labels == <<ip.id, ip.region, ip.version>> IN
    << Gauge("assigned", ip.assigned, labels),
       Gauge("info", 1, labels \o <<ip.droplet, ip.project>>) >>

(* How many of the kept items carry each label tuple. *)
Tally(known, tuples) ==
  [v \in known \cup ToSet(tuples) |-> Cardinality({n \in DOMAIN tuples : tuples[n] = v})]

(* next.counts: by type, and by region and version *)
Counts(kind, items) ==
  CASE kind = "images" -> Tally({<<t>> : t \in knownTypes}, Map(LAMBDA i : <<i.type>>, items))
    [] kind = "reservedips" -> Tally({}, Map(LAMBDA ip : <<ip.region, ip.version>>, items))
    [] OTHER -> << >>

collectCounts(counts) == Map(LAMBDA v : Gauge("count", counts[v], v), SetToSeq(DOMAIN counts))

-----------------------------------------------------------------------------
newCertificate(c) ==
  [ id |-> c.id, name |-> c.name, type |-> c.type, about |-> c.about,
    dns_names |-> Cardinality(c.names), expiry |-> c.not_after ]

collectCertificate(c) ==
  << Gauge("info", 1, <<c.id, c.name, c.about>>), Gauge("dns_names", c.dns_names, <<c.id, c.name>>) >>
    \o Optional("expiry", c.expiry, <<c.id, c.name, c.type>>)

collectEndpoint(e) ==
  <<Gauge("ttl", e.ttl, <<e.id, e.origin>>), Gauge("info", 1, <<e.id, e.origin, e.about>>)>>

collectDomain(d) == <<Gauge("ttl", d.ttl, <<d.id>>)>>

(* newTag: the types the API gave a count for, none without resources. *)
newTag(t) == [id |-> t.id, counts |-> Given(t.resources, << >>)]

collectTag(t) ==
  Map(LAMBDA type : Gauge("resources", t.counts[type], <<t.id, type>>), SetToSeq(DOMAIN t.counts))

(* A zero of a pool's config is a field of the shape it does not have. *)
Positive(n) == IF n > 0 THEN {n} ELSE {}

(* collectPool *)
collectPool(p) ==
  LET labels == <<p.id, p.name>>
      current(u) == <<Gauge("current_cpu", u.cpu, labels), Gauge("current_memory", u.memory, labels)>>
  IN  <<Gauge("info", 1, labels \o <<p.about>>), Gauge("active_instances", p.active_instances, labels)>>
        \o Optional("min", IF p.max > 0 THEN {p.min} ELSE {}, labels)
        \o Optional("max", Positive(p.max), labels)
        \o Optional("target", Positive(p.target), labels)
        \o Optional("target_cpu", Positive(p.target_cpu), labels)
        \o Optional("target_memory", Positive(p.target_memory), labels)
        \o FlattenSeq(Map(current, SetToSeq(p.current)))

knownPhases == <<"PENDING_BUILD", "BUILDING", "PENDING_DEPLOY", "DEPLOYING", "ACTIVE",
                 "SUPERSEDED", "ERROR", "CANCELED">>

(* newComponents *)
newComponents(spec) ==
  LET workload(kind, list) == Map(LAMBDA c : <<c.name, kind, c.size, c.instances>>, list)
  IN  workload("service", spec.services) \o workload("worker", spec.workers)
        \o workload("job", spec.jobs)
        \o Map(LAMBDA s : <<s.name, "static_site", "", 0>>, spec.static_sites)

newApp(a) ==
  LET spec == Given(a.spec, [name |-> "", region |-> "", services |-> << >>, workers |-> << >>,
                             jobs |-> << >>, static_sites |-> << >>])
  IN  [ id |-> a.id, name |-> spec.name,
        about |-> <<a.about, IF regionSlug(a) = "" THEN spec.region ELSE regionSlug(a)>>,
        phase |-> a.active, in_progress |-> boolToFloat(a.in_progress # {}),
        last_active |-> a.last_active, created |-> a.created,
        components |-> newComponents(spec) ]

(* collectPhases: no series at all for an app without an active deployment. *)
collectPhases(a) ==
  FlattenSeq(Map(LAMBDA p : OneHot("phase", knownPhases, p, <<a.id, a.name>>), SetToSeq(a.phase)))

collectApp(a) ==
  LET labels == <<a.id, a.name>> IN
    << Gauge("info", 1, labels \o a.about), Gauge("in_progress", a.in_progress, labels) >>
      \o Optional("last_active", a.last_active, labels)
      \o Optional("created", a.created, labels)
      \o collectPhases(a)
      \o Map(LAMBDA c : Gauge("instances", c[4], labels \o <<c[1], c[2], c[3]>>), a.components)

-----------------------------------------------------------------------------
knownStatuses == <<"active", "warning", "locked">>

newAccount(a) ==
  [ status |-> a.status, active |-> boolToFloat(a.status = "active"),
    verified |-> boolToFloat(a.verified), droplet_limit |-> a.droplet_limit,
    floating_ip_limit |-> a.floating_ip_limit, reserved_ip_limit |-> a.reserved_ip_limit,
    volume_limit |-> a.volume_limit ]

collectAccount(a) ==
  OneHot("status", knownStatuses, a.status, << >>)
    \o Gauges(<<"active", "verified", "droplet_limit", "floating_ip_limit", "reserved_ip_limit",
                "volume_limit">>, a, << >>)

newBalance(b) ==
  [ balance |-> Given(b.balance, 0), month_to_date |-> Given(b.month_to_date, 0),
    usage |-> Given(b.usage, 0), generated_at |-> b.generated_at ]

collectBalance(b) == Gauges(<<"balance", "month_to_date", "usage", "generated_at">>, b, << >>)

(* limits: each answer is one total, published under the resource's name *)
newTotal(t) == [of |-> t.id, total |-> Given(t.total, 0)]

collectTotal(t) == <<Gauge(t.of, t.total, << >>)>>
=============================================================================
