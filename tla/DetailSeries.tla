---------------------------- MODULE DetailSeries ----------------------------
(***************************************************************************)
(* What the collectors that look something up per item make of an answer,  *)
(* as Inventory.tla says it of the others.  The order in which they list,  *)
(* look up and carry over is in Details.tla, Registry.tla and Spaces.tla:  *)
(* here a record is an item together with what is known of its details     *)
(* when the snapshot is swapped in, a set that is empty if no lookup of it *)
(* ever succeeded.                                                         *)
(***************************************************************************)
EXTENDS Inventory

-----------------------------------------------------------------------------
(* kubernetes *)

knownNodeStates == <<"provisioning", "running", "draining", "deleting">>

(* A node the API lists as null is skipped; one without a status has no state. *)
newPool(p) ==
  LET node(n) == [id |-> n.id, name |-> n.name, droplet |-> n.droplet, state |-> Given(n.state, "")]
      members == Map(node, FlattenSeq(Map(SetToSeq, p.members)))
  IN  [ identity |-> <<p.id, p.name, p.size>>, nodes |-> p.count,
        autoscale |-> boolToFloat(p.autoscale), min |-> p.min, max |-> p.max,
        members |-> members,
        running |-> Len(SelectSeq(members, LAMBDA n : n.state = "running")) ]

clusterFlags == <<"auto_upgrade", "surge_upgrade", "ha", "registry">>

(* newCluster, and the versions refreshUpgrades keeps *)
newKubernetesCluster(k) ==
  [ id |-> k.id, name |-> k.name, region |-> regionSlug(k), version |-> k.version,
    maintenance |-> Given(k.maintenance, ""),
    up |-> boolToFloat(k.status = {"running"}),
    flags |-> [f \in ToSet(clusterFlags) |-> boolToFloat(f \in k.flags)],
    pools |-> Map(newPool, k.pools),
    upgrades |-> {Only(versions, ToSet(versions) \ {""}) : versions \in k.upgrades} ]

collectNode(labels, n) ==
  OneHot("node_state", knownNodeStates, n.state, labels \o <<n.id, n.name>>)
    \o <<Gauge("node_info", 1, labels \o <<n.id, n.name, n.droplet>>)>>

collectPools(k) ==
  LET collect(p) ==
        Gauges(<<"nodes", "running", "autoscale", "min", "max">>, p, <<k.id, k.name>> \o p.identity)
          \o FlattenSeq(Map(LAMBDA n : collectNode(<<k.id, k.name>> \o SubSeq(p.identity, 1, 2), n),
                            p.members))
  IN  FlattenSeq(Map(collect, k.pools))

(* No series where no lookup succeeded: a 0 would claim the newest version. *)
collectUpgrades(k) ==
  LET collect(versions) ==
        <<Gauge("upgrade_available", boolToFloat(versions # << >>), <<k.id, k.name>>)>>
          \o Map(LAMBDA v : Gauge("available_version", 1, <<k.id, k.name, v>>), versions)
  IN  FlattenSeq(Map(collect, SetToSeq(k.upgrades)))

collectKubernetesCluster(k) ==
  LET labels == <<k.id, k.name, k.region>> IN
    << Gauge("up", k.up, labels \o <<k.version>>),
       Gauge("info", 1, labels \o <<k.version, k.maintenance>>) >>
      \o Gauges(clusterFlags, k.flags, labels) \o collectUpgrades(k) \o collectPools(k)

-----------------------------------------------------------------------------
(* databases *)

knownReplicaStatuses == <<"creating", "online", "resizing", "migrating", "forking">>

(* lookupDetails: the newest backup, where the cluster has any *)
lookedUp(d) ==
  [replicas |-> d.replicas, last_backup |-> IF d.backups = {} THEN {} ELSE {Max(d.backups)}]

(* newCluster; the API's spelling of a status varies in its case *)
newDatabaseCluster(db) ==
  [ id |-> db.id, name |-> db.name, region |-> regionSlug(db), plan |-> db.plan, about |-> db.about,
    status |-> boolToFloat(db.status \in {"online", "ONLINE"}),
    nodes |-> db.nodes, storage |-> db.storage, users |-> Len(db.users), logical |-> Len(db.names),
    maintenance |-> boolToFloat(db.maintenance = {TRUE}),
    storage_autoscale |-> boolToFloat(db.storage_autoscale = {TRUE}),
    details |-> {lookedUp(d) : d \in db.details} ]

(* collectDetails *)
collectDatabaseDetails(db) ==
  LET labels == <<db.id, db.name, db.region>>
      collectReplica(r) ==
        OneHot("replica_status", knownReplicaStatuses, r.status, <<db.id, db.name, r.name, r.region>>)
      collect(d) == <<Gauge("replicas", Len(d.replicas), labels)>>
                      \o FlattenSeq(Map(collectReplica, d.replicas))
                      \o Optional("last_backup", d.last_backup, labels)
  IN  FlattenSeq(Map(collect, SetToSeq(db.details)))

collectDatabaseCluster(db) ==
  LET labels == <<db.id, db.name, db.region>> IN
    Gauges(<<"status", "nodes">>, db, labels \o <<db.plan>>)
      \o Gauges(<<"storage", "maintenance", "users", "logical", "storage_autoscale">>, db, labels)
      \o <<Gauge("info", 1, labels \o <<db.about>>)>>
      \o collectDatabaseDetails(db)

-----------------------------------------------------------------------------
(* uptime *)

knownRegionStatuses == <<"UP", "DOWN", "CHECKING">>

(* newOutage: a check that never went down has an outage of no region. *)
newOutage(outage) == IF outage.region = "" THEN {} ELSE {outage}

(* newCheck, newState *)
newCheck(c) ==
  [ id |-> c.id, name |-> c.name, about |-> c.about, up |-> boolToFloat(c.up),
    state |-> { [regions |-> s.regions, outage |-> newOutage(s.outage)] : s \in c.state } ]

collectState(c) ==
  LET labels == <<c.id, c.name>>
      region(r) == OneHot("region_status", knownRegionStatuses, r.status, labels \o <<r.region>>)
                     \o <<Gauge("ratio", r.ratio, labels \o <<r.region>>)>>
      outage(o) == Optional("outage_start", o.start, labels \o <<o.region>>)
                     \o <<Gauge("outage_duration", o.duration, labels \o <<o.region>>)>>
      collect(s) == FlattenSeq(Map(region, s.regions)) \o FlattenSeq(Map(outage, SetToSeq(s.outage)))
  IN  FlattenSeq(Map(collect, SetToSeq(c.state)))

collectCheck(c) ==
  <<Gauge("info", 1, <<c.id, c.name, c.about>>), Gauge("up", c.up, <<c.id, c.name>>)>> \o collectState(c)

-----------------------------------------------------------------------------
(* projects; a URN is the sequence of its parts *)

urnType(urn) == IF Len(urn) = 3 /\ urn[1] = "do" /\ urn[2] # "" THEN urn[2] ELSE "unknown"

countResources(urns) == Tally({}, Map(urnType, urns))

(* measure *)
newProject(p) ==
  [id |-> p.id, name |-> p.name, about |-> p.about, counts |-> {countResources(u) : u \in p.resources}]

collectProject(p) ==
  LET collect(counts) ==
        Map(LAMBDA t : Gauge("resources", counts[t], <<p.id, p.name, t>>), SetToSeq(DOMAIN counts))
  IN  <<Gauge("info", 1, <<p.id, p.name, p.about>>)>> \o FlattenSeq(Map(collect, SetToSeq(p.counts)))

-----------------------------------------------------------------------------
(* registry, with the one subscription tier of the account; and spaces *)

(* newRepository *)
pushedAt(repository) == UNION {m.updated : m \in repository.latest}

collectRepositories(reg) ==
  LET collect(r) ==
        Gauges(<<"tags", "manifests">>, r, <<reg.id, r.name>>)
          \o Optional("manifest_size", {m.size : m \in r.latest}, <<reg.id, r.name>>)
          \o Optional("last_push", pushedAt(r), <<reg.id, r.name>>)
      collectAll(repositories) == FlattenSeq(Map(collect, repositories))
  IN  FlattenSeq(Map(collectAll, SetToSeq(reg.repositories)))

collectRegistry(reg) ==
  LET labels == <<reg.id, reg.region>>
      quota(t) == << Gauge("storage_included", t.storage, labels),
                     Gauge("bandwidth_included", t.bandwidth, labels),
                     Gauge("price", t.price, <<reg.id, t.slug>>),
                     Gauge("info", 1, labels \o <<t.slug, t.name>>) >>
  IN  <<Gauge("storage_usage", reg.usage, labels)>>
        \o Optional("storage_updated", reg.measured, labels)
        \o <<Gauge("up", boolToFloat(reg.up), labels)>>
        \o Optional("repositories", {Len(r) : r \in reg.repositories}, <<reg.id>>)
        \o FlattenSeq(Map(quota, SetToSeq(reg.tier)))

collectBucket(b) ==
  LET figures(s) == Gauges(<<"size", "objects">>, s, <<b.id, b.region>>)
  IN  <<Gauge("up", boolToFloat(b.up), <<b.id, b.region>>)>>
        \o FlattenSeq(Map(figures, SetToSeq(b.stats)))

-----------------------------------------------------------------------------
(* What a refresh keeps of a resource, and what a scrape emits for it. *)
New(kind, r) ==
  CASE kind = "droplets"      -> newDroplet(r)
    [] kind = "volumes"       -> newVolume(r)
    [] kind = "loadbalancers" -> newLoadBalancer(r)
    [] kind = "firewalls"     -> newFirewall(r)
    [] kind = "images"        -> newImage(r)
    [] kind = "reservedips"   -> newReservedIP(r)
    [] kind = "certificates"  -> newCertificate(r)
    [] kind = "tags"          -> newTag(r)
    [] kind = "apps"          -> newApp(r)
    [] kind = "account"       -> newAccount(r)
    [] kind = "balance"       -> newBalance(r)
    [] kind = "limits"        -> newTotal(r)
    [] kind = "kubernetes"    -> newKubernetesCluster(r)
    [] kind = "databases"     -> newDatabaseCluster(r)
    [] kind = "uptime"        -> newCheck(r)
    [] kind = "projects"      -> newProject(r)
    [] kind \in {"cdn", "domains", "dropletautoscale", "registry", "spaces"} -> r

CollectItem(kind, item) ==
  CASE kind = "droplets"         -> collectDroplet(item)
    [] kind = "volumes"          -> collectVolume(item)
    [] kind = "loadbalancers"    -> collectLoadBalancer(item)
    [] kind = "firewalls"        -> collectFirewall(item)
    [] kind = "images"           -> collectImage(item)
    [] kind = "reservedips"      -> collectReservedIP(item)
    [] kind = "certificates"     -> collectCertificate(item)
    [] kind = "cdn"              -> collectEndpoint(item)
    [] kind = "domains"          -> collectDomain(item)
    [] kind = "tags"             -> collectTag(item)
    [] kind = "dropletautoscale" -> collectPool(item)
    [] kind = "apps"             -> collectApp(item)
    [] kind = "account"          -> collectAccount(item)
    [] kind = "balance"          -> collectBalance(item)
    [] kind = "limits"           -> collectTotal(item)
    [] kind = "kubernetes"       -> collectKubernetesCluster(item)
    [] kind = "databases"        -> collectDatabaseCluster(item)
    [] kind = "uptime"           -> collectCheck(item)
    [] kind = "projects"         -> collectProject(item)
    [] kind = "registry"         -> collectRegistry(item) \o collectRepositories(item)
    [] kind = "spaces"           -> collectBucket(item)

Kinds == {"droplets", "volumes", "loadbalancers", "firewalls", "images", "reservedips",
          "certificates", "cdn", "domains", "tags", "dropletautoscale", "apps", "account",
          "balance", "limits", "kubernetes", "databases", "uptime", "projects", "registry", "spaces"}
=============================================================================
