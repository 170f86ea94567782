---------------------------- MODULE MCExposition ----------------------------
(* One small account for Exposition.tla: of each kind two resources, whose   *)
(* variants differ where the code branches.                                  *)
EXTENDS Exposition

Filter(tags, regions) == [tags |-> tags, regions |-> regions]
MCFilters == {NoFilter, Filter({"prod"}, {}), Filter({"prod", "web"}, {}),
              Filter({}, {"fra1"}), Filter({"prod"}, {"fra1"})}

LOCAL Droplet(id, tags, region) ==
  [ id |-> id, name |-> "n", tags |-> tags, region |-> region, about |-> "a", status |-> "active",
    cpus |-> 1, memory |-> 1, disk |-> 1, size |-> {[hourly |-> 1, monthly |-> 2]},
    features |-> {"backups"}, created |-> {5} ]
LOCAL Volume(id, tags, region) ==
  [id |-> id, name |-> "n", tags |-> tags, region |-> region, about |-> "a", size |-> 1,
   droplets |-> {"d"}]
LOCAL Check == [about |-> "h", interval |-> 1, timeout |-> 1, healthy |-> 1, unhealthy |-> 1]
LOCAL Balancer(id, tags, region) ==
  [ id |-> id, name |-> "n", ip |-> "i", tags |-> tags, region |-> region, about |-> "a",
    status |-> "new", droplets |-> {}, size_units |-> 1,
    rules |-> << <<"http", "80">>, <<"https", "443">> >>,
    health |-> {Check}, firewall |-> {[allow |-> {"x"}, deny |-> {}]} ]
LOCAL Firewall(id, tags, inbound) ==
  [ id |-> id, name |-> "n", tags |-> tags, status |-> "s", droplets |-> {}, inbound |-> inbound,
    outbound |-> << >>, pending |-> {} ]
LOCAL Image(id, type, created) ==
  [id |-> id, name |-> "n", type |-> type, about |-> "a", size |-> 1, min_disk |-> 1,
   created |-> created]
LOCAL IP(ip, version, region, droplet) ==
  [id |-> ip, version |-> version, region |-> region, droplet |-> droplet,
   project |-> "p"]
LOCAL Certificate(id, notAfter) ==
  [id |-> id, name |-> "n", type |-> "custom", about |-> "a", names |-> {"x"},
   not_after |-> notAfter]
LOCAL Pool(id, min, max, target, current) ==
  [ id |-> id, name |-> "n", about |-> "a", active_instances |-> 0, min |-> min, max |-> max,
    target |-> target, target_cpu |-> max, target_memory |-> 0, current |-> current ]
LOCAL Workload(name) == [name |-> name, size |-> "s", instances |-> 2]
LOCAL AppSpec == [ name |-> "n", region |-> "fra", services |-> <<Workload("web")>>,
                   workers |-> <<Workload("web")>>, jobs |-> << >>,
                   static_sites |-> <<[name |-> "www"]>> ]
LOCAL App(id, active, region, spec) ==
  [ id |-> id, about |-> "a", active |-> active, region |-> region, in_progress |-> {},
    last_active |-> IF active = {} THEN {} ELSE {5}, created |-> {5}, spec |-> spec ]
LOCAL Account(status) ==
  [ id |-> "account", status |-> status, verified |-> TRUE, droplet_limit |-> 10,
    floating_ip_limit |-> 3, reserved_ip_limit |-> 3, volume_limit |-> 0 ]
LOCAL Balance(amount) ==
  [id |-> "balance", balance |-> amount, month_to_date |-> {0}, usage |-> {0},
   generated_at |-> 5]
LOCAL Node(id, state) == {[id |-> id, name |-> "n", droplet |-> "d", state |-> state]}
LOCAL Kubernetes(id, tags, region, members, upgrades) ==
  [ id |-> id, name |-> "n", tags |-> tags, region |-> region, version |-> "v", status |-> {"running"},
    maintenance |-> {}, flags |-> {"ha"}, upgrades |-> upgrades,
    pools |-> <<[id |-> "pool", name |-> "pn", size |-> "s", count |-> 2, autoscale |-> TRUE,
                 min |-> 1, max |-> 3, members |-> members]>> ]
LOCAL Replica(name, status) == [name |-> name, region |-> "ams3", status |-> status]
LOCAL Database(id, tags, region, details) ==
  [ id |-> id, name |-> "n", tags |-> tags, region |-> region, plan |-> "p", about |-> "a",
    status |-> "ONLINE", nodes |-> 1, storage |-> 1, users |-> <<"u">>, names |-> << >>,
    maintenance |-> {TRUE}, storage_autoscale |-> {}, details |-> details ]
LOCAL UptimeCheck(id, up, state) == [id |-> id, name |-> "n", about |-> "a", up |-> up, state |-> state]
LOCAL Seen(status, outageRegion) ==
  {[ regions |-> <<[region |-> "eu", status |-> status, ratio |-> 1],
                   [region |-> "us", status |-> "UP", ratio |-> 1]>>,
     outage |-> [region |-> outageRegion, start |-> {5}, duration |-> 3] ]}
LOCAL Project(id, resources) == [id |-> id, name |-> "n", about |-> "a", resources |-> resources]
LOCAL Repository(name, latest) == [name |-> name, tags |-> 1, manifests |-> 1, latest |-> latest]
LOCAL Tiers == {{}, {[storage |-> 1, bandwidth |-> 1, price |-> 5, slug |-> "s", name |-> "basic"]}}
LOCAL ARegistry(id, up, measured, repositories) ==
  { [id |-> id, region |-> "fra1", usage |-> 1, measured |-> measured, up |-> up,
     repositories |-> repositories, tier |-> t] : t \in Tiers }
LOCAL Bucket(name, region, up, figures) == [id |-> name, region |-> region, up |-> up, stats |-> figures]
LOCAL Limit(id) == {[id |-> id, total |-> t] : t \in {{}, {0}, {7}}}

MCResources ==
  [ droplets |-> { Droplet("1", {"prod"}, {"fra1"}), Droplet("1", {"web"}, {"ams3"}),
                   [Droplet("2", {"prod", "web"}, {}) EXCEPT !.created = {}, !.size = {}],
                   [Droplet("2", {}, {"fra1"}) EXCEPT !.status = "off", !.features = {}] },
    volumes |-> { Volume("1", {"prod"}, {"fra1"}), Volume("1", {}, {"ams3"}),
                  Volume("2", {"web"}, {}) },
    loadbalancers |-> { Balancer("1", {"prod"}, {"fra1"}),
                        [Balancer("2", {"web"}, {}) EXCEPT !.status = "active", !.health = {},
                            !.firewall = {}, !.rules = << >>] },
    firewalls |-> { Firewall("1", {"prod"}, <<{{"0.0.0.0/0", "::/0"}}, {}>>),
                    Firewall("1", {"web"}, << >>), Firewall("2", {}, <<{{"10.0.0.1"}}>>) },
    images |-> { Image("1", "snapshot", {5}), Image("1", "backup", {}),
                 Image("2", "snapshot", {5}), Image("2", "admin", {}) },
    reservedips |-> { IP("1", "4", {"fra1"}, {"d"}), IP("1", "4", {"ams3"}, {}),
                      IP("2", "4", {"fra1"}, {}), IP("3", "6", {"fra1"}, {"d"}),
                      IP("4", "6", {"fra1"}, {}) },
    certificates |-> {Certificate("1", {5}), Certificate("1", {}), Certificate("2", {6})},
    cdn |-> { [id |-> "1", origin |-> "o", about |-> "a", ttl |-> 60],
              [id |-> "2", origin |-> "o", about |-> "a", ttl |-> 0] },
    domains |-> {[id |-> "1", ttl |-> 60], [id |-> "1", ttl |-> 0], [id |-> "2", ttl |-> 60]},
    tags |-> { [id |-> "1", resources |-> {}],
               [id |-> "1", resources |-> {[droplet |-> 0, image |-> 2]}],
               [id |-> "2", resources |-> {[volume |-> 1]}] },
    dropletautoscale |-> { Pool("1", 0, 3, 0, {[cpu |-> 0, memory |-> 1]}),
                           Pool("1", 0, 0, 2, {}), Pool("2", 1, 2, 0, {}) },
    apps |-> { App("1", {}, {}, {}), App("1", {"ACTIVE"}, {"ams"}, {AppSpec}),
               App("2", {"UNKNOWN"}, {}, {AppSpec}), App("2", {""}, {}, {}) },
    account |-> {Account("active"), Account("suspended"), Account("")},
    balance |-> {Balance({23}), Balance({0}), Balance({})},
    kubernetes |->
      { Kubernetes("k1", {"prod"}, {"fra1"}, <<Node("n1", {"running"}), {}, Node("n2", {"lost"})>>, {}),
        Kubernetes("k1", {}, {"ams3"}, <<Node("n1", {})>>, {<<"1.33", "">>}),
        Kubernetes("k2", {"web"}, {"fra1"}, << >>, {<< >>}) },
    databases |->
      { Database("1", {"prod"}, {"fra1"}, {[replicas |-> <<Replica("r1", "online"), Replica("r2", "forked")>>,
                                            backups |-> {5, 6}]}),
        Database("1", {"web"}, {"ams3"}, {}),
        Database("2", {}, {"fra1"}, {[replicas |-> << >>, backups |-> {}]}) },
    uptime |-> { UptimeCheck("1", FALSE, {}), UptimeCheck("1", TRUE, Seen("PAUSED", "us")),
                 UptimeCheck("2", FALSE, Seen("DOWN", "")) },
    projects |-> { Project("1", {}),
                   Project("1", {<< <<"do", "droplet", "1">>, <<"do", "droplet", "2">>, <<"do", "", "3">> >>}),
                   Project("2", {<< <<"do", "space", "x">>, <<"urn">> >>}) },
    registry |-> UNION { ARegistry("1", TRUE, {5}, {<<Repository("a", {[size |-> 1, updated |-> {5}]}),
                                                     Repository("b", {})>>}),
                         ARegistry("1", FALSE, {}, {}), ARegistry("2", TRUE, {}, {<< >>}) },
    spaces |-> { Bucket("1", "fra1", FALSE, {}), Bucket("1", "ams3", TRUE, {[size |-> 0, objects |-> 0]}),
                 Bucket("2", "fra1", FALSE, {[size |-> 1, objects |-> 1]}) },
    limits |-> Limit("droplets") \cup Limit("reserved_ips") \cup Limit("volumes") ]
=============================================================================
