------------------------------ MODULE Measure ------------------------------
(***************************************************************************)
(* The measurement of one droplet or load balancer: the request sequence   *)
(* that FanOut.tla takes as one outcome (measure, fetch), what is read off *)
(* each response (internal/timeseries), and the entry the refresh leaves   *)
(* behind (merge).  MonitoringProofs.tla is about both modules, so the     *)
(* names of the state machine here are not those of FanOut.tla.            *)
(*                                                                         *)
(* A reading is told apart by when it was sampled.                         *)
(***************************************************************************)
EXTENDS Integers, Sequences, FiniteSets, SequencesExt

CONSTANTS
  Names,    \* what the target may be called, renames included
  Labels,   \* what tells the series of one metric apart
  Windows,  \* the points one series may come with
  Varied    \* bound: the metrics whose answers vary; the rest answer plainly

(* A metric, and the labels that tell its series apart. *)
One(name)           == [name |-> name, seriesLabels |-> {}]
PerEach(name, labels) == [name |-> name, seriesLabels |-> labels]

filesystemLabels == {"device", "mountpoint", "fstype"}

(* specs of dropletmetrics *)
dropletSpecs == <<
  PerEach("cpu", {"mode"}), One("memory_total"), One("memory_available"),
  One("memory_free"), One("memory_cached"),
  PerEach("filesystem_size", filesystemLabels), PerEach("filesystem_free", filesystemLabels),
  One("load_1"), One("load_5"), One("load_15") >>

(* specs and extendedSpecs of loadbalancermetrics *)
specs == <<
  One("frontend_connections_current"), One("frontend_connections_limit"),
  One("frontend_cpu_utilization"), PerEach("frontend_http_responses", {"code"}),
  PerEach("droplets_health_checks", {"server"}), PerEach("droplets_downtime", {"server"}),
  One("droplets_http_response_time_95p") >>

extendedSpecs == <<
  One("frontend_http_requests_per_second"), One("frontend_network_throughput_http"),
  One("frontend_network_throughput_udp"), One("frontend_network_throughput_tcp"),
  One("frontend_nlb_tcp_network_throughput"), One("frontend_nlb_udp_network_throughput"),
  One("frontend_firewall_dropped_bytes"), One("frontend_firewall_dropped_packets"),
  One("frontend_tls_connections_current"), One("frontend_tls_connections_limit"),
  One("frontend_tls_connections_exceeding_rate_limit"),
  PerEach("droplets_connections", {"server"}), One("droplets_queue_size"),
  PerEach("droplets_http_responses", {"code"}),
  One("droplets_http_session_duration_avg"), One("droplets_http_session_duration_50p"),
  One("droplets_http_session_duration_95p"), One("droplets_http_response_time_avg"),
  One("droplets_http_response_time_50p"), One("droplets_http_response_time_99p") >>

ASSUME MeasureAssumption ==
  /\ "" \notin Names
  /\ IsFiniteSet(Labels)
  /\ Windows \subseteq Seq([at : Nat, nan : BOOLEAN])

VARIABLES
  collector, extended,  \* which collector, and Config.Extended: never change
  fair,     \* base metrics are answered, and nothing runs out of time
  stage,    \* "idle", "measure" or "merge"
  name,     \* the target's name in this refresh's listing
  heard,    \* what the requests of this refresh came back with, one by one
  out,      \* the entry being built
  outcome,  \* how the measurement ended
  entry     \* the target's entry in c.snap: at most one

setup == <<collector, extended>>
measureVars == <<setup, fair, stage, name, heard, out, outcome, entry>>

Base  == IF collector = "dropletmetrics" THEN dropletSpecs ELSE specs
Asked == IF extended THEN Base \o extendedSpecs ELSE Base
Current == Asked[Len(heard) + 1]

Outcomes == {"ok", "failed", "starved"}

(* The zero value of a droplet's or a load balancer's entry. *)
Zero == [name |-> "", up |-> 0, sampled |-> 0, points |-> {}]

EntryOK(e) == /\ e.up \in {0, 1} /\ e.sampled \in Nat
              /\ \A p \in e.points : p.at \in Nat /\ p.name \in Names /\ p.at <= e.sampled

MeasureTypeOK ==
  /\ collector \in {"dropletmetrics", "loadbalancermetrics"}
  /\ extended => collector = "loadbalancermetrics"
  /\ fair \in BOOLEAN
  /\ stage \in {"idle", "measure", "merge"}
  /\ name \in Names
  /\ Len(heard) <= Len(Asked)
  /\ EntryOK(out) /\ outcome \in Outcomes
  /\ Cardinality(entry) <= 1 /\ \A e \in entry : EntryOK(e) /\ e.name \in Names

MeasureInit ==
  /\ collector \in {"dropletmetrics", "loadbalancermetrics"}
  /\ extended \in BOOLEAN /\ (extended => collector = "loadbalancermetrics")
  /\ fair \in BOOLEAN
  /\ stage = "idle" /\ name \in Names
  /\ heard = << >> /\ out = Zero /\ outcome = "ok"
  /\ entry = {}

-----------------------------------------------------------------------------
(* What the monitoring API may answer: series of points in any order, some  *)
(* of them NaN.  A metric with series labels has one series per label, any  *)
(* other at most one.                                                       *)
Point(at)  == [at |-> at, nan |-> FALSE]
NaN(at)    == [at |-> at, nan |-> TRUE]
Series(label, values) == [label |-> label, values |-> values]

Plain(s) == {Series("x", <<Point(1)>>)}

Responses(s) ==
  IF s.name \notin Varied THEN {Plain(s)}
  ELSE IF s.seriesLabels = {}
       THEN {{}} \cup {{Series("x", values)} : values \in Windows}
       ELSE {{Series(l, window[l]) : l \in Labels} : window \in [Labels -> Windows]}

(* Mutant: the last usable point is taken for the newest. *)
LastPoint(best, point) == IF point.nan THEN best ELSE {point}

(* newest *)
Best(best, point) ==
  IF point.nan THEN best
  ELSE IF best = {} \/ \A b \in best : point.at > b.at THEN {point} ELSE best

newest(values) ==
  LET best[n \in 0 .. Len(values)] == IF n = 0 THEN {} ELSE Best(best[n - 1], values[n])
  IN  best[Len(values)]

(* Latest: the newest usable point of every series. *)
Latest(response) == UNION { { [label |-> s.label, at |-> p.at] : p \in newest(s.values) } :
                            s \in response }

Label(s, sample) == IF s.seriesLabels = {} THEN "" ELSE sample.label

Points(s, response) ==
  { [metric |-> s.name, label |-> Label(s, sample), name |-> name, at |-> sample.at,
     fresh |-> TRUE] : sample \in Latest(response) }

Newest(ats) == CHOOSE at \in ats : \A other \in ats : other <= at

-----------------------------------------------------------------------------
Weather == /\ fair' = ~fair
           /\ UNCHANGED <<setup, stage, name, heard, out, outcome, entry>>

(* The readings of the refresh before stop being this one's. *)
Aged(e) == [e EXCEPT !.points = { [p EXCEPT !.fresh = FALSE] : p \in @ }]

(* The listing names the target, and a worker takes it. *)
Begin(n) == /\ stage = "idle"
            /\ stage' = "measure"
            /\ name' = n
            /\ out' = [Zero EXCEPT !.name = n, !.up = 1]
            /\ entry' = { Aged(e) : e \in entry }
            /\ UNCHANGED <<setup, fair, heard, outcome>>

(* The listing does not name it: merge drops its entry. *)
Unlisted == /\ stage = "idle"
            /\ entry' = {}
            /\ UNCHANGED <<setup, fair, stage, name, heard, out, outcome>>

Hear(answer) == /\ heard' = Append(heard, answer)
                /\ stage' = IF Len(heard') = Len(Asked) THEN "merge" ELSE "measure"
                /\ UNCHANGED <<setup, fair, name, outcome, entry>>

(* fetch *)
Fetch(response) ==
  LET points == Points(Current, response)
  IN  /\ stage = "measure"
      /\ out' = [out EXCEPT !.points = @ \cup points,
                            !.sampled = Newest({@} \cup { p.at : p \in points })]
      /\ Hear(response)

(* measure returns the error, and an empty entry. *)
Abandon(o) == /\ stage' = "merge"
              /\ outcome' = o
              /\ out' = Zero
              /\ UNCHANGED <<setup, fair, name, heard, entry>>

IsExtended == Len(heard) >= Len(Base)

(* A 500, a body that will not parse, a status other than success. *)
BaseFails == /\ stage = "measure" /\ ~IsExtended
             /\ ~fair
             /\ Abandon("failed")

(* Mutant: an extended metric is treated like a base metric. *)
ExtendedCosts == /\ stage = "measure" /\ IsExtended
                 /\ Abandon("failed")

(* The same of an extended metric is logged, and the metric left absent. *)
ExtendedFails == /\ stage = "measure" /\ IsExtended
                 /\ Current.name \in Varied
                 /\ UNCHANGED out
                 /\ Hear({})

(* Running out of time is not contained, whichever metric it meets. *)
RunsOut == /\ stage = "measure"
           /\ ~fair
           /\ Abandon("starved")

-----------------------------------------------------------------------------
Finish == /\ stage' = "idle"
          /\ heard' = << >> /\ out' = Zero /\ outcome' = "ok"
          /\ UNCHANGED <<setup, fair, name>>

Previous == IF entry = {} THEN Zero ELSE CHOOSE e \in entry : TRUE

(* Mutant: a failed target that has no earlier entry keeps the zero name. *)
MergeNameless == /\ stage = "merge"
                 /\ entry' = IF outcome = "ok" THEN {out} ELSE {[Previous EXCEPT !.up = 0]}
                 /\ Finish

(* merge *)
MergeEntry == /\ stage = "merge"
              /\ entry' = IF outcome = "ok" THEN {out}
                         ELSE {[Previous EXCEPT !.name = name, !.up = 0]}
              /\ Finish

-----------------------------------------------------------------------------
Measuring == \/ \E r \in Responses(Current) : Fetch(r)
             \/ BaseFails \/ ExtendedFails \/ RunsOut

Refresh == \/ \E n \in Names : Begin(n)
           \/ stage = "measure" /\ Measuring
           \/ MergeEntry

MeasureNext == Weather \/ Unlisted \/ Refresh

MeasureSpec == MeasureInit /\ [][MeasureNext]_measureVars

(* Every request is bounded by a timeout, and the workers keep running. *)
FairMeasureSpec == MeasureSpec /\ WF_measureVars(Refresh)

-----------------------------------------------------------------------------
(* The usable points of a series, and what of them a reader may expect.     *)
Usable(values) == { p.at : p \in { q \in ToSet(values) : ~q.nan } }

Readable == UNION { {k} \X { s \in heard[k] : Usable(s.values) # {} } : k \in DOMAIN heard }

(* An entry that is up holds exactly what this refresh heard - the newest    *)
(* usable sample of every series, no two under the same labels, nothing of a *)
(* metric that was not answered, nothing of an earlier refresh - and carries *)
(* the time of the newest of them.  One that is down holds exactly what an   *)
(* earlier refresh left (measure: "a partial reading would mix fresh numbers *)
(* with stale ones under the same timestamp").                               *)
PublishesWhatWasHeard ==
  [][\A e \in entry' : stage = "merge" /\ stage' = "idle" =>
       e.name = name /\
       IF outcome = "ok"
       THEN /\ e.up = 1
            /\ Cardinality(e.points) = Cardinality(Readable)
            /\ \A x \in Readable :
                 \E p \in e.points : /\ p.metric = Asked[x[1]].name /\ p.fresh /\ p.name = name
                                     /\ p.at = Newest(Usable(x[2].values))
                                     /\ p.label = IF Asked[x[1]].seriesLabels = {} THEN "" ELSE x[2].label
            /\ e.sampled = Newest({0} \cup UNION { Usable(x[2].values) : x \in Readable })
       ELSE /\ e.up = 0
            /\ e.points = Previous.points /\ e.sampled = Previous.sampled
            /\ \A p \in e.points : ~p.fresh]_measureVars

(* However the extended metrics fail on their own, a target whose base       *)
(* metrics are answered in time comes up and stays up (measure: "so one      *)
(* metric the API will not answer does not blank a load balancer's whole     *)
(* reading refresh after refresh").                                          *)
ExtendedNeverBlanks ==
  <>[](fair /\ entry # {}) => <>[](\A e \in entry : e.up = 1)
=============================================================================
