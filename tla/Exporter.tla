------------------------------ MODULE Exporter ------------------------------
(***************************************************************************)
(* The process around the collectors: what it makes of its flags           *)
(* (internal/config), which collectors it registers and when each starts   *)
(* (registerCollectors, Scheduler.Register and stagger), and how it serves *)
(* and stops (run, serve).  Scheduler.tla has the loops from their first   *)
(* refresh on.                                                             *)
(*                                                                         *)
(* Time is in milliseconds.  A secret is told apart by whether there is    *)
(* one; the HTTP server and the signals of the Go runtime are external.    *)
(***************************************************************************)
EXTENDS Integers, Sequences, FiniteSets, FiniteSetsExt, SequencesExt, Lists

CONSTANT Operators  \* bound: the settings of the flags that are tried

-----------------------------------------------------------------------------
(* config.go: the flags and their defaults *)

Second == 1000
Minute == 60 * Second
defaultInterval == 5 * Minute

(* In the order main registers them. *)
available ==
  << "account", "balance", "databases", "droplets", "dropletautoscale", "images", "kubernetes",
     "limits", "registry", "reservedips", "spaces", "volumes", "loadbalancers", "cdn", "apps",
     "domains", "firewalls", "certificates", "tags", "projects", "dropletmetrics",
     "loadbalancermetrics", "uptime" >>
Names == ToSet(available)

(* The collectors with a timeout of their own; the others are simpleCollectors. *)
Timed == {"databases", "projects", "dropletmetrics", "loadbalancermetrics", "spaces", "uptime"}

simpleCollectors ==
  [c \in Names \ Timed |->
     [ enabled |-> c \notin {"firewalls", "certificates"},
       interval |-> CASE c = "dropletautoscale" -> 2 * Minute
                      [] c \in {"images", "tags"} -> 10 * Minute
                      [] OTHER -> defaultInterval ]]

bindDatabases  == [enabled |-> TRUE,  interval |-> 5 * Minute,  timeout |-> 2 * Minute]
bindProjects   == [enabled |-> TRUE,  interval |-> 10 * Minute, timeout |-> 2 * Minute]
bindMonitoring == [enabled |-> FALSE, interval |-> 5 * Minute,  timeout |-> 2 * Minute]
bindSpaces     == [enabled |-> FALSE, interval |-> 5 * Minute,  timeout |-> 2 * Minute]
bindUptime     == [enabled |-> FALSE, interval |-> 2 * Minute,  timeout |-> Minute]

Bound == simpleCollectors @@ [ databases |-> bindDatabases, projects |-> bindProjects,
                               dropletmetrics |-> bindMonitoring,
                               loadbalancermetrics |-> bindMonitoring,
                               spaces |-> bindSpaces, uptime |-> bindUptime ]

(* bind *)
Defaults ==
  [ enabled  |-> [c \in Names |-> Bound[c].enabled],
    interval |-> [c \in Names |-> Bound[c].interval],
    timeout  |-> [c \in Timed |-> Bound[c].timeout],
    doTimeout |-> 30 * Second, rateLimit |-> 4,
    token |-> "none", spacesKey |-> "none", spacesSecret |-> "none",
    spacesRegion |-> "", spacesBuckets |-> << >>, help |-> FALSE ]

(* How a secret is given: inline, or by a file that may be empty or missing. *)
Secrets == {"none", "inline", "file", "empty file", "no file", "both"}

(* Any value an operator can give: a negative duration is one kingpin takes. *)
Settings ==
  [ enabled : [Names -> BOOLEAN], interval : [Names -> Int], timeout : [Timed -> Int],
    doTimeout : Int, rateLimit : Int, token : Secrets,
    spacesKey : Secrets, spacesSecret : Secrets, spacesRegion : STRING,
    spacesBuckets : Seq(Seq([name : STRING, region : STRING])),
    help : BOOLEAN ]   \* --help or --version is among them

ASSUME ExporterAssumption == Operators \subseteq Settings

(* resolveSecret *)
Resolves(secret) == secret \in {"inline", "file"}

(* Mutant: zero passes for a duration. *)
NotNegative(d) == d >= 0

requirePositive(d) == d > 0

validateDurations(f) ==
  /\ requirePositive(f.doTimeout)
  /\ \A c \in Names : requirePositive(f.interval[c])
  /\ \A c \in Timed : requirePositive(f.timeout[c])

(* splitList: each value of the flag may hold several, and empties drop out. *)
(* A lone "@", which parseBucket refuses, is not told apart from those.     *)
splitList(raw) ==
  LET given == FlattenSeq(raw) IN Only(given, ToSet(given) \ {[name |-> "", region |-> ""]})

(* parseBucket: a bucket without a region lies in the default one *)
InDefault(bucket, region) == IF bucket.region = "" THEN [bucket EXCEPT !.region = region] ELSE bucket

parseBuckets(raw, region) ==
  LET specs == splitList(raw) IN [i \in DOMAIN specs |-> InDefault(specs[i], region)]

Usable(buckets) == \A i \in DOMAIN buckets : buckets[i].name # "" /\ buckets[i].region # ""

(* spacesConfig: nothing is demanded of a collector that is off *)
spacesConfig(f) ==
  f.enabled["spaces"] =>
    LET buckets == parseBuckets(f.spacesBuckets, f.spacesRegion) IN
      /\ Resolves(f.spacesKey) /\ Resolves(f.spacesSecret)
      /\ Usable(buckets)
      /\ buckets = << >> => f.spacesRegion # ""

(* config: whether the process gets past its flags *)
Valid(f) ==
  /\ validateDurations(f)
  /\ f.rateLimit >= 0
  /\ Resolves(f.token)
  /\ spacesConfig(f)

-----------------------------------------------------------------------------
(* scheduler.go: Register, Names and the staggered start *)

(* Register; the interval falls back to the scheduler's own default. *)
Entry(f, c) ==
  LET timeout == IF c \in Timed THEN f.timeout[c] ELSE 0 IN
    [ name |-> c,
      interval |-> IF f.interval[c] <= 0 THEN defaultInterval ELSE f.interval[c],
      timeout |-> IF timeout <= 0 THEN f.doTimeout ELSE timeout ]

registerCollectors(f) ==
  LET enabled == Only(available, {c \in Names : f.enabled[c]})
  IN  [i \in DOMAIN enabled |-> Entry(f, enabled[i])]

maxStagger == 3 * Second

staggerWindow(entries) == Min({maxStagger} \cup {e.interval : e \in ToSet(entries)})

(* An even share of the window, in whole units. *)
stagger(index, count, window) ==
  IF index = 0 \/ count <= 1 THEN 0 ELSE (window \div count) * index

-----------------------------------------------------------------------------
VARIABLES
  flags,    \* what the operator set
  stage,    \* of main: "start", "wired", "serving", "returned" or "exited"
  status,   \* the exit status
  entries,  \* Scheduler.entries
  loops,    \* Scheduler.Run: "off", "running" or "stopped"
  signalled,\* SIGTERM has cancelled the context
  shutdown, \* serve's goroutine: "waiting", "draining", "done"
  grace,    \* the ten seconds of its context have passed
  scrape    \* of one request: "none", "answering", "answered" or "cut"

process == <<flags, stage, status, entries>>
vars == <<process, loops, signalled, shutdown, grace, scrape>>

Alive == stage # "exited"

TypeOK ==
  /\ flags \in Operators
  /\ stage \in {"start", "wired", "serving", "returned", "exited"}
  /\ status \in {0, 1}
  /\ stage = "exited" /\ status = 0 => (signalled \/ flags.help) /\ scrape # "answering"
  /\ {e.name : e \in ToSet(entries)} \subseteq Names
  /\ loops \in {"off", "running", "stopped"} /\ (loops = "stopped" => signalled)
  /\ shutdown \in {"waiting", "draining", "done"} /\ (shutdown # "waiting" => signalled)
  /\ signalled \in BOOLEAN /\ grace \in BOOLEAN
  /\ scrape \in {"none", "answering", "answered", "cut"}

Init ==
  /\ flags \in Operators
  /\ stage = "start" /\ status = 0
  /\ entries = << >> /\ loops = "off"
  /\ signalled = FALSE /\ shutdown = "waiting" /\ grace = FALSE
  /\ scrape = "none"

Exit(code) == stage' = "exited" /\ status' = code

(* ErrHelpShown: the usage has been printed, and nothing is validated. *)
Help ==
  /\ stage = "start" /\ flags.help
  /\ Exit(0)
  /\ UNCHANGED <<flags, entries, loops, signalled, shutdown, grace, scrape>>

(* Parse fails, and main prints the error. *)
Refuse ==
  /\ stage = "start" /\ ~flags.help /\ ~Valid(flags)
  /\ Exit(1)
  /\ UNCHANGED <<flags, entries, loops, signalled, shutdown, grace, scrape>>

(* run up to serve; the signal is caught from here on. *)
Wire ==
  /\ stage = "start" /\ ~flags.help /\ Valid(flags)
  /\ stage' = "wired"
  /\ entries' = registerCollectors(flags)
  /\ UNCHANGED <<flags, status, loops, signalled, shutdown, grace, scrape>>

(* go scheduler.Run *)
Run ==
  /\ stage \in {"wired", "serving"} /\ loops = "off"
  /\ loops' = "running"
  /\ UNCHANGED <<process, signalled, shutdown, grace, scrape>>

(* It returns once every loop has; nothing waits for it. *)
StopLoops ==
  /\ Alive /\ signalled /\ loops = "running"
  /\ loops' = "stopped"
  /\ UNCHANGED <<process, signalled, shutdown, grace, scrape>>

Signal ==
  /\ stage \in {"wired", "serving"} /\ ~signalled
  /\ signalled' = TRUE
  /\ UNCHANGED <<process, loops, shutdown, grace, scrape>>

-----------------------------------------------------------------------------
(* serve *)

(* ListenAndServe binds its port and accepts, or finds it taken. *)
Listen ==
  /\ stage = "wired" /\ shutdown = "waiting"
  /\ stage' = "serving"
  /\ UNCHANGED <<flags, status, entries, loops, signalled, shutdown, grace, scrape>>

(* Mutant: serve takes every error for a closed server. *)
PortTakenUnnoticed ==
  /\ stage = "wired"
  /\ Exit(0)
  /\ UNCHANGED <<flags, entries, loops, signalled, shutdown, grace, scrape>>

PortTaken ==
  /\ stage = "wired"
  /\ Exit(1)
  /\ UNCHANGED <<flags, entries, loops, signalled, shutdown, grace, scrape>>

Accept ==
  /\ stage = "serving" /\ shutdown = "waiting" /\ scrape = "none"
  /\ scrape' = "answering"
  /\ UNCHANGED <<process, loops, signalled, shutdown, grace>>

Answer ==
  /\ Alive /\ scrape = "answering"
  /\ scrape' = "answered"
  /\ UNCHANGED <<process, loops, signalled, shutdown, grace>>

(* Mutant: the listener is closed once no request is in flight. *)
ShutdownWhenIdle ==
  /\ Alive /\ signalled /\ shutdown = "waiting" /\ scrape # "answering"
  /\ shutdown' = "draining"
  /\ UNCHANGED <<process, loops, signalled, grace, scrape>>

(* The goroutine of serve: Shutdown closes the listener, then waits. *)
Shutdown ==
  /\ Alive /\ signalled /\ shutdown = "waiting"
  /\ shutdown' = "draining"
  /\ UNCHANGED <<process, loops, signalled, grace, scrape>>

(* The requests are answered, or the ten seconds are over. *)
GraceOver ==
  /\ Alive /\ shutdown = "draining" /\ ~grace
  /\ grace' = TRUE
  /\ UNCHANGED <<process, loops, signalled, shutdown, scrape>>

Drained ==
  /\ Alive /\ shutdown = "draining"
  /\ scrape # "answering" \/ grace
  /\ shutdown' = "done"
  /\ UNCHANGED <<process, loops, signalled, grace, scrape>>

(* ErrServerClosed: ListenAndServe returns as soon as the listener is       *)
(* closed, however far Shutdown is, and run returns with it.                *)
Closed ==
  /\ stage \in {"wired", "serving"} /\ shutdown # "waiting"
  /\ stage' = "returned"
  /\ UNCHANGED <<flags, status, entries, loops, signalled, shutdown, grace, scrape>>

(* main returns, and every other goroutine ends with the process. *)
Leave ==
  /\ stage = "returned"
  /\ Exit(0)
  /\ scrape' = IF scrape = "answering" THEN "cut" ELSE scrape
  /\ UNCHANGED <<flags, entries, loops, signalled, shutdown, grace>>

Next == \/ Help \/ Refuse \/ Wire \/ Run \/ StopLoops \/ Signal
        \/ Listen \/ PortTaken \/ Accept \/ Answer
        \/ Shutdown \/ GraceOver \/ Drained \/ Closed \/ Leave

(* Every goroutine is run on; nobody need signal, scrape or hold the port,  *)
(* and a scrape may take as long as it likes.                               *)
Spec == /\ Init /\ [][Next]_vars
        /\ WF_vars(Help \/ Refuse \/ Wire) /\ WF_vars(Listen) /\ WF_vars(Run)
        /\ WF_vars(Shutdown) /\ WF_vars(GraceOver) /\ WF_vars(Drained)
        /\ WF_vars(Closed) /\ WF_vars(Leave)

-----------------------------------------------------------------------------
Serving == stage = "serving"

(* A refresh that runs has time to run in, and a ticker that does not panic *)
(* (ErrNonPositiveTimeout, ErrNonPositiveInterval).                         *)
EntriesSound == \A e \in ToSet(entries) : e.interval > 0 /\ e.timeout > 0

(* No bucket is left for a refresh to find down hours later                 *)
(* (ErrNoSpacesRegion, ErrNoSpacesCredentials).                             *)
SpacesSound ==
  "spaces" \in {e.name : e \in ToSet(entries)} =>
    /\ {flags.spacesKey, flags.spacesSecret} \subseteq {"inline", "file"}
    /\ \A raw \in ToSet(flags.spacesBuckets) : \A spec \in ToSet(raw) :
         spec.name # "" \/ spec.region # "" => /\ spec.name # ""
                                               /\ spec.region # "" \/ flags.spacesRegion # ""
    /\ (\A raw \in ToSet(flags.spacesBuckets) : \A spec \in ToSet(raw) :
          spec.name = "" /\ spec.region = "") => flags.spacesRegion # ""

(* All first refreshes come at different times, within the interval of the  *)
(* collector that refreshes most often and within maxStagger; a window too  *)
(* narrow to divide staggers nothing (staggerWindow, stagger).              *)
Staggered ==
  LET count   == Len(entries)
      window  == staggerWindow(entries)
      offsets == {stagger(i, count, window) : i \in 0 .. count - 1}
  IN  /\ \A e \in ToSet(entries) : \A o \in offsets : o < e.interval /\ o < maxStagger
      /\ window >= count => Cardinality(offsets) = count

(* Whatever the operator set, an exporter that answers scrapes is one whose *)
(* every collector can refresh: the rest is refused before the port is bound *)
(* (Parse, validateDurations, spacesConfig, Register).                      *)
StartsSound == Serving => EntriesSound /\ SpacesSound /\ Staggered

(* A stopped exporter stops: TestServeShutsDownWhenTheContextIsCancelled.   *)
Stops == signalled ~> ~Alive

(* The graceful shutdown is bounded and not aborted (comment of serve, and  *)
(* serve_test.go:185): a scrape in flight is cut off only once the ten      *)
(* seconds are over.                                                        *)
DrainsFirst == scrape = "cut" => grace
=============================================================================
