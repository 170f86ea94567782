# digitalocean_exporter: models, checks and proofs

TLA+ modules of the DigitalOcean Prometheus exporter in `src/`, the TLC
configurations that check them on small instances, and the theorems TLAPS proves
about them for every value of their constants. `PROJECT.json` holds the
machine-readable side: components, runs, mutants (for every property a plausible
bug it catches), the source lines each definition stands for, findings, hazards
and theorems.

    tlc -workers 2 -config Scheduler.cfg Scheduler      # a run
    tlapm SchedulerProofs.tla                           # the proofs of one module

## 1. The system

The exporter polls the DigitalOcean API and exposes what it found to Prometheus.
Nothing is fetched while a scrape is answered: every collector refreshes a
snapshot in the background, and a scrape reads snapshots. Nothing is persisted.

| component | state it keeps | operations | what makes it correct |
|---|---|---|---|
| scheduler (`internal/collector/scheduler.go`) | the success and timestamp gauges, the set `ready`, one ticker per collector | `Run`, `loop`, `refresh`, `guardedRefresh`, `markReady`, `Pending`, `Collect` | no failure or panic of one collector stops a loop; the gauges and `/readyz` never say more than the snapshots hold; shutdown stops every loop and is not reported as a failure |
| probes and metrics endpoint (`cmd/digitalocean_exporter/main.go`) | none of its own | `/readyz`, `/metrics`, `/healthz`, startup, shutdown | a scrape taken after readiness misses no collector; what serves can refresh; a signal ends the process |
| API transport (`internal/doclient`) | the shared rate limiter, `requests_total` and the rate-limit gauges | `RoundTrip`, `attempt`, `nextWait`, `sleep` | all attempts of all collectors stay within the rate; no body leaks; no wait outlasts its deadline; every attempt is counted once |
| paging (`internal/paging`) | the walk: page, keys seen | `All` | no duplicates; nothing missed because of creations |
| dropletmetrics, loadbalancermetrics | the snapshot map, the rotation cursor | list, rotate, dispatch to workers, merge, report | every target gets exactly one outcome and, over time, its turn; readings survive failures; success means the whole list |
| spaces, spacesclient | the snapshot, the region cache `located` | list or configured names, locate, HEAD, merge, remember | a region is remembered only when proven; a mislaid bucket is found again; figures survive failures |
| kubernetes, databases, uptime, projects | the snapshot | list, look up per item, swap | the snapshot is swapped whole or not at all; details are not mixed and not forgotten |
| registry | the snapshot | list over two API surfaces, subscription, repositories, swap | later requests stay on the surface that answered; one unreadable registry costs nothing; absence is not concluded from a failure |
| limits, account, balance and the twelve single-list collectors | a snapshot each | one list or request (three for limits, two for reservedips), filter, convert, swap; emit | a scrape sends no series twice, shows what the filter asks for and invents nothing; its figures agree |
| filter | the two sets of the configuration | `Match`, `MatchTags`, `SingleTag` | asked the right way by each filtered collector |
| timeseries | none | `Latest` | the newest usable sample of every series |
| config | none | `Parse`, `bind`, validation | what cannot work is refused before the port is bound |

How they interact. `Run` starts one goroutine per collector; each calls
`Refresh(ctx)` with a context that has the collector's timeout and ends with the
process. Inside `Refresh` every request goes through godo, `http.Client` and the
one transport, so all collectors share one limiter. The fan-out collectors and
spaces start goroutines of their own. The HTTP handlers read `ready` under the
scheduler's lock and every snapshot under its collector's lock. The account
itself is shared state too: others create, delete and rename resources between
any two requests of a refresh.

What is hard about it: readers between any two writes of a refresh; `select`
choosing at random between a done context and a ready channel; a rate limiter that
refuses a request *before* the deadline in the name of the deadline; several
workers finishing out of order under a cursor that counts; retries that must
neither outlast a deadline nor lose the answer in hand; lists that shift under a
page walk; fallbacks (a region, an API surface, an earlier snapshot) that are
right for one failure and wrong for two together.

## 2. Modules

Each definition that stands for code has its lines in `PROJECT.json` under `map`;
definitions keep the names of the functions where TLA+ allows it.

| module | models | composes |
|---|---|---|
| `Readiness` | abstract: what a rollout may rely on of `/readyz` and `/metrics` | - |
| `Scheduler` | loops, tickers, recording, probe, scrape, shutdown | implements `Readiness` (`INSTANCE`, same variable names) |
| `SchedulerProofs` | the theorems about `Scheduler` | extends `Scheduler` |
| `FanOut`, `MCFanOut` | dropletmetrics.go and loadbalancermetrics.go: the fleet | - |
| `Measure`, `MCMeasure` | the requests of one droplet or load balancer, `timeseries`, the merged entry | what `FanOut` takes as one outcome |
| `MonitoringProofs` | the theorems about `FanOut` and `Measure` | extends both, `ListsProofs` |
| `Transport` | doclient: one limiter, several concurrent round trips | - |
| `TransportProofs` | the theorems about `Transport` | extends `Transport` |
| `Spaces`, `MCSpaces` | spaces.go with spacesclient | - |
| `SpacesProofs` | the theorems about `Spaces` | extends `Spaces` |
| `Lists` | the loop that picks from a list, as a recursive function | used by `Paging`, `Exporter`, `Inventory` |
| `ListsProofs` | what that loop and `FlattenSeq` return, and induction | extends `Lists` |
| `Paging` | `paging.All` and `databases.listClusters` over a shifting list | - |
| `Details` | kubernetes, databases, projects (and uptime) on top of a walk | extends `Paging` |
| `DetailsProofs` | the theorems about `Details` and the walk under it | extends `Details`, `ListsProofs` |
| `Registry` | registry.go over both API surfaces | - |
| `RegistryProofs` | the theorems about `Registry` | extends `Registry` |
| `Inventory` | the filter; conversions and series of the plain collectors, as operators | - |
| `DetailSeries` | the same of kubernetes, databases, uptime, projects, registry and spaces | extends `Inventory` |
| `Exposition`, `MCExposition` | one collector between its refreshes and the scrapes | extends `DetailSeries` |
| `Exporter`, `MCExporter` | flags, registration, staggered start, server and exit | the stage on which `Scheduler` begins |
| `ExporterProofs` | the theorems about `Exporter` and `Exposition` | extends both, `ListsProofs` |

**Scheduler.** `pc[c]` is where the loop of collector `c` stands; each write of
`refresh` (snapshot, success gauge, timestamp, `ready`) is an action of its own, so
that probes, scrapes and shutdown fall between any two. `Refresh` is the contract:
it stores a snapshot and returns nil (`Succeed`), returns an error, after a partial
merge in the collectors that merge (`Fail`, `Interrupt`), panics on the loop's
goroutine (`Panic`, recovered) or on a worker's (`WorkerPanic`, which ends the
process: `recover` only reaches its own goroutine). A ticker buffers one tick.

**FanOut.** One refresh: `ListTargets` and `Rotate`, then `HandOver` per index on
the unbuffered queue against `GiveUp` when the context is done, then `Wait`,
`Merge`, `Report`. `results` holds each index's outcome; a target's whole
measurement is one outcome. `time` says whether a request can still be admitted
(`open`), is refused by the limiter ahead of the deadline (`tight`), or the context
is done. That a refusal lasts until the deadline is not assumed here without
support: it is the first half of `Transport`'s `WaitsFit` (`RefusalLasts`).

**Measure.** `heard` is what each request of the measurement came back with, in the
order of `specs` and, behind the flag, `extendedSpecs`, whose names and labels are
those of the code. A response is a set of series; a series is a sequence of points,
told apart by time and by being NaN. `newest` is the loop of that name, as a recursive
function over the points. A measurement is `idle`, at `measure` or at `merge`
(`stage`), and one action is one request: `Fetch` is `fetch` (the points become
readings under the series' labels, the newest time becomes the time of `out`, the entry
being built), `BaseFails`, `ExtendedFails` and `RunsOut` are the three ways a request
fails, of which the second does not end the measurement, and `MergeEntry` is what the
refresh stores. Each reading carries, as history, whether it is of this refresh.

**Transport.** `pc[r]` is where `RoundTrip` of request `r` stands, on a discrete
clock. The limiter is the earliest time of its next slot: reserved when a wait
begins, given back when the wait is cut short. Each attempt may be answered
finally, with the hourly-limit 429, with a status that asks for a wait, or with a
server error, or fail in the network.

**Spaces.** `home` is the account, `located` the region cache, `snap` what each
`(name, region)` entry shows. Configured and discovered buckets are the two values
of `discovering`.

**Paging, Details.** `account` is the list as the API orders it; `Create` puts an
item at its head or its end, `Destroy` removes one, between any two requests. A page
is what the list holds at that moment. `server = "ignores"` is a databases endpoint
that serves the whole list whatever page is asked for. `Details` gives each entry
two halves so that mixed details would show; `half` is the point between the two
requests of `lookupDetails`, and `Waiting` is the set of places of the list whose
items are still to be looked up, taken lowest first. What `keepNew` and the filter of
`listClusters` pick from a page is `Only(page, set)` of `Lists`. A cluster deleted meanwhile answers 404, which
databases takes for an answer (`engineDoesNotOffer`) and the others for a failure.

**Registry.** `offered` is whether `/v2/registries` serves the account;
`SingleAnswers` is the rule, from the code's comments, that the older surface stops
answering for an account with several registries. Its answer is then any failure,
404 included.

**Inventory, DetailSeries, Exposition.** `newX` and `collectX` are what the code's
functions of these names do to the fields a label, a count or a guard depends on;
figures keep the API's unit and texts that only describe a resource are one field.
A pointer that may be nil, a time that may not parse and a lookup that may never
have succeeded are sets of at most one value. `WellFormed` is what the API's client
decodes: arrays are sequences, an optional field is there once or not at all. `KeptApart`
is what the API tells the parts of one resource apart by: rules of a load balancer, node
pools and nodes, replicas, regions of a check, components of an app, repositories. `CanBeUsed`
is what makes an answer fail the refresh. In `Exposition` a refresh and a scrape
of the same collector interleave at every request and at every item: `Collect` takes
the snapshot under the lock, `Emit` sends one item's series from what it took, `Swap`
may come in between. `account` and the snapshot's `of` are history: what there was to
see, against which the properties hold what was sent.

**Exporter.** `flags` is what the operator set; `Valid` is everything `Parse` refuses;
`registerCollectors` is the order, interval and timeout of each entry; `staggerWindow`
and `stagger` are computed on milliseconds. From there `run` is `Wire`, `Run` and
`Signal`, and `serve` is two goroutines: `Listen`, `PortTaken` and `Closed` against
`Shutdown`, `GraceOver` and `Drained`. `Closed` needs only the listener to be closed,
as `ListenAndServe` does, and `Leave` ends every goroutine.

## 3. Runs

| run | bounds | shows |
|---|---|---|
| `scheduler` | two collectors: one immediate, one staggered that merges and has workers | a scrape after readiness is complete, shutdown is quiet, `Readiness` is implemented; loops stop on shutdown and recover from failures and panics |
| `fanout` | 3 targets; 2 workers over 10 listings with limiter and request timeouts, and 1 worker over 2 listings | readings survive, refreshes end, the rotation of one worker resumes at the first starved target, an incomplete success has one cause, everyone gets a turn once the listing stands still |
| `transport` | 2 requests, 3 attempts, deadlines 2 and 5, rate 1 per 2 units, clock to 6 | pacing; every attempt counted once and its body closed; refusals last and sleeps fit; termination |
| `spaces` | 2 names, 2 regions, both modes; 3 configured buckets, two sharing a name | the cache is proven, figures survive, buckets are found again |
| `details` | 3 items on pages of 1, one filtered out | pages add up, details are whole and survive, whole swaps, a projects report has something counted in it, settling |
| `registry` | 3 registries, both API surfaces | repositories survive, listed registries stay, settling |
| `measure` | both collectors, with and without the extended metrics; 2 names; 2 labels; two metrics of each collector vary over two windows of samples | an entry is one refresh's answer, whole, or an earlier one's; an extended metric that fails never takes a target down |
| `exposition` | all 21 kinds; 1 to 4 resources of each in several variants, 5 filters | no series twice, exactly what passes, figures that add up |
| `exporter` | every flag with a rule, one part of the flags varied at a time, and `--help` with and without a token | nothing unsound serves; a signal at any moment ends the process |
| `fanout_success`, `databases_repeat`, `exporter_drain` | as small as the disagreement allows | the findings of section 5 |

Why these bounds are enough. *Scheduler*: loops interact only through `ready`, the
probe and the scrape, so two loops of different kinds show every interleaving of
two, and the theorems cover any number. *FanOut*: three targets over two workers is
the smallest fleet in which two are in hand while one waits; rotation of three can
be at the head, in the middle and at the end. *Transport*: two requests contend for
a slot; three attempts give a first, a middle and a last one; the deadlines of 2 and
5 put a wait of 2 on either side of the deadline. *Spaces*: a region that is the
default and one that is not; a name shared by two configured buckets. *Details*:
pages of one make each creation and deletion cross a page boundary. *Registry*:
the single surface tells apart 0, 1 and several registries. *Measure*: the metrics
that vary (`Varied`) are one with and one without series labels of each collector, in the
base and in the extended part; the windows of `MCMeasure` are one without a usable point
and one whose newest usable point is neither the last nor the newest of all; two labels
make a metric answer with two series, of which one may have nothing to read. *Exposition*: the
variants differ wherever the code branches (nil pointers, unparsed times, unknown and
empty states, the tag or region that passes and the one that does not), and the collectors share
no state. *Exporter*: validation looks at one flag, or at the flags of spaces
together, so parts vary one at a time; intervals of 1, 2 and 3 ms put the stagger's
integer division at and around its boundary.

Named bounds: `Varied` (Measure) and `Operators` (Exporter) are those just named. `MaxTime` (Transport) stops the clock, and no request is issued whose
deadline lies behind it; `MaxPage` (Details) ends no walk within the instance, since
a walk past it would have to be outrun by one creation per page with more items than
there are. `minReached` in a setting of FanOut is not a bound but an assumption, used only where
the claim is about progress: a refresh has time for at least one target, as a
refresh that has time for none shows nothing about rotation.

Deadlock is checked everywhere but in `scheduler` and `exporter` (a crash or a completed
shutdown really ends the process) and `transport` (the bounded clock stops).

## 4. Fairness

* *Scheduler*: weak fairness of each loop and each ticker. A refresh has a deadline
  that every request honours, so it returns; goroutines are scheduled. Strong
  fairness of `Stop`: with a tick and the done context both ready, Go's `select`
  chooses uniformly at random, so it does not choose the tick for ever.
* *FanOut*: weak fairness of the dispatcher, of the workers together and of the
  closing steps; none of time passing. `EveryoneGetsATurn` also needs listing to
  succeed again and again (`Relisted`).
* *Transport*: the clock advances, each request's goroutine runs.
* *Measure*: weak fairness of the refresh. That base metrics are answered in time
  (`fair`) may change at any moment; the property assumes only that they eventually
  always are and that the target is listed, and nothing of the extended metrics.
* *Exporter*: each goroutine of the process is run on, and the ten seconds pass.
  Nobody need signal, no scrape need come or end.
* *Exposition* states safety only.
* *Spaces, Details, Registry*: the steps of the collector together are weakly fair,
  since the scheduler starts refreshes for ever and each request is bounded. The
  liveness properties there assume of the world only that it eventually stands
  still and answers (`<>[]healthy`), never that a particular request succeeds.

## 5. What the checks found

Each is a run that TLC refutes by a behaviour of the code, against a sentence of the
code's own documentation (quoted in `PROJECT.json`).

* `SuccessIsWhole`: a fan-out refresh whose tail was refused by the limiter is
  reported as a success, since `report` asks only whether the context is done.
  `WholeUnlessRefused` is checked to be the only such case without request timeouts.
* `RepeatEndsList`: a cluster created during the walk makes the databases list stop
  in front of clusters it never read. `PagesAddUp` has what does hold: no duplicates,
  a complete list over an account that stands still, and, for `paging.All`, under
  creations.
* `DrainsFirst`: `ListenAndServe` returns as soon as the listener is closed, `run`
  returns with it and the process exits, so that a scrape in flight is cut off at
  once. The ten seconds that `serve` grants it, on a context of its own, are never
  waited for. `Stops` holds.

What `ReadingsSurvive` calls readings is a measurement that succeeded; one that came back
without a series (a droplet without the agent) counts as one there, and `Measure` has
the empty answer.

Known from the code, and without a run of their own:

* With two workers the cursor, which advances by a count (`dropletmetrics.go:250`),
  can move past a target that was starved before one handed out later was reached,
  and a target can be starved for ever. `ResumesAtFirstStarved` and
  `EveryoneGetsATurn` are therefore stated for one worker.
* The cursor is a place in a listing, not a target (`dropletmetrics.go:233`). While a
  target at the head of the list comes and goes for ever, `a b c` from place 0 reaches
  `a`, then `b c` from place 1 reaches `c` and ends at place 0 again: `b`, in every
  listing, is never measured, though `dropletmetrics.go:24` says that every droplet is
  covered over a few refreshes. `EveryoneGetsATurn` is what holds: once the listing stands
  still, every target has its turns, wherever the cursor was left.
* A request that hits the timeout of `http.Client` is counted as one that never had its
  turn (`dropletmetrics.go:219`), so a pass over the whole list, with time left, moves the
  cursor, though `dropletmetrics.go:224` says that it stays. The targets are still
  measured, in another order. `ResumesAtFirstStarved` and `WholeUnlessRefused` are stated
  without request timeouts.
* One failed HEAD drops a bucket's cached region and one failed location then assumes
  the default one, under which its figures are not found (`spaces.go:220`).
  `EntryKeepsFigures` is stated for the entry under one region.
* A failed `/v2/registries` followed by a 404 of `/v2/registry` empties the snapshot
  of an account that has registries (`registry.go:224`); `ListedStays` is stated for
  refreshes whose listing answers.
* An extended metric that runs out of time on its own, while the refresh has time
  left, ends its load balancer's measurement (`loadbalancermetrics.go:336`):
  `ExtendedNeverBlanks` assumes that nothing runs out of time.
* The comment of `paging.go` says that a duplicate series fails the whole scrape;
  `newHandler` sets `ContinueOnError`, so only the series is lost. `SeriesUnique`
  matters either way.
* `balance`'s `generated_at` has no guard for an absent time, unlike its siblings in
  other collectors; `NothingInvented` does not speak of it.

## 6. Proofs

`SchedulerProofs` is about any set `Collectors` and any subsets `Staggered`,
`Merging` and `Workers` of it; it assumes nothing else (`ConstantsAssumption`).

* `TypeCorrect` comes first, on its own.
* `Invariance` proves the inductive invariant `Inv`. The properties are not
  inductive by themselves: `ReadyHoldsSnapshot` says nothing of a loop that is about
  to call `markReady`, and `ReadyScrapeComplete` nothing of a scrape half done.
  `Published(c)` adds what a loop at each place has already published (a loop about
  to set the timestamp holds a snapshot, one about to mark itself ready has its
  timestamp, a success of 1 outside these two places is a ready collector),
  `Interrupted(c)` that an interrupted refresh stands at the switch with the context
  done, and `Readers` that a scrape was begun after readiness and has shown everyone
  it has read. `LoopStepFrame` says what a loop's step leaves alone, so that
  `LoopStepOwn` need only look at the loop that steps.
* `ReadinessIsHonest`, `RecordingIsWhole`, `ScrapesAfterReadyAreComplete` follow
  from `Inv`; `ShutdownIsQuiet` is an action property from the same invariant.
* `Refinement`: every step of `Scheduler` is a step of `Readiness` or leaves it
  alone.

`MonitoringProofs`, on `FanOut`, is about any set of targets, any duplicate-free listings of them, any
number of workers, with or without a rate limit (`FanOutAssumption`).

* `TypeCorrect` rests on `RotateKeepsLength`: the two halves `rotate` puts together
  are the whole listing, whatever the cursor of an earlier listing was.
* `Invariance` proves `Inv`, which adds to the properties what they need to be
  inductive: `Dispatched` (what has been handed out is in hand or final, the rest
  waits, and a queue closed short of its end means that the context is done),
  `Undecided` (nothing is reported before the end), `Merged` (the snapshot shows what
  the results say) and `CutShortByTime` (a starved target means that time is not
  `open`).
* `NobodyIsLost`, `SuccessIsVisible`, `ReadingsAreKept` and
  `OnlyTheLimiterCutsASuccess` follow. The last is stated where a request cannot time
  out on its own, as in the run that checks it.
* `NobodyIsPassedOver` is `ResumesAtFirstStarved`. It needs a second inductive
  invariant, `Turns`, whose step uses `Inv`: with one worker only the last target
  handed out is in hand (`LastInHand`), and nobody is measured behind a target that
  time cut short (`InOrder`). At the report the targets reached are then exactly
  those in front of the first starved one, their number is its place, and `MovedBy`
  says that the cursor moves by that number whatever listing it was left by.

On `Measure`, `MonitoringProofs` is about any target names but the empty one, any finite
label sets, any sample windows and either collector (`MeasureAssumption`).

* `NewestPoint` says what `newest` returns: nothing if no sample can be used, and
  otherwise the usable sample after which none comes. `newest` is a recursive function
  over the points, as the loop in the code is, and `ListsProofs` supplies the induction.
* `MeasureInv` has five parts. `PublishesWhatWasHeard` speaks of the last step of a
  refresh only, so `Built` says at every step before it what the entry holds so far (a
  reading for each series heard that has a usable sample, and the time of the latest of
  them), `Answered` why two readings cannot fall on the same place (an answer holds a
  label set once, and each request writes under its own figure), and `Earlier` what a
  target that could not be measured falls back on (points of an earlier refresh, marked
  as such). `Place` and `Typed` say where the refresh stands.
* `MeasureTypes` and `PublishesCorrectly` follow.

`SpacesProofs` is about any names, regions, default region and configured buckets
(`SpacesAssumption`).

* `Inv` adds three parts: `Asked` (only buckets of this refresh have an answer),
  `Shown` (between the merge and the end of a refresh, whatever answered is up) and
  `Proven` (until the next merge the cache names only entries that are up). The
  merge makes `Shown` from the answers, and `remember` makes `Proven` from `Shown`:
  without the middle part nothing ties the cache to the snapshot.
* `OnlyProvenRegions` follows; `FiguresAreKept` is an action property whose only
  interesting step is the merge.

`RegistryProofs` is about any set of registries, whether or not the account is
offered the newer surface.

* `ListedAll` follows one registry through a refresh: unless it was missing at some
  moment (`lacked`), it is in the account and, once the listing has answered, listed.
* `ListedIsKept` follows from it; `RepositoriesAreKept` needs only what `swap` makes
  of one entry (`SwapEntry`) and that nothing else but `markAbsent` writes the
  snapshot (`SnapChanges`).

`TransportProofs` is about any finite set of requests, any deadlines, any period and
any number of attempts (`TransportAssumption`; that the requests are finitely many is
what makes them countable, and every execution of the exporter issues finitely many by
any moment).

* `TypeCorrect` proves `TypeOK` together with `AttemptLeft`: only a request that has an
  attempt left ever sleeps before the next one. Without it the attempt number could
  leave its type.
* `Invariance` adds `AttemptsAccountedFor`, `Pacing` and `Waits`. `Paced` alone is not
  inductive: a request that holds a slot may send at any moment from its slot on, and
  `Paced` mentions neither the slots nor the limiter. `OnSchedule` does: the attempts sent
  and the slots held fit before the limiter's next slot. `NeverAhead` says it of every
  moment still to come: the attempts sent and those of the held slots that come up by then
  fit the rate. Taking a slot adds one to both sides of `OnSchedule` and only concerns the
  moments from the new slot on (`ReserveStep`), sending turns a held slot that was due into
  a sent attempt (`SendStep`), and a slot given back is one fewer promised
  (`AbandonStep`). The counting rests on `Census` and `DueIsPart`, that is on
  cardinalities of finite sets. `Waits` adds to `WaitsFit` that slots are promised within
  deadlines and that a refused request is on its way back.
* `RateIsKept`, `NothingIsLostTrackOf` and `GivingUpIsRight` follow.

`ListsProofs` is about any list. The library states induction with an operator as
parameter, which the provers cannot instantiate; `NumbersByInduction` states it for a
*set* of numbers instead, from the well-foundedness of `<`, and each use names the set
of numbers for which its claim holds. On it rest `Iterates` (a loop can be run for any
number of steps) and `SameRun` (two runs of it agree), and so what a recursive function
computes: `OnlyMembers` (the picking loop returns the members of the list that are in
the set, in a list without repeats if the list was one) and `FlattenMembers`.

`DetailsProofs` is about any items, any page size, either kind of listing and either
kind of server, whatever is created and destroyed meanwhile.

* `Inv` is `TypeOK`, `Walk` and `Build`. `PagesAddUp` speaks of a finished walk; `Walk`
  follows it page by page. What is listed is what was seen (`Gathered`), without repeats
  (`Distinct`); over an account that stands still what was seen is what the pages so far
  cover (`Untouched`), and over one that only grows every place they cover was seen,
  except for what is new (`Grown`): a creation moves items towards the end, so none can
  slip back in front of the walk. `CoveredGrows` turns a page. `Build` follows the lookups: an
  entry of the next snapshot belongs to a listed item, is whole, and is known if the one
  it replaces was.
* `WalksAddUp` is `PagesAddUp`, `NoHalfDetails` is `DetailsWhole`, and `DetailsAreKept`
  is the action property `KnownSurvives`.

On `Exporter`, `ExporterProofs` is about any set of settings of the flags (`ExporterAssumption` gives
them their types and nothing else: durations may be zero or negative).

* `TypeCorrect` proves `TypeOK` with `Told`: `serve` returns only after a signal, and
  no request comes before it listens. Without it an exit with status 0 could be anything;
  with it, it is a signal or the printed usage (`Help`).
* `Invariance` adds `Registered`: a process past its wiring has exactly the entries that
  `registerCollectors` makes of flags that were let through.
* `StartsOnlySound` is `StartsSound`. `Registers` says which entries there are (from
  `OnlyMembers`), `RegisteredSound` that theirs are positive intervals and timeouts,
  `Buckets` that the list handed to spaces has what was given and nothing else (from
  `FlattenMembers`), and `OffsetFits` and `OffsetsDiffer` are the arithmetic of
  `stagger`: an offset stays below the window, and no two are equal while the window
  has a unit for everyone.

On `Exposition`, `ExporterProofs` is about any account whose records are what the client
can decode (`WellFormed`: an array is a sequence, what may be left out is there once or
not at all), and any filters with finitely many tags and no empty region
(`ExpositionAssumption`), for each of the 21 kinds of collector. For `SeriesUnique` the
parts of one resource are told apart as the API tells them apart (`KeptApart`), and an
address has one version, which is what makes the two listings of `reservedips` disjoint.
A repository list whose pages shift while it is walked (`registry.go:285`) can repeat a
name and is outside this assumption: there the code does send a series twice.

* `ItemTells` is the part about the conversions: whatever the record, the item `New` makes
  of it keeps its id, and among the series `CollectItem` sends for it the one metric that
  is always there (`Always`) carries that id and no other. There is one lemma per kind
  (`DropletTells` ... `BucketTells`), built from what `Gauges`, `Optional`, `OneHot` and
  `FlattenSeq` send (`TellsThen`, `SilentGauges`, `SilentOneHot`, `SilentFlatten` ...).
* `PassingIsWanted` says that the condition in the code that skips a resource is the
  documented one, and `ListedIsEnough` that nothing is lost by asking for the droplets of
  a single tag instead of all of them.
* `ExpositionInv` carries this through the interleaving: `Heard` (a refresh in progress
  holds answers the account could give and the code could use), `Snapshots` (a snapshot,
  and the one a scrape took, hold exactly the items of what was there and wanted) and
  `Scraped` (the series sent so far name exactly the items gone through, of the snapshot
  the scrape *took*, whatever was swapped since).
* `ExpositionTypes` and `ShowsWhatIsAsked` follow.
* `ItemApart` is what an item's series are told apart by, again with one lemma per kind
  (`DropletApart` ... `KubernetesApart`). `Own(list, metrics, mark)` says that a list of
  series is apart, of these metrics, and has `mark` at the start of its labels; `OwnBoth`
  joins lists of different metrics, `OwnKeyed` and `OwnFlatten` those of one metric that
  carry a key behind the mark: a state (`OwnOneHot`), a node's id, a replica's name, a rule.
* `SeriesApart` rests on `SeparateInv`: of every snapshot, the batches `Emit` sends one
  after the other (an item's series, and at last the totals) share no series, and what was
  sent is of the batches gone through. `KeptSeparate` shows it for what `Swap` stores: no
  resource is twice in what a refresh heard (`HeardOnce`), two resources differ in the
  label that is their id (`ItemsForeign`), and no total is an item's series
  (`CountsForeign`). Since a scrape emits from the snapshot it took, a swap in between
  changes nothing; the mutant that goes back to the collector for each item breaks it.
* `TotalsAgree` is the part of `FiguresAddUp` about the two collectors whose totals are
  counted when the snapshot is made and sent after all its items (`images`,
  `reservedips`): `CountsAgree` for every account. `TotalsOfItems` says what the totals
  count, by the `Place` of an item; `ItemPlaced` that the one info series of an item says
  the same place; and `ShownWherePlaced` that a whole scrape has one info series for each
  item (`SeparateInv`), so that both are as many (`AsMany`).

Results that are lemmas of the invariants rather than properties of a run:
`ReadinessIsHonest`, `RecordingIsWhole`, `NobodyIsLost` and `SuccessIsVisible`.
TLC checks what rests on them (`ImplementsReadiness`, `ReadyScrapeComplete`,
`ReadingsSurvive`, `WholeUnlessRefused`). Every inductive invariant, and each part that
was added to make one inductive, was checked with TLC on the run's instance before it
was proved.

Only model-checked: every liveness property (fairness, leads-to and ENABLED are
outside what the proof system handles), and in Exposition `FiguresAddUp` but for
`TotalsAgree`: the totals that clusters, databases and registries send with an item, and
the clauses `OneState` and `NothingInvented`. These find a series by looking for labels
anywhere in the label tuple, which is right on an instance where no name of one thing is
the name of another, and their zero values are those of that instance; a statement for
every account would need each metric's tuple spelled out. No module uses a RECURSIVE operator.

## 7. Not modelled, and the plan

Nothing of the plan is left but what the end of section 6 leaves to TLC.

Left out for good: wording, label texts and units; logging, the landing page, the
version metric and the rate-limit gauges, which nothing reads back; the token walk
inside one registry's repositories (one outcome); nulls inside a list, which the key
functions dereference before any guard (`apps.go`); a signal before `NotifyContext`
(the runtime's default ends the process) and a second one (ignored); and everything
that is not code with state (`charts`, dashboards, packaging, workflows). Numbers
other than the named bounds are unbounded: the overflow of a huge `Retry-After`
(`client.go:366`) is a listed hazard that no property covers, since a model of it
would restate one multiplication. A panic on a worker's goroutine
(`dropletmetrics.go:318`) is a step of `Scheduler`, and no property forbids it, since
the code does not prevent it.
