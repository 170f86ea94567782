----------------------------- MODULE Scheduler -----------------------------
(***************************************************************************)
(* internal/collector/scheduler.go: one goroutine per collector refreshes  *)
(* it on a ticker; /metrics and /readyz read what the goroutines have      *)
(* recorded, and the process may be told to stop at any moment.            *)
(*                                                                         *)
(* pc[c] is where loop c stands:                                           *)
(*   "hold"     waiting for its stagger offset     (loop, first select)    *)
(*   "refresh"  inside c.Refresh                   (guardedRefresh)        *)
(*   "return"   Refresh returned, nothing recorded (refresh, the switch)   *)
(*   "failing"  about to set success to 0                                  *)
(*   "lastOK"   success is 1, timestamp not yet set                        *)
(*   "ready"    timestamp set, about to call markReady                     *)
(*   "select"   waiting for a tick or for shutdown (loop, second select)   *)
(*   "stopped"  returned from loop                                         *)
(***************************************************************************)
EXTENDS FiniteSets

CONSTANTS Collectors,   \* the registered collectors
          Staggered,    \* those whose offset is positive
          Merging,      \* those that may store a snapshot and then report an error
          Workers       \* those that handle API responses on goroutines of their own

ASSUME ConstantsAssumption == /\ Staggered \subseteq Collectors
                              /\ Merging \subseteq Collectors
                              /\ Workers \subseteq Collectors

VARIABLES
  cancelled,   \* the run context is done
  crashed,     \* a panic outside guardedRefresh ended the process
  healthy,     \* DigitalOcean answers every request, well-formed and in time
  pc, tick, outcome,          \* per loop: where it is, a buffered tick, what Refresh returned
  held, success, lastOK, ready,  \* per collector: snapshot, the two gauges, s.ready
  granted,     \* history: /readyz has answered 200
  scraping, unread, shown  \* the scrape in progress: collectors still to read, and read

loopVars   == <<pc, tick, outcome>>
recordVars == <<held, success, lastOK, ready>>
scrapeVars == <<scraping, unread, shown>>
readVars   == <<granted, scrapeVars>>
envVars    == <<cancelled, crashed, healthy>>
vars == <<envVars, loopVars, recordVars, readVars>>

Places   == {"hold", "refresh", "return", "failing", "lastOK", "ready", "select", "stopped"}
Outcomes == {"none", "ok", "error", "interrupted", "panic"}
Gauge    == {"absent", "0", "1"}

TypeOK ==
  /\ cancelled \in BOOLEAN /\ crashed \in BOOLEAN /\ healthy \in BOOLEAN
  /\ pc \in [Collectors -> Places]
  /\ tick \in [Collectors -> BOOLEAN]
  /\ outcome \in [Collectors -> Outcomes]
  /\ held \in SUBSET Collectors
  /\ success \in [Collectors -> Gauge]
  /\ lastOK \in SUBSET Collectors
  /\ ready \in SUBSET Collectors
  /\ granted \in BOOLEAN
  /\ scraping \in BOOLEAN
  /\ unread \in SUBSET Collectors
  /\ shown \in SUBSET Collectors

Init ==
  /\ cancelled = FALSE /\ crashed = FALSE /\ healthy \in BOOLEAN
  /\ pc = [c \in Collectors |-> IF c \in Staggered THEN "hold" ELSE "refresh"]
  /\ tick = [c \in Collectors |-> FALSE]
  /\ outcome = [c \in Collectors |-> "none"]
  /\ held = {} /\ lastOK = {} /\ ready = {}
  /\ success = [c \in Collectors |-> "absent"]
  /\ granted = FALSE
  /\ scraping = FALSE /\ unread = {} /\ shown = {}

-----------------------------------------------------------------------------
(* The world outside the scheduler. *)

Cancel == /\ ~cancelled
          /\ cancelled' = TRUE
          /\ UNCHANGED <<crashed, healthy, loopVars, recordVars, readVars>>

HealthChange == /\ healthy' = ~healthy
                /\ UNCHANGED <<cancelled, crashed, loopVars, recordVars, readVars>>

(* time.Ticker: its channel buffers one tick and drops the rest.  The      *)
(* ticker exists from before the first refresh until loop returns.         *)
Tick(c) == /\ pc[c] \notin {"hold", "stopped"}
           /\ ~tick[c]
           /\ tick' = [tick EXCEPT ![c] = TRUE]
           /\ UNCHANGED <<pc, outcome, envVars, recordVars, readVars>>

-----------------------------------------------------------------------------
(* loop: with the context done and another case ready too, select may take either. *)

Goto(c, place) == pc' = [pc EXCEPT ![c] = place]

OffsetElapsed(c) == /\ pc[c] = "hold"
                    /\ Goto(c, "refresh")
                    /\ UNCHANGED <<tick, outcome, envVars, recordVars, readVars>>

Ticked(c) == /\ pc[c] = "select"
             /\ tick[c]
             /\ tick' = [tick EXCEPT ![c] = FALSE]
             /\ Goto(c, "refresh")
             /\ UNCHANGED <<outcome, envVars, recordVars, readVars>>

(* Mutant: only the stagger wait listens to the context, the ticker loop does not. *)
StopOnlyHeld(c) == /\ pc[c] = "hold"
                   /\ cancelled
                   /\ Goto(c, "stopped")
                   /\ UNCHANGED <<tick, outcome, envVars, recordVars, readVars>>

Stop(c) == /\ pc[c] \in {"hold", "select"}
           /\ cancelled
           /\ Goto(c, "stopped")
           /\ UNCHANGED <<tick, outcome, envVars, recordVars, readVars>>

-----------------------------------------------------------------------------
(* guardedRefresh: how c.Refresh may come back. *)

Return(c, o) == /\ pc[c] = "refresh"
                /\ Goto(c, "return")
                /\ outcome' = [outcome EXCEPT ![c] = o]

(* The snapshot is swapped in under the collector's lock just before the return. *)
Succeed(c) == /\ Return(c, "ok")
              /\ held' = held \cup {c}
              /\ UNCHANGED <<tick, success, lastOK, ready, envVars, readVars>>

(* Mutant: a failing refresh blanks the snapshot. *)
BlankOnError(c) == held' = held \ {c}

(* An error leaves the snapshot alone, except in a merging collector, which *)
(* may already have stored the part it could read.                          *)
MayMerge(c) == \/ UNCHANGED held
               \/ c \in Merging /\ held' = held \cup {c}

Fail(c) == /\ ~healthy
           /\ Return(c, "error")
           /\ MayMerge(c)
           /\ UNCHANGED <<tick, success, lastOK, ready, envVars, readVars>>

Interrupt(c) == /\ cancelled
                /\ Return(c, "interrupted")
                /\ MayMerge(c)
                /\ UNCHANGED <<tick, success, lastOK, ready, envVars, readVars>>

(* A malformed response met on the goroutine that runs Refresh: recovered. *)
Panic(c) == /\ ~healthy
            /\ Return(c, "panic")
            /\ UNCHANGED <<tick, envVars, recordVars, readVars>>

(* The same met on a goroutine the collector started: recover() in          *)
(* guardedRefresh does not reach it, and the runtime ends the process.      *)
WorkerPanic(c) == /\ ~healthy
                  /\ c \in Workers
                  /\ pc[c] = "refresh"
                  /\ crashed' = TRUE
                  /\ UNCHANGED <<cancelled, healthy, loopVars, recordVars, readVars>>

-----------------------------------------------------------------------------
(* refresh: recording the outcome, one gauge at a time. *)

(* refresh returns to loop, and forgets err. *)
Done(c) == /\ Goto(c, "select")
           /\ outcome' = [outcome EXCEPT ![c] = "none"]

(* Mutant: the runCtx.Err case is missing. *)
ClassifyAnyError(c) == /\ pc[c] = "return"
                       /\ outcome[c] # "ok"
                       /\ Goto(c, "failing")
                       /\ UNCHANGED <<tick, outcome, envVars, recordVars, readVars>>

Classify(c) ==
  /\ pc[c] = "return"
  /\ outcome[c] # "ok"
  /\ \/ outcome[c] # "panic" /\ cancelled /\ Done(c)
     \/ (outcome[c] = "panic" \/ ~cancelled) /\ Goto(c, "failing") /\ UNCHANGED outcome
  /\ UNCHANGED <<tick, envVars, recordVars, readVars>>

(* Mutant: the gauge is set through a value outside its range. *)
FailureAsError(c) == /\ pc[c] = "failing"
                     /\ success' = [success EXCEPT ![c] = "error"]
                     /\ Done(c)
                     /\ UNCHANGED <<tick, held, lastOK, ready, envVars, readVars>>

RecordFailure(c) ==
  /\ pc[c] = "failing"
  /\ success' = [success EXCEPT ![c] = "0"]
  /\ Done(c)
  /\ UNCHANGED <<tick, held, lastOK, ready, envVars, readVars>>

(* Mutant: success is set the first time only. *)
SuccessOnce(c) == /\ pc[c] = "return"
                  /\ outcome[c] = "ok"
                  /\ success' = [success EXCEPT ![c] = IF @ = "absent" THEN "1" ELSE @]
                  /\ Goto(c, "lastOK")
                  /\ UNCHANGED <<tick, outcome, held, lastOK, ready, envVars, readVars>>

RecordSuccess(c) ==
  /\ pc[c] = "return"
  /\ outcome[c] = "ok"
  /\ success' = [success EXCEPT ![c] = "1"]
  /\ Goto(c, "lastOK")
  /\ UNCHANGED <<tick, outcome, held, lastOK, ready, envVars, readVars>>

RecordTime(c) ==
  /\ pc[c] = "lastOK"
  /\ lastOK' = lastOK \cup {c}
  /\ Goto(c, "ready")
  /\ UNCHANGED <<tick, outcome, held, success, ready, envVars, readVars>>

markReady(c) ==
  /\ pc[c] = "ready"
  /\ ready' = ready \cup {c}
  /\ Done(c)
  /\ UNCHANGED <<tick, held, success, lastOK, envVars, readVars>>

-----------------------------------------------------------------------------
(* The HTTP handlers. *)

Pending == Collectors \ ready

(* Mutant: the probe answers 200 without asking Pending. *)
ReadyzAlways == /\ granted' = TRUE
                /\ UNCHANGED <<scrapeVars, envVars, loopVars, recordVars>>

(* handleReadyz answering 200. *)
Readyz == /\ Pending = {}
          /\ granted' = TRUE
          /\ UNCHANGED <<scrapeVars, envVars, loopVars, recordVars>>

(* A scrape reads each collector's snapshot under that collector's own lock, *)
(* in any order and with refreshes going on in between.  Reading changes     *)
(* nothing, so only the scrapes something is promised to are followed: those *)
(* begun after /readyz said 200.                                             *)
ScrapeBegin == /\ granted
               /\ ~scraping
               /\ scraping' = TRUE
               /\ unread' = Collectors
               /\ shown' = {}
               /\ UNCHANGED <<granted, envVars, loopVars, recordVars>>

Collect(c) == /\ c \in unread
              /\ unread' = unread \ {c}
              /\ shown' = shown \cup ({c} \cap held)
              /\ UNCHANGED <<scraping, granted, envVars, loopVars, recordVars>>

ScrapeEnd == /\ scraping
             /\ unread = {}
             /\ scraping' = FALSE
             /\ shown' = {}
             /\ UNCHANGED <<unread, granted, envVars, loopVars, recordVars>>

-----------------------------------------------------------------------------
LoopStep(c) == \/ OffsetElapsed(c) \/ Ticked(c) \/ Stop(c)
               \/ Succeed(c) \/ Fail(c) \/ Interrupt(c) \/ Panic(c) \/ WorkerPanic(c)
               \/ Classify(c) \/ RecordFailure(c)
               \/ RecordSuccess(c) \/ RecordTime(c) \/ markReady(c)

Next == /\ ~crashed
        /\ \/ Cancel \/ HealthChange
           \/ Readyz \/ ScrapeBegin \/ ScrapeEnd
           \/ \E c \in Collectors : Tick(c) \/ Collect(c) \/ LoopStep(c)

Spec == Init /\ [][Next]_vars

(* Every refresh is bounded by a context deadline that all of its calls     *)
(* honour, so it returns; goroutines are scheduled; tickers tick; and Go's  *)
(* select picks among ready cases at random, so shutdown is not passed over *)
(* for ever in favour of a buffered tick.                                   *)
Fairness == \A c \in Collectors :
              /\ WF_vars(~crashed /\ LoopStep(c))
              /\ WF_vars(~crashed /\ Tick(c))
              /\ SF_vars(~crashed /\ Stop(c))

FairSpec == Spec /\ Fairness

-----------------------------------------------------------------------------
(* Readiness is made of snapshots: a collector Pending no longer names has  *)
(* its success, its timestamp and a snapshot behind it, in every            *)
(* interleaving of refresh and the probe (Pending, markReady).              *)
ReadyHoldsSnapshot == ready \subseteq lastOK /\ lastOK \subseteq held

(* A loop waiting for its next tick has finished recording: the last thing  *)
(* it published agrees with what /readyz and the timestamp gauge say, so a  *)
(* collector that reports success 1 is not still pending (refresh).         *)
RecordedWhole == \A c \in Collectors :
                   pc[c] \in {"select", "stopped"} /\ success[c] = "1" =>
                     c \in ready /\ c \in lastOK

(* A scrape begun after /readyz answered 200 misses no collector's metrics, *)
(* whatever the refreshes running under it do (Pending's comment: a scrape  *)
(* taken earlier is silently missing whole metrics).                        *)
ReadyScrapeComplete ==
  scraping /\ unread = {} => shown = Collectors

(* A refresh cut short by shutdown is never published as a failure of the   *)
(* collector, however the cancellation falls between Refresh returning and  *)
(* the gauge being set (refresh, the runCtx.Err case).                      *)
ShutdownNotAFailure ==
  [][\A c \in Collectors : outcome[c] = "interrupted" => success'[c] = success[c]]_vars

(* The scheduler implements the promise of Readiness.tla. *)
Promise == INSTANCE Readiness WITH Collectors <- Collectors,
                                   held <- held, ready <- ready, granted <- granted
ImplementsReadiness == Promise!Spec

(* Run returns: once the context is cancelled every loop stops. *)
RunReturns == cancelled ~> (crashed \/ \A c \in Collectors : pc[c] = "stopped")

(* When DigitalOcean stays well, every collector ends up reporting success  *)
(* and the process ends up ready, whatever went wrong before.               *)
Recovers == <>[](healthy /\ ~cancelled /\ ~crashed) =>
              /\ \A c \in Collectors : <>[](success[c] = "1")
              /\ <>[](Pending = {})
=============================================================================
