-------------------------- MODULE SchedulerProofs --------------------------
(***************************************************************************)
(* Scheduler.tla for every set of collectors.  The inductive invariant     *)
(* Inv relates where each loop stands to what it has already published:    *)
(* a loop about to set the timestamp holds a snapshot and has success 1, a *)
(* loop about to call markReady has its timestamp too.                     *)
(***************************************************************************)
EXTENDS Scheduler, TLAPS

(* The types are right in every reachable state. *)
THEOREM TypeCorrect == Spec => []TypeOK
<1>1. Init => TypeOK
  BY DEF Init, TypeOK, Places, Outcomes, Gauge
<1>2. TypeOK /\ [Next]_vars => TypeOK'
  <2> SUFFICES ASSUME TypeOK, [Next]_vars PROVE TypeOK'
    OBVIOUS
  <2>1. CASE Cancel \/ HealthChange
    BY <2>1 DEF TypeOK, Cancel, HealthChange, loopVars, recordVars, readVars, scrapeVars
  <2>2. CASE Readyz \/ ScrapeBegin \/ ScrapeEnd
    BY <2>2 DEF TypeOK, Readyz, ScrapeBegin, ScrapeEnd, envVars, loopVars, recordVars, scrapeVars
  <2>3. ASSUME NEW c \in Collectors, Tick(c) \/ Collect(c)
        PROVE  TypeOK'
    BY <2>3 DEF TypeOK, Tick, Collect, envVars, loopVars, recordVars, readVars, scrapeVars
  <2>4. ASSUME NEW c \in Collectors, OffsetElapsed(c) \/ Ticked(c) \/ Stop(c)
        PROVE  TypeOK'
    BY <2>4 DEF TypeOK, OffsetElapsed, Ticked, Stop, Goto, Places, envVars, recordVars, readVars, scrapeVars
  <2>5. ASSUME NEW c \in Collectors,
               Succeed(c) \/ Fail(c) \/ Interrupt(c) \/ Panic(c) \/ WorkerPanic(c)
        PROVE  TypeOK'
    BY <2>5 DEF TypeOK, Succeed, Fail, Interrupt, Panic, WorkerPanic, Return, MayMerge, Goto,
                Places, Outcomes, envVars, loopVars, recordVars, readVars, scrapeVars
  <2>6. ASSUME NEW c \in Collectors,
               Classify(c) \/ RecordFailure(c) \/ RecordSuccess(c) \/ RecordTime(c) \/ markReady(c)
        PROVE  TypeOK'
    BY <2>6 DEF TypeOK, Classify, RecordFailure, RecordSuccess, RecordTime, markReady, Done, Goto,
                Places, Outcomes, Gauge, envVars, loopVars, recordVars, readVars, scrapeVars
  <2>7. CASE UNCHANGED vars
    BY <2>7 DEF TypeOK, vars, envVars, loopVars, recordVars, readVars, scrapeVars
  <2>8. QED
    BY <2>1, <2>2, <2>3, <2>4, <2>5, <2>6, <2>7 DEF Next, LoopStep
<1>3. QED
  BY <1>1, <1>2, PTL DEF Spec

-----------------------------------------------------------------------------
(* What loop c has published by the time it stands at pc[c]. *)
Published(c) ==
  /\ pc[c] = "return" /\ outcome[c] = "ok" => c \in held
  /\ pc[c] \in {"lastOK", "ready"} => c \in held
  /\ pc[c] = "ready" => c \in lastOK
  /\ success[c] = "1" /\ pc[c] \notin {"lastOK", "ready"} => c \in ready

(* An interrupted refresh waits at the switch, and the context is done. *)
Interrupted(c) == outcome[c] = "interrupted" => pc[c] = "return" /\ cancelled

(* What the readers rely on. *)
Readers == /\ granted => ready = Collectors
           /\ scraping => granted /\ Collectors \ unread \subseteq shown

Inv == /\ TypeOK
       /\ ReadyHoldsSnapshot
       /\ \A c \in Collectors : Published(c) /\ Interrupted(c)
       /\ Readers

(* A step of loop c leaves every other loop's place, outcome and gauge as   *)
(* they are, and only ever adds to held, lastOK and ready.                  *)
LEMMA LoopStepFrame ==
  ASSUME TypeOK, NEW c \in Collectors, LoopStep(c)
  PROVE  /\ held \subseteq held' /\ lastOK \subseteq lastOK' /\ ready \subseteq ready'
         /\ \A d \in Collectors \ {c} : /\ pc'[d] = pc[d]
                                        /\ outcome'[d] = outcome[d]
                                        /\ success'[d] = success[d]
         /\ UNCHANGED <<cancelled, readVars>>
<1>1. CASE OffsetElapsed(c) \/ Ticked(c) \/ Stop(c)
  BY <1>1 DEF TypeOK, OffsetElapsed, Ticked, Stop, Goto, envVars, recordVars, readVars
<1>2. CASE Succeed(c) \/ Fail(c) \/ Interrupt(c) \/ Panic(c) \/ WorkerPanic(c)
  BY <1>2 DEF TypeOK, Succeed, Fail, Interrupt, Panic, WorkerPanic, Return, MayMerge, Goto,
              envVars, loopVars, recordVars, readVars
<1>3. CASE Classify(c) \/ RecordFailure(c) \/ RecordSuccess(c) \/ RecordTime(c) \/ markReady(c)
  BY <1>3 DEF TypeOK, Classify, RecordFailure, RecordSuccess, RecordTime, markReady, Done, Goto,
              envVars, recordVars, readVars
<1>4. QED
  BY <1>1, <1>2, <1>3 DEF LoopStep

(* The loop that takes the step keeps its own part of the invariant. *)
LEMMA LoopStepOwn ==
  ASSUME Inv, NEW c \in Collectors, LoopStep(c)
  PROVE  ReadyHoldsSnapshot' /\ Published(c)' /\ Interrupted(c)'
<1> USE DEF Inv, TypeOK, ReadyHoldsSnapshot, Published, Interrupted
<1>1. CASE OffsetElapsed(c) \/ Ticked(c) \/ Stop(c)
  BY <1>1 DEF OffsetElapsed, Ticked, Stop, Goto, envVars, recordVars, readVars
<1>2. CASE Succeed(c)
  BY <1>2 DEF Succeed, Return, Goto, envVars, readVars
<1>3. CASE Fail(c) \/ Interrupt(c)
  BY <1>3 DEF Fail, Interrupt, Return, MayMerge, Goto, envVars, readVars
<1>4. CASE Panic(c) \/ WorkerPanic(c)
  BY <1>4 DEF Panic, WorkerPanic, Return, Goto, envVars, loopVars, recordVars, readVars
<1>5. CASE Classify(c)
  BY <1>5 DEF Classify, Done, Goto, envVars, recordVars, readVars
<1>6. CASE RecordFailure(c)
  BY <1>6 DEF RecordFailure, Done, Goto, envVars, readVars, Gauge
<1>7. CASE RecordSuccess(c)
  BY <1>7 DEF RecordSuccess, Goto, envVars, readVars
<1>8. CASE RecordTime(c) \/ markReady(c)
  BY <1>8 DEF RecordTime, markReady, Done, Goto, envVars, readVars
<1>9. QED
  BY <1>1, <1>2, <1>3, <1>4, <1>5, <1>6, <1>7, <1>8 DEF LoopStep

(* Inv is inductive. *)
LEMMA InvStep ==
  ASSUME Inv, TypeOK', [Next]_vars
  PROVE  Inv'
<1>1. ASSUME NEW c \in Collectors, LoopStep(c)
      PROVE  Inv'
  <2>1. ReadyHoldsSnapshot' /\ Published(c)' /\ Interrupted(c)'
    BY <1>1, LoopStepOwn
  <2>2. ASSUME NEW d \in Collectors \ {c}
        PROVE  Published(d)' /\ Interrupted(d)'
    BY <1>1, LoopStepFrame DEF Inv, Published, Interrupted
  <2>3. Readers'
    BY <1>1, LoopStepFrame DEF Inv, TypeOK, Readers, readVars, scrapeVars
  <2>4. QED
    BY <2>1, <2>2, <2>3 DEF Inv
<1>2. CASE Cancel \/ HealthChange
  BY <1>2 DEF Cancel, HealthChange, Inv, ReadyHoldsSnapshot, Published, Interrupted, Readers,
              loopVars, recordVars, readVars, scrapeVars
<1>3. ASSUME NEW c \in Collectors, Tick(c)
      PROVE  Inv'
  BY <1>3 DEF Tick, Inv, ReadyHoldsSnapshot, Published, Interrupted, Readers,
              envVars, recordVars, readVars, scrapeVars
<1>4. CASE Readyz \/ ScrapeBegin \/ ScrapeEnd
  BY <1>4 DEF Readyz, ScrapeBegin, ScrapeEnd, Pending, Inv, TypeOK, ReadyHoldsSnapshot,
              Published, Interrupted, Readers, envVars, loopVars, recordVars, scrapeVars
<1>5. ASSUME NEW c \in Collectors, Collect(c)
      PROVE  Inv'
  <2>1. scraping => granted' /\ Collectors \ unread' \subseteq shown'
    BY <1>5 DEF Collect, Inv, TypeOK, ReadyHoldsSnapshot, Readers
  <2>2. QED
    BY <1>5, <2>1 DEF Collect, Inv, ReadyHoldsSnapshot, Published, Interrupted, Readers,
                      envVars, loopVars, recordVars
<1>6. CASE UNCHANGED vars
  BY <1>6 DEF vars, Inv, ReadyHoldsSnapshot, Published, Interrupted, Readers,
              envVars, loopVars, recordVars, readVars, scrapeVars
<1>7. QED
  BY <1>1, <1>2, <1>3, <1>4, <1>5, <1>6 DEF Next

(* Inv holds in every reachable state. *)
THEOREM Invariance == Spec => []Inv
<1>1. Init => Inv
  <2> SUFFICES ASSUME Init PROVE ReadyHoldsSnapshot /\ Readers
                                 /\ \A c \in Collectors : Published(c) /\ Interrupted(c)
    BY DEF Inv, Init, TypeOK, Places, Outcomes, Gauge
  <2> QED
    BY DEF Init, ReadyHoldsSnapshot, Published, Interrupted, Readers
<1>2. Inv /\ TypeOK' /\ [Next]_vars => Inv'
  BY InvStep
<1>3. QED
  BY <1>1, <1>2, TypeCorrect, PTL DEF Spec

-----------------------------------------------------------------------------
(* /readyz never counts a collector that has no snapshot behind it. *)
THEOREM ReadinessIsHonest == Spec => []ReadyHoldsSnapshot
BY Invariance, PTL DEF Inv

(* A loop that waits for its next tick has recorded its last outcome whole. *)
THEOREM RecordingIsWhole == Spec => []RecordedWhole
<1>1. Inv => RecordedWhole
  BY DEF Inv, Published, ReadyHoldsSnapshot, RecordedWhole
<1>2. QED
  BY <1>1, Invariance, PTL

(* Whoever scrapes after a 200 from /readyz is shown every collector. *)
THEOREM ScrapesAfterReadyAreComplete == Spec => []ReadyScrapeComplete
<1>1. Inv => ReadyScrapeComplete
  BY DEF Inv, TypeOK, Readers, ReadyScrapeComplete
<1>2. QED
  BY <1>1, Invariance, PTL

(* No interleaving of shutdown and a refresh it cuts short publishes a failure. *)
THEOREM ShutdownIsQuiet == Spec => ShutdownNotAFailure
<1>1. Inv /\ [Next]_vars =>
        [\A c \in Collectors : outcome[c] = "interrupted" => success'[c] = success[c]]_vars
  <2> SUFFICES ASSUME Inv, Next, NEW c \in Collectors, outcome[c] = "interrupted"
               PROVE  success'[c] = success[c]
    BY DEF vars
  <2>1. pc[c] = "return"
    BY DEF Inv, Interrupted
  <2>2. ASSUME LoopStep(c) PROVE success'[c] = success[c]
    BY <2>1, <2>2 DEF Inv, TypeOK, LoopStep, OffsetElapsed, Ticked, Stop, Succeed, Fail, Interrupt,
         Panic, WorkerPanic, Classify, RecordFailure, RecordSuccess, RecordTime, markReady,
         Return, Done, Goto, recordVars
  <2>3. ASSUME NEW d \in Collectors \ {c}, LoopStep(d) PROVE success'[c] = success[c]
    BY <2>3, LoopStepFrame DEF Inv
  <2>4. CASE \/ Cancel \/ HealthChange \/ Readyz \/ ScrapeBegin \/ ScrapeEnd
             \/ \E d \in Collectors : Tick(d) \/ Collect(d)
    BY <2>4 DEF Cancel, HealthChange, Readyz, ScrapeBegin, ScrapeEnd, Tick, Collect, recordVars
  <2>5. QED
    BY <2>2, <2>3, <2>4 DEF Next
<1>2. QED
  BY <1>1, Invariance, PTL DEF Spec, ShutdownNotAFailure

-----------------------------------------------------------------------------
(* The scheduler implements Readiness.tla: its machinery adds nothing to,   *)
(* and takes nothing from, what a rollout is promised.                      *)
THEOREM Refinement == Spec => ImplementsReadiness
<1>1. Init => Promise!Init
  BY DEF Init, Promise!Init
<1>2. Inv /\ [Next]_vars => [Promise!Next]_Promise!vars
  <2> SUFFICES ASSUME Inv, [Next]_vars
               PROVE  Promise!Next \/ UNCHANGED Promise!vars
    OBVIOUS
  <2>1. ASSUME NEW c \in Collectors, Succeed(c) \/ Fail(c) \/ Interrupt(c)
        PROVE  Promise!Hold(c) \/ UNCHANGED Promise!vars
    BY <2>1 DEF Succeed, Fail, Interrupt, MayMerge, readVars, Promise!Hold, Promise!vars
  <2>2. ASSUME NEW c \in Collectors, markReady(c)
        PROVE  Promise!BecomeReady(c)
    BY <2>2 DEF Inv, Published, markReady, readVars, Promise!BecomeReady
  <2>3. CASE Readyz
    BY <2>3 DEF Inv, TypeOK, Readyz, Pending, recordVars, Promise!Grant, Promise!Next
  <2>4. ASSUME NEW c \in Collectors,
               \/ OffsetElapsed(c) \/ Ticked(c) \/ Stop(c) \/ Panic(c) \/ WorkerPanic(c)
               \/ Classify(c) \/ RecordFailure(c) \/ RecordSuccess(c) \/ RecordTime(c)
               \/ Tick(c) \/ Collect(c)
        PROVE  UNCHANGED Promise!vars
    BY <2>4 DEF OffsetElapsed, Ticked, Stop, Panic, WorkerPanic, Classify, RecordFailure,
                RecordSuccess, RecordTime, Tick, Collect, recordVars, readVars, Promise!vars
  <2>5. CASE Cancel \/ HealthChange \/ ScrapeBegin \/ ScrapeEnd \/ UNCHANGED vars
    BY <2>5 DEF Cancel, HealthChange, ScrapeBegin, ScrapeEnd, vars, recordVars, readVars, Promise!vars
  <2>6. QED
    BY <2>1, <2>2, <2>3, <2>4, <2>5 DEF Next, LoopStep, Promise!Next
<1>3. QED
  BY <1>1, <1>2, Invariance, PTL DEF Spec, ImplementsReadiness, Promise!Spec
=============================================================================
