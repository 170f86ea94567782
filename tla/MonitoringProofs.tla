-------------------------- MODULE MonitoringProofs --------------------------
(***************************************************************************)
(* The two halves of a monitoring collector, for every value of their      *)
(* constants: FanOut.tla, the refresh that shares its targets out, and     *)
(* Measure.tla, what measuring one of them leaves behind.                  *)
(*                                                                         *)
(* FanOut.tla: any way of listing the targets, any number of workers, with *)
(* or without a rate limit.  The inductive invariant Inv ties the results  *)
(* to how far the dispatcher has come, the snapshot to the results it was  *)
(* merged from, and every result that time cut short to the time that did  *)
(* it; Turns adds what a single worker makes of the order of the list.     *)
(*                                                                         *)
(* Measure.tla: any names and labels, any windows of points, and whichever *)
(* metrics the account makes interesting.  The inductive invariant         *)
(* MeasureInv says that the entry being built is at every moment what was  *)
(* heard so far and nothing else, and that what the snapshot still shows   *)
(* is of an earlier refresh.                                               *)
(***************************************************************************)
EXTENDS FanOut, Measure, ListsProofs, FiniteSetTheorems

(* rotate keeps every target of the listing, and no other, in a list of the *)
(* same length.                                                             *)
LEMMA RotateKeepsLength ==
  ASSUME TypeOK, NEW l \in setting.listings
  PROVE  Rotate(l) \in Seq(Targets) /\ Len(Rotate(l)) = Len(l)
<1>1. l \in Seq(Targets)
  BY FanOutAssumption DEF TypeOK
<1>2. CASE l = << >>
  BY <1>1, <1>2 DEF Rotate
<1>3. CASE l # << >>
  <2> DEFINE from == cursor % Len(l)
             tail == SubSeq(l, from + 1, Len(l))
             head == SubSeq(l, 1, from)
  <2>1. Len(l) \in Nat \ {0} /\ from \in 0..(Len(l) - 1)
    BY <1>1, <1>3 DEF TypeOK
  <2>2. tail \in Seq(Targets) /\ Len(tail) = Len(l) - from
    BY <1>1, <2>1
  <2>3. head \in Seq(Targets) /\ Len(head) = from
    BY <1>1, <2>1
  <2>4. Rotate(l) = tail \o head
    BY <1>3 DEF Rotate
  <2>5. tail \o head \in Seq(Targets) /\ Len(tail \o head) = Len(tail) + Len(head)
    <3> HIDE DEF tail, head
    <3> QED BY <2>2, <2>3
  <2>6. Len(tail) + Len(head) = Len(l)
    <3> HIDE DEF from, tail, head
    <3> QED BY <2>1, <2>2, <2>3
  <2>7. QED
    BY <2>4, <2>5, <2>6
<1>4. QED
  BY <1>2, <1>3

(* A count of results is a number. *)
LEMMA CountIsNat ==
  ASSUME TypeOK, NEW status
  PROVE  Cardinality(With(status)) \in Nat
<1>1. Len(refs) \in Nat
  BY DEF TypeOK
<1>2. IsFiniteSet(1..Len(refs))
  BY <1>1, FS_Interval
<1>3. With(status) \subseteq 1..Len(refs)
  BY DEF With
<1>4. QED
  BY <1>2, <1>3, FS_Subset, FS_CardinalityType

(* The types are right in every reachable state. *)
THEOREM TypeCorrect == Spec => []TypeOK
<1>1. Init => TypeOK
  BY DEF Init, TypeOK, Phases, Times, Entries, Verdicts
<1>2. TypeOK /\ [Next]_vars => TypeOK'
  <2> SUFFICES ASSUME TypeOK, [Next]_vars PROVE TypeOK'
    OBVIOUS
  <2>1. CASE Tighten \/ Expire
    BY <2>1 DEF TypeOK, Tighten, Expire, Times, refreshVars
  <2>2. CASE ListFails
    BY <2>2 DEF TypeOK, ListFails, Verdicts, refreshVars
  <2>3. ASSUME NEW l \in setting.listings, ListTargets(l)
        PROVE  TypeOK'
    <3>1. Rotate(l) \in Seq(Targets) /\ Len(Rotate(l)) = Len(l)
      BY RotateKeepsLength
    <3>2. Len(l) \in Nat
      BY FanOutAssumption DEF TypeOK
    <3>3. results' \in [1..Len(refs') -> Results] /\ queued' \in 0..Len(refs')
      BY <2>3, <3>1, <3>2 DEF ListTargets, Results
    <3>4. QED
      BY <2>3, <3>1, <3>3 DEF TypeOK, ListTargets, Phases, Times, Verdicts
  <2>4. CASE HandOver
    BY <2>4 DEF TypeOK, HandOver, Results, Busy
  <2>5. CASE GiveUp \/ CloseQueue
    BY <2>5 DEF TypeOK, GiveUp, CloseQueue, Phases, refreshVars
  <2>6. ASSUME NEW i \in DOMAIN refs, Work(i)
        PROVE  TypeOK'
    BY <2>6 DEF TypeOK, Work, Measured, Failed, Starved, Outcome, Results, Final
  <2>7. CASE Wait
    BY <2>7 DEF TypeOK, Wait, Results, Final, Phases
  <2>8. CASE Merge
    BY <2>8 DEF TypeOK, Merge, Entries, Phases, refreshVars
  <2>9. CASE Report
    <3>1. cursor' \in Nat
      <4>1. Reached \in Nat
        BY CountIsNat DEF Reached
      <4>2. CASE refs = << >>
        BY <2>9, <4>2 DEF Report, Advance, TypeOK
      <4>3. CASE refs # << >>
        <5>1. Len(refs) \in Nat \ {0}
          BY <4>3 DEF TypeOK
        <5>2. (cursor + Reached) % Len(refs) \in Nat
          BY <4>1, <5>1 DEF TypeOK
        <5>3. QED
          BY <2>9, <4>3, <5>2 DEF Report, Advance
      <4>4. QED
        BY <4>2, <4>3
    <3>2. QED
      BY <2>9, <3>1 DEF TypeOK, Report, Judge, Phases, Times, Verdicts
  <2>10. CASE UNCHANGED vars
    BY <2>10 DEF TypeOK, vars, refreshVars
  <2>11. QED
    BY <2>1, <2>2, <2>3, <2>4, <2>5, <2>6, <2>7, <2>8, <2>9, <2>10 DEF Next
<1>3. QED
  BY <1>1, <1>2, PTL DEF Spec

-----------------------------------------------------------------------------
(* Every index has been handed out or is waiting, and once the queue is     *)
(* closed short of the end the context was done.                            *)
Dispatched ==
  /\ phase = "idle" => refs = << >>
  /\ phase \in {"dispatch", "drain"} =>
       /\ \A i \in 1..queued : results[i] \in Busy \cup Final
       /\ \A i \in DOMAIN refs : i > queued => results[i] = "waiting"
  /\ phase = "drain" /\ queued < Len(refs) => time = "done"

(* Nothing is reported before the refresh is over. *)
Undecided == phase # "idle" => verdict = "none"

(* What the merge made of the results: with somebody measured, somebody is  *)
(* up, and an empty listing leaves no entry.                                *)
Merged ==
  phase = "report" =>
    /\ With({"ok"}) # {} => \E t \in Targets : Shows(t, "fresh")
    /\ refs = << >> => \A t \in Targets : Shows(t, "absent")

(* A target is cut short by nothing but time, where a single request cannot *)
(* time out on its own.                                                     *)
CutShortByTime ==
  ~setting.requestTimeouts /\ With({"doomed", "starved"}) # {} => time # "open"

Inv == /\ TypeOK
       /\ Dispatched
       /\ Undecided
       /\ EveryTargetAccountedFor
       /\ Merged
       /\ SuccessShowsSomeone
       /\ CutShortByTime

(* What is in nobody's hands when the workers are done is final. *)
LEMMA WaitFinishes ==
  ASSUME Inv, Wait
  PROVE  EveryTargetAccountedFor'
<1>1. ASSUME NEW i \in 1..Len(refs)
      PROVE  results'[i] \in Final
  <2>1. CASE i > queued
    BY <2>1 DEF Wait, Final
  <2>2. CASE i \in 1..queued
    <3>1. results[i] \in Busy \cup Final
      BY <2>2 DEF Inv, Dispatched, Wait
    <3>2. results[i] \notin Busy
      BY DEF Wait, With
    <3>3. results'[i] = results[i]
      BY <2>2 DEF Inv, TypeOK, Wait
    <3>4. QED
      BY <3>1, <3>2, <3>3
  <2>3. QED
    BY <2>1, <2>2 DEF Inv, TypeOK
<1>2. refs' = refs /\ DOMAIN refs = 1..Len(refs)
  BY DEF Inv, TypeOK, Wait
<1>3. QED
  BY <1>1, <1>2 DEF EveryTargetAccountedFor, With

(* The merge shows whoever was measured, and nobody of an empty listing. *)
LEMMA MergeShows ==
  ASSUME Inv, Merge
  PROVE  Merged'
<1>1. ASSUME NEW i \in With({"ok"})
      PROVE  \E t \in Targets : Shows(t, "fresh")'
  <2>1. refs[i] \in Targets /\ i \in DOMAIN refs
    BY DEF Inv, TypeOK, With
  <2>2. Listed(refs[i]) /\ Succeeded(refs[i])
    BY <2>1 DEF Listed, Succeeded
  <2>3. snap'[refs[i]] = "fresh"
    BY <2>1, <2>2, Zenon DEF Merge
  <2>4. QED
    BY <2>1, <2>3 DEF Shows
<1>2. ASSUME refs = << >>, NEW t \in Targets
      PROVE  Shows(t, "absent")'
  <2>1. ~Listed(t) /\ ~Succeeded(t)
    BY <1>2 DEF Listed, Succeeded, With
  <2>2. snap'[t] = "absent"
    BY <2>1, Zenon DEF Merge
  <2>3. QED
    BY <2>2 DEF Shows
<1>3. With({"ok"})' = With({"ok"}) /\ refs' = refs
  BY DEF Merge, With, refreshVars
<1>4. QED
  BY <1>1, <1>2, <1>3 DEF Merged

(* What is reported as a success shows somebody. *)
LEMMA ReportShows ==
  ASSUME Inv, Report
  PROVE  SuccessShowsSomeone'
<1>1. snap' = snap /\ Merged
  BY DEF Inv, Report
<1>2. ASSUME verdict' = "ok"
      PROVE  With({"ok"}) # {} \/ refs = << >>
  BY <1>2 DEF Report, Judge
<1>3. QED
  BY <1>1, <1>2 DEF Merged, Report, SuccessShowsSomeone, Shows

(* Inv is inductive. *)
LEMMA InvStep ==
  ASSUME Inv, TypeOK', [Next]_vars
  PROVE  Inv'
<1>1. CASE Tighten \/ Expire
  BY <1>1 DEF Tighten, Expire, Inv, Dispatched, Undecided, EveryTargetAccountedFor, Merged,
              SuccessShowsSomeone, CutShortByTime, CanPass, With, Shows, refreshVars
<1>2. CASE ListFails
  BY <1>2 DEF ListFails, Inv, Dispatched, Undecided, EveryTargetAccountedFor, Merged,
              SuccessShowsSomeone, CutShortByTime, With, Shows, refreshVars
<1>3. ASSUME NEW l \in setting.listings, ListTargets(l)
      PROVE  Inv'
  <2>1. Len(refs') = Len(l)
    BY <1>3, RotateKeepsLength DEF Inv, ListTargets
  <2>2. \A i \in 1..Len(refs') : results'[i] = "waiting"
    BY <1>3, <2>1 DEF ListTargets
  <2>3. Dispatched'
    BY <1>3, <2>2 DEF ListTargets, Dispatched, TypeOK
  <2>4. CutShortByTime'
    BY <2>2 DEF CutShortByTime, With
  <2>5. QED
    BY <1>3, <2>3, <2>4 DEF ListTargets, Inv, Undecided, EveryTargetAccountedFor, Merged, SuccessShowsSomeone
<1>4. CASE HandOver
  <2>1. Dispatched'
    BY <1>4 DEF HandOver, Inv, TypeOK, Dispatched, Busy
  <2>2. CutShortByTime'
    BY <1>4 DEF HandOver, Inv, TypeOK, CutShortByTime, With
  <2>3. QED
    BY <1>4, <2>1, <2>2 DEF HandOver, Inv, Undecided, EveryTargetAccountedFor, Merged, SuccessShowsSomeone
<1>5. CASE GiveUp \/ CloseQueue
  BY <1>5 DEF GiveUp, CloseQueue, Inv, TypeOK, Dispatched, Undecided, EveryTargetAccountedFor, Merged,
              SuccessShowsSomeone, CutShortByTime, With, refreshVars
<1>6. ASSUME NEW i \in DOMAIN refs, Work(i)
      PROVE  Inv'
  <2>1. results[i] \in Busy /\ results' = [results EXCEPT ![i] = results'[i]] /\ results'[i] \in Final
    BY <1>6 DEF Work, Measured, Failed, Starved, Outcome, Inv, TypeOK, Busy, Final
  <2>2. UNCHANGED <<setting, phase, time, refs, queued, snap, cursor, verdict>>
    BY <1>6 DEF Work, Measured, Failed, Starved, Outcome
  <2>3. phase \in {"dispatch", "drain"}
    <3>1. phase # "idle"
      BY <1>6 DEF Inv, Dispatched
    <3>2. i \notin With(Final)
      BY <2>1 DEF With, Busy, Final
    <3>3. phase \notin {"merge", "report"}
      BY <1>6, <3>2 DEF Inv, EveryTargetAccountedFor
    <3>4. QED
      BY <3>1, <3>3 DEF Inv, TypeOK, Phases
  <2>4. Dispatched'
    BY <2>1, <2>2, <2>3 DEF Inv, TypeOK, Dispatched, Busy, Final
  <2>5. CutShortByTime'
    BY <1>6 DEF Work, Measured, Failed, Starved, Outcome, Inv, TypeOK, CutShortByTime, With
  <2>6. QED
    BY <2>2, <2>3, <2>4, <2>5 DEF Inv, Undecided, EveryTargetAccountedFor, Merged, SuccessShowsSomeone
<1>7. CASE Wait
  <2>1. EveryTargetAccountedFor'
    BY <1>7, WaitFinishes
  <2>2. CutShortByTime'
    BY <1>7 DEF Wait, Inv, TypeOK, Dispatched, CutShortByTime, With
  <2>3. QED
    BY <1>7, <2>1, <2>2 DEF Wait, Inv, Dispatched, Undecided, Merged, SuccessShowsSomeone
<1>8. CASE Merge
  <2>1. Merged'
    BY <1>8, MergeShows
  <2>2. QED
    BY <1>8, <2>1 DEF Merge, Inv, Dispatched, Undecided, EveryTargetAccountedFor, SuccessShowsSomeone,
                      CutShortByTime, With, refreshVars
<1>9. CASE Report
  <2>1. SuccessShowsSomeone'
    BY <1>9, ReportShows
  <2>2. QED
    BY <1>9, <2>1 DEF Report, Inv, Dispatched, Undecided, EveryTargetAccountedFor, Merged, CutShortByTime, With
<1>10. CASE UNCHANGED vars
  BY <1>10 DEF vars, Inv, Dispatched, Undecided, EveryTargetAccountedFor, Merged, SuccessShowsSomeone,
               CutShortByTime, With, Shows, refreshVars
<1>11. QED
  BY <1>1, <1>2, <1>3, <1>4, <1>5, <1>6, <1>7, <1>8, <1>9, <1>10 DEF Next

(* Inv holds in every reachable state. *)
THEOREM Invariance == Spec => []Inv
<1>1. Init => Inv
  <2> SUFFICES ASSUME Init
               PROVE  /\ TypeOK
                      /\ Dispatched /\ Undecided /\ EveryTargetAccountedFor /\ Merged
                      /\ SuccessShowsSomeone /\ CutShortByTime
    BY DEF Inv
  <2>1. TypeOK
    BY DEF Init, TypeOK, Phases, Times, Entries, Verdicts
  <2>2. QED
    BY <2>1 DEF Init, Dispatched, Undecided, EveryTargetAccountedFor, Merged, SuccessShowsSomeone,
                CutShortByTime, With
<1>2. Inv /\ TypeOK' /\ [Next]_vars => Inv'
  BY InvStep
<1>3. QED
  BY <1>1, <1>2, TypeCorrect, PTL DEF Spec

-----------------------------------------------------------------------------
(* No target is lost between the dispatcher and the workers. *)
THEOREM NobodyIsLost == Spec => []EveryTargetAccountedFor
BY Invariance, PTL DEF Inv

(* A success that is not an empty fleet's shows somebody who is up. *)
THEOREM SuccessIsVisible == Spec => []SuccessShowsSomeone
BY Invariance, PTL DEF Inv

(* Readings outlive any run of failures of a listed target. *)
THEOREM ReadingsAreKept == Spec => ReadingsSurvive
<1>1. TypeOK /\ [Next]_vars =>
        [\A t \in Targets : HasReadings(t) /\ snap'[t] # "absent" =>
                                snap'[t] \in {"stale", "fresh"}]_vars
  <2> SUFFICES ASSUME TypeOK, Next, NEW t \in Targets, HasReadings(t), snap'[t] # "absent"
               PROVE  snap'[t] \in {"stale", "fresh"}
    BY DEF vars
  <2>1. CASE Merge
    <3>1. Succeeded(t) => Listed(t)
      BY DEF Succeeded, Listed, With, TypeOK
    <3>2. CASE ~Listed(t)
      <4>1. snap'[t] = "absent"
        BY <2>1, <3>1, <3>2, Zenon DEF Merge
      <4>2. QED
        BY <4>1
    <3>3. CASE Listed(t) /\ Succeeded(t)
      <4>1. snap'[t] = "fresh"
        BY <2>1, <3>3, Zenon DEF Merge
      <4>2. QED
        BY <4>1
    <3>4. CASE Listed(t) /\ ~Succeeded(t)
      <4>1. snap'[t] = "stale"
        BY <2>1, <3>4, Zenon DEF Merge
      <4>2. QED
        BY <4>1
    <3>5. QED
      BY <3>2, <3>3, <3>4
  <2>2. CASE ~Merge
    <3>1. snap' = snap
      BY <2>2 DEF Next, Tighten, Expire, ListFails, ListTargets, HandOver, GiveUp, CloseQueue,
                  Work, Measured, Failed, Starved, Outcome, Wait, Report, refreshVars
    <3>2. QED
      BY <3>1 DEF HasReadings
  <2>3. QED
    BY <2>1, <2>2
<1>2. QED
  BY <1>1, TypeCorrect, PTL DEF Spec, ReadingsSurvive

(* Where a single request cannot time out on its own, a success that left    *)
(* somebody out is always the limiter's doing.                               *)
THEOREM OnlyTheLimiterCutsASuccess == Spec => WholeUnlessRefused
<1>1. Inv /\ [Next]_vars =>
        [~setting.requestTimeouts /\ phase = "report" /\ verdict' = "ok" /\ With({"starved"}) # {}
           => time = "tight"]_vars
  <2> SUFFICES ASSUME Inv, Next, ~setting.requestTimeouts, phase = "report", verdict' = "ok", With({"starved"}) # {}
               PROVE  time = "tight"
    BY DEF vars
  <2>1. time # "open"
    BY DEF Inv, CutShortByTime, With
  <2>2. verdict = "none"
    BY DEF Inv, Undecided
  <2>3. Report
    BY <2>2 DEF Next, Tighten, Expire, ListFails, ListTargets, HandOver, GiveUp, CloseQueue,
                Work, Measured, Failed, Starved, Outcome, Wait, Merge
  <2>4. time # "done"
    BY <2>3 DEF Report, Judge
  <2>5. QED
    BY <2>1, <2>4 DEF Inv, TypeOK, Times
<1>2. QED
  BY <1>1, Invariance, PTL DEF Spec, WholeUnlessRefused

-----------------------------------------------------------------------------
(* One worker takes the targets in turn: nobody but the last one handed out *)
(* is in its hands ...                                                      *)
LastInHand == setting.concurrency = 1 => \A i \in With(Busy) : i = queued

(* ... and, where only time cuts a target short, nobody is measured behind  *)
(* one that was.                                                            *)
Strict == setting.concurrency = 1 /\ ~setting.requestTimeouts

InOrder ==
  Strict => \A i, j \in DOMAIN refs :
              i < j /\ results[i] \in {"doomed", "starved"} =>
                results[j] \in {"waiting", "doomed", "starved"}

Turns == LastInHand /\ InOrder

(* HandOver: with one worker it starts the next target only when none is in hand. *)
LEMMA HandOverTurns ==
  ASSUME Inv, Turns, HandOver
  PROVE  Turns'
<1>1. /\ refs \in Seq(Targets) /\ Len(refs) \in Nat /\ DOMAIN refs = 1..Len(refs)
      /\ queued \in 0..Len(refs) /\ queued + 1 \in 1..Len(refs)
      /\ results \in [1..Len(refs) -> Results]
      /\ results' = [results EXCEPT ![queued + 1] = IF time = "open" THEN "measuring" ELSE "doomed"]
      /\ queued' = queued + 1 /\ UNCHANGED <<setting, refs, time>>
  BY DEF Inv, TypeOK, HandOver
<1>2. \A i \in DOMAIN refs : i > queued => results[i] = "waiting"
  BY DEF Inv, Dispatched, HandOver
<1>3. ASSUME setting.concurrency = 1 PROVE With(Busy) = {}
  <2>1. Cardinality(With(Busy)) = 0
    BY <1>3, CountIsNat DEF Inv, HandOver
  <2>2. IsFiniteSet(With(Busy))
    <3>1. With(Busy) \subseteq 1..Len(refs)
      BY DEF With
    <3>2. IsFiniteSet(1..Len(refs))
      BY <1>1, FS_Interval
    <3>3. QED
      BY <3>1, <3>2, FS_Subset
  <2>3. QED
    BY <2>1, <2>2, FS_EmptySet
<1>4. LastInHand'
  BY <1>1, <1>3 DEF LastInHand, With
<1>5. InOrder'
  <2> SUFFICES ASSUME Strict, NEW i \in DOMAIN refs, NEW j \in DOMAIN refs, i < j,
                      results'[i] \in {"doomed", "starved"}
               PROVE  results'[j] \in {"waiting", "doomed", "starved"}
    BY <1>1 DEF InOrder, Strict
  <2>1. CASE i > queued
    <3>1. j # queued + 1
      BY <1>1, <2>1
    <3>2. QED
      BY <1>1, <1>2, <2>1, <3>1
  <2>2. CASE i <= queued
    <3>1. results[i] \in {"doomed", "starved"}
      BY <1>1, <2>2
    <3>2. CASE j # queued + 1
      BY <1>1, <3>1, <3>2 DEF Turns, InOrder
    <3>3. CASE j = queued + 1
      <4>1. time # "open"
        BY <1>1, <3>1 DEF Inv, CutShortByTime, With, Strict
      <4>2. QED
        BY <1>1, <3>3, <4>1
    <3>4. QED
      BY <3>2, <3>3
  <2>3. QED
    BY <1>1, <2>1, <2>2
<1>6. QED
  BY <1>4, <1>5 DEF Turns

(* What a worker makes of a target, whatever it is, disturbs no earlier turn. *)
LEMMA WorkTurns ==
  ASSUME Inv, Turns, NEW k \in DOMAIN refs, Work(k)
  PROVE  Turns'
<1>1. /\ Len(refs) \in Nat /\ DOMAIN refs = 1..Len(refs)
      /\ results \in [1..Len(refs) -> Results] /\ queued \in 0..Len(refs)
      /\ UNCHANGED <<setting, refs, queued, phase>>
      /\ results[k] \in Busy /\ results' = [results EXCEPT ![k] = results'[k]] /\ results'[k] \in Final
  BY DEF Inv, TypeOK, Work, Measured, Failed, Starved, Outcome, Busy, Final
<1>2. results[k] = "doomed" => results'[k] = "starved"
  BY DEF Work, Measured, Failed, Starved, Outcome, Inv, TypeOK
<1>3. LastInHand'
  BY <1>1 DEF Turns, LastInHand, With, Busy, Final
<1>4. InOrder'
  <2> SUFFICES ASSUME Strict, NEW i \in DOMAIN refs, NEW j \in DOMAIN refs, i < j,
                      results'[i] \in {"doomed", "starved"}
               PROVE  results'[j] \in {"waiting", "doomed", "starved"}
    BY <1>1 DEF InOrder, Strict
  <2>1. CASE i = k
    <3>1. phase \in {"dispatch", "drain"}
      <4>1. phase # "idle"
        BY DEF Inv, Dispatched
      <4>2. k \notin With(Final)
        BY <1>1 DEF With, Busy, Final
      <4>3. phase \notin {"merge", "report"}
        BY <4>2 DEF Inv, EveryTargetAccountedFor
      <4>4. QED
        BY <4>1, <4>3 DEF Inv, TypeOK, Phases
    <3>2. k = queued
      BY <1>1 DEF Turns, LastInHand, Strict, With
    <3>3. results[j] = "waiting"
      BY <2>1, <3>1, <3>2 DEF Inv, Dispatched
    <3>4. QED
      BY <1>1, <2>1, <3>3
  <2>2. CASE i # k
    <3>1. results[i] \in {"doomed", "starved"}
      BY <1>1, <2>2
    <3>2. results[j] \in {"waiting", "doomed", "starved"}
      BY <3>1 DEF Turns, InOrder
    <3>3. QED
      BY <1>1, <1>2, <3>2 DEF Busy
  <2>3. QED
    BY <2>1, <2>2
<1>5. QED
  BY <1>3, <1>4 DEF Turns

(* wg.Wait: whatever was never handed over is starved, all of it behind the rest. *)
LEMMA WaitTurns ==
  ASSUME Inv, Turns, Wait
  PROVE  Turns'
<1>1. /\ Len(refs) \in Nat /\ DOMAIN refs = 1..Len(refs) /\ queued \in 0..Len(refs)
      /\ results' = [i \in 1..Len(refs) |-> IF i > queued THEN "starved" ELSE results[i]]
      /\ UNCHANGED <<setting, refs, queued>> /\ With(Busy) = {}
  BY DEF Inv, TypeOK, Wait
<1>2. LastInHand'
  BY <1>1 DEF LastInHand, With, Busy
<1>3. InOrder'
  BY <1>1 DEF Turns, InOrder, Strict
<1>4. QED
  BY <1>2, <1>3 DEF Turns

(* Every other step leaves the turns alone. *)
LEMMA TurnsStep ==
  ASSUME Inv, Turns, [Next]_vars
  PROVE  Turns'
<1>1. ASSUME NEW l \in setting.listings, ListTargets(l)
      PROVE  Turns'
  <2>1. Len(refs') = Len(l) /\ refs' \in Seq(Targets)
    BY <1>1, RotateKeepsLength DEF Inv, ListTargets
  <2>2. \A i \in 1..Len(refs') : results'[i] = "waiting"
    BY <1>1, <2>1 DEF ListTargets
  <2>3. DOMAIN refs' = 1..Len(refs')
    BY <2>1
  <2>4. QED
    BY <2>2, <2>3 DEF Turns, LastInHand, InOrder, With, Busy
<1>2. CASE HandOver
  BY <1>2, HandOverTurns
<1>3. ASSUME NEW i \in DOMAIN refs, Work(i)
      PROVE  Turns'
  BY <1>3, WorkTurns
<1>4. CASE Wait
  BY <1>4, WaitTurns
<1>5. CASE Report
  BY <1>5 DEF Report, Turns, LastInHand, InOrder, With
<1>6. CASE UNCHANGED <<setting, refs, queued, results>>
  BY <1>6 DEF Turns, LastInHand, InOrder, Strict, With
<1>7. CASE Tighten \/ Expire \/ ListFails \/ GiveUp \/ CloseQueue \/ Merge \/ UNCHANGED vars
  <2>1. UNCHANGED <<setting, refs, queued, results>>
    BY <1>7 DEF Tighten, Expire, ListFails, GiveUp, CloseQueue, Merge, vars, refreshVars
  <2>2. QED
    BY <1>6, <2>1
<1>8. QED
  BY <1>1, <1>2, <1>3, <1>4, <1>5, <1>7 DEF Next

(* So the turns hold of every behaviour. *)
LEMMA TurnsHold == Spec => []Turns
<1>1. Init => Turns
  BY DEF Init, Turns, LastInHand, InOrder, With
<1>2. Inv /\ Turns /\ [Next]_vars => Turns'
  BY TurnsStep
<1>3. QED
  BY <1>1, <1>2, Invariance, PTL DEF Spec

-----------------------------------------------------------------------------
(* Remainders: what a multiple leaves over is what it leaves over. *)
LEMMA Remainder ==
  ASSUME NEW n \in Nat \ {0}, NEW q \in Int, NEW r \in 0 .. n - 1
  PROVE  (q * n + r) % n = r
<1> DEFINE a == q * n + r
           d == a \div n
           m == a % n
<1>1. a \in Int /\ d \in Int /\ m \in 0 .. n - 1 /\ a = n * d + m
  OBVIOUS
<1>2. a = q * n + r
  OBVIOUS
<1> HIDE DEF a, d, m
<1>3. n * (q - d) = m - r
  BY <1>1, <1>2
<1>4. ASSUME NEW k \in Int, k >= 1 PROVE n * k >= n
  <2>1. n * (k - 1) \in Nat
    BY <1>4, k - 1 \in Nat
  <2>2. n * (k - 1) = n * k - n
    BY <1>4
  <2>3. n * k \in Int
    BY <1>4
  <2>4. QED
    BY <2>1, <2>2, <2>3
<1>5. ~(q - d >= 1)
  BY <1>1, <1>3, <1>4
<1>6. ~(d - q >= 1)
  <2>1. n * (d - q) = r - m
    BY <1>1, <1>2
  <2>2. QED
    BY <1>1, <1>4, <2>1
<1>7. q = d
  BY <1>1, <1>5, <1>6
<1>8. m = r
  BY <1>1, <1>3, <1>7
<1>9. QED
  BY <1>8 DEF m, a

(* The cursor moves by as many places as it is told to. *)
LEMMA MovedBy ==
  ASSUME NEW n \in Nat \ {0}, NEW from \in Nat, NEW by \in 0 .. n - 1
  PROVE  (((from + by) % n) - from) % n = by
<1> DEFINE to == (from + by) % n
           d == (from + by) \div n
<1>1. to \in Int /\ d \in Int /\ from + by = n * d + to
  OBVIOUS
<1> HIDE DEF to, d
<1>2. to - from = (0 - d) * n + by
  BY <1>1
<1>3. ((0 - d) * n + by) % n = by
  BY <1>1, Remainder
<1>4. QED
  BY <1>2, <1>3 DEF to

(* "Such a droplet was never measured, so the rotation must not move past   *)
(* it" (starved): with one worker, and where only time cuts a target short, *)
(* the next refresh resumes exactly at the first target that was starved.   *)
THEOREM NobodyIsPassedOver == Spec => ResumesAtFirstStarved
<1>1. ASSUME Inv, Turns, [Next]_vars,
             setting.concurrency = 1, ~setting.requestTimeouts, With({"starved"}) # {},
             phase = "report", phase' = "idle"
      PROVE  results[Moved + 1] = "starved" /\ \A i \in 1..Moved : results[i] # "starved"
  <2> DEFINE first == Min(With({"starved"}))
  <2>1. Report
    BY <1>1 DEF Next, vars, Tighten, Expire, ListFails, ListTargets, HandOver, GiveUp, CloseQueue,
                Work, Measured, Failed, Starved, Outcome, Wait, Merge
  <2>2. /\ Len(refs) \in Nat /\ DOMAIN refs = 1..Len(refs) /\ cursor \in Nat
        /\ \A i \in 1..Len(refs) : results[i] \in Final
    BY <1>1 DEF Inv, TypeOK, EveryTargetAccountedFor, With
  <2>3. first \in With({"starved"}) /\ \A i \in With({"starved"}) : first <= i
    <3>1. With({"starved"}) \in SUBSET Nat
      BY <2>2 DEF With
    <3>2. QED
      BY <1>1, <3>1, LeastExists
  <2> HIDE DEF first
  <2>4. first \in 1..Len(refs) /\ results[first] = "starved"
        /\ \A i \in 1..(first - 1) : results[i] # "starved"
    BY <2>2, <2>3 DEF With
  <2>5. \A j \in 1..Len(refs) : j > first => results[j] = "starved"
    BY <1>1, <2>2, <2>4 DEF Turns, InOrder, Strict, Final
  <2>6. With({"ok", "failed"}) = 1..(first - 1)
    <3>1. \A i \in 1..(first - 1) : i \in 1..Len(refs) /\ results[i] \in {"ok", "failed"}
      BY <2>2, <2>4 DEF Final
    <3>2. \A i \in 1..Len(refs) : results[i] \in {"ok", "failed"} => i < first
      BY <2>4, <2>5
    <3>3. QED
      BY <2>4, <3>1, <3>2 DEF With
  <2>7. Reached = first - 1
    BY <2>4, <2>6, FS_Interval DEF Reached
  <2>8. cursor' = (cursor + (first - 1)) % Len(refs)
    BY <2>1, <2>2, <2>4, <2>7 DEF Report, Advance
  <2>9. Moved = first - 1
    <3>1. Len(refs) \in Nat \ {0} /\ first - 1 \in 0 .. Len(refs) - 1
      BY <2>2, <2>4
    <3>2. QED
      BY <2>2, <2>8, <3>1, MovedBy DEF Moved
  <2>10. QED
    BY <2>2, <2>4, <2>9
<1>2. Inv /\ Turns /\ [Next]_vars =>
        [setting.concurrency = 1 /\ ~setting.requestTimeouts /\ With({"starved"}) # {}
           /\ phase = "report" /\ phase' = "idle" =>
             /\ results[Moved + 1] = "starved"
             /\ \A i \in 1..Moved : results[i] # "starved"]_vars
  BY <1>1
<1>3. QED
  BY <1>2, Invariance, TurnsHold, PTL DEF Spec, ResumesAtFirstStarved

-----------------------------------------------------------------------------
(* Measure.tla *)

(* The newest of a set of times is the one that no other is later than. *)
LEMMA NewestIs ==
  ASSUME NEW ats \in SUBSET Nat, NEW at \in ats, \A other \in ats : other <= at
  PROVE  Newest(ats) = at
<1>1. Newest(ats) \in ats /\ \A other \in ats : other <= Newest(ats)
  BY DEF Newest
<1>2. Newest(ats) <= at /\ at <= Newest(ats) /\ at \in Nat /\ Newest(ats) \in Nat
  BY <1>1
<1>3. QED
  BY <1>2

(* There is one, if the times are finitely many and any at all. *)
LEMMA NewestExists ==
  ASSUME NEW ats \in SUBSET Nat, IsFiniteSet(ats), ats # {}
  PROVE  Newest(ats) \in ats /\ \A other \in ats : other <= Newest(ats)
<1> DEFINE Has(S) == \E at \in S : \A other \in S : other <= at
           sizes == {n \in Nat : \A S \in SUBSET Nat :
                       IsFiniteSet(S) /\ S # {} /\ Cardinality(S) = n => Has(S)}
<1>1. 0 \in sizes
  BY FS_EmptySet
<1>2. ASSUME NEW n \in Nat, n \in sizes
      PROVE  n + 1 \in sizes
  <2> SUFFICES ASSUME NEW S \in SUBSET Nat, IsFiniteSet(S), S # {}, Cardinality(S) = n + 1
               PROVE  Has(S)
    OBVIOUS
  <2>1. PICK one \in S : TRUE
    OBVIOUS
  <2> DEFINE rest == S \ {one}
  <2>2. IsFiniteSet(rest) /\ Cardinality(rest) = n
    <3>1. IsFiniteSet(S \ {one}) /\ Cardinality(S \ {one}) = Cardinality(S) - 1
      BY FS_RemoveElement
    <3>2. (n + 1) - 1 = n
      OBVIOUS
    <3>3. QED
      BY <3>1, <3>2
  <2>3. CASE rest = {}
    <3>1. \A other \in S : other = one
      BY <2>3
    <3>2. QED
      BY <2>1, <3>1
  <2>4. CASE rest # {}
    <3>1. PICK at \in rest : \A other \in rest : other <= at
      <4> HIDE DEF rest
      <4>1. rest \in SUBSET Nat
        BY DEF rest
      <4>2. QED
        BY <1>2, <2>2, <2>4, <4>1
    <3>2. at \in Nat /\ one \in Nat /\ at \in S
      OBVIOUS
    <3>3. CASE one <= at
      BY <3>1, <3>2, <3>3
    <3>4. CASE at < one
      <4>1. \A other \in S : other <= one
        BY <3>1, <3>2, <3>4
      <4>2. QED
        BY <4>1
    <3>5. QED
      BY <3>2, <3>3, <3>4
  <2>5. QED
    BY <2>3, <2>4
<1>3. Cardinality(ats) \in sizes
  <2> HIDE DEF sizes
  <2>1. Cardinality(ats) \in Nat
    BY FS_CardinalityType
  <2>2. QED
    BY <1>1, <1>2, <2>1, NumbersByInduction
<1>4. Has(ats)
  BY <1>3
<1>5. QED
  BY <1>4 DEF Newest

-----------------------------------------------------------------------------
(* A point, whether it can be used or not. *)
SomePoint == [at : Nat, nan : BOOLEAN]

(* The runs of the loop of newest. *)
Scans(values) ==
  {g \in [0..Len(values) -> SUBSET SomePoint] :
     g[0] = {} /\ \A k \in 1..Len(values) : g[k] = Best(g[k - 1], values[k])}

(* newest is such a run.                                                    *)
LEMMA NewestIsLoop ==
  ASSUME NEW values \in Seq(SomePoint)
  PROVE  \E g \in Scans(values) : newest(values) = g[Len(values)]
<1> DEFINE step == [p \in (1..Len(values)) \X SUBSET SomePoint |-> Best(p[2], values[p[1]])]
           Follows(f) ==
             f = [n \in 0..Len(values) |-> IF n = 0 THEN {} ELSE Best(f[n - 1], values[n])]
           best == CHOOSE f : Follows(f)
<1>1. newest(values) = best[Len(values)]
  BY DEF newest
<1>2. step \in [(1..Len(values)) \X SUBSET SomePoint -> SUBSET SomePoint]
  <2>1. ASSUME NEW k \in 1..Len(values), NEW b \in SUBSET SomePoint
        PROVE  Best(b, values[k]) \in SUBSET SomePoint
    <3>1. values[k] \in SomePoint
      OBVIOUS
    <3>2. QED
      BY <3>1 DEF Best
  <2>2. QED
    BY <2>1
<1>3. \A k \in 1..Len(values) : \A x \in SUBSET SomePoint : step[<<k, x>>] = Best(x, values[k])
  OBVIOUS
<1>4. {} \in SUBSET SomePoint /\ Len(values) \in Nat
  OBVIOUS
<1>5. PICK g : g \in Runs({}, step, Len(values), SUBSET SomePoint)
  <2> HIDE DEF step
  <2>1. Runs({}, step, Len(values), SUBSET SomePoint) # {}
    BY <1>2, <1>4, Iterates
  <2>2. QED
    BY <2>1
<1> HIDE DEF step
<1>6. /\ g \in [0..Len(values) -> SUBSET SomePoint] /\ g[0] = {}
      /\ \A k \in 1..Len(values) : g[k] = step[<<k, g[k - 1]>>]
  BY <1>5 DEF Runs
<1>7. \A k \in 1..Len(values) : g[k] = Best(g[k - 1], values[k])
  <2>1. \A k \in 1..Len(values) : k - 1 \in 0..Len(values) /\ g[k - 1] \in SUBSET SomePoint
    BY <1>6
  <2>2. QED
    BY <1>3, <1>6, <2>1
<1>8. Follows(g)
  <2>1. ASSUME NEW n \in 0..Len(values)
        PROVE  g[n] = IF n = 0 THEN {} ELSE Best(g[n - 1], values[n])
    <3>1. CASE n = 0
      BY <1>6, <3>1
    <3>2. CASE n \in 1..Len(values)
      BY <1>7, <3>2
    <3>3. QED
      BY <3>1, <3>2
  <2>2. QED
    BY <1>6, <2>1
<1>9. Follows(best)
  <2> HIDE DEF Follows
  <2> QED BY <1>8
<1>10. best[Len(values)] = g[Len(values)]
  <2> HIDE DEF best
  <2>1. best[0] = g[0]
    BY <1>6, <1>9
  <2>2. \A n \in 0..Len(values) :
          best[n] = IF n = 0 THEN {} ELSE Best(best[n - 1], values[n])
    BY <1>9
  <2>3. \A k \in 1..Len(values) : best[k] = Best(best[k - 1], values[k])
    BY <2>2
  <2>4. \A k \in 1..Len(values) : best[k - 1] = g[k - 1] => best[k] = g[k]
    BY <1>7, <2>3
  <2>5. QED
    BY <1>4, <2>1, <2>4, SameRun
<1>11. QED
  BY <1>1, <1>6, <1>7, <1>10 DEF Scans

(* It returns the newest point that can be used, if there is one. *)
LEMMA NewestPoint ==
  ASSUME NEW values \in Seq(SomePoint)
  PROVE  /\ Usable(values) \in SUBSET Nat
         /\ Usable(values) = {} => newest(values) = {}
         /\ Usable(values) # {} =>
              /\ \E p \in SomePoint : newest(values) = {p} /\ p.at = Newest(Usable(values))
              /\ Newest(Usable(values)) \in Usable(values)
              /\ \A at \in Usable(values) : at <= Newest(Usable(values))
<1>1. PICK g \in Scans(values) : newest(values) = g[Len(values)]
  BY NewestIsLoop
<1>2. /\ g[0] = {} /\ \A k \in 1..Len(values) : g[k] = Best(g[k - 1], values[k])
      /\ Len(values) \in Nat /\ DOMAIN values = 1..Len(values)
      /\ \A k \in 1..Len(values) : values[k] \in SomePoint
  BY <1>1 DEF Scans
<1> DEFINE seen(n) == {k \in 1..n : ~values[k].nan}
           right == {n \in Nat : n <= Len(values) =>
                       /\ seen(n) = {} => g[n] = {}
                       /\ seen(n) # {} => \E k \in seen(n) : /\ g[n] = {values[k]}
                                                             /\ \A j \in seen(n) : values[j].at <= values[k].at}
<1>3. 0 \in right
  BY <1>2
<1>4. ASSUME NEW n \in Nat, n \in right
      PROVE  n + 1 \in right
  <2> SUFFICES ASSUME n + 1 <= Len(values)
               PROVE  /\ seen(n + 1) = {} => g[n + 1] = {}
                      /\ seen(n + 1) # {} =>
                           \E k \in seen(n + 1) : /\ g[n + 1] = {values[k]}
                                                  /\ \A j \in seen(n + 1) : values[j].at <= values[k].at
    OBVIOUS
  <2>0. /\ n + 1 \in 1..Len(values) /\ values[n + 1] \in SomePoint
        /\ g[n + 1] = Best(g[n], values[n + 1])
    BY <1>2
  <2>1. /\ seen(n) = {} => g[n] = {}
        /\ seen(n) # {} => \E k \in seen(n) : /\ g[n] = {values[k]}
                                              /\ \A j \in seen(n) : values[j].at <= values[k].at
    BY <1>4
  <2>2. seen(n + 1) = IF values[n + 1].nan THEN seen(n) ELSE seen(n) \cup {n + 1}
    OBVIOUS
  <2>3. \A k \in seen(n) : values[k] \in SomePoint
    BY <1>2
  <2> HIDE DEF seen
  <2>4. CASE values[n + 1].nan
    <3>1. g[n + 1] = g[n] /\ seen(n + 1) = seen(n)
      BY <2>0, <2>2, <2>4 DEF Best
    <3>2. QED
      BY <2>1, <3>1
  <2>5. CASE ~values[n + 1].nan /\ seen(n) = {}
    <3>1. g[n + 1] = {values[n + 1]} /\ seen(n + 1) = {n + 1}
      BY <2>0, <2>1, <2>2, <2>5 DEF Best
    <3>2. values[n + 1].at <= values[n + 1].at
      BY <2>0 DEF SomePoint
    <3>3. QED
      BY <3>1, <3>2
  <2>6. CASE ~values[n + 1].nan /\ seen(n) # {}
    <3>1. PICK k \in seen(n) : g[n] = {values[k]} /\ \A j \in seen(n) : values[j].at <= values[k].at
      BY <2>1, <2>6
    <3>2. /\ values[k].at \in Nat /\ values[n + 1].at \in Nat
          /\ \A j \in seen(n) : values[j].at \in Nat
      BY <2>0, <2>3 DEF SomePoint
    <3>3. seen(n + 1) = seen(n) \cup {n + 1}
      BY <2>2, <2>6
    <3>4. CASE values[n + 1].at > values[k].at
      <4>1. g[n + 1] = {values[n + 1]}
        BY <2>0, <2>6, <3>1, <3>4 DEF Best
      <4>2. \A j \in seen(n + 1) : values[j].at <= values[n + 1].at
        BY <3>1, <3>2, <3>3, <3>4
      <4>3. QED
        BY <3>3, <4>1, <4>2
    <3>5. CASE ~(values[n + 1].at > values[k].at)
      <4>1. g[n + 1] = {values[k]}
        <5>1. g[n] # {} /\ ~(\A b \in g[n] : values[n + 1].at > b.at)
          BY <3>1, <3>5
        <5>2. QED
          BY <2>0, <2>6, <3>1, <5>1 DEF Best
      <4>2. \A j \in seen(n + 1) : values[j].at <= values[k].at
        BY <3>1, <3>2, <3>3, <3>5
      <4>3. QED
        BY <3>3, <4>1, <4>2
    <3>6. QED
      BY <3>4, <3>5
  <2>7. QED
    BY <2>4, <2>5, <2>6
<1>5. Len(values) \in right
  <2> HIDE DEF right
  <2> QED BY <1>2, <1>3, <1>4, NumbersByInduction
<1>6. Usable(values) = {values[k].at : k \in seen(Len(values))} /\ Usable(values) \in SUBSET Nat
  <2>1. ToSet(values) = {values[k] : k \in 1..Len(values)}
    BY <1>2 DEF ToSet
  <2>2. QED
    BY <1>2, <2>1 DEF Usable, SomePoint
<1>7. ASSUME Usable(values) # {}
      PROVE  /\ \E p \in SomePoint : newest(values) = {p} /\ p.at = Newest(Usable(values))
             /\ Newest(Usable(values)) \in Usable(values)
             /\ \A at \in Usable(values) : at <= Newest(Usable(values))
  <2>1. PICK k \in seen(Len(values)) :
          /\ g[Len(values)] = {values[k]}
          /\ \A j \in seen(Len(values)) : values[j].at <= values[k].at
    BY <1>2, <1>5, <1>6, <1>7
  <2>2. values[k] \in SomePoint
    BY <1>2
  <2> HIDE DEF seen
  <2>3. values[k].at \in Usable(values) /\ \A at \in Usable(values) : at <= values[k].at
    BY <1>6, <2>1
  <2>4. Newest(Usable(values)) = values[k].at
    BY <1>6, <2>3, NewestIs
  <2>5. QED
    BY <1>1, <2>1, <2>2, <2>3, <2>4
<1>8. ASSUME Usable(values) = {} PROVE newest(values) = {}
  <2>1. seen(Len(values)) = {}
    <3> HIDE DEF seen
    <3> QED BY <1>6, <1>8
  <2>2. g[Len(values)] = {}
    <3>1. Len(values) <= Len(values)
      BY <1>2
    <3>2. QED
      <4>1. seen(Len(values)) = {} => g[Len(values)] = {}
        <5> HIDE DEF seen
        <5> QED BY <1>5, <3>1
      <4>2. QED
        BY <2>1, <4>1
  <2>3. QED
    BY <1>1, <2>2
<1>9. QED
  BY <1>6, <1>7, <1>8

(* No two metrics of a list have the same name; none of either's are the    *)
(* other's.                                                                 *)
Distinct(list) == \A i, j \in DOMAIN list : list[i].name = list[j].name => i = j
Disjoint(list, more) == \A i \in DOMAIN list, j \in DOMAIN more : list[i].name # more[j].name

(* Two lists of different metrics, behind each other, are a list of different metrics. *)
LEMMA DistinctConcat ==
  ASSUME NEW S, NEW list \in Seq(S), NEW more \in Seq(S),
         Distinct(list), Distinct(more), Disjoint(list, more)
  PROVE  Distinct(list \o more)
<1> DEFINE both == list \o more
<1>1. /\ DOMAIN both = 1..(Len(list) + Len(more))
      /\ \A k \in 1..Len(list) : both[k] = list[k]
      /\ \A k \in 1..(Len(list) + Len(more)) : k > Len(list) => both[k] = more[k - Len(list)]
      /\ Len(list) \in Nat /\ DOMAIN list = 1..Len(list)
      /\ Len(more) \in Nat /\ DOMAIN more = 1..Len(more)
  OBVIOUS
<1> HIDE DEF both
<1>2. SUFFICES ASSUME NEW i \in DOMAIN both, NEW j \in DOMAIN both, both[i].name = both[j].name
               PROVE  i = j
  BY DEF Distinct, both
<1>3. CASE i <= Len(list) /\ j <= Len(list)
  BY <1>1, <1>2, <1>3 DEF Distinct
<1>4. CASE i > Len(list) /\ j > Len(list)
  <2>1. i - Len(list) \in DOMAIN more /\ j - Len(list) \in DOMAIN more
    BY <1>1, <1>4
  <2>2. i - Len(list) = j - Len(list)
    BY <1>1, <1>2, <1>4, <2>1 DEF Distinct
  <2>3. QED
    BY <1>1, <2>2
<1>5. ASSUME NEW a \in DOMAIN both, NEW b \in DOMAIN both, a <= Len(list), b > Len(list)
      PROVE  both[a].name # both[b].name
  <2>1. a \in DOMAIN list /\ b - Len(list) \in DOMAIN more
    BY <1>1, <1>5
  <2>2. QED
    BY <1>1, <1>5, <2>1 DEF Disjoint
<1>6. QED
  BY <1>1, <1>2, <1>3, <1>4, <1>5

(* The metrics of either collector are told apart by their names. *)
LEMMA MetricsDiffer == Len(Asked) \in Nat /\ DOMAIN Asked = 1..Len(Asked) /\ Len(Asked) > 0 /\ Distinct(Asked)
<1> DEFINE Specs == UNION {{list[k] : k \in DOMAIN list} : list \in {dropletSpecs, specs, extendedSpecs}}
<1>1. /\ DOMAIN extendedSpecs = 1..20 /\ extendedSpecs = [k \in 1..20 |-> extendedSpecs[k]]
      /\ DOMAIN specs = 1..7 /\ specs = [k \in 1..7 |-> specs[k]]
      /\ DOMAIN dropletSpecs = 1..10 /\ dropletSpecs = [k \in 1..10 |-> dropletSpecs[k]]
  BY DEF extendedSpecs, specs, dropletSpecs
<1>2. Distinct(dropletSpecs) /\ Distinct(specs) /\ Distinct(extendedSpecs)
  BY DEF Distinct, dropletSpecs, specs, extendedSpecs, One, PerEach
<1>3. Disjoint(dropletSpecs, extendedSpecs) /\ Disjoint(specs, extendedSpecs)
  BY DEF Disjoint, dropletSpecs, specs, extendedSpecs, One, PerEach
<1>4. /\ dropletSpecs \in Seq(Specs) /\ specs \in Seq(Specs) /\ extendedSpecs \in Seq(Specs)
      /\ Len(dropletSpecs) > 0 /\ Len(specs) > 0
  <2>1. ASSUME NEW n \in Nat, NEW list \in {dropletSpecs, specs, extendedSpecs},
               DOMAIN list = 1..n, list = [k \in 1..n |-> list[k]]
        PROVE  list \in Seq(Specs) /\ Len(list) = n
    <3>1. \A k \in 1..n : list[k] \in Specs
      BY <2>1
    <3> HIDE DEF Specs
    <3>2. list \in [1..n -> Specs]
      BY <2>1, <3>1
    <3>3. QED
      BY <3>2
  <2> HIDE DEF Specs
  <2>2. 20 \in Nat /\ 7 \in Nat /\ 10 \in Nat /\ 7 > 0 /\ 10 > 0
    OBVIOUS
  <2>3. QED
    BY <1>1, <2>1, <2>2
<1> HIDE DEF Specs
<1>5. /\ Base \in Seq(Specs) /\ Len(Base) > 0 /\ Distinct(Base) /\ Disjoint(Base, extendedSpecs)
  BY <1>2, <1>3, <1>4, Zenon DEF Base
<1>6. Asked \in Seq(Specs) /\ Len(Asked) > 0 /\ Distinct(Asked)
  <2>1. Base \o extendedSpecs \in Seq(Specs) /\ Len(Base \o extendedSpecs) > 0
    BY <1>4, <1>5
  <2>2. Distinct(Base \o extendedSpecs)
    BY <1>2, <1>4, <1>5, DistinctConcat
  <2>3. QED
    BY <1>5, <2>1, <2>2, Zenon DEF Asked
<1>7. QED
  BY <1>6

-----------------------------------------------------------------------------
(* What a request can come back with, Responses being what is tried of it:  *)
(* finitely many series, whose labels tell them apart, and at most one of a *)
(* metric that has no labels.                                               *)
AnySeries == [label : Labels \cup {"x"}, values : Seq(SomePoint)]

IsAnswer(s, response) ==
  /\ response \in SUBSET AnySeries /\ IsFiniteSet(response)
  /\ \A one, other \in response : s.seriesLabels = {} \/ one.label = other.label => one = other

(* The image of a finite set is finite. *)
LEMMA FiniteImage ==
  ASSUME NEW S, IsFiniteSet(S), NEW f, DOMAIN f = S
  PROVE  IsFiniteSet({f[x] : x \in S})
<1>1. PICK T : T = {f[x] : x \in S}
  OBVIOUS
<1>2. PICK g : g = [x \in S |-> f[x]]
  OBVIOUS
<1>3. g \in Surjection(S, T)
  BY <1>1, <1>2 DEF Surjection
<1>4. IsFiniteSet(T)
  BY <1>3, FS_Surjection
<1>5. QED
  BY <1>1, <1>4

(* Whatever Responses tries is an answer.                                   *)
LEMMA ResponseIsAnswer ==
  ASSUME NEW s, NEW response \in Responses(s)
  PROVE  IsAnswer(s, response)
<1>1. ASSUME NEW values \in Seq(SomePoint)
      PROVE  IsAnswer(s, {Series("x", values)})
  <2>1. IsFiniteSet({Series("x", values)})
    BY FS_Singleton
  <2>2. QED
    BY <2>1 DEF IsAnswer, AnySeries, Series
<1>2. Windows \subseteq Seq(SomePoint)
  BY MeasureAssumption DEF SomePoint
<1>3. CASE s.name \notin Varied
  <2>1. Point(1) \in SomePoint
    BY DEF Point, SomePoint
  <2>2. <<Point(1)>> \in Seq(SomePoint)
    BY <2>1
  <2>3. QED
    BY <1>1, <1>3, <2>2 DEF Responses, Plain
<1>4. CASE s.name \in Varied /\ s.seriesLabels = {}
  <2>1. IsAnswer(s, {})
    BY FS_EmptySet DEF IsAnswer
  <2>2. QED
    BY <1>1, <1>2, <1>4, <2>1 DEF Responses
<1>5. CASE s.name \in Varied /\ s.seriesLabels # {}
  <2>1. PICK window \in [Labels -> Windows] : response = {Series(l, window[l]) : l \in Labels}
    BY <1>5 DEF Responses
  <2> DEFINE f == [l \in Labels |-> Series(l, window[l])]
  <2>2. response = {f[l] : l \in Labels}
    BY <2>1
  <2>3. IsFiniteSet(response)
    <3> HIDE DEF f
    <3>1. DOMAIN f = Labels
      BY DEF f
    <3>2. QED
      BY <2>2, <3>1, MeasureAssumption, FiniteImage
  <2>4. \A l \in Labels : Series(l, window[l]) \in AnySeries /\ Series(l, window[l]).label = l
    BY <1>2 DEF Series, AnySeries
  <2>5. QED
    BY <1>5, <2>1, <2>3, <2>4 DEF IsAnswer
<1>6. QED
  BY <1>3, <1>4, <1>5

(* The series a reader may expect a reading of. *)
Speaking(response) == {s \in response : Usable(s.values) # {}}

(* What is published of one of them, by the k-th request. *)
Reading(k, s) ==
  [metric |-> Asked[k].name, label |-> Label(Asked[k], s), name |-> name,
   at |-> Newest(Usable(s.values)), fresh |-> TRUE]

(* fetch publishes a reading of each of them, the newest. *)
LEMMA PointsHeard ==
  ASSUME NEW k, NEW response \in SUBSET AnySeries
  PROVE  Points(Asked[k], response) = {Reading(k, s) : s \in Speaking(response)}
<1> DEFINE sampled(s) == {[label |-> s.label, at |-> p.at] : p \in newest(s.values)}
           best(s) == [label |-> s.label, at |-> Newest(Usable(s.values))]
<1>1. ASSUME NEW s \in response
      PROVE  sampled(s) = IF s \in Speaking(response) THEN {best(s)} ELSE {}
  <2>1. s.values \in Seq(SomePoint)
    BY DEF AnySeries
  <2>2. CASE Usable(s.values) = {}
    <3>1. newest(s.values) = {}
      BY <2>1, <2>2, NewestPoint
    <3>2. QED
      BY <2>2, <3>1 DEF Speaking
  <2>3. CASE Usable(s.values) # {}
    <3>1. PICK p : newest(s.values) = {p} /\ p.at = Newest(Usable(s.values))
      BY <2>1, <2>3, NewestPoint
    <3>2. sampled(s) = {best(s)}
      BY <3>1
    <3>3. QED
      BY <2>3, <3>2 DEF Speaking
  <2>4. QED
    BY <2>2, <2>3
<1>2. Latest(response) = UNION {sampled(s) : s \in response}
  BY DEF Latest
<1>3. Latest(response) = {best(s) : s \in Speaking(response)}
  <2> HIDE DEF sampled, best
  <2> QED BY <1>1, <1>2 DEF Speaking
<1>4. ASSUME NEW s
      PROVE  [metric |-> Asked[k].name, label |-> Label(Asked[k], best(s)), name |-> name,
              at |-> best(s).at, fresh |-> TRUE] = Reading(k, s)
  BY DEF Reading, Label
<1>5. QED
  <2> HIDE DEF best
  <2> QED BY <1>3, <1>4 DEF Points

-----------------------------------------------------------------------------
(* The readings and the entries there can be. *)
AnyPoint == [metric : {Asked[k].name : k \in DOMAIN Asked}, label : Labels \cup {"x", ""},
             name : Names, at : Nat, fresh : BOOLEAN]
AnyEntry == [name : Names \cup {""}, up : {0, 1}, sampled : Nat, points : SUBSET AnyPoint]

(* MeasureTypeOK, and what its parts are made of. *)
Typed ==
  /\ collector \in {"dropletmetrics", "loadbalancermetrics"}
  /\ extended => collector = "loadbalancermetrics"
  /\ fair \in BOOLEAN
  /\ stage \in {"idle", "measure", "merge"}
  /\ name \in Names
  /\ outcome \in Outcomes
  /\ heard \in Seq(SUBSET AnySeries) /\ Len(heard) <= Len(Asked)
  /\ out \in AnyEntry /\ EntryOK(out)
  /\ entry \in SUBSET AnyEntry /\ \A e \in entry : EntryOK(e) /\ e.name \in Names
  /\ \A e, other \in entry : e = other

(* Where a refresh stands: nothing was heard before it begins, and it has    *)
(* something to ask for as long as it measures.                              *)
Place ==
  /\ stage = "idle" => heard = << >> /\ out = Zero /\ outcome = "ok"
  /\ stage = "measure" => outcome = "ok" /\ Len(heard) < Len(Asked)

(* The answers tell their series apart. *)
Answered == \A k \in DOMAIN heard : IsAnswer(Asked[k], heard[k])

(* The times of the samples heard so far that can be used. *)
Sampled == UNION {UNION {Usable(s.values) : s \in heard[k]} : k \in DOMAIN heard}

(* The entry being built is what was heard so far, and nothing else. *)
Built ==
  stage # "idle" /\ outcome = "ok" =>
    /\ out.name = name /\ out.up = 1
    /\ \A p : p \in out.points <=> \E k \in DOMAIN heard : \E s \in Speaking(heard[k]) : p = Reading(k, s)
    /\ out.sampled \in {0} \cup Sampled /\ \A at \in Sampled : at <= out.sampled

(* What the snapshot holds during a refresh is of an earlier one. *)
Earlier == stage # "idle" => \A e \in entry : \A p \in e.points : ~p.fresh

(* The inductive invariant.  PublishesWhatWasHeard speaks of the last step  *)
(* only; Built says at every step before it what the entry holds so far,    *)
(* Answered why its readings do not collide, and Earlier what a target that *)
(* could not be measured falls back on.                                     *)
MeasureInv == Typed /\ Place /\ Answered /\ Built /\ Earlier

(* Typed says of one entry what MeasureTypeOK says by counting.             *)
LEMMA TypedIsTyped == Typed => MeasureTypeOK
<1> SUFFICES ASSUME Typed PROVE Cardinality(entry) <= 1
  BY DEF Typed, MeasureTypeOK
<1>1. CASE entry = {}
  BY <1>1, FS_EmptySet
<1>2. ASSUME NEW e \in entry
      PROVE  Cardinality(entry) <= 1
  <2>1. entry = {e}
    BY DEF Typed
  <2>2. QED
    BY <2>1, FS_Singleton
<1>3. QED
  BY <1>1, <1>2

(* The zero value is an entry.                                              *)
LEMMA ZeroOK == Zero \in AnyEntry /\ EntryOK(Zero) /\ Zero.points = {}
BY DEF Zero, AnyEntry, EntryOK

(* What a refresh does not ask again stays as it was. *)
LEMMA SetupStays ==
  ASSUME UNCHANGED setup
  PROVE  /\ Asked' = Asked /\ Base' = Base /\ AnyPoint' = AnyPoint /\ AnyEntry' = AnyEntry
BY DEF setup, Asked, Base, AnyPoint, AnyEntry

(* New leaves a collector that has heard and shows nothing.                 *)
LEMMA MeasureInitOK == MeasureInit => MeasureInv
<1> SUFFICES ASSUME MeasureInit PROVE MeasureInv
  OBVIOUS
<1>1. << >> \in Seq(SUBSET AnySeries) /\ Len(<< >>) = 0 /\ DOMAIN << >> = {}
  OBVIOUS
<1>2. QED
  BY <1>1, ZeroOK, MetricsDiffer DEF MeasureInit, MeasureInv, Typed, Place, Answered, Built, Earlier, Outcomes

(* The readings of one more answer. *)
LEMMA HearStep ==
  ASSUME MeasureInv, UNCHANGED setup, name' = name, NEW answer, IsAnswer(Current, answer), heard' = Append(heard, answer),
         Len(heard) < Len(Asked)
  PROVE  /\ heard' \in Seq(SUBSET AnySeries) /\ Len(heard') = Len(heard) + 1 /\ Len(heard') <= Len(Asked)
         /\ Answered'
         /\ Sampled' = Sampled \cup UNION {Usable(s.values) : s \in answer}
         /\ \A p : (\E k \in DOMAIN heard' : \E s \in Speaking(heard'[k]) : p = Reading(k, s)') <=>
              \/ \E k \in DOMAIN heard : \E s \in Speaking(heard[k]) : p = Reading(k, s)
              \/ p \in Points(Current, answer)
<1> DEFINE n == Len(heard) + 1
<1>1. /\ heard \in Seq(SUBSET AnySeries) /\ answer \in SUBSET AnySeries
      /\ Len(heard) \in Nat /\ DOMAIN heard = 1..Len(heard) /\ Len(Asked) \in Nat
  BY MetricsDiffer DEF MeasureInv, Typed, IsAnswer
<1>2. /\ heard' \in Seq(SUBSET AnySeries) /\ Len(heard') = n /\ DOMAIN heard' = DOMAIN heard \cup {n}
      /\ \A k \in DOMAIN heard : heard'[k] = heard[k]
      /\ heard'[n] = answer
  BY <1>1
<1>3. Len(heard') <= Len(Asked) /\ Asked' = Asked
  BY <1>1, <1>2, SetupStays
<1>4. Answered'
  <2>1. \A k \in DOMAIN heard' : IsAnswer(Asked[k], heard'[k])
    BY <1>1, <1>2 DEF MeasureInv, Answered, Current
  <2>2. QED
    BY <1>3, <2>1 DEF Answered, IsAnswer
<1>5. Sampled' = Sampled \cup UNION {Usable(s.values) : s \in answer}
  BY <1>2 DEF Sampled
<1>6. \A k, s : Reading(k, s)' = Reading(k, s)
  BY <1>3 DEF Reading, Label
<1>7. Points(Current, answer) = {Reading(n, s) : s \in Speaking(answer)}
  BY <1>1, PointsHeard DEF Current
<1>8. QED
  BY <1>2, <1>3, <1>4, <1>5, <1>6, <1>7

(* A response leaves the entry as good as it was. *)
LEMMA FetchStep ==
  ASSUME MeasureInv, NEW response \in Responses(Current), Fetch(response)
  PROVE  MeasureInv'
<1> DEFINE points == Points(Current, response)
           ats == {p.at : p \in points}
           spoken == {Newest(Usable(s.values)) : s \in Speaking(response)}
<1>1. /\ UNCHANGED setup /\ name' = name /\ IsAnswer(Current, response) /\ heard' = Append(heard, response)
      /\ Len(heard) < Len(Asked) /\ stage = "measure" /\ outcome = "ok" /\ outcome' = outcome
      /\ UNCHANGED <<collector, extended>>
  BY ResponseIsAnswer DEF Fetch, Hear, MeasureInv, Place, setup
<1>2. /\ out \in AnyEntry /\ EntryOK(out) /\ name \in Names
      /\ Len(heard) \in Nat /\ Len(heard) + 1 \in DOMAIN Asked
      /\ response \in SUBSET AnySeries /\ IsFiniteSet(response)
  BY <1>1, MetricsDiffer DEF MeasureInv, Typed, IsAnswer
<1>3. points = {Reading(Len(heard) + 1, s) : s \in Speaking(response)}
  BY <1>2, PointsHeard DEF Current
<1>4. ASSUME NEW s \in Speaking(response)
      PROVE  /\ Usable(s.values) \in SUBSET Nat
             /\ Newest(Usable(s.values)) \in Usable(s.values)
             /\ \A at \in Usable(s.values) : at <= Newest(Usable(s.values))
             /\ s.label \in Labels \cup {"x"}
  <2>1. s.values \in Seq(SomePoint) /\ s.label \in Labels \cup {"x"} /\ Usable(s.values) # {}
    BY <1>2 DEF Speaking, AnySeries
  <2>2. QED
    BY <2>1, NewestPoint
<1>5. points \in SUBSET AnyPoint
  <2>1. ASSUME NEW s \in Speaking(response)
        PROVE  Reading(Len(heard) + 1, s) \in AnyPoint
    <3>1. Label(Asked[Len(heard) + 1], s) \in Labels \cup {"x", ""}
      BY <1>4 DEF Label
    <3>2. Newest(Usable(s.values)) \in Nat
      BY <1>4
    <3>3. QED
      BY <1>2, <3>1, <3>2 DEF Reading, AnyPoint
  <2>2. QED
    BY <1>3, <2>1
<1>6. ats = spoken
  <2>1. ats = {Reading(Len(heard) + 1, s).at : s \in Speaking(response)}
    <3> HIDE DEF points
    <3> QED BY <1>3
  <2>2. \A s : Reading(Len(heard) + 1, s).at = Newest(Usable(s.values))
    BY DEF Reading
  <2>3. QED
    <3> HIDE DEF ats
    <3> QED BY <2>1, <2>2
<1>7. /\ out.sampled \in Nat /\ spoken \in SUBSET Nat /\ IsFiniteSet({out.sampled} \cup spoken)
  <2>1. IsFiniteSet(Speaking(response))
    BY <1>2, FS_Subset DEF Speaking
  <2>2. IsFiniteSet(spoken)
    <3> DEFINE f == [s \in Speaking(response) |-> Newest(Usable(s.values))]
    <3>1. IsFiniteSet({f[s] : s \in Speaking(response)})
      <4>1. DOMAIN f = Speaking(response)
        OBVIOUS
      <4> HIDE DEF f
      <4>2. QED
        BY <2>1, <4>1, FiniteImage
    <3>2. {f[s] : s \in Speaking(response)} = spoken
      OBVIOUS
    <3>3. QED
      BY <3>1, <3>2
  <2>3. IsFiniteSet({out.sampled} \cup spoken)
    <3> HIDE DEF spoken
    <3> QED BY <2>2, FS_Singleton, FS_Union
  <2>4. QED
    BY <1>2, <1>4, <2>3 DEF AnyEntry
<1>8. /\ out' \in AnyEntry /\ out'.name = out.name /\ out'.up = out.up
      /\ out'.points = out.points \cup points
      /\ out'.sampled = Newest({out.sampled} \cup ats)
  <2>1. out' = [out EXCEPT !.points = out.points \cup points, !.sampled = Newest({out.sampled} \cup ats)]
    BY DEF Fetch
  <2>2. Newest({out.sampled} \cup ats) \in Nat
    <3>1. {out.sampled} \cup spoken \in SUBSET Nat
      BY <1>7
    <3> HIDE DEF spoken, ats
    <3>2. QED
      BY <1>6, <1>7, <3>1, NewestExists
  <2>3. AnyEntry' = AnyEntry
    BY <1>1, SetupStays
  <2> HIDE DEF points, ats
  <2>4. QED
    BY <1>2, <1>5, <2>1, <2>2, <2>3 DEF AnyEntry
<1>9. /\ out'.sampled \in Nat /\ out'.sampled \in {out.sampled} \cup spoken
      /\ out.sampled <= out'.sampled /\ \A at \in spoken : at <= out'.sampled
  <2>1. {out.sampled} \cup spoken \in SUBSET Nat
    BY <1>7
  <2> HIDE DEF spoken, ats
  <2>2. QED
    BY <1>6, <1>7, <1>8, <2>1, NewestExists
<1>10. EntryOK(out')
  <2>1. ASSUME NEW p \in out'.points
        PROVE  p.at \in Nat /\ p.name \in Names /\ p.at <= out'.sampled
    <3>1. CASE p \in out.points
      <4>1. p.at \in Nat /\ p.name \in Names /\ p.at <= out.sampled
        BY <1>2, <3>1 DEF EntryOK
      <4>2. QED
        BY <1>7, <1>9, <4>1
    <3>2. CASE p \in points
      <4>1. p.at \in Nat /\ p.name \in Names
        BY <1>5, <3>2 DEF AnyPoint
      <4>2. p.at \in spoken
        BY <1>6, <3>2
      <4>3. QED
        BY <1>9, <4>1, <4>2
    <3>3. QED
      BY <1>8, <2>1, <3>1, <3>2
  <2>2. out'.up \in {0, 1}
    BY <1>8, <1>2 DEF EntryOK
  <2>3. QED
    BY <1>9, <2>1, <2>2 DEF EntryOK
<1>11. /\ heard' \in Seq(SUBSET AnySeries) /\ Len(heard') = Len(heard) + 1 /\ Len(heard') <= Len(Asked)
       /\ Answered'
       /\ Sampled' = Sampled \cup UNION {Usable(s.values) : s \in response}
       /\ \A p : (\E k \in DOMAIN heard' : \E s \in Speaking(heard'[k]) : p = Reading(k, s)') <=>
            \/ \E k \in DOMAIN heard : \E s \in Speaking(heard[k]) : p = Reading(k, s)
            \/ p \in points
  <2> HIDE DEF points
  <2>1. points = Points(Current, response)
    BY DEF points
  <2>2. QED
    BY <1>1, <2>1, HearStep
<1>12. Asked' = Asked /\ AnyEntry' = AnyEntry
  BY <1>1, SetupStays
<1>13. /\ stage' = (IF Len(heard') = Len(Asked) THEN "merge" ELSE "measure")
       /\ entry' = entry /\ fair' = fair
  BY <1>12 DEF Fetch, Hear
<1>14. Typed'
  BY <1>1, <1>8, <1>10, <1>11, <1>12, <1>13 DEF Typed, MeasureInv, EntryOK
<1>15. Place'
  <2>1. Len(heard') \in Nat /\ Len(Asked) \in Nat
    BY <1>2, <1>11, MetricsDiffer
  <2>2. QED
    BY <1>1, <1>11, <1>12, <1>13, <2>1 DEF Place
<1>16. Built'
  <2>1. /\ out.name = name /\ out.up = 1
        /\ \A p : p \in out.points <=> \E k \in DOMAIN heard : \E s \in Speaking(heard[k]) : p = Reading(k, s)
        /\ out.sampled \in {0} \cup Sampled /\ \A at \in Sampled : at <= out.sampled
    BY <1>1 DEF MeasureInv, Built
  <2>2. \A p : p \in out'.points <=> (\E k \in DOMAIN heard' : \E s \in Speaking(heard'[k]) : p = Reading(k, s)')
    BY <1>8, <1>11, <2>1
  <2>3. out'.sampled \in {0} \cup Sampled'
    <3>1. \A at \in spoken : at \in Sampled'
      BY <1>4, <1>11 DEF Speaking
    <3>2. QED
      BY <1>9, <1>11, <2>1, <3>1
  <2>4. ASSUME NEW at \in Sampled'
        PROVE  at <= out'.sampled
    <3>1. CASE at \in Sampled
      <4>1. at <= out.sampled
        BY <2>1, <3>1
      <4>2. at \in Nat
        <5>1. PICK k \in DOMAIN heard : \E s \in heard[k] : at \in Usable(s.values)
          BY <3>1 DEF Sampled
        <5>2. PICK s \in heard[k] : at \in Usable(s.values)
          BY <5>1
        <5>3. s \in AnySeries
          BY <5>1, <5>2 DEF MeasureInv, Typed
        <5>4. s.values \in Seq(SomePoint)
          BY <5>3 DEF AnySeries
        <5>5. QED
          BY <5>2, <5>4, NewestPoint
      <4>3. QED
        BY <1>7, <1>9, <4>1, <4>2
    <3>2. ASSUME NEW s \in response, at \in Usable(s.values)
          PROVE  at <= out'.sampled
      <4>1. s \in Speaking(response)
        BY <3>2 DEF Speaking
      <4>2. at \in Nat /\ Newest(Usable(s.values)) \in Nat /\ at <= Newest(Usable(s.values))
        BY <1>4, <3>2, <4>1
      <4>3. Newest(Usable(s.values)) <= out'.sampled
        BY <1>9, <4>1
      <4>4. QED
        BY <1>9, <4>2, <4>3
    <3>3. QED
      BY <1>11, <2>4, <3>1, <3>2
  <2>5. QED
    BY <1>1, <1>8, <2>1, <2>2, <2>3, <2>4 DEF Built
<1>17. Earlier'
  BY <1>1, <1>13 DEF MeasureInv, Earlier
<1>18. QED
  BY <1>11, <1>14, <1>15, <1>16, <1>17 DEF MeasureInv

(* An extended metric that is left absent leaves the entry alone. *)
LEMMA AbsentStep ==
  ASSUME MeasureInv, ExtendedFails
  PROVE  MeasureInv'
<1>1. /\ UNCHANGED setup /\ name' = name /\ heard' = Append(heard, {})
      /\ Len(heard) < Len(Asked) /\ stage = "measure" /\ outcome = "ok" /\ outcome' = outcome
      /\ UNCHANGED <<collector, extended>> /\ out' = out /\ entry' = entry /\ fair' = fair
  BY DEF ExtendedFails, Hear, MeasureInv, Place, setup
<1>2. IsAnswer(Current, {})
  BY FS_EmptySet DEF IsAnswer
<1>3. Points(Current, {}) = {}
  BY DEF Points, Latest
<1>4. /\ heard' \in Seq(SUBSET AnySeries) /\ Len(heard') = Len(heard) + 1 /\ Len(heard') <= Len(Asked)
      /\ Answered'
      /\ Sampled' = Sampled \cup UNION {Usable(s.values) : s \in {}}
      /\ \A p : (\E k \in DOMAIN heard' : \E s \in Speaking(heard'[k]) : p = Reading(k, s)') <=>
           \/ \E k \in DOMAIN heard : \E s \in Speaking(heard[k]) : p = Reading(k, s)
           \/ p \in Points(Current, {})
  BY <1>1, <1>2, HearStep
<1>5. Asked' = Asked /\ AnyEntry' = AnyEntry
  BY <1>1, SetupStays
<1>6. stage' = IF Len(heard') = Len(Asked) THEN "merge" ELSE "measure"
  BY <1>5 DEF ExtendedFails, Hear
<1>7. Typed'
  BY <1>1, <1>4, <1>5, <1>6 DEF Typed, MeasureInv, EntryOK
<1>8. Place'
  <2>1. Len(heard') \in Nat /\ Len(Asked) \in Nat
    BY <1>4, MetricsDiffer
  <2>2. QED
    BY <1>1, <1>4, <1>5, <1>6, <2>1 DEF Place
<1>9. Sampled' = Sampled
  BY <1>4
<1>10. Built'
  <2>1. /\ out.name = name /\ out.up = 1
        /\ \A p : p \in out.points <=> \E k \in DOMAIN heard : \E s \in Speaking(heard[k]) : p = Reading(k, s)
        /\ out.sampled \in {0} \cup Sampled /\ \A at \in Sampled : at <= out.sampled
    BY <1>1 DEF MeasureInv, Built
  <2>2. \A p : p \in out'.points <=> (\E k \in DOMAIN heard' : \E s \in Speaking(heard'[k]) : p = Reading(k, s)')
    <3>1. \A p : p \notin Points(Current, {})
      BY <1>3
    <3>2. \A p : (\E k \in DOMAIN heard' : \E s \in Speaking(heard'[k]) : p = Reading(k, s)') <=>
                   \E k \in DOMAIN heard : \E s \in Speaking(heard[k]) : p = Reading(k, s)
      BY <1>4, <3>1
    <3>3. \A p : p \in out.points <=> \E k \in DOMAIN heard : \E s \in Speaking(heard[k]) : p = Reading(k, s)
      BY <2>1
    <3>4. out'.points = out.points
      BY <1>1
    <3>5. QED
      BY <3>2, <3>3, <3>4
  <2>3. out'.sampled \in {0} \cup Sampled' /\ \A at \in Sampled' : at <= out'.sampled
    BY <1>1, <1>9, <2>1
  <2>4. QED
    BY <1>1, <2>1, <2>2, <2>3 DEF Built
<1>11. Earlier'
  BY <1>1, <1>6 DEF MeasureInv, Earlier
<1>12. QED
  BY <1>4, <1>7, <1>8, <1>10, <1>11 DEF MeasureInv

(* An entry of the refresh before is as good as it was, and none of its     *)
(* readings are this refresh's.                                             *)
LEMMA AgedOK ==
  ASSUME NEW e \in AnyEntry, EntryOK(e)
  PROVE  /\ Aged(e) \in AnyEntry /\ EntryOK(Aged(e)) /\ Aged(e).name = e.name
         /\ \A p \in Aged(e).points : ~p.fresh
<1> DEFINE aged == {[p EXCEPT !.fresh = FALSE] : p \in e.points}
<1>1. e = [name |-> e.name, up |-> e.up, sampled |-> e.sampled, points |-> e.points]
  BY DEF AnyEntry
<1>2. /\ Aged(e).name = e.name /\ Aged(e).up = e.up /\ Aged(e).sampled = e.sampled
      /\ Aged(e).points = aged
      /\ Aged(e) = [name |-> e.name, up |-> e.up, sampled |-> e.sampled, points |-> aged]
  <2>1. Aged(e) = [e EXCEPT !.points = aged]
    BY DEF Aged
  <2> HIDE DEF aged
  <2>2. QED
    BY <1>1, <2>1
<1>3. ASSUME NEW p \in e.points
      PROVE  /\ [p EXCEPT !.fresh = FALSE] \in AnyPoint /\ [p EXCEPT !.fresh = FALSE].fresh = FALSE
             /\ [p EXCEPT !.fresh = FALSE].at = p.at /\ [p EXCEPT !.fresh = FALSE].name = p.name
  <2>1. p \in AnyPoint
    BY DEF AnyEntry
  <2>2. QED
    BY <2>1 DEF AnyPoint
<1>4. /\ aged \in SUBSET AnyPoint
      /\ \A q \in aged : \E p \in e.points : q.at = p.at /\ q.name = p.name /\ q.fresh = FALSE
  BY <1>3
<1>5. Aged(e) \in AnyEntry
  <2> HIDE DEF aged
  <2>1. QED BY <1>2, <1>4 DEF AnyEntry
<1>6. EntryOK(Aged(e))
  <2>1. ASSUME NEW q \in aged PROVE q.at \in Nat /\ q.name \in Names /\ q.at <= e.sampled
    <3> HIDE DEF aged
    <3>1. QED BY <1>4 DEF EntryOK
  <2> HIDE DEF aged
  <2>2. QED
    BY <1>2, <2>1 DEF EntryOK
<1>7. \A p \in Aged(e).points : ~p.fresh
  <2> HIDE DEF aged
  <2> QED BY <1>2, <1>4
<1>8. QED
  BY <1>2, <1>5, <1>6, <1>7

(* A refresh that takes up the target starts from an entry without points.  *)
LEMMA BeginStep ==
  ASSUME MeasureInv, NEW n \in Names, Begin(n)
  PROVE  MeasureInv'
<1>1. /\ stage = "idle" /\ stage' = "measure" /\ name' = n /\ heard = << >> /\ heard' = << >>
      /\ outcome = "ok" /\ outcome' = "ok" /\ fair' = fair
      /\ UNCHANGED <<setup, collector, extended>>
      /\ out' = [Zero EXCEPT !.name = n, !.up = 1]
      /\ entry' = {Aged(e) : e \in entry}
  BY DEF Begin, setup, MeasureInv, Place
<1>2. Asked' = Asked /\ AnyEntry' = AnyEntry
  BY <1>1, SetupStays
<1>3. /\ << >> \in Seq(SUBSET AnySeries) /\ Len(<< >>) = 0 /\ DOMAIN << >> = {}
      /\ Len(Asked) \in Nat /\ Len(Asked) > 0
  BY MetricsDiffer
<1>4. out' = [name |-> n, up |-> 1, sampled |-> 0, points |-> {}]
  BY <1>1 DEF Zero
<1>5. out' \in AnyEntry' /\ EntryOK(out')
  BY <1>2, <1>4 DEF AnyEntry, EntryOK
<1>6. \A e \in entry' : e \in AnyEntry' /\ EntryOK(e) /\ e.name \in Names /\ \A p \in e.points : ~p.fresh
  <2>1. \A e \in entry : e \in AnyEntry /\ EntryOK(e) /\ e.name \in Names
    BY DEF MeasureInv, Typed
  <2>2. QED
    BY <1>1, <1>2, <2>1, AgedOK
<1>7. \A e, other \in entry' : e = other
  <2>1. \A e, other \in entry : e = other
    BY DEF MeasureInv, Typed
  <2>2. QED
    BY <1>1, <2>1
<1>8. Typed'
  BY <1>1, <1>2, <1>3, <1>5, <1>6, <1>7 DEF Typed, MeasureInv, EntryOK
<1>9. Place' /\ Answered' /\ Earlier'
  BY <1>1, <1>2, <1>3, <1>6 DEF Place, Answered, Earlier
<1>10. Built'
  <2>1. DOMAIN heard' = {}
    BY <1>1, <1>3
  <2>2. Sampled' = {}
    BY <2>1 DEF Sampled
  <2>3. out'.name = n /\ out'.up = 1 /\ out'.points = {} /\ out'.sampled = 0
    BY <1>4
  <2>4. QED
    BY <1>1, <2>1, <2>2, <2>3 DEF Built
<1>11. QED
  BY <1>8, <1>9, <1>10 DEF MeasureInv

(* measure gives up: the entry is the empty one, and the outcome says so.   *)
LEMMA AbandonStep ==
  ASSUME MeasureInv, NEW o \in {"failed", "starved"}, stage = "measure", Abandon(o)
  PROVE  MeasureInv'
<1>1. /\ stage' = "merge" /\ outcome' = o /\ out' = Zero /\ fair' = fair /\ name' = name
      /\ heard' = heard /\ entry' = entry /\ UNCHANGED <<setup, collector, extended>>
  BY DEF Abandon, setup
<1>2. Asked' = Asked /\ AnyEntry' = AnyEntry
  BY <1>1, SetupStays
<1>3. Typed'
  BY <1>1, <1>2, ZeroOK DEF Typed, MeasureInv, Outcomes, EntryOK
<1>4. Place' /\ Built'
  BY <1>1 DEF Place, Built
<1>5. Answered' /\ Earlier'
  BY <1>1, <1>2 DEF Answered, Earlier, MeasureInv, IsAnswer
<1>6. QED
  BY <1>3, <1>4, <1>5 DEF MeasureInv

(* What a failed target goes by is the entry it had, or the zero value.     *)
LEMMA PreviousOK ==
  ASSUME MeasureInv
  PROVE  /\ Previous \in AnyEntry /\ EntryOK(Previous)
         /\ stage # "idle" => \A p \in Previous.points : ~p.fresh
<1>1. CASE entry = {}
  BY <1>1, ZeroOK DEF Previous
<1>2. CASE entry # {}
  <2>1. Previous \in entry
    BY <1>2, Zenon DEF Previous
  <2>2. QED
    BY <2>1 DEF MeasureInv, Typed, Earlier
<1>3. QED
  BY <1>1, <1>2

(* merge stores the entry, or takes down the one there was.                 *)
LEMMA MergeEntryStep ==
  ASSUME MeasureInv, MergeEntry
  PROVE  MeasureInv'
<1> DEFINE down == [Previous EXCEPT !.name = name, !.up = 0]
<1>1. /\ stage = "merge" /\ stage' = "idle" /\ heard' = << >> /\ out' = Zero /\ outcome' = "ok"
      /\ fair' = fair /\ name' = name /\ UNCHANGED <<setup, collector, extended>>
      /\ entry' = IF outcome = "ok" THEN {out} ELSE {down}
  BY DEF MergeEntry, Finish, setup
<1>2. Asked' = Asked /\ AnyEntry' = AnyEntry
  BY <1>1, SetupStays
<1>3. << >> \in Seq(SUBSET AnySeries) /\ Len(<< >>) = 0 /\ DOMAIN << >> = {} /\ Len(Asked) \in Nat
  BY MetricsDiffer
<1>4. name \in Names /\ outcome \in Outcomes /\ out \in AnyEntry /\ EntryOK(out)
  BY DEF MeasureInv, Typed
<1>5. down \in AnyEntry /\ EntryOK(down) /\ down.name = name
  <2>1. Previous \in AnyEntry /\ EntryOK(Previous)
    BY PreviousOK
  <2>2. PICK after : after = down
    OBVIOUS
  <2>3. PICK before : before = Previous
    OBVIOUS
  <2>4. after = [before EXCEPT !.name = name, !.up = 0] /\ before \in AnyEntry /\ EntryOK(before)
    BY <2>1, <2>2, <2>3
  <2>5. /\ after \in AnyEntry /\ after.name = name /\ after.up = 0
        /\ after.sampled = before.sampled /\ after.points = before.points
    BY <1>4, <2>4 DEF AnyEntry
  <2>6. EntryOK(after)
    BY <2>4, <2>5 DEF EntryOK
  <2>7. QED
    <3> HIDE DEF down
    <3> QED BY <2>2, <2>5, <2>6
<1> HIDE DEF down
<1>6. outcome = "ok" => out.name = name
  BY <1>1 DEF MeasureInv, Built
<1>7. /\ \A e \in entry' : e \in AnyEntry' /\ EntryOK(e) /\ e.name \in Names
      /\ \A e, other \in entry' : e = other
  BY <1>1, <1>2, <1>4, <1>5, <1>6
<1>8. Typed'
  <2>1. entry' \in SUBSET AnyEntry'
    BY <1>7
  <2>2. heard' \in Seq(SUBSET AnySeries) /\ Len(heard') <= Len(Asked')
    BY <1>1, <1>2, <1>3
  <2>3. out' \in AnyEntry' /\ EntryOK(out')
    BY <1>1, <1>2, ZeroOK
  <2>4. QED
    BY <1>1, <1>2, <1>4, <1>7, <2>1, <2>2, <2>3 DEF Typed, MeasureInv, EntryOK, Outcomes
<1>9. Place' /\ Answered' /\ Built' /\ Earlier'
  BY <1>1, <1>3 DEF Place, Answered, Built, Earlier
<1>10. QED
  BY <1>8, <1>9 DEF MeasureInv

(* The world, and a listing that does not name the target, disturb nothing. *)
LEMMA StillStep ==
  ASSUME MeasureInv, Weather \/ Unlisted \/ UNCHANGED measureVars
  PROVE  MeasureInv'
<1>1. /\ UNCHANGED <<setup, collector, extended, stage, name, heard, out, outcome>>
      /\ fair' \in BOOLEAN /\ (entry' = entry \/ entry' = {})
  BY DEF Weather, Unlisted, measureVars, setup, MeasureInv, Typed
<1>2. Asked' = Asked /\ AnyEntry' = AnyEntry
  BY <1>1, SetupStays
<1>3. Typed'
  BY <1>1, <1>2 DEF Typed, MeasureInv, EntryOK
<1>4. Place' /\ Answered' /\ Earlier'
  BY <1>1, <1>2 DEF Place, Answered, Earlier, MeasureInv, IsAnswer
<1>5. \A k, s : Reading(k, s)' = Reading(k, s)
  BY <1>1, <1>2 DEF Reading, Label
<1>6. Built'
  <2>1. Sampled' = Sampled
    BY <1>1 DEF Sampled
  <2>2. QED
    BY <1>1, <1>5, <2>1 DEF Built, MeasureInv
<1>7. QED
  BY <1>3, <1>4, <1>6 DEF MeasureInv

(* The invariant holds through every refresh of the target.                 *)
THEOREM MeasureInvariance == MeasureSpec => []MeasureInv
<1>1. MeasureInit => MeasureInv
  BY MeasureInitOK
<1>2. MeasureInv /\ [MeasureNext]_measureVars => MeasureInv'
  <2> SUFFICES ASSUME MeasureInv, [MeasureNext]_measureVars
               PROVE  MeasureInv'
    OBVIOUS
  <2>1. CASE Weather \/ Unlisted \/ UNCHANGED measureVars
    BY <2>1, StillStep
  <2>2. ASSUME NEW n \in Names, Begin(n)
        PROVE  MeasureInv'
    BY <2>2, BeginStep
  <2>3. ASSUME NEW r \in Responses(Current), Fetch(r)
        PROVE  MeasureInv'
    BY <2>3, FetchStep
  <2>4. CASE BaseFails \/ RunsOut
    <3>1. stage = "measure" /\ (Abandon("failed") \/ Abandon("starved"))
      BY <2>4 DEF BaseFails, RunsOut
    <3>2. QED
      BY <3>1, AbandonStep
  <2>5. CASE ExtendedFails
    BY <2>5, AbsentStep
  <2>6. CASE MergeEntry
    BY <2>6, MergeEntryStep
  <2>7. QED
    BY <2>1, <2>2, <2>3, <2>4, <2>5, <2>6 DEF MeasureNext, Refresh, Measuring
<1>3. QED
  BY <1>1, <1>2, PTL DEF MeasureSpec

(* The types, in the run's words: what is published has the target's name,  *)
(* a time, and no reading later than the entry (merge).                      *)
THEOREM MeasureTypes == MeasureSpec => []MeasureTypeOK
<1>1. MeasureInv => MeasureTypeOK
  BY TypedIsTyped DEF MeasureInv
<1>2. QED
  BY <1>1, MeasureInvariance, PTL

(* The readable series, request by request.                                 *)
LEMMA ReadableParts ==
  ASSUME MeasureInv
  PROVE  /\ Readable = UNION {{k} \X Speaking(heard[k]) : k \in DOMAIN heard}
         /\ IsFiniteSet(Readable)
         /\ \A x \in Readable : x = <<x[1], x[2]>> /\ x[1] \in DOMAIN heard /\ x[2] \in Speaking(heard[x[1]])
         /\ \A k \in DOMAIN heard : \A s \in Speaking(heard[k]) : <<k, s>> \in Readable
<1>1. Readable = UNION {{k} \X Speaking(heard[k]) : k \in DOMAIN heard}
  BY DEF Readable, Speaking
<1> DEFINE part == [k \in DOMAIN heard |-> {k} \X Speaking(heard[k])]
           parts == {part[k] : k \in DOMAIN heard}
<1>2. IsFiniteSet(DOMAIN heard)
  <2>1. Len(heard) \in Nat /\ DOMAIN heard = 1..Len(heard)
    BY DEF MeasureInv, Typed
  <2>2. QED
    BY <2>1, FS_Interval
<1>3. IsFiniteSet(parts)
  <2>1. DOMAIN part = DOMAIN heard
    OBVIOUS
  <2> HIDE DEF part
  <2>2. QED
    BY <1>2, <2>1, FiniteImage
<1>4. \A T \in parts : IsFiniteSet(T)
  <2>1. ASSUME NEW k \in DOMAIN heard
        PROVE  IsFiniteSet({k} \X Speaking(heard[k]))
    <3>1. IsFiniteSet(heard[k])
      BY DEF MeasureInv, Answered, IsAnswer
    <3>2. IsFiniteSet(Speaking(heard[k]))
      BY <3>1, FS_Subset DEF Speaking
    <3>3. QED
      BY <3>2, FS_Singleton, FS_Product
  <2>2. QED
    BY <2>1
<1>5. IsFiniteSet(Readable)
  <2>1. Readable = UNION parts
    BY <1>1
  <2> HIDE DEF parts
  <2>2. QED
    BY <1>3, <1>4, <2>1, FS_UNION
<1>6. QED
  BY <1>1, <1>5

(* As many readings are published as there are series to read: none goes    *)
(* under the labels of another.                                             *)
LEMMA OneReadingEach ==
  ASSUME MeasureInv, stage # "idle", outcome = "ok"
  PROVE  Cardinality(out.points) = Cardinality(Readable)
<1> DEFINE f == [x \in Readable |-> Reading(x[1], x[2])]
<1>1. /\ IsFiniteSet(Readable)
      /\ \A x \in Readable : x = <<x[1], x[2]>> /\ x[1] \in DOMAIN heard /\ x[2] \in Speaking(heard[x[1]])
      /\ \A k \in DOMAIN heard : \A s \in Speaking(heard[k]) : <<k, s>> \in Readable
  BY ReadableParts
<1>2. \A p : p \in out.points <=> \E k \in DOMAIN heard : \E s \in Speaking(heard[k]) : p = Reading(k, s)
  BY DEF MeasureInv, Built
<1>3. f \in Surjection(Readable, out.points)
  <2>1. \A x \in Readable : Reading(x[1], x[2]) \in out.points
    BY <1>1, <1>2
  <2>2. ASSUME NEW p \in out.points
        PROVE  \E x \in Readable : Reading(x[1], x[2]) = p
    <3>1. PICK k \in DOMAIN heard : \E s \in Speaking(heard[k]) : p = Reading(k, s)
      BY <1>2
    <3>2. PICK s \in Speaking(heard[k]) : p = Reading(k, s)
      BY <3>1
    <3>3. <<k, s>> \in Readable /\ <<k, s>>[1] = k /\ <<k, s>>[2] = s
      BY <1>1
    <3>4. QED
      BY <3>2, <3>3
  <2>3. QED
    BY <2>1, <2>2 DEF Surjection
<1>4. f \in Injection(Readable, out.points)
  <2>1. ASSUME NEW x \in Readable, NEW y \in Readable, Reading(x[1], x[2]) = Reading(y[1], y[2])
        PROVE  x = y
    <3>1. x[1] \in DOMAIN Asked /\ y[1] \in DOMAIN Asked
      <4>1. /\ Len(heard) \in Nat /\ DOMAIN heard = 1..Len(heard) /\ Len(heard) <= Len(Asked)
            /\ Len(Asked) \in Nat /\ DOMAIN Asked = 1..Len(Asked)
        BY MetricsDiffer DEF MeasureInv, Typed
      <4>2. x[1] \in 1..Len(heard) /\ y[1] \in 1..Len(heard)
        BY <1>1, <4>1
      <4>3. QED
        BY <4>1, <4>2
    <3>2. Asked[x[1]].name = Asked[y[1]].name /\ Label(Asked[x[1]], x[2]) = Label(Asked[y[1]], y[2])
      BY <2>1 DEF Reading
    <3>3. x[1] = y[1]
      BY <3>1, <3>2, MetricsDiffer DEF Distinct
    <3>4. x[2] \in heard[x[1]] /\ y[2] \in heard[x[1]] /\ IsAnswer(Asked[x[1]], heard[x[1]])
      BY <1>1, <3>3 DEF MeasureInv, Answered, Speaking
    <3>5. Asked[x[1]].seriesLabels = {} \/ x[2].label = y[2].label
      BY <3>2, <3>3 DEF Label
    <3>6. x[2] = y[2]
      BY <3>4, <3>5 DEF IsAnswer
    <3>7. QED
      BY <1>1, <3>3, <3>6
  <2>2. f \in [Readable -> out.points] /\ \A x \in Readable : f[x] = Reading(x[1], x[2])
    BY <1>3 DEF Surjection
  <2> HIDE DEF f
  <2>3. \A x, y \in Readable : f[x] = f[y] => x = y
    BY <2>1, <2>2
  <2>4. QED
    BY <2>2, <2>3 DEF Injection, IsInjective
<1> HIDE DEF f
<1>5. Cardinality(out.points) = Cardinality(Readable) <=> f \in Injection(Readable, out.points)
  BY <1>1, <1>3, FS_Surjection
<1>6. QED
  BY <1>4, <1>5

(* The entry's time is that of the newest sample heard, or zero.            *)
LEMMA NewestHeard ==
  ASSUME MeasureInv, stage # "idle", outcome = "ok"
  PROVE  out.sampled = Newest({0} \cup UNION {Usable(x[2].values) : x \in Readable})
<1> DEFINE times == {0} \cup UNION {Usable(x[2].values) : x \in Readable}
<1>1. /\ \A x \in Readable : x[1] \in DOMAIN heard /\ x[2] \in Speaking(heard[x[1]])
      /\ \A k \in DOMAIN heard : \A s \in Speaking(heard[k]) : <<k, s>> \in Readable
  BY ReadableParts
<1>2. UNION {Usable(x[2].values) : x \in Readable} = Sampled
  <2>1. ASSUME NEW x \in Readable, NEW at \in Usable(x[2].values)
        PROVE  at \in Sampled
    BY <1>1 DEF Sampled, Speaking
  <2>2. ASSUME NEW at \in Sampled
        PROVE  \E x \in Readable : at \in Usable(x[2].values)
    <3>1. PICK k \in DOMAIN heard : at \in UNION {Usable(s.values) : s \in heard[k]}
      BY DEF Sampled
    <3>2. PICK s \in heard[k] : at \in Usable(s.values)
      BY <3>1
    <3>3. <<k, s>> \in Readable /\ <<k, s>>[2] = s
      BY <1>1, <3>2 DEF Speaking
    <3>4. QED
      BY <3>2, <3>3
  <2>3. QED
    BY <2>1, <2>2
<1>3. out.sampled \in {0} \cup Sampled /\ (\A at \in Sampled : at <= out.sampled) /\ out.sampled \in Nat
  BY DEF MeasureInv, Built, Typed, AnyEntry
<1>4. Sampled \in SUBSET Nat
  <2>1. ASSUME NEW k \in DOMAIN heard, NEW s \in heard[k]
        PROVE  Usable(s.values) \in SUBSET Nat
    <3>1. s \in AnySeries
      BY DEF MeasureInv, Typed
    <3>2. s.values \in Seq(SomePoint)
      BY <3>1 DEF AnySeries
    <3>3. QED
      BY <3>2, NewestPoint
  <2>2. QED
    BY <2>1 DEF Sampled
<1>5. times \in SUBSET Nat /\ out.sampled \in times /\ \A other \in times : other <= out.sampled
  <2>1. times = {0} \cup Sampled
    BY <1>2
  <2> HIDE DEF times
  <2>2. QED
    BY <1>3, <1>4, <2>1
<1>6. QED
  <2> HIDE DEF times
  <2>1. Newest(times) = out.sampled
    BY <1>5, NewestIs
  <2>2. QED
    BY <2>1 DEF times

(* What merge stores is what this refresh heard, whole, or what an earlier  *)
(* one left, whole (measure, fetch, Latest).                                *)
THEOREM PublishesCorrectly == MeasureSpec => PublishesWhatWasHeard
<1> DEFINE Right(e) ==
       e.name = name /\
       IF outcome = "ok"
       THEN /\ e.up = 1
            /\ Cardinality(e.points) = Cardinality(Readable)
            /\ \A x \in Readable :
                 \E p \in e.points : /\ p.metric = Asked[x[1]].name /\ p.fresh /\ p.name = name
                                     /\ p.at = Newest(Usable(x[2].values))
                                     /\ p.label = IF Asked[x[1]].seriesLabels = {} THEN "" ELSE x[2].label
            /\ e.sampled = Newest({0} \cup UNION { Usable(x[2].values) : x \in Readable })
       ELSE /\ e.up = 0
            /\ e.points = Previous.points /\ e.sampled = Previous.sampled
            /\ \A p \in e.points : ~p.fresh
<1>1. ASSUME MeasureInv, stage = "merge", outcome = "ok"
      PROVE  Right(out)
  <2>1. out.name = name /\ out.up = 1
    BY <1>1 DEF MeasureInv, Built
  <2>2. Cardinality(out.points) = Cardinality(Readable)
    BY <1>1, OneReadingEach
  <2>3. out.sampled = Newest({0} \cup UNION { Usable(x[2].values) : x \in Readable })
    BY <1>1, NewestHeard
  <2>4. ASSUME NEW x \in Readable
        PROVE  \E p \in out.points : /\ p.metric = Asked[x[1]].name /\ p.fresh /\ p.name = name
                                     /\ p.at = Newest(Usable(x[2].values))
                                     /\ p.label = IF Asked[x[1]].seriesLabels = {} THEN "" ELSE x[2].label
    <3>1. x[1] \in DOMAIN heard /\ x[2] \in Speaking(heard[x[1]])
      BY <1>1, ReadableParts
    <3>2. Reading(x[1], x[2]) \in out.points
      BY <1>1, <3>1 DEF MeasureInv, Built
    <3>3. QED
      BY <3>2 DEF Reading, Label
  <2>5. QED
    BY <1>1, <2>1, <2>2, <2>3, <2>4
<1>2. ASSUME MeasureInv, stage = "merge", outcome # "ok"
      PROVE  Right([Previous EXCEPT !.name = name, !.up = 0])
  <2>1. PICK before : before = Previous
    OBVIOUS
  <2>2. before \in AnyEntry /\ \A p \in before.points : ~p.fresh
    BY <1>2, <2>1, PreviousOK
  <2>3. PICK after : after = [before EXCEPT !.name = name, !.up = 0]
    OBVIOUS
  <2>4. /\ after.name = name /\ after.up = 0
        /\ after.sampled = before.sampled /\ after.points = before.points
    BY <2>2, <2>3 DEF AnyEntry
  <2>5. QED
    BY <1>2, <2>1, <2>2, <2>3, <2>4
<1>3. ASSUME MeasureInv, [MeasureNext]_measureVars, stage = "merge", stage' = "idle", NEW e \in entry'
      PROVE  Right(e)
  <2>1. MergeEntry
    BY <1>3 DEF MeasureNext, Weather, Unlisted, Refresh, Begin, Measuring, MergeEntry, measureVars
  <2>2. entry' = IF outcome = "ok" THEN {out} ELSE {[Previous EXCEPT !.name = name, !.up = 0]}
    BY <2>1 DEF MergeEntry
  <2> HIDE DEF Right
  <2>3. CASE outcome = "ok"
    BY <1>1, <1>3, <2>2, <2>3
  <2>4. CASE outcome # "ok"
    BY <1>2, <1>3, <2>2, <2>4, Zenon
  <2>5. QED
    BY <2>3, <2>4
<1>4. MeasureInv /\ [MeasureNext]_measureVars =>
        [\A e \in entry' : stage = "merge" /\ stage' = "idle" => Right(e)]_measureVars
  <2> HIDE DEF Right
  <2> QED BY <1>3
<1>5. QED
  BY <1>4, MeasureInvariance, PTL DEF MeasureSpec, PublishesWhatWasHeard
=============================================================================
