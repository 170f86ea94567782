------------------------------- MODULE FanOut -------------------------------
(***************************************************************************)
(* The rotating fan-out of dropletmetrics.go and loadbalancermetrics.go:   *)
(* one refresh lists the targets, hands them in rotated order to a fixed   *)
(* set of workers until the context is done, merges what came back into    *)
(* the snapshot, moves the cursor and decides what to tell the scheduler.  *)
(*                                                                         *)
(* One target's whole measurement is one outcome.  Against the clock a     *)
(* refresh is in one of three times:                                       *)
(*   "open"   a request admitted now can still be answered                 *)
(*   "tight"  the rate limiter's next slot lies past the deadline: it      *)
(*            refuses every new request with DeadlineExceeded, although    *)
(*            the context is not done (doclient.limiterError); a refusal   *)
(*            reserves no slot, so this lasts until the deadline comes     *)
(*   "done"   the context is done                                          *)
(***************************************************************************)
EXTENDS Integers, Sequences, FiniteSets

CONSTANTS
  Targets,   \* droplets or load balancers
  Settings   \* the ways the collector may be set up, and what it may run against:
             \*   concurrency      Config.Concurrency, at least 1 after New
             \*   limiter          whether a rate limit is configured
             \*   requestTimeouts  whether one request can time out on its own
             \*   listings         what listing the targets may return, in the API's order
             \*   minReached       targets every refresh is assumed to have time for

ASSUME FanOutAssumption ==
  \A s \in Settings :
    /\ s.concurrency \in Nat \ {0}
    /\ s.limiter \in BOOLEAN /\ s.requestTimeouts \in BOOLEAN
    /\ s.minReached \in Nat
    /\ s.listings \subseteq Seq(Targets)
    /\ \A l \in s.listings : \A i, j \in DOMAIN l : l[i] = l[j] => i = j

VARIABLES
  setting,   \* which of them this process runs with: never changes
  phase,     \* where Refresh stands; "idle" between refreshes
  time,      \* the refresh's context and the limiter, as above
  refs,      \* the rotated listing (rotate)
  queued,    \* how many of refs have been handed to a worker (measureAll)
  results,   \* per index of refs: waiting, in a worker's hands, or its outcome
  snap,      \* per target: no entry, or what its entry shows (c.snap)
  cursor,    \* c.cursor
  verdict    \* what the last finished refresh returned

refreshVars == <<refs, queued, results>>
vars == <<setting, phase, time, refreshVars, snap, cursor, verdict>>

Phases == {"idle", "dispatch", "drain", "merge", "report"}
Times  == {"open", "tight", "done"}

(* "doomed": handed to a worker when no request could be admitted any more. *)
Busy    == {"measuring", "doomed"}
Final   == {"ok", "failed", "starved"}
Results == {"waiting"} \cup Busy \cup Final

(* "blank": up 0 and no readings.  "stale": up 0 with readings of an earlier *)
(* refresh.  "fresh": up 1 with this refresh's readings.                     *)
Entries == {"absent", "blank", "stale", "fresh"}

Verdicts == {"none", "ok", "error"}

TypeOK ==
  /\ setting \in Settings
  /\ phase \in Phases /\ time \in Times
  /\ refs \in Seq(Targets)
  /\ queued \in 0..Len(refs)
  /\ results \in [1..Len(refs) -> Results]
  /\ snap \in [Targets -> Entries]
  /\ cursor \in Nat
  /\ verdict \in Verdicts

Init ==
  /\ setting \in Settings
  /\ phase = "idle" /\ time = "open"
  /\ refs = << >> /\ queued = 0 /\ results = << >>
  /\ snap = [t \in Targets |-> "absent"]
  /\ cursor = 0
  /\ verdict = "none"

With(status) == {i \in 1..Len(refs) : results[i] \in status}

-----------------------------------------------------------------------------
(* Time passes only as long as a refresh is running. *)

Reached == Cardinality(With({"ok", "failed"}))

CanPass == phase # "idle" /\ (phase = "dispatch" => Reached >= setting.minReached)

Tighten == /\ CanPass
           /\ setting.limiter /\ time = "open"
           /\ time' = "tight"
           /\ UNCHANGED <<setting, phase, refreshVars, snap, cursor, verdict>>

Expire == /\ CanPass
          /\ time # "done"
          /\ time' = "done"
          /\ UNCHANGED <<setting, phase, refreshVars, snap, cursor, verdict>>

-----------------------------------------------------------------------------
(* Mutant: no rotation, every refresh starts at the head of the listing. *)
Unrotated(l) == l

(* Mutant: the target at the cursor ends both halves of the split. *)
RotateOverlapping(l) ==
  IF l = << >> THEN l
  ELSE LET from == cursor % Len(l)
       IN  SubSeq(l, from + 1, Len(l)) \o SubSeq(l, 1, from + 1)

(* rotate *)
Rotate(l) ==
  IF l = << >> THEN l
  ELSE LET from == cursor % Len(l)
       IN  SubSeq(l, from + 1, Len(l)) \o SubSeq(l, 1, from)

ListFails == /\ phase = "idle"
             /\ verdict' = "error"
             /\ UNCHANGED <<setting, phase, time, refreshVars, snap, cursor>>

ListTargets(l) ==
  /\ phase = "idle"
  /\ refs' = Rotate(l)
  /\ queued' = 0
  /\ results' = [i \in 1..Len(l) |-> "waiting"]
  /\ time' = "open"
  /\ verdict' = "none"
  /\ phase' = "dispatch"
  /\ UNCHANGED <<setting, snap, cursor>>

-----------------------------------------------------------------------------
(* measureAll: the dispatcher offers one index at a time on an unbuffered   *)
(* queue, so it is taken by an idle worker or not at all.  With the context *)
(* done as well, select may still choose the hand-over.                     *)

HandOver == /\ phase = "dispatch"
            /\ queued < Len(refs)
            /\ Cardinality(With(Busy)) < setting.concurrency
            /\ queued' = queued + 1
            /\ results' = [results EXCEPT ![queued + 1] =
                             IF time = "open" THEN "measuring" ELSE "doomed"]
            /\ UNCHANGED <<setting, phase, time, refs, snap, cursor, verdict>>

GiveUp == /\ phase = "dispatch"
          /\ queued < Len(refs)
          /\ time = "done"
          /\ phase' = "drain"
          /\ UNCHANGED <<setting, time, refreshVars, snap, cursor, verdict>>

(* Mutant: the queue is never closed, and the workers range over it for ever. *)
NeverClosed == FALSE /\ UNCHANGED vars

CloseQueue == /\ phase = "dispatch"
              /\ queued = Len(refs)
              /\ phase' = "drain"
              /\ UNCHANGED <<setting, time, refreshVars, snap, cursor, verdict>>

Outcome(i, o) == /\ results' = [results EXCEPT ![i] = o]
                 /\ UNCHANGED <<setting, phase, time, refs, queued, snap, cursor, verdict>>

Measured(i) == results[i] = "measuring" /\ Outcome(i, "ok")

(* The target's own failure: a 500, a body that would not parse. *)
Failed(i) == results[i] = "measuring" /\ Outcome(i, "failed")

(* An error that is nothing but time running out (starved). *)
Starved(i) == /\ \/ results[i] = "doomed"
                 \/ results[i] = "measuring" /\ (time # "open" \/ setting.requestTimeouts)
              /\ Outcome(i, "starved")

(* wg.Wait, and the results of the targets that never got their turn. *)
Wait == /\ phase = "drain"
        /\ With(Busy) = {}
        /\ results' = [i \in 1..Len(refs) |-> IF i > queued THEN "starved" ELSE results[i]]
        /\ phase' = "merge"
        /\ UNCHANGED <<setting, time, refs, queued, snap, cursor, verdict>>

-----------------------------------------------------------------------------
Shows(t, entry) == snap[t] = entry
HasReadings(t) == snap[t] \in {"stale", "fresh"}
Succeeded(t) == \E i \in With({"ok"}) : refs[i] = t
Listed(t) == \E i \in DOMAIN refs : refs[i] = t

(* Mutant: a target whose fetch failed starts over instead of going stale. *)
MergeForgets ==
  /\ phase = "merge"
  /\ snap' = [t \in Targets |-> CASE ~Listed(t)   -> "absent"
                                  [] Succeeded(t) -> "fresh"
                                  [] OTHER        -> "blank"]
  /\ phase' = "report"
  /\ UNCHANGED <<setting, time, refreshVars, cursor, verdict>>

(* merge *)
Merge ==
  /\ phase = "merge"
  /\ snap' = [t \in Targets |-> CASE ~Listed(t)     -> "absent"
                                  [] Succeeded(t)   -> "fresh"
                                  [] OTHER          -> IF HasReadings(t) THEN "stale" ELSE "blank"]
  /\ phase' = "report"
  /\ UNCHANGED <<setting, time, refreshVars, cursor, verdict>>

(* Mutant: the cursor moves past everything that was attempted. *)
AdvancePastAll == cursor' = IF refs = << >> THEN cursor
                            ELSE (cursor + Cardinality(With({"ok", "failed", "starved"}))) % Len(refs)

(* advance *)
Advance == cursor' = IF refs = << >> THEN cursor ELSE (cursor + Reached) % Len(refs)

(* Mutant: running out of time is not looked at. *)
JudgeWithoutTime == IF With({"ok"}) = {} /\ refs # << >> THEN "error" ELSE "ok"

Judge == IF time = "done" \/ (With({"ok"}) = {} /\ refs # << >>) THEN "error" ELSE "ok"

(* report *)
Report == /\ phase = "report"
          /\ Advance
          /\ verdict' = Judge
          /\ phase' = "idle"
          /\ refs' = << >> /\ queued' = 0 /\ results' = << >>
          /\ time' = "open"
          /\ UNCHANGED <<setting, snap>>

-----------------------------------------------------------------------------
Work(i) == Measured(i) \/ Failed(i) \/ Starved(i)

Next == \/ Tighten \/ Expire
        \/ ListFails \/ \E l \in setting.listings : ListTargets(l)
        \/ HandOver \/ GiveUp \/ CloseQueue
        \/ \E i \in DOMAIN refs : Work(i)
        \/ Wait \/ Merge \/ Report

Spec == Init /\ [][Next]_vars

(* The dispatcher and the workers are goroutines that keep running, and     *)
(* every request is bounded by the context, so a worker comes back.         *)
Fairness == /\ WF_vars(HandOver \/ CloseQueue \/ GiveUp)
            /\ WF_vars(\E i \in DOMAIN refs : Work(i))
            /\ WF_vars(Wait \/ Merge \/ Report)

FairSpec == Spec /\ Fairness

(* The ticker starts refreshes for ever, and the listing does not fail for ever. *)
Relisted == SF_vars(\E l \in setting.listings : ListTargets(l))

-----------------------------------------------------------------------------
(* By the time results are merged every listed target has exactly one       *)
(* outcome, whichever of the queue and the context the dispatcher's select  *)
(* chose last: no target is lost between the dispatcher and the workers.    *)
EveryTargetAccountedFor ==
  phase \in {"merge", "report"} => With(Final) = DOMAIN refs

(* A target's readings outlive any run of failures for as long as it is     *)
(* listed: once it has shown readings it never goes back to showing none    *)
(* (merge: a stale value rather than a gap).                                *)
ReadingsSurvive ==
  [][\A t \in Targets : HasReadings(t) /\ snap'[t] # "absent" =>
                          snap'[t] \in {"stale", "fresh"}]_vars

(* What the scheduler is told and what a scrape shows agree: after a        *)
(* refresh reported as successful, a fleet that is not empty has a target   *)
(* that is up.                                                              *)
SuccessShowsSomeone ==
  phase = "idle" /\ verdict = "ok" =>
    \/ \A t \in Targets : Shows(t, "absent")
    \/ \E t \in Targets : Shows(t, "fresh")

(* Every refresh comes to an end: the dispatcher and the workers never wait *)
(* for each other for ever.                                                 *)
RefreshEnds == phase # "idle" ~> phase = "idle"

(* How far the cursor moved in the step that reports. *)
Moved == (cursor' - cursor) % Len(refs)

(* "Such a droplet was never measured, so the rotation must not move past   *)
(* it" (starved): with one worker the next refresh resumes exactly at the   *)
(* first target that was starved.                                           *)
ResumesAtFirstStarved ==
  [][setting.concurrency = 1 /\ ~setting.requestTimeouts /\ With({"starved"}) # {}
     /\ phase = "report" /\ phase' = "idle" =>
       /\ results[Moved + 1] = "starved"
       /\ \A i \in 1..Moved : results[i] # "starved"]_vars

(* "Only a refresh that got through the whole list is a success" (report).  *)
SuccessIsWhole ==
  [][phase = "report" /\ verdict' = "ok" => With({"starved"}) = {}]_vars

(* Without request timeouts the one way past that rule is the limiter       *)
(* having refused requests ahead of a deadline that has not come.           *)
WholeUnlessRefused ==
  [][~setting.requestTimeouts /\ phase = "report" /\ verdict' = "ok" /\ With({"starved"}) # {}
       => time = "tight"]_vars

(* With one worker, and with time for at least one target in every refresh, *)
(* no target is starved for ever once the listing stands still, wherever    *)
(* the cursor of other listings was left: each one is reached again and     *)
(* again (rotate, advance).                                                 *)
OneWorker == {s \in Settings : s.concurrency = 1 /\ s.minReached > 0}

ListedAs(l) == phase = "idle" \/ \E n \in DOMAIN l : refs = SubSeq(l, n, Len(l)) \o SubSeq(l, 1, n - 1)

EveryoneGetsATurn ==
  setting \in OneWorker => \A l \in UNION {s.listings : s \in OneWorker} : <>[]ListedAs(l) =>
    \A i \in DOMAIN l : []<>(\E k \in With({"ok", "failed"}) : refs[k] = l[i])
=============================================================================
