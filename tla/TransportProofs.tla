-------------------------- MODULE TransportProofs --------------------------
(***************************************************************************)
(* Transport.tla for every finite set of requests, every rate, any number  *)
(* of attempts and all deadlines.  The inductive invariant Inv is about    *)
(* what the limiter has promised: the slots it has handed out and not yet  *)
(* seen used, counted together with the attempts already sent, never add   *)
(* up to more than the rate allows - at the next free slot (OnSchedule)    *)
(* and at every moment still to come (NeverAhead).                         *)
(***************************************************************************)
EXTENDS Transport, FiniteSetTheorems, TLAPS

(* A doubling is a number: it counts the subsets of a set. *)
LEMMA PowerOfTwo ==
  ASSUME NEW n \in Nat
  PROVE  2^n \in Nat
<1>1. IsFiniteSet(1..n) /\ Cardinality(1..n) = n
  BY FS_Interval
<1>2. IsFiniteSet(SUBSET (1..n)) /\ Cardinality(SUBSET (1..n)) = 2^n
  BY <1>1, FS_SUBSET
<1>3. QED
  BY <1>2, FS_CardinalityType

(* The wait before a retry is a span of time, and no fallback is longer     *)
(* than maxBackoff.                                                         *)
LEMMA DelayIsSpan ==
  ASSUME TypeOK, NEW r \in Requests
  PROVE  Delay(r) \in Nat /\ (answer[r] # "asked" => Delay(r) <= BackoffCap)
<1>1. attempt[r] - 1 \in Nat
  BY TransportAssumption DEF TypeOK
<1>2. 2^(attempt[r] - 1) \in Nat
  BY <1>1, PowerOfTwo
<1> DEFINE doubled == 2^(attempt[r] - 1)
<1>3. Backoff(attempt[r]) = Sooner(BackoffBase * doubled, BackoffCap)
  BY DEF Backoff
<1>4. BackoffBase * doubled \in Nat
  <2> HIDE DEF doubled
  <2> QED BY <1>2, TransportAssumption DEF doubled
<1>5. Backoff(attempt[r]) \in Nat /\ Backoff(attempt[r]) <= BackoffCap
  <2> HIDE DEF doubled
  <2> QED BY <1>3, <1>4, TransportAssumption DEF Sooner
<1>6. QED
  BY <1>5 DEF Delay, TypeOK

(* A request that waits to retry has an attempt left, without which TypeOK  *)
(* is not inductive.                                                        *)
AttemptLeft == \A r \in Requests : pc[r] = "sleep" => attempt[r] < MaxAttempts

LEMMA AttemptLeftStep ==
  ASSUME TypeOK, AttemptLeft, [Next]_vars
  PROVE  AttemptLeft'
<1> USE DEF TypeOK, AttemptLeft, Answered, Goto
<1>1. CASE AdvanceClock \/ Cancel \/ UNCHANGED vars
  BY <1>1 DEF AdvanceClock, Cancel, vars, requestVars
<1>2. ASSUME NEW r \in Requests, NEW d \in Timeouts, Issue(r, d)
      PROVE  AttemptLeft'
  BY <1>2 DEF Issue
<1>3. ASSUME NEW r \in Requests, Step(r)
      PROVE  AttemptLeft'
  <2>1. CASE ContextDoneFirst(r) \/ Refuse(r) \/ Reserve(r) \/ AbandonSlot(r) \/ Send(r)
    BY <2>1 DEF ContextDoneFirst, Refuse, Reserve, AbandonSlot, Send
  <2>2. ASSUME NEW status \in Statuses, NEW w \in Nat, Respond(r, status, w)
        PROVE  AttemptLeft'
    BY <2>2 DEF Respond
  <2>3. CASE NoResponse(r) \/ Return(r) \/ WakeUp(r) \/ SleepCut(r)
    BY <2>3 DEF NoResponse, Return, WakeUp, SleepCut
  <2>4. CASE Retry(r)
    BY <2>4 DEF Retry, TriesAgain
  <2>5. QED
    BY <1>3, <2>1, <2>2, <2>3, <2>4, TransportAssumption DEF Step, Statuses
<1>4. QED
  BY <1>1, <1>2, <1>3 DEF Next

(* The types are right in every reachable state; in particular no request   *)
(* ever makes more than MaxAttempts attempts (TriesAgain).                  *)
THEOREM TypeCorrect == Spec => [](TypeOK /\ AttemptLeft)
<1>1. Init => TypeOK /\ AttemptLeft
  <2> SUFFICES ASSUME Init PROVE TypeOK /\ AttemptLeft
    OBVIOUS
  <2>1. 1 \in 1..MaxAttempts
    BY TransportAssumption
  <2>2. TypeOK
    BY <2>1 DEF Init, TypeOK, Places, Answers
  <2>3. AttemptLeft
    BY DEF Init, AttemptLeft
  <2>4. QED
    BY <2>2, <2>3
<1>2. TypeOK /\ AttemptLeft /\ [Next]_vars => TypeOK' /\ AttemptLeft'
  <2> SUFFICES ASSUME TypeOK, AttemptLeft, [Next]_vars PROVE TypeOK'
    BY AttemptLeftStep
  <2> USE TransportAssumption DEF TypeOK, Places, Answers, Statuses, Answered, Goto
  <2>1. CASE AdvanceClock
    BY <2>1 DEF AdvanceClock, requestVars
  <2>2. CASE Cancel
    BY <2>2 DEF Cancel, requestVars
  <2>3. ASSUME NEW r \in Requests, NEW d \in Timeouts, Issue(r, d)
        PROVE  TypeOK'
    <3>1. now + d \in Nat
      OBVIOUS
    <3>2. QED
      BY <2>3, <3>1 DEF Issue
  <2>4. ASSUME NEW r \in Requests, ContextDoneFirst(r) \/ Refuse(r)
        PROVE  TypeOK'
    BY <2>4 DEF ContextDoneFirst, Refuse
  <2>5. ASSUME NEW r \in Requests, Reserve(r)
        PROVE  TypeOK'
    <3>1. NextSlot \in Nat /\ NextSlot + Period \in Nat
      BY DEF NextSlot, Later
    <3>2. QED
      BY <2>5, <3>1 DEF Reserve
  <2>6. ASSUME NEW r \in Requests, AbandonSlot(r)
        PROVE  TypeOK'
    <3>1. slot' \in Nat
      BY <2>6 DEF AbandonSlot
    <3>2. QED
      BY <2>6, <3>1 DEF AbandonSlot
  <2>7. ASSUME NEW r \in Requests, Send(r)
        PROVE  TypeOK'
    BY <2>7 DEF Send
  <2>8. ASSUME NEW r \in Requests, NEW status \in Statuses, NEW w \in Nat, Respond(r, status, w)
        PROVE  TypeOK'
    BY <2>8 DEF Respond
  <2>9. ASSUME NEW r \in Requests, NoResponse(r)
        PROVE  TypeOK'
    BY <2>9 DEF NoResponse
  <2>10. ASSUME NEW r \in Requests, Return(r)
         PROVE  TypeOK'
    BY <2>10 DEF Return
  <2>11. ASSUME NEW r \in Requests, Retry(r)
         PROVE  TypeOK'
    <3>1. now + Delay(r) \in Nat
      BY DelayIsSpan
    <3>2. QED
      BY <2>11, <3>1 DEF Retry
  <2>12. ASSUME NEW r \in Requests, WakeUp(r)
         PROVE  TypeOK'
    <3>1. attempt[r] + 1 \in 1..MaxAttempts
      BY <2>12 DEF WakeUp, AttemptLeft
    <3>2. QED
      BY <2>12, <3>1 DEF WakeUp
  <2>13. ASSUME NEW r \in Requests, SleepCut(r)
         PROVE  TypeOK'
    BY <2>13 DEF SleepCut
  <2>14. CASE UNCHANGED vars
    BY <2>14 DEF vars, requestVars
  <2>15. QED
    BY <2>1, <2>2, <2>3, <2>4, <2>5, <2>6, <2>7, <2>8, <2>9, <2>10, <2>11, <2>12, <2>13, <2>14
       DEF Next, Step
<1>3. QED
  BY <1>1, <1>2, PTL DEF Spec

-----------------------------------------------------------------------------
(* The requests at a place. *)
At(place) == {r \in Requests : pc[r] = place}

(* They can be counted. *)
LEMMA Countable ==
  ASSUME NEW S \in SUBSET Requests
  PROVE  IsFiniteSet(S) /\ Cardinality(S) \in Nat
BY TransportAssumption, FS_Subset, FS_CardinalityType

(* A request that moves is counted where it arrives and no longer where it  *)
(* was, and nowhere else is anything changed.                               *)
LEMMA Census ==
  ASSUME TypeOK, NEW r \in Requests, NEW to \in Places \ {pc[r]}, Goto(r, to), NEW place
  PROVE  /\ place # to /\ place # pc[r] => At(place)' = At(place)
         /\ place = to => Cardinality(At(place)') = Cardinality(At(place)) + 1
         /\ place = pc[r] => Cardinality(At(place)') = Cardinality(At(place)) - 1
<1>1. IsFiniteSet(At(place)) /\ Cardinality(At(place)) \in Nat
  BY Countable DEF At
<1>2. ASSUME place # to, place # pc[r] PROVE At(place)' = At(place)
  BY <1>2 DEF At, Goto, TypeOK
<1>3. ASSUME place = to PROVE Cardinality(At(place)') = Cardinality(At(place)) + 1
  <2>1. r \notin At(place) /\ At(place)' = At(place) \cup {r}
    BY <1>3 DEF At, Goto, TypeOK
  <2>2. QED
    BY <1>1, <2>1, FS_AddElement
<1>4. ASSUME place = pc[r] PROVE Cardinality(At(place)') = Cardinality(At(place)) - 1
  <2>1. r \in At(place) /\ At(place)' = At(place) \ {r}
    BY <1>4 DEF At, Goto, TypeOK
  <2>2. QED
    BY <1>1, <2>1, FS_RemoveElement
<1>5. QED
  BY <1>2, <1>3, <1>4

(* A step of a request that neither takes, gives back nor uses a slot       *)
(* leaves the limiter and everything that waits on it alone.                *)
Unpaced(r) ==
  \/ ContextDoneFirst(r) \/ Refuse(r) \/ NoResponse(r)
  \/ \E status \in Statuses, w \in Nat : Respond(r, status, w)
  \/ Return(r) \/ Retry(r) \/ WakeUp(r) \/ SleepCut(r)

LEMMA StepKinds ==
  ASSUME NEW r \in Requests, Step(r)
  PROVE  Reserve(r) \/ AbandonSlot(r) \/ Send(r) \/ Unpaced(r)
<1>1. CASE \E w \in Asks : Respond(r, "asked", w)
  BY <1>1, TransportAssumption DEF Unpaced, Statuses
<1>2. CASE \E status \in Statuses \ {"asked"} : Respond(r, status, 0)
  BY <1>2 DEF Unpaced
<1>3. QED
  BY <1>1, <1>2 DEF Step, Unpaced

-----------------------------------------------------------------------------
(* No response body is left open, and every attempt sent is counted.        *)
LEMMA BodiesStep ==
  ASSUME TypeOK, NoBodyLeaks, [Next]_vars
  PROVE  NoBodyLeaks'
<1> USE DEF TypeOK, NoBodyLeaks, Answered, Goto
<1>1. CASE AdvanceClock \/ Cancel \/ UNCHANGED vars
  BY <1>1 DEF AdvanceClock, Cancel, vars, requestVars
<1>2. ASSUME NEW r \in Requests, NEW d \in Timeouts, Issue(r, d)
      PROVE  NoBodyLeaks'
  BY <1>2 DEF Issue
<1>3. ASSUME NEW r \in Requests, Step(r)
      PROVE  NoBodyLeaks'
  <2>1. CASE Reserve(r) \/ AbandonSlot(r) \/ Send(r)
    BY <2>1 DEF Reserve, AbandonSlot, Send
  <2>2. CASE Unpaced(r)
    <3>1. ASSUME NEW status \in Statuses, NEW w \in Nat, Respond(r, status, w)
          PROVE  NoBodyLeaks'
      BY <3>1 DEF Respond
    <3>2. CASE ContextDoneFirst(r) \/ Refuse(r) \/ NoResponse(r)
      BY <3>2 DEF ContextDoneFirst, Refuse, NoResponse
    <3>3. CASE Return(r) \/ Retry(r) \/ WakeUp(r) \/ SleepCut(r)
      BY <3>3 DEF Return, Retry, WakeUp, SleepCut
    <3>4. QED
      BY <2>2, <3>1, <3>2, <3>3 DEF Unpaced
  <2>3. QED
    BY <1>3, <2>1, <2>2, StepKinds
<1>4. QED
  BY <1>1, <1>2, <1>3 DEF Next

LEMMA CountStep ==
  ASSUME TypeOK, CountsWhatWasSent, [Next]_vars
  PROVE  CountsWhatWasSent'
<1> DEFINE flying == Cardinality(At("sent"))
<1>1. CountsWhatWasSent <=> counted + flying = sent
  BY DEF CountsWhatWasSent, At
<1>2. CountsWhatWasSent' <=> counted' + flying' = sent'
  BY DEF CountsWhatWasSent, At
<1>3. flying \in Nat /\ counted \in Nat /\ sent \in Nat
  BY Countable DEF At, TypeOK
<1>4. CASE UNCHANGED <<pc, sent, counted>>
  BY <1>1, <1>2, <1>4 DEF At
<1>5. ASSUME NEW r \in Requests, NEW to \in Places \ {pc[r], "sent"}, pc[r] # "sent",
             Goto(r, to), UNCHANGED <<sent, counted>>
      PROVE  CountsWhatWasSent'
  <2>1. flying' = flying
    BY <1>5, Census
  <2>2. QED
    BY <1>1, <1>2, <1>5, <2>1
<1>6. ASSUME NEW r \in Requests, Send(r)
      PROVE  CountsWhatWasSent'
  <2>1. flying' = flying + 1
    BY <1>6, Census DEF Send, Places
  <2>2. sent' = sent + 1 /\ counted' = counted
    BY <1>6 DEF Send
  <2>3. QED
    BY <1>1, <1>2, <1>3, <2>1, <2>2
<1>7. ASSUME NEW r \in Requests, pc[r] = "sent", Goto(r, "judge"), counted' = counted + 1, sent' = sent
      PROVE  CountsWhatWasSent'
  <2>1. flying' = flying - 1
    BY <1>7, Census DEF Places
  <2>2. QED
    BY <1>1, <1>2, <1>3, <1>7, <2>1
<1>8. ASSUME NEW r \in Requests, Step(r)
      PROVE  CountsWhatWasSent'
  <2>1. CASE Reserve(r) \/ AbandonSlot(r)
    BY <1>5, <2>1 DEF Reserve, AbandonSlot, Answered, Places
  <2>2. CASE Unpaced(r)
    <3>1. CASE NoResponse(r) \/ \E status \in Statuses, w \in Nat : Respond(r, status, w)
      BY <1>7, <3>1 DEF NoResponse, Respond, Answered
    <3>2. CASE ContextDoneFirst(r) \/ Refuse(r) \/ Return(r) \/ Retry(r) \/ WakeUp(r) \/ SleepCut(r)
      BY <1>5, <3>2
         DEF ContextDoneFirst, Refuse, Return, Retry, WakeUp, SleepCut, Answered, Places
    <3>3. QED
      BY <2>2, <3>1, <3>2 DEF Unpaced
  <2>3. QED
    BY <1>6, <1>8, <2>1, <2>2, StepKinds
<1>9. ASSUME NEW r \in Requests, NEW d \in Timeouts, Issue(r, d)
      PROVE  CountsWhatWasSent'
  BY <1>5, <1>9 DEF Issue, Places
<1>10. CASE AdvanceClock \/ Cancel \/ UNCHANGED vars
  BY <1>4, <1>10 DEF AdvanceClock, Cancel, vars, requestVars
<1>11. QED
  BY <1>8, <1>9, <1>10 DEF Next

-----------------------------------------------------------------------------
(* Those that hold a slot which comes up by time t. *)
Due(t) == {r \in At("wait") : until[r] <= t}

(* What is sent and what is promised fits before the next free slot. *)
OnSchedule == (sent + Cardinality(At("wait"))) * Period <= slot

(* ... and, of the promises, what comes up by t fits the rate at t, whatever *)
(* order they are used in and however late.                                  *)
NeverAhead ==
  \A t \in Nat : t >= now => (sent + Cardinality(Due(t))) * Period <= t + Period

Pacing == OnSchedule /\ NeverAhead

(* A number of attempts takes that many periods. *)
LEMMA Periods ==
  ASSUME NEW m \in Nat, NEW n \in Nat
  PROVE  /\ m * Period \in Nat
         /\ (m + 1) * Period = m * Period + Period
         /\ m <= n => m * Period <= n * Period
<1>1. Period \in Nat
  BY TransportAssumption
<1>2. QED
  BY <1>1, SMT

(* The promises that come up by a time are some of all there are. *)
LEMMA DueIsPart ==
  ASSUME NEW t
  PROVE  /\ IsFiniteSet(Due(t)) /\ Cardinality(Due(t)) \in Nat
         /\ Cardinality(At("wait")) \in Nat
         /\ Cardinality(Due(t)) <= Cardinality(At("wait"))
<1>1. IsFiniteSet(At("wait")) /\ Cardinality(At("wait")) \in Nat
  BY Countable DEF At
<1>2. Due(t) \subseteq At("wait")
  BY DEF Due
<1>3. QED
  BY <1>1, <1>2, FS_Subset, FS_CardinalityType

(* A slot that is taken comes after every moment the rate is used up for.   *)
LEMMA ReserveStep ==
  ASSUME TypeOK, Pacing, NEW r \in Requests, Reserve(r)
  PROVE  Pacing'
<1> DEFINE held == Cardinality(At("wait"))
<1>1. held' = held + 1 /\ held \in Nat
  BY Census, DueIsPart DEF Reserve, Places
<1>2. sent \in Nat /\ slot \in Nat /\ now \in Nat /\ Period \in Nat
  BY TransportAssumption DEF TypeOK
<1>3. (sent + held) * Period <= slot
  BY DEF Pacing, OnSchedule
<1>4. /\ NextSlot \in Nat /\ slot <= NextSlot
      /\ slot' = NextSlot + Period /\ sent' = sent /\ now' = now
      /\ until' = [until EXCEPT ![r] = NextSlot]
  BY <1>2 DEF Reserve, NextSlot, Later
<1>5. (sent + held + 1) * Period = (sent + held) * Period + Period
  BY <1>1, <1>2, Periods
<1>6. (sent + held) * Period \in Nat
  BY <1>1, <1>2, Periods
<1>7. (sent' + held') * Period <= slot'
  <2>1. sent' + held' = sent + held + 1
    BY <1>1, <1>2, <1>4
  <2> HIDE DEF held
  <2> QED BY <1>2, <1>3, <1>4, <1>5, <1>6, <2>1
<1>8. ASSUME NEW t \in Nat, t >= now'
      PROVE  (sent' + Cardinality(Due(t)')) * Period <= t + Period
  <2>1. CASE t < NextSlot
    <3>1. r \notin Due(t) /\ r \notin Due(t)'
      BY <1>4, <2>1 DEF Due, At, Reserve, TypeOK
    <3>2. Due(t)' = Due(t)
      BY <3>1 DEF Due, At, Reserve, Goto, TypeOK
    <3>3. QED
      BY <1>4, <1>8, <3>2 DEF Pacing, NeverAhead
  <2>2. CASE t >= NextSlot
    <3> DEFINE due == Cardinality(Due(t)')
    <3>1. due \in Nat /\ due <= held'
      <4>1. IsFiniteSet(At("wait")') /\ Due(t)' \subseteq At("wait")'
        BY Countable DEF Due, At
      <4>2. QED
        BY <4>1, FS_Subset, FS_CardinalityType
    <3>2. (sent + due) * Period <= (sent + held + 1) * Period
      <4> HIDE DEF due, held
      <4> QED BY <1>1, <1>2, <3>1, Periods
    <3>3. QED
      <4> HIDE DEF due, held
      <4> QED BY <1>2, <1>3, <1>4, <1>5, <1>6, <2>2, <3>1, <3>2 DEF due
  <2>3. QED
    BY <1>4, <1>8, <2>1, <2>2
<1>9. QED
  BY <1>7, <1>8 DEF Pacing, OnSchedule, NeverAhead

(* A slot given back is one fewer promised. *)
LEMMA AbandonStep ==
  ASSUME TypeOK, Pacing, NEW r \in Requests, AbandonSlot(r)
  PROVE  Pacing'
<1> DEFINE held == Cardinality(At("wait"))
<1>1. held' = held - 1 /\ held \in Nat /\ held' \in Nat
  <2>1. held' = held - 1
    BY Census DEF AbandonSlot, Answered, Places
  <2>2. held' \in Nat
    BY Countable DEF At
  <2>3. QED
    BY <2>1, <2>2, DueIsPart
<1>2. sent \in Nat /\ slot \in Nat /\ until[r] \in Nat /\ Period \in Nat
  BY TransportAssumption DEF TypeOK
<1>3. (sent + held) * Period <= slot
  BY DEF Pacing, OnSchedule
<1>4. /\ slot' = (IF slot = until[r] + Period THEN until[r] ELSE slot)
      /\ sent' = sent /\ now' = now
  BY DEF AbandonSlot
<1>5. (sent + held) * Period = (sent + held') * Period + Period
  <2>1. sent + held = (sent + held') + 1
    BY <1>1, <1>2
  <2> HIDE DEF held
  <2> QED BY <1>1, <1>2, <2>1, Periods
<1>6. (sent' + held') * Period <= slot'
  <2>1. (sent + held') * Period \in Nat
    BY <1>1, <1>2, Periods
  <2> HIDE DEF held
  <2> QED BY <1>2, <1>3, <1>4, <1>5, <2>1
<1>7. ASSUME NEW t \in Nat, t >= now'
      PROVE  (sent' + Cardinality(Due(t)')) * Period <= t + Period
  <2> DEFINE due == Cardinality(Due(t))
             left == Cardinality(Due(t)')
  <2>1. Due(t)' \subseteq Due(t)
    BY DEF AbandonSlot, Due, At, Answered, Goto, TypeOK
  <2>2. due \in Nat /\ left \in Nat /\ left <= due
    BY <2>1, DueIsPart, FS_Subset, FS_CardinalityType
  <2>3. (sent + left) * Period <= (sent + due) * Period
    <3> HIDE DEF due, left
    <3> QED BY <1>2, <2>2, Periods
  <2>4. (sent + due) * Period <= t + Period
    BY <1>4, <1>7 DEF Pacing, NeverAhead
  <2>5. (sent + left) * Period \in Nat /\ (sent + due) * Period \in Nat
    BY <1>2, <2>2, Periods
  <2>6. QED
    <3> HIDE DEF due, left
    <3> QED BY <1>2, <1>4, <2>3, <2>4, <2>5 DEF left
<1>8. QED
  BY <1>6, <1>7 DEF Pacing, OnSchedule, NeverAhead

(* A promise that is used was due: it only changes its column. *)
LEMMA SendStep ==
  ASSUME TypeOK, Pacing, NEW r \in Requests, Send(r)
  PROVE  Pacing'
<1>1. sent \in Nat /\ sent' = sent + 1 /\ slot' = slot /\ now' = now
  BY DEF Send, TypeOK
<1>2. Cardinality(At("wait")') = Cardinality(At("wait")) - 1 /\ Cardinality(At("wait")) \in Nat
  BY Census, DueIsPart DEF Send, Places
<1>3. OnSchedule'
  <2>1. sent' + Cardinality(At("wait")') = sent + Cardinality(At("wait"))
    BY <1>1, <1>2
  <2>2. QED
    BY <1>1, <2>1 DEF Pacing, OnSchedule
<1>4. ASSUME NEW t \in Nat, t >= now'
      PROVE  (sent' + Cardinality(Due(t)')) * Period <= t + Period
  <2>1. r \in Due(t) /\ Due(t)' = Due(t) \ {r}
    BY <1>1, <1>4 DEF Send, Due, At, Goto, TypeOK
  <2>2. Cardinality(Due(t)') = Cardinality(Due(t)) - 1 /\ Cardinality(Due(t)) \in Nat
    BY <2>1, DueIsPart, FS_RemoveElement
  <2>3. sent' + Cardinality(Due(t)') = sent + Cardinality(Due(t))
    BY <1>1, <2>2
  <2>4. QED
    BY <1>1, <1>4, <2>3 DEF Pacing, NeverAhead
<1>5. QED
  BY <1>3, <1>4 DEF Pacing, NeverAhead

LEMMA PacingStep ==
  ASSUME TypeOK, Pacing, [Next]_vars
  PROVE  Pacing'
<1>1. CASE AdvanceClock
  <2>1. UNCHANGED <<sent, slot, pc, until>> /\ now' >= now /\ now \in Nat
    BY <1>1 DEF AdvanceClock, requestVars, TypeOK
  <2>2. At("wait")' = At("wait") /\ \A t \in Nat : Due(t)' = Due(t)
    BY <2>1 DEF At, Due
  <2>3. ASSUME NEW t \in Nat, t >= now'
        PROVE  t >= now
    BY <2>1, <2>3, <1>1 DEF AdvanceClock
  <2>4. QED
    BY <2>1, <2>2, <2>3 DEF Pacing, OnSchedule, NeverAhead
<1>2. ASSUME UNCHANGED <<now, sent, slot>>, At("wait")' = At("wait"),
             \A q \in At("wait") : until'[q] = until[q]
      PROVE  Pacing'
  <2>1. \A t \in Nat : Due(t)' = Due(t)
    BY <1>2 DEF Due
  <2>2. QED
    BY <1>2, <2>1 DEF Pacing, OnSchedule, NeverAhead
<1>3. CASE Cancel \/ UNCHANGED vars
  BY <1>2, <1>3 DEF Cancel, vars, requestVars, At
<1>4. ASSUME NEW r \in Requests, NEW d \in Timeouts, Issue(r, d)
      PROVE  Pacing'
  BY <1>2, <1>4 DEF Issue, Goto, At, TypeOK
<1>5. ASSUME NEW r \in Requests, Unpaced(r)
      PROVE  Pacing'
  <2>1. CASE ContextDoneFirst(r) \/ Refuse(r) \/ NoResponse(r)
    BY <1>2, <2>1 DEF ContextDoneFirst, Refuse, NoResponse, Answered, Goto, At, TypeOK
  <2>2. CASE \E status \in Statuses, w \in Nat : Respond(r, status, w)
    BY <1>2, <2>2 DEF Respond, Answered, Goto, At, TypeOK
  <2>3. CASE Return(r) \/ Retry(r)
    BY <1>2, <2>3 DEF Return, Retry, Goto, At, TypeOK
  <2>4. CASE WakeUp(r) \/ SleepCut(r)
    BY <1>2, <2>4 DEF WakeUp, SleepCut, Goto, At, TypeOK
  <2>5. QED
    BY <1>5, <2>1, <2>2, <2>3, <2>4 DEF Unpaced
<1>6. QED
  BY <1>1, <1>3, <1>4, <1>5, StepKinds, ReserveStep, AbandonStep, SendStep DEF Next

-----------------------------------------------------------------------------
(* A slot is only taken before the deadline, so that one given back before  *)
(* its time is a shutdown's.                                                *)
SlotsFit == \A r \in Requests : pc[r] = "wait" => until[r] <= deadline[r]

(* A request that was refused is on its way back to its caller. *)
RefusedReturns == \A r \in Requests : answer[r] = "refused" => pc[r] \in {"judge", "done"}

Waits == SlotsFit /\ RefusedReturns /\ WaitsFit

LEMMA WaitsStep ==
  ASSUME TypeOK, Waits, [Next]_vars
  PROVE  Waits'
<1> USE TransportAssumption
        DEF TypeOK, Waits, SlotsFit, RefusedReturns, WaitsFit, RefusalLasts, SleepsFit,
            Answered, Goto
<1>1. CASE AdvanceClock \/ Cancel \/ UNCHANGED vars
  BY <1>1 DEF AdvanceClock, Cancel, vars, requestVars
<1>2. ASSUME NEW r \in Requests, NEW d \in Timeouts, Issue(r, d)
      PROVE  Waits'
  BY <1>2 DEF Issue
<1>3. ASSUME NEW r \in Requests, ContextDoneFirst(r)
      PROVE  Waits'
  BY <1>3 DEF ContextDoneFirst
<1>4. ASSUME NEW r \in Requests, Refuse(r)
      PROVE  Waits'
  BY <1>4 DEF Refuse, NextSlot, Later, ContextDone
<1>5. ASSUME NEW r \in Requests, Reserve(r)
      PROVE  Waits'
  <2>1. slot' \in Nat /\ slot' >= slot
    BY <1>5 DEF Reserve, NextSlot, Later
  <2>2. QED
    BY <1>5, <2>1 DEF Reserve, NextSlot, Later
<1>6. ASSUME NEW r \in Requests, AbandonSlot(r)
      PROVE  Waits'
  <2>1. cancelled
    BY <1>6 DEF AbandonSlot, ContextDone
  <2>2. QED
    BY <1>6, <2>1 DEF AbandonSlot
<1>7. ASSUME NEW r \in Requests, Send(r)
      PROVE  Waits'
  BY <1>7 DEF Send
<1>8. ASSUME NEW r \in Requests, NoResponse(r)
      PROVE  Waits'
  BY <1>8 DEF NoResponse
<1>9. ASSUME NEW r \in Requests, NEW status \in Statuses, NEW w \in Nat, Respond(r, status, w)
      PROVE  Waits'
  BY <1>9 DEF Respond, Statuses
<1>10. ASSUME NEW r \in Requests, Retry(r)
       PROVE  Waits'
  <2>1. now + Delay(r) \in Nat /\ now + Delay(r) < deadline[r]
    BY <1>10, DelayIsSpan DEF Retry, TriesAgain, Fits
  <2>2. answer[r] # "refused"
    BY <1>10 DEF Retry, TriesAgain, WorthRetrying
  <2>3. QED
    BY <1>10, <2>1, <2>2 DEF Retry
<1>11. ASSUME NEW r \in Requests, Return(r) \/ WakeUp(r) \/ SleepCut(r)
       PROVE  Waits'
  BY <1>11 DEF Return, WakeUp, SleepCut
<1>12. QED
  BY <1>1, <1>2, <1>3, <1>4, <1>5, <1>6, <1>7, <1>8, <1>9, <1>10, <1>11, StepKinds
     DEF Next, Unpaced

-----------------------------------------------------------------------------
(* The inductive invariant. *)
Inv == TypeOK /\ AttemptLeft /\ AttemptsAccountedFor /\ Pacing /\ Waits

THEOREM Invariance == Spec => []Inv
<1>1. Init => AttemptsAccountedFor /\ Pacing /\ Waits
  <2> SUFFICES ASSUME Init PROVE AttemptsAccountedFor /\ Pacing /\ Waits
    OBVIOUS
  <2>1. At("sent") = {} /\ At("wait") = {} /\ \A t : Due(t) = {}
    BY DEF Init, At, Due
  <2>2. AttemptsAccountedFor
    BY <2>1, FS_EmptySet DEF Init, AttemptsAccountedFor, NoBodyLeaks, CountsWhatWasSent, At
  <2>3. Pacing
    BY <2>1, FS_EmptySet, TransportAssumption DEF Init, Pacing, OnSchedule, NeverAhead
  <2>4. Waits
    BY DEF Init, Waits, SlotsFit, RefusedReturns, WaitsFit, RefusalLasts, SleepsFit
  <2>5. QED
    BY <2>2, <2>3, <2>4
<1>2. TypeOK /\ AttemptsAccountedFor /\ Pacing /\ Waits /\ [Next]_vars
        => AttemptsAccountedFor' /\ Pacing' /\ Waits'
  BY BodiesStep, CountStep, PacingStep, WaitsStep DEF AttemptsAccountedFor
<1>3. QED
  BY <1>1, <1>2, TypeCorrect, PTL DEF Spec, Inv

(* After t time units at most 1 + t / Period attempts have been sent by all *)
(* collectors together, however many requests there are, whichever slots    *)
(* are given back and in whatever order the waiting goroutines are run      *)
(* (New: each attempt is paced).                                            *)
THEOREM RateIsKept == Spec => []Paced
<1>1. Inv => Paced
  <2> SUFFICES ASSUME Inv PROVE Paced
    OBVIOUS
  <2>1. now \in Nat /\ sent \in Nat /\ Period \in Nat
    BY TransportAssumption DEF Inv, TypeOK
  <2>2. (sent + Cardinality(Due(now))) * Period <= now + Period
    BY <2>1 DEF Inv, Pacing, NeverAhead
  <2>3. Cardinality(Due(now)) \in Nat
    BY DueIsPart
  <2>4. sent * Period <= (sent + Cardinality(Due(now))) * Period
    BY <2>1, <2>3, Periods
  <2>5. sent * Period \in Nat /\ (sent + Cardinality(Due(now))) * Period \in Nat
    BY <2>1, <2>3, Periods
  <2>6. QED
    BY <2>1, <2>2, <2>4, <2>5 DEF Paced
<1>2. QED
  BY <1>1, Invariance, PTL

(* Every attempt that reached the base transport is counted once, a refused *)
(* one never, and no response body outlives its attempt (attempt,           *)
(* RoundTrip).                                                              *)
THEOREM NothingIsLostTrackOf == Spec => []AttemptsAccountedFor
BY Invariance, PTL DEF Inv

(* A request is neither refused while it could still be sent, nor put to    *)
(* sleep into its deadline (limiterError, fits).                            *)
THEOREM GivingUpIsRight == Spec => []WaitsFit
BY Invariance, PTL DEF Inv, Waits
=============================================================================
