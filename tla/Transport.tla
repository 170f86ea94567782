----------------------------- MODULE Transport -----------------------------
(***************************************************************************)
(* internal/doclient/client.go: the transport every API request of every   *)
(* collector goes through, with the one rate limiter they share, the       *)
(* attempt budget, the waits between attempts and the caller's deadline.   *)
(* Time is a discrete clock.  The limiter (golang.org/x/time/rate, burst   *)
(* 1) is the earliest time its next slot is free.                          *)
(*                                                                         *)
(* pc[r]: "idle" not issued; "attempt" about to ask the limiter; "wait"    *)
(* holding a slot until until[r]; "sent" in flight; "judge" an answer in   *)
(* hand; "sleep" waiting until until[r] to retry; "done" returned.         *)
(***************************************************************************)
EXTENDS Integers, FiniteSets

CONSTANTS
  Requests,
  Period,        \* the limiter's spacing, 1 / RateLimit
  MaxAttempts,   \* attempts per request, at least 1
  Timeouts,      \* how far off a request's deadline may be when it is issued
  Asks,          \* the waits a Retry-After may ask for
  BackoffBase, BackoffCap,  \* baseBackoff and maxBackoff
  MaxTime        \* bound: the clock stops here

ASSUME TransportAssumption ==
  /\ IsFiniteSet(Requests)
  /\ Period \in Nat \ {0} /\ MaxAttempts \in Nat \ {0} /\ MaxTime \in Nat
  /\ Timeouts \subseteq Nat \ {0} /\ Asks \subseteq Nat
  /\ BackoffBase \in Nat \ {0} /\ BackoffCap \in Nat \ {0}

VARIABLES
  now, cancelled,     \* the clock, and whether the exporter is shutting down
  slot,               \* the limiter: when its next slot is free
  pc, deadline, attempt, until, answer, ask,  \* per request
  body,               \* requests holding an open response body
  sent, counted       \* attempts handed to the base transport; requests_total

requestVars == <<pc, deadline, attempt, until, answer, ask>>
vars == <<now, cancelled, slot, requestVars, body, sent, counted>>

Places  == {"idle", "attempt", "wait", "sent", "judge", "sleep", "done"}
Statuses == {"final", "hourly", "asked", "server"}
Answers == Statuses \cup {"none", "network", "ctx", "refused"}

TypeOK ==
  /\ now \in Nat /\ slot \in Nat /\ sent \in Nat /\ counted \in Nat
  /\ cancelled \in BOOLEAN
  /\ pc \in [Requests -> Places]
  /\ deadline \in [Requests -> Nat] /\ until \in [Requests -> Nat] /\ ask \in [Requests -> Nat]
  /\ attempt \in [Requests -> 1..MaxAttempts]
  /\ answer \in [Requests -> Answers]
  /\ body \in SUBSET Requests

Init ==
  /\ now = 0 /\ slot = 0 /\ sent = 0 /\ counted = 0 /\ cancelled = FALSE
  /\ pc = [r \in Requests |-> "idle"]
  /\ deadline = [r \in Requests |-> 0] /\ until = [r \in Requests |-> 0]
  /\ ask = [r \in Requests |-> 0]
  /\ attempt = [r \in Requests |-> 1]
  /\ answer = [r \in Requests |-> "none"]
  /\ body = {}

Later(x, y) == IF x > y THEN x ELSE y
Sooner(x, y) == IF x < y THEN x ELSE y
ContextDone(r) == cancelled \/ now >= deadline[r]
Goto(r, place) == pc' = [pc EXCEPT ![r] = place]
Answered(r, a) == Goto(r, "judge") /\ answer' = [answer EXCEPT ![r] = a]

-----------------------------------------------------------------------------
AdvanceClock == /\ now < MaxTime
                /\ now' = now + 1
                /\ UNCHANGED <<cancelled, slot, requestVars, body, sent, counted>>

Cancel == /\ ~cancelled
          /\ cancelled' = TRUE
          /\ UNCHANGED <<now, slot, requestVars, body, sent, counted>>

(* A collector issues r.  Its deadline is the sooner of the collector's own *)
(* context and http.Client.Timeout.                                        *)
Issue(r, d) == /\ pc[r] = "idle"
               /\ now + d <= MaxTime
               /\ deadline' = [deadline EXCEPT ![r] = now + d]
               /\ Goto(r, "attempt")
               /\ UNCHANGED <<now, cancelled, slot, attempt, until, answer, ask, body, sent, counted>>

-----------------------------------------------------------------------------
(* attempt: limiter.Wait, which looks at the context first, refuses what    *)
(* would outlast the deadline, and otherwise takes the next slot.           *)

NextSlot == Later(now, slot)

ContextDoneFirst(r) ==
  /\ pc[r] = "attempt"
  /\ ContextDone(r)
  /\ Answered(r, "ctx")
  /\ UNCHANGED <<now, cancelled, slot, deadline, attempt, until, ask, body, sent, counted>>

(* Mutant: the limiter is asked for a slot now or never. *)
RefuseAnyWait(r) ==
  /\ pc[r] = "attempt"
  /\ ~ContextDone(r)
  /\ NextSlot > now
  /\ Answered(r, "refused")
  /\ UNCHANGED <<now, cancelled, slot, deadline, attempt, until, ask, body, sent, counted>>

(* Mutant: a refused request is counted all the same. *)
RefuseCounted(r) ==
  /\ pc[r] = "attempt"
  /\ ~ContextDone(r)
  /\ NextSlot > deadline[r]
  /\ Answered(r, "refused")
  /\ counted' = counted + 1
  /\ UNCHANGED <<now, cancelled, slot, deadline, attempt, until, ask, body, sent>>

(* limiterError: the refusal is named a deadline. *)
Refuse(r) ==
  /\ pc[r] = "attempt"
  /\ ~ContextDone(r)
  /\ NextSlot > deadline[r]
  /\ Answered(r, "refused")
  /\ UNCHANGED <<now, cancelled, slot, deadline, attempt, until, ask, body, sent, counted>>

(* Mutant: a retry is let through without a slot of its own. *)
ReserveFirstOnly(r) ==
  /\ pc[r] = "attempt"
  /\ ~ContextDone(r)
  /\ NextSlot <= deadline[r]
  /\ slot' = IF attempt[r] = 1 THEN NextSlot + Period ELSE slot
  /\ until' = [until EXCEPT ![r] = NextSlot]
  /\ Goto(r, "wait")
  /\ UNCHANGED <<now, cancelled, deadline, attempt, answer, ask, body, sent, counted>>

Reserve(r) ==
  /\ pc[r] = "attempt"
  /\ ~ContextDone(r)
  /\ NextSlot <= deadline[r]
  /\ slot' = NextSlot + Period
  /\ until' = [until EXCEPT ![r] = NextSlot]
  /\ Goto(r, "wait")
  /\ UNCHANGED <<now, cancelled, deadline, attempt, answer, ask, body, sent, counted>>

(* Reservation.Cancel gives the slot back only if no later one was taken. *)
AbandonSlot(r) ==
  /\ pc[r] = "wait"
  /\ ContextDone(r)
  /\ now < until[r]
  /\ slot' = IF slot = until[r] + Period THEN until[r] ELSE slot
  /\ until' = [until EXCEPT ![r] = 0]
  /\ Answered(r, "ctx")
  /\ UNCHANGED <<now, cancelled, deadline, attempt, ask, body, sent, counted>>

Send(r) ==
  /\ pc[r] = "wait"
  /\ now >= until[r]
  /\ sent' = sent + 1
  /\ until' = [until EXCEPT ![r] = 0]
  /\ Goto(r, "sent")
  /\ UNCHANGED <<now, cancelled, slot, deadline, attempt, answer, ask, body, counted>>

(* The API answers: "final" with a status not worth a retry, "hourly" with  *)
(* a 429, no Retry-After and the budget spent, "asked" with a retryable     *)
(* status and a Retry-After of w, "server" with one and no Retry-After.     *)
Respond(r, status, w) ==
  /\ pc[r] = "sent"
  /\ Answered(r, status)
  /\ ask' = [ask EXCEPT ![r] = w]
  /\ counted' = counted + 1
  /\ body' = body \cup {r}
  /\ UNCHANGED <<now, cancelled, slot, deadline, attempt, until, sent>>

(* No response: the connection failed, or the context ended it. *)
NoResponse(r) ==
  /\ pc[r] = "sent"
  /\ \/ Answered(r, "network")
     \/ ContextDone(r) /\ Answered(r, "ctx")
  /\ counted' = counted + 1
  /\ UNCHANGED <<now, cancelled, slot, deadline, attempt, until, ask, body, sent>>

-----------------------------------------------------------------------------
(* RoundTrip: whether to try again, and after how long. *)

(* fallbackBackoff *)
Backoff(n) == Sooner(BackoffBase * 2^(n - 1), BackoffCap)

(* nextWait, retryDelay *)
WorthRetrying(r) == answer[r] \in {"asked", "server", "network"}
Delay(r) == IF answer[r] = "asked" THEN ask[r] ELSE Backoff(attempt[r])

Fits(r) == now + Delay(r) < deadline[r]

(* Mutant: one attempt too many. *)
TriesOnceMore(r) == attempt[r] <= MaxAttempts /\ WorthRetrying(r) /\ Fits(r)

TriesAgain(r) == attempt[r] < MaxAttempts /\ WorthRetrying(r) /\ Fits(r)

(* A response is handed to the caller as it is, who reads and closes it. *)
Return(r) ==
  /\ pc[r] = "judge"
  /\ ~TriesAgain(r)
  /\ body' = body \ {r}
  /\ ask' = [ask EXCEPT ![r] = 0]
  /\ Goto(r, "done")
  /\ UNCHANGED <<now, cancelled, slot, deadline, attempt, until, answer, sent, counted>>

(* Mutant: the response is dropped without being drained. *)
RetryUndrained(r) ==
  /\ pc[r] = "judge"
  /\ TriesAgain(r)
  /\ until' = [until EXCEPT ![r] = now + Delay(r)]
  /\ ask' = [ask EXCEPT ![r] = 0]
  /\ Goto(r, "sleep")
  /\ UNCHANGED <<now, cancelled, slot, deadline, attempt, answer, body, sent, counted>>

(* drain, then sleep. *)
Retry(r) ==
  /\ pc[r] = "judge"
  /\ TriesAgain(r)
  /\ body' = body \ {r}
  /\ until' = [until EXCEPT ![r] = now + Delay(r)]
  /\ ask' = [ask EXCEPT ![r] = 0]
  /\ Goto(r, "sleep")
  /\ UNCHANGED <<now, cancelled, slot, deadline, attempt, answer, sent, counted>>

(* Mutant: a timer and a context done at once leave the sleeper waiting. *)
WakeUpInTime(r) ==
  /\ pc[r] = "sleep"
  /\ now >= until[r]
  /\ ~ContextDone(r)
  /\ attempt' = [attempt EXCEPT ![r] = @ + 1]
  /\ until' = [until EXCEPT ![r] = 0]
  /\ answer' = [answer EXCEPT ![r] = "none"]
  /\ Goto(r, "attempt")
  /\ UNCHANGED <<now, cancelled, slot, deadline, ask, body, sent, counted>>

WakeUp(r) ==
  /\ pc[r] = "sleep"
  /\ now >= until[r]
  /\ attempt' = [attempt EXCEPT ![r] = @ + 1]
  /\ until' = [until EXCEPT ![r] = 0]
  /\ answer' = [answer EXCEPT ![r] = "none"]
  /\ Goto(r, "attempt")
  /\ UNCHANGED <<now, cancelled, slot, deadline, ask, body, sent, counted>>

SleepCut(r) ==
  /\ pc[r] = "sleep"
  /\ now < until[r]
  /\ ContextDone(r)
  /\ answer' = [answer EXCEPT ![r] = "ctx"]
  /\ until' = [until EXCEPT ![r] = 0]
  /\ Goto(r, "done")
  /\ UNCHANGED <<now, cancelled, slot, deadline, attempt, ask, body, sent, counted>>

-----------------------------------------------------------------------------
Step(r) ==
  \/ ContextDoneFirst(r) \/ Refuse(r) \/ Reserve(r) \/ AbandonSlot(r) \/ Send(r)
  \/ \E status \in Statuses \ {"asked"} : Respond(r, status, 0)
  \/ \E w \in Asks : Respond(r, "asked", w)
  \/ NoResponse(r)
  \/ Return(r) \/ Retry(r) \/ WakeUp(r) \/ SleepCut(r)

Next == \/ AdvanceClock \/ Cancel
        \/ \E r \in Requests : Step(r) \/ \E d \in Timeouts : Issue(r, d)

Spec == Init /\ [][Next]_vars

(* Time passes, and a request in hand is driven on by its goroutine. *)
FairSpec == Spec /\ WF_vars(AdvanceClock) /\ \A r \in Requests : WF_vars(Step(r))

-----------------------------------------------------------------------------
(* The attempts of all collectors together, retries included, never run     *)
(* ahead of the configured rate: after t time units at most 1 + t / Period  *)
(* have been sent, however the goroutines interleave and whatever slots     *)
(* were given back (New: each attempt is paced).                            *)
Paced == sent * Period <= now + Period

(* An open response body is either read by the caller or drained before     *)
(* the wait: a request about to be sent again holds none of an earlier      *)
(* attempt, and no rejected response leaks its connection (RoundTrip).      *)
NoBodyLeaks == \A r \in body : pc[r] = "judge"

(* Every attempt that reached the base transport is counted once it is      *)
(* over, and nothing else is: a request the limiter turned away leaves no   *)
(* trace in requests_total (attempt).                                       *)
CountsWhatWasSent == counted + Cardinality({r \in Requests : pc[r] = "sent"}) = sent

(* No attempt is lost track of, whichever way it ends: it is counted once   *)
(* and its body is closed (attempt, RoundTrip).                             *)
AttemptsAccountedFor == NoBodyLeaks /\ CountsWhatWasSent

(* A refusal is true for as long as it matters: until its deadline passes   *)
(* or the exporter shuts down, the limiter has no slot before the deadline  *)
(* it was refused for, so asking again would be refused too (limiterError). *)
RefusalLasts ==
  \A r \in Requests : answer[r] = "refused" => slot > deadline[r] \/ now >= deadline[r] \/ cancelled

(* A request never sleeps into its deadline: whatever answer it had is      *)
(* handed back instead, so only shutdown can cut a sleep short (fits).      *)
SleepsFit == \A r \in Requests : pc[r] = "sleep" => until[r] < deadline[r]

(* Waiting is given up exactly when it is in vain: neither is a request     *)
(* refused that could have been sent, nor one put to sleep that could not   *)
(* (limiterError, fits).                                                    *)
WaitsFit == RefusalLasts /\ SleepsFit

(* Every request returns. *)
RoundTripEnds == \A r \in Requests : pc[r] = "attempt" ~> pc[r] = "done"
=============================================================================
