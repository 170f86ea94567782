----------------------------- MODULE Readiness -----------------------------
(***************************************************************************)
(* What the exporter promises a rollout: the state a reader of /readyz and *)
(* /metrics can rely on, without any of the machinery that produces it.    *)
(*                                                                         *)
(* A collector first comes to hold a snapshot and only then counts as      *)
(* ready; neither is ever taken back while the process lives.  The probe   *)
(* may answer 200 only once every collector is ready, and that answer is   *)
(* never taken back either.  Scheduler.tla is shown to implement this.     *)
(***************************************************************************)
EXTENDS FiniteSets

CONSTANT Collectors

VARIABLES held,     \* collectors that hold a snapshot
          ready,    \* collectors that count as ready
          granted   \* whether /readyz has ever answered 200

vars == <<held, ready, granted>>

Init == /\ held = {}
        /\ ready = {}
        /\ granted = FALSE

Hold(c) == /\ held' = held \cup {c}
           /\ UNCHANGED <<ready, granted>>

BecomeReady(c) == /\ c \in held
                  /\ ready' = ready \cup {c}
                  /\ UNCHANGED <<held, granted>>

Grant == /\ ready = Collectors
         /\ granted' = TRUE
         /\ UNCHANGED <<held, ready>>

Next == \/ \E c \in Collectors : Hold(c) \/ BecomeReady(c)
        \/ Grant

Spec == Init /\ [][Next]_vars
=============================================================================
