------------------------------ MODULE MCFanOut ------------------------------
(***************************************************************************)
(* Instances of FanOut for TLC: three targets in the order the API lists   *)
(* them.                                                                   *)
(***************************************************************************)
EXTENDS FanOut

CONSTANTS a, b, c

(* Any of them can be created, deleted or filtered out between refreshes, and *)
(* the listing's order can change.                                           *)
ChangingFleet == { << >>, <<a>>, <<b>>, <<c>>, <<a, b>>, <<b, c>>, <<a, c>>, <<b, a>>,
                   <<a, b, c>>, <<c, a, b>> }
SmallFleet == { <<a, b, c>>, <<b, c>> }

(* Two workers over a changing fleet, with the rate limiter on and requests *)
(* that can time out on their own.                                          *)
Pool == [concurrency |-> 2, limiter |-> TRUE, requestTimeouts |-> TRUE,
         listings |-> ChangingFleet, minReached |-> 0]

(* One worker over a fleet whose first target comes and goes, until it stays *)
(* or not: the rotation at its strictest. A refresh is assumed to have time  *)
(* for at least one target.                                                  *)
Serial == [concurrency |-> 1, limiter |-> TRUE, requestTimeouts |-> FALSE,
           listings |-> SmallFleet, minReached |-> 1]

PoolAndSerial == {Pool, Serial}
SerialOnly == {Serial}

(* The specification the coverage property is checked under. *)
RelistedSpec == FairSpec /\ Relisted
=============================================================================
