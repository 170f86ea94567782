----------------------------- MODULE MCMeasure -----------------------------
(***************************************************************************)
(* Measure.tla with two windows: one without a usable point, and one whose *)
(* newest usable point is neither the last nor the newest of all.  A       *)
(* metric that does not vary was sampled before either.                    *)
(***************************************************************************)
EXTENDS Measure

TwoWindows == { <<NaN(2)>>, <<Point(2), Point(1), NaN(3)>> }
=============================================================================
