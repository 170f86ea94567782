------------------------------ MODULE MCSpaces ------------------------------
(***************************************************************************)
(* An instance of Spaces for TLC.  The configuration names one bucket in   *)
(* two regions: two buckets, since a name is unique only within a region.  *)
(***************************************************************************)
EXTENDS Spaces

CONSTANTS n1, n2, ams, fra

NamedBuckets == {<<n1, ams>>, <<n1, fra>>, <<n2, fra>>}
=============================================================================
