----------------------------- MODULE MCJoinOrder -----------------------------
(***************************************************************************)
(* The bounded analysis route for TLC: two chains of two nodes, of which   *)
(* two may be in flight and three can be paid for.                         *)
(***************************************************************************)
EXTENDS ParallelRegion

TwoChains == {<<{}, {}, {1}, {2}>>}
=============================================================================
