-------------------------- MODULE MCBarrierOwnership --------------------------
(***************************************************************************)
(* The instances of MCBarrier with the claimant of every action recorded.  *)
(***************************************************************************)
EXTENDS MCBarrier, ClaimOwnership
=============================================================================
