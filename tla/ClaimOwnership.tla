---------------------------- MODULE ClaimOwnership ----------------------------
(***************************************************************************)
(* RuntimeBarrier with a record of who claimed what.  The store keeps no   *)
(* owner of a claim, only that the action is executing and until when; the *)
(* history variable claimant adds it, and no step depends on it.           *)
(***************************************************************************)
EXTENDS RuntimeBarrier

VARIABLE
  claimant         \* Keys -> the call, if any, whose claim started the latest execution

ownedVars == <<vars, claimant>>

Running(k) == Exists(k) /\ actions[k].status = "executing"

OwnedInit ==
  /\ BarrierInit
  /\ claimant = [k \in Keys |-> {}]

(* The transition to EXECUTING in store.claim: the calling worker has the  *)
(* action and its lease, also when the answer is lost on the way.          *)
TakeClaim(c) ==
  claimant' = [k \in Keys |-> IF ~Running(k) /\ Running(k)' THEN {c} ELSE claimant[k]]

OwnedNext ==
  \/ Environment /\ UNCHANGED claimant
  \/ \E c \in Calls : CallStep(c) /\ TakeClaim(c)

OwnedSpec == OwnedInit /\ [][OwnedNext]_ownedVars

-----------------------------------------------------------------------------
(* Properties.                                                             *)

(* Call c runs the execution it claimed, and its lease is not over.        *)
RunsInLease(c) ==
  LET k == KeyOf(request[c])
  IN /\ pc[c] \in {"operating", "completing"}
     /\ claimant[k] = {c}
     /\ Running(k)
     /\ clock < actions[k].lease

(* docs/runtime-api.md:206 says of an executing action that one worker     *)
(* owns a time-bounded execution claim.  So while the call that made the   *)
(* latest claim of an action runs within its lease, a step that ends the   *)
(* execution in the store is a step of that call.                          *)
ClaimOwnedByOneCall ==
  [][\A c \in Calls :
       RunsInLease(c) /\ ~Running(KeyOf(request[c]))' => pc'[c] # pc[c]]_ownedVars

=============================================================================
