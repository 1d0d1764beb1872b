--------------------------- MODULE DelegationProps ---------------------------
(***************************************************************************)
(* What delegations promise.                                               *)
(***************************************************************************)
EXTENDS Delegation

(***************************************************************************)
(* Of two recorded delegations with one idempotency key at most one is     *)
(* under way, whatever the order in which their requests looked the key    *)
(* up, released it, inserted and failed (delegation.go, Delegate and       *)
(* executeDelegation).                                                     *)
(***************************************************************************)
OneAtATime ==
  \A d, e \in Ids :
    /\ d # e /\ key[d] = key[e] /\ key[d] # NoKey
    /\ pc[d] \in InFlight /\ pc[e] \in InFlight
    => row[d] = "none" \/ row[e] = "none"

(***************************************************************************)
(* The two rows of a delegation agree: a stored completion is never beside *)
(* a row that says failed, nor a stored failure beside one that says       *)
(* completed, at any point of executeDelegation or UpdateStatus, with the  *)
(* process restarting anywhere.                                            *)
(***************************************************************************)
ResultAgrees ==
  \A d \in Ids :
    /\ result[d] = "completed" => row[d] \in {"none", "dispatched", "completed"}
    /\ result[d] = "failed" => row[d] \in {"none", "failed", "deleted"}

(***************************************************************************)
(* The rows implement idempotency slots: while the platform runs only a    *)
(* failed delegation gives its key up, a live or completed one never does, *)
(* and no second one gets it meanwhile (delegation.go:62-66).              *)
(***************************************************************************)
PhaseOf(s) ==
  CASE s \in Live -> "live"
    [] s = "completed" -> "done"
    [] s = "deleted" -> "released"
    [] OTHER -> s

slotPhase == [d \in Ids |-> PhaseOf(row[d])]

slotKey == [d \in Ids |-> IF row[d] = "none" THEN NoKey ELSE key[d]]

Slots == INSTANCE DelegationSlot WITH phase <- slotPhase, key <- slotKey

SlotsHold == Slots!SlotSpec

(***************************************************************************)
(* An execution or report that ran to its end has recorded how it ended,   *)
(* on every branch (answer, static error, failed retry, context at its     *)
(* end, client gone): no row is left 'pending' or 'dispatched' with nobody *)
(* at work on it, unless the process restarted.                            *)
(***************************************************************************)
EndIsRecorded == \A d \in Ids : pc[d] = "end" => row[d] \notin Live

(***************************************************************************)
(* 021_delegation_idempotency.up.sql: a caller "can safely re-issue the    *)
(* same delegation without producing duplicate work".                      *)
(***************************************************************************)
NoDuplicateWork ==
  \A d, e \in Ids :
    /\ d # e /\ key[d] = key[e] /\ key[d] # NoKey
    => ~(pc[d] \in {"sent1", "sent2"} /\ pc[e] \in {"sent1", "sent2"})

(***************************************************************************)
(* delegation.go:169: executeDelegation "sends A2A and stores the result". *)
(* By the time it marks the row completed, the result is stored.           *)
(***************************************************************************)
CompletionIsStored ==
  \A d \in Ids : pc[d] = "complete" => result[d] = "completed"
=============================================================================
