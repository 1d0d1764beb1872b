---------------------------- MODULE DelegationSlot ----------------------------
(***************************************************************************)
(* What idempotency keys promise the callers of POST /delegate, without    *)
(* saying how: a key is held by at most one delegation at a time; of the   *)
(* holders only a failed one may be made to give it up.  The store may     *)
(* forget all its keys at once (a restart of the platform), and nothing    *)
(* less than all.                                                          *)
(*                                                                         *)
(*   phase : "none" before the delegation is recorded, "live", "done",     *)
(*           "failed", and "released" when a failed one lost its record    *)
(*   key   : the idempotency key it was recorded under, or NoKey           *)
(***************************************************************************)
CONSTANTS Ids, IdemKeys, NoKey

VARIABLES phase, key

SlotInit ==
  /\ phase = [d \in Ids |-> "none"]
  /\ key = [d \in Ids |-> NoKey]

Holds(d, k) == key[d] = k /\ phase[d] \in {"live", "done", "failed"}

Claim(d, k) ==
  /\ phase[d] = "none"
  /\ k # NoKey => \A e \in Ids : ~Holds(e, k)
  /\ phase' = [phase EXCEPT ![d] = "live"]
  /\ key' = [key EXCEPT ![d] = k]

Finish(d, p) ==
  /\ phase[d] = "live"
  /\ phase' = [phase EXCEPT ![d] = p]
  /\ UNCHANGED key

Release(d) ==
  /\ phase[d] = "failed"
  /\ key[d] # NoKey
  /\ phase' = [phase EXCEPT ![d] = "released"]
  /\ UNCHANGED key

Forget ==
  /\ key' = [d \in Ids |-> NoKey]
  /\ UNCHANGED phase

SlotNext ==
  \/ \E d \in Ids : \/ \E k \in IdemKeys \cup {NoKey} : Claim(d, k)
                    \/ \E p \in {"done", "failed"} : Finish(d, p)
                    \/ Release(d)
  \/ Forget

SlotSpec == SlotInit /\ [][SlotNext]_<<phase, key>>
=============================================================================
