--------------------------- MODULE LifecycleHistory ---------------------------
(***************************************************************************)
(* Lifecycle with a history variable that remembers which goroutines have  *)
(* only ever seen their workspace removed.                                 *)
(*                                                                         *)
(*   late : the goroutines whose workspace has been 'removed' ever since   *)
(*          they started                                                   *)
(***************************************************************************)
EXTENDS LifecycleProps

VARIABLE late

hvars == <<vars, late>>

Records ==
  late' = {t \in Workers : /\ th'[t] # Idle
                           /\ row'[th'[t].ws] = "removed"
                           /\ th[t] = Idle \/ t \in late}

HSpec == Init /\ late = {} /\ [][Next /\ Records]_hvars

\* The writes by id alone: none of them repeats in its WHERE clause what the
\* goroutine read before.
Unguarded == {"rs_mark", "rt_mark", "hb_degrade", "hb_heal", "pv_fail",
              "pa_mark", "re_next", "cr_online"}

\* A container comes up other than by Docker's restart policy.
Created(w) == cont[w] = "none" /\ cont'[w] = "running"

(***************************************************************************)
(* What Delete has removed comes back, as a row or as a container, only by *)
(* a goroutine that was under way before the removal, and then through a   *)
(* write by id alone, or by the Restart handler: a register, heartbeat,    *)
(* key expiry, sweep, proxy or automatic restart that starts on a removed  *)
(* row bails out (workspace.go, the #73 comment in Delete).                *)
(***************************************************************************)
LateArrivalsBailOut ==
  [][\A w \in Ws : row[w] = "removed" /\ (row'[w] # "removed" \/ Created(w)) =>
       \E t \in Workers :
          /\ Moves(t)
          /\ w \in {On(t)} \cup th[t].todo
          /\ row'[w] # "removed" => th[t].pc \in Unguarded
          /\ t \notin late \/ At(t, "rt_mark")]_hvars
=============================================================================
