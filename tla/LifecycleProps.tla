--------------------------- MODULE LifecycleProps ---------------------------
(***************************************************************************)
(* What the lifecycle promises, and what its documents say it promises.    *)
(***************************************************************************)
EXTENDS Lifecycle

(***************************************************************************)
(* The restart mutex is held exactly by the goroutines inside RestartByID, *)
(* and never by two of them for one workspace: no return path leaks it and *)
(* no second restart runs Stop and the UPDATE of a restart under way       *)
(* (workspace_restart.go, TryLock and the deferred Unlock).                *)
(***************************************************************************)
RestartExclusive ==
  /\ restartMu = {On(t) : t \in {u \in Workers : th[u].pc \in InRestartByID}}
  /\ \A t, u \in Workers :
       /\ th[t].pc \in InRestartByID
       /\ th[u].pc \in InRestartByID
       /\ On(t) = On(u)
       => t = u

Moves(t) == th'[t] # th[t]

(***************************************************************************)
(* Once Delete, Collapse or Pause has returned, the container is gone, and *)
(* nothing leads to a paused workspace any more: no URL, no Redis key.     *)
(* (An external agent is not the platform's to stop; it may register.)     *)
(***************************************************************************)
SettledIsDown ==
  Settled => \A w \in Ws :
    /\ row[w] \in {"paused", "removed"} => cont[w] = "none"
    /\ row[w] = "paused" /\ w \notin External => url[w] = "none" /\ redis[w] = {}

(***************************************************************************)
(* A workspace is restarted or resumed only while no ancestor is paused    *)
(* (isParentPaused), whichever path asks: the handlers, a secret change,   *)
(* the sweep, the liveness monitor, the proxy.                             *)
(***************************************************************************)
NoRestartBelowPause ==
  [][\A w \in Ws : row[w] \notin {"absent", "provisioning"} /\ row'[w] = "provisioning"
       => ~AncestorPaused(w)']_vars

(***************************************************************************)
(* What the documents say and concurrent handlers do not keep.             *)
(***************************************************************************)

\* Delete: "Any concurrent heartbeat / registration / liveness-triggered
\* restart will see status='removed' and bail out early."  Their writes leave
\* a removed row alone.
RemovedStaysRemoved ==
  [][\A t \in Workers :
       /\ th[t].pc \in {"reg_upsert", "hb_degrade", "hb_heal", "hb_back", "rs_mark"}
       /\ Moves(t) /\ row[On(t)] = "removed"
       => row'[On(t)] = "removed"]_vars

\* Pause: "Health sweep, liveness monitor, and auto-restart all skip paused
\* workspaces" (docs/edit-history/2026-04-08.md).  What the sweep and the
\* automatic restart write leaves a paused row alone.
PausedIsSkipped ==
  [][\A t \in Threads :
       /\ th[t].pc \in {"sw_mark", "rs_mark"}
       /\ Moves(t) /\ row[On(t)] = "paused"
       => row'[On(t)] = "paused"]_vars

-----------------------------------------------------------------------------
(***************************************************************************)
(* Fairness: the Go scheduler runs every goroutine that can run, and every *)
(* statement returns.  Requests, key expiries, container deaths, respawns  *)
(* and crashes are never promised.                                         *)
(***************************************************************************)
Fairness ==
  /\ \A t \in Workers : WF_vars(Works(t))
  /\ WF_vars(Sweeps)
  /\ WF_vars(Monitors)

FairSpec == Spec /\ Fairness

(***************************************************************************)
(* A container that is gone while its row says online or degraded is       *)
(* noticed: the health sweep, the key expiry or a failed proxy call takes  *)
(* the row out of those states, unless the container comes back by itself. *)
(***************************************************************************)
DeadIsNoticed ==
  \A w \in Ws \ Remote :
    (row[w] \in {"online", "degraded"} /\ ~Running(w))
      ~> (row[w] \notin {"online", "degraded"} \/ Running(w))

\* provisioner.go: "ProvisionTimeout is how long to wait for first heartbeat
\* before marking as failed": no row stays 'provisioning' for ever.
ProvisioningResolves ==
  \A w \in Ws : row[w] = "provisioning" ~> row[w] # "provisioning"
=============================================================================
