------------------------------ MODULE Lifecycle ------------------------------
(***************************************************************************)
(* The life of workspaces: every handler, background loop and goroutine of *)
(* the platform that writes workspaces.status, run concurrently.  Each     *)
(* goroutine is a thread that executes one statement of WorkspaceStore at  *)
(* a time; between two statements anything else may run.                   *)
(*                                                                         *)
(*   th        : the goroutines.  pc is the next statement, ws the         *)
(*               workspace it is about, root the workspace of the request, *)
(*               todo what a loop over workspaces has left                 *)
(*   restartMu : the workspaces whose restart mutex is locked              *)
(*   expired   : key-expiry events Redis has published and the liveness    *)
(*               monitor has not handled                                   *)
(*   crashes   : how often the platform process has restarted              *)
(***************************************************************************)
EXTENDS WorkspaceStore

CONSTANTS
  Workers,      \* goroutines alive at one time (bound)
  Sweeper,      \* the goroutine of StartHealthSweep
  Requests,     \* the kinds of request and event this instance issues (bound)
  Serial,       \* requests, events and sweeps begin one at a time (bound)
  MaxCrashes    \* restarts of the platform process (bound)

Threads == Workers \cup {Sweeper}

ASSUME LifecycleAssumption ==
  /\ Sweeper \notin Workers
  /\ Serial \in BOOLEAN
  /\ MaxCrashes \in Nat

VARIABLES th, restartMu, expired, crashes

control == <<th, restartMu, expired, crashes>>
vars == <<store, control>>

(***************************************************************************)
(* Program counters, by the function they belong to.                       *)
(***************************************************************************)
InRestartByID == {"rs_select", "rs_parent", "rs_stop", "rs_mark", "rs_go"}

PC == InRestartByID \cup
  {"idle",
   "cr_online",                                         \* Create, external
   "pv_start", "pv_create", "pv_fail", "pv_url", "pv_cache", \* provisionWorkspace
   "xp_start", "xp_create",                             \* Expand's goroutine
   "reg_upsert", "reg_redis",                           \* Register
   "hb_read", "hb_degrade", "hb_heal", "hb_back",       \* Heartbeat
   "px_forward", "px_mark", "px_clear",                 \* proxyA2ARequest
   "rs_lock",                                           \* RestartByID
   "rt_parent", "rt_stop", "rt_mark",                   \* Restart
   "pa_stop", "pa_mark", "pa_clear",                    \* Pause
   "re_parent", "re_next",                              \* Resume
   "de_mark", "de_stop", "de_clear",                    \* Delete
   "co_stop", "co_mark",                                \* Collapse
   "sw_local", "sw_mark", "sw_clear",                   \* health sweep, Docker
   "sw_remote", "sw_rclear"}                            \* health sweep, remote

Thread == [pc : PC, ws : Ws \cup {NoWs}, root : Ws \cup {NoWs}, todo : SUBSET Ws]

Idle == [pc |-> "idle", ws |-> NoWs, root |-> NoWs, todo |-> {}]

Job(l, w, S) == [pc |-> l, ws |-> w, root |-> w, todo |-> S]

TypeOK ==
  /\ StoreTypeOK
  /\ th \in [Threads -> Thread]
  /\ restartMu \subseteq Ws
  /\ expired \subseteq Ws
  /\ crashes \in 0..MaxCrashes

Init ==
  /\ StoreInit
  /\ th = [t \in Threads |-> Idle]
  /\ restartMu = {}
  /\ expired = {}
  /\ crashes = 0

At(t, l) == th[t].pc = l
On(t) == th[t].ws

Settled == \A t \in Threads : th[t] = Idle

Begin(t, l, w, S) ==
  /\ th[t] = Idle
  /\ Serial => Settled
  /\ th' = [th EXCEPT ![t] = Job(l, w, S)]

Goto(t, l) == th' = [th EXCEPT ![t].pc = l]
Done(t) == th' = [th EXCEPT ![t] = Idle]

\* t continues as next and starts goroutine u.
Fork(t, next, u, job) ==
  /\ u \in Workers \ {t}
  /\ th[u] = Idle
  /\ th' = [th EXCEPT ![t] = next, ![u] = job]

\* The loop of t over todo finishes its current workspace.
Advance(t, l) ==
  LET rest == th[t].todo \ {On(t)}
  IN  th' = [th EXCEPT ![t] =
        IF rest = {} THEN Idle ELSE [@ EXCEPT !.pc = l, !.todo = rest]]

-----------------------------------------------------------------------------
(***************************************************************************)
(* Create: INSERT 'provisioning', then either mark an external workspace   *)
(* online or go provisionWorkspace.  parent_id is a foreign key.           *)
(***************************************************************************)
Create(t, w) ==
  /\ "create" \in Requests
  /\ Parent[w] # NoWs => row[Parent[w]] # "absent"
  /\ Insert(w, "provisioning")
  /\ Begin(t, IF w \in External THEN "cr_online" ELSE "pv_start", w, {})
  /\ UNCHANGED <<url, redis, cont, restartMu, expired, crashes>>

CreateExternal(t) ==
  /\ At(t, "cr_online")
  /\ Mark(On(t), "online")
  /\ \/ url' = [url EXCEPT ![On(t)] = "agent"] /\ AddKeys(On(t), {"url"})
     \/ UNCHANGED <<url, redis>>                        \* payload.URL == ""
  /\ Done(t)
  /\ UNCHANGED <<cont, restartMu, expired, crashes>>

(***************************************************************************)
(* provisionWorkspace.  Start force-removes whatever has the name, creates *)
(* (a name conflict if another Start got there first) and starts.  Any     *)
(* error, of a secret's decryption too, ends in an UPDATE to 'failed' by   *)
(* id alone, in the context whose timeout may be the error; success stores *)
(* the URL by id alone, then caches it.                                    *)
(***************************************************************************)
StartReplaces(t) ==
  /\ th[t].pc \in {"pv_start", "xp_start"}
  /\ Stop(On(t))
  /\ Goto(t, IF At(t, "pv_start") THEN "pv_create" ELSE "xp_create")
  /\ UNCHANGED <<row, url, redis, restartMu, expired, crashes>>

StartCreates(t) ==
  /\ th[t].pc \in {"pv_create", "xp_create"}
  /\ cont[On(t)] = "none"
  /\ cont' = [cont EXCEPT ![On(t)] = "running"]
  /\ IF At(t, "pv_create") THEN Goto(t, "pv_url") ELSE Done(t)
  /\ UNCHANGED <<row, url, redis, restartMu, expired, crashes>>

StartFails(t) ==
  /\ th[t].pc \in {"pv_start", "pv_create", "xp_start", "xp_create"}
  /\ IF th[t].pc \in {"pv_start", "pv_create"} THEN Goto(t, "pv_fail") ELSE Done(t)
  /\ UNCHANGED <<store, restartMu, expired, crashes>>

ProvisionFailed(t) ==
  /\ At(t, "pv_fail")
  /\ \/ Mark(On(t), "failed")
     \/ UNCHANGED row                          \* its context has timed out too
  /\ Done(t)
  /\ UNCHANGED <<url, redis, cont, restartMu, expired, crashes>>

ProvisionStoresURL(t) ==
  /\ At(t, "pv_url")
  /\ url' = [url EXCEPT ![On(t)] = "host"]
  /\ Goto(t, "pv_cache")
  /\ UNCHANGED <<row, redis, cont, restartMu, expired, crashes>>

ProvisionCachesURL(t) ==
  /\ At(t, "pv_cache")
  /\ AddKeys(On(t), {"url"})
  /\ Done(t)
  /\ UNCHANGED <<row, url, cont, restartMu, expired, crashes>>

-----------------------------------------------------------------------------
(***************************************************************************)
(* Register and Heartbeat are sent by a running agent; the request may be  *)
(* handled after its container is gone.                                    *)
(***************************************************************************)
HasAgent(w) == Running(w) \/ w \in External

Register(t, w) ==
  /\ "register" \in Requests
  /\ HasAgent(w)
  /\ Begin(t, "reg_upsert", w, {})
  /\ UNCHANGED <<store, restartMu, expired, crashes>>

\* Mutant: the upsert of before #73, without the WHERE.
RegisterUpsertsAlways(t) ==
  /\ At(t, "reg_upsert")
  /\ row' = [row EXCEPT ![On(t)] = "online"]
  /\ url' = [url EXCEPT ![On(t)] = IF @ = "host" THEN @ ELSE "agent"]
  /\ Goto(t, "reg_redis")
  /\ UNCHANGED <<redis, cont, restartMu, expired, crashes>>

\* ON CONFLICT DO UPDATE ... WHERE status IS DISTINCT FROM 'removed'.
RegisterUpserts(t) ==
  /\ At(t, "reg_upsert")
  /\ IF row[On(t)] = "removed"
     THEN UNCHANGED <<row, url>>
     ELSE /\ row' = [row EXCEPT ![On(t)] = "online"]
          /\ url' = [url EXCEPT ![On(t)] = IF @ = "host" THEN @ ELSE "agent"]
  /\ Goto(t, "reg_redis")
  /\ UNCHANGED <<redis, cont, restartMu, expired, crashes>>

\* SetOnline and CacheURL run whatever the upsert did.
RegisterSetsKeys(t) ==
  /\ At(t, "reg_redis")
  /\ AddKeys(On(t), {"live", "url"})
  /\ Done(t)
  /\ UNCHANGED <<row, url, cont, restartMu, expired, crashes>>

(***************************************************************************)
(* Heartbeat.  RefreshTTL is EXPIRE: it never creates the key.             *)
(* evaluateStatus reads the status, then writes by id: only the recovery   *)
(* from offline repeats the status in its WHERE clause.                    *)
(***************************************************************************)
Heartbeat(t, w) ==
  /\ "heartbeat" \in Requests
  /\ HasAgent(w)
  /\ Begin(t, "hb_read", w, {})
  /\ UNCHANGED <<store, restartMu, expired, crashes>>

EvaluateReads(t) ==
  /\ At(t, "hb_read")
  /\ CASE row[On(t)] = "online"   -> Goto(t, "hb_degrade") \/ Done(t)
       [] row[On(t)] = "degraded" -> Goto(t, "hb_heal") \/ Done(t)
       [] row[On(t)] = "offline"  -> Goto(t, "hb_back")
       [] OTHER                   -> Done(t)
  /\ UNCHANGED <<store, restartMu, expired, crashes>>

\* Mutant: the recovery writes a status the enumeration lacks.
EvaluateWritesHealthy(t) ==
  /\ \/ At(t, "hb_degrade") /\ Mark(On(t), "degraded")
     \/ th[t].pc \in {"hb_heal", "hb_back"} /\ Mark(On(t), "healthy")
  /\ Done(t)
  /\ UNCHANGED <<url, redis, cont, restartMu, expired, crashes>>

EvaluateWrites(t) ==
  /\ \/ At(t, "hb_degrade") /\ Mark(On(t), "degraded")
     \/ At(t, "hb_heal") /\ Mark(On(t), "online")
     \/ At(t, "hb_back") /\ MarkUnless(On(t), "online", Status \ {"offline"})
  /\ Done(t)
  /\ UNCHANGED <<url, redis, cont, restartMu, expired, crashes>>

-----------------------------------------------------------------------------
(***************************************************************************)
(* StartLivenessMonitor.  The event may be handled long after the key      *)
(* expired.  The UPDATE skips removed and paused rows; onOffline is called *)
(* whatever the UPDATE matched and starts go RestartByID.                  *)
(***************************************************************************)
ExpireLiveKey(w) ==
  /\ "expire" \in Requests
  /\ "live" \in redis[w]
  /\ redis' = [redis EXCEPT ![w] = @ \ {"live"}]
  /\ expired' = expired \cup {w}
  /\ UNCHANGED <<row, url, cont, th, restartMu, crashes>>

LivenessMonitor(w, u) ==
  /\ w \in expired
  /\ expired' = expired \ {w}
  /\ MarkUnless(w, "offline", {"removed", "paused"})
  /\ Begin(u, "rs_lock", w, {})
  /\ UNCHANGED <<url, redis, cont, restartMu, crashes>>

ExpireURLKey(w) ==
  /\ "expire" \in Requests
  /\ "url" \in redis[w]
  /\ redis' = [redis EXCEPT ![w] = @ \ {"url"}]
  /\ UNCHANGED <<row, url, cont, control>>

(***************************************************************************)
(* StartHealthSweep: one pass over containers, one over remote agents,     *)
(* each from a snapshot of ids.  The age of a remote heartbeat is a        *)
(* choice; a failed inspect reads as a dead container.                     *)
(***************************************************************************)
\* Mutant: a degraded workspace is not looked at.
SweepableOnline(W) == {w \in W : row[w] = "online"}

Sweepable(W) == {w \in W : row[w] \in {"online", "degraded"}}

SweepBegins ==
  /\ "sweep" \in Requests
  /\ Begin(Sweeper, "sw_local", NoWs, Sweepable(Ws \ Remote))
  /\ UNCHANGED <<store, restartMu, expired, crashes>>

SweepChecks(w) ==
  /\ At(Sweeper, "sw_local")
  /\ w \in th[Sweeper].todo
  /\ \E up \in IsRunning(w) :
       th' = [th EXCEPT ![Sweeper].todo = @ \ {w},
                        ![Sweeper].pc = IF up THEN "sw_local" ELSE "sw_mark",
                        ![Sweeper].ws = IF up THEN NoWs ELSE w]
  /\ UNCHANGED <<store, restartMu, expired, crashes>>

SweepMarks ==
  /\ At(Sweeper, "sw_mark")
  /\ MarkUnless(On(Sweeper), "offline", {"removed", "provisioning"})
  /\ Goto(Sweeper, "sw_clear")
  /\ UNCHANGED <<url, redis, cont, restartMu, expired, crashes>>

SweepClears(u) ==
  /\ th[Sweeper].pc \in {"sw_clear", "sw_rclear"}
  /\ ClearWorkspaceKeys(On(Sweeper))
  /\ Fork(Sweeper,
          [th[Sweeper] EXCEPT !.ws = NoWs,
             !.pc = IF At(Sweeper, "sw_clear") THEN "sw_local" ELSE "sw_remote"],
          u, Job("rs_lock", On(Sweeper), {}))
  /\ UNCHANGED <<row, url, cont, restartMu, expired, crashes>>

SweepTurnsToRemote ==
  /\ At(Sweeper, "sw_local")
  /\ th[Sweeper].todo = {}
  /\ \E stale \in SUBSET Sweepable(Remote) :
       th' = [th EXCEPT ![Sweeper].pc = "sw_remote", ![Sweeper].todo = stale]
  /\ UNCHANGED <<store, restartMu, expired, crashes>>

SweepMarksRemote(w) ==
  /\ At(Sweeper, "sw_remote")
  /\ w \in th[Sweeper].todo
  /\ MarkUnless(w, "offline", {"removed", "provisioning", "paused"})
  /\ th' = [th EXCEPT ![Sweeper].todo = @ \ {w}, ![Sweeper].ws = w,
                      ![Sweeper].pc = "sw_rclear"]
  /\ UNCHANGED <<url, redis, cont, restartMu, expired, crashes>>

SweepEnds ==
  /\ At(Sweeper, "sw_remote")
  /\ th[Sweeper].todo = {}
  /\ Done(Sweeper)
  /\ UNCHANGED <<store, restartMu, expired, crashes>>

(***************************************************************************)
(* proxyA2ARequest.  A cached URL is used without looking at the status.   *)
(* When the forward fails and the container is not running, the proxy      *)
(* marks the workspace offline and goes RestartByID itself.  When the      *)
(* client has hung up meanwhile, the inspect call and every statement in   *)
(* its context fail, and only the RestartByID is left.                     *)
(***************************************************************************)
Proxy(t, w) ==
  /\ "a2a" \in Requests
  /\ "url" \in redis[w] \/ url[w] # "none"
  /\ AddKeys(w, {"url"})
  /\ Begin(t, "px_forward", w, {})
  /\ UNCHANGED <<row, url, cont, restartMu, expired, crashes>>

ProxyReturns(t) ==
  /\ At(t, "px_forward")
  /\ \/ HasAgent(On(t)) /\ Done(t)                            \* answered
     \/ \E up \in IsRunning(On(t)) :                         \* error
          IF up \/ On(t) \in Remote THEN Done(t) ELSE Goto(t, "px_mark")
     \/ Goto(t, "rs_lock")                     \* error, and the client is gone
  /\ UNCHANGED <<store, restartMu, expired, crashes>>

ProxyMarks(t) ==
  /\ At(t, "px_mark")
  /\ MarkUnless(On(t), "offline", {"removed", "provisioning"})
  /\ Goto(t, "px_clear")
  /\ UNCHANGED <<url, redis, cont, restartMu, expired, crashes>>

ProxyClears(t) ==
  /\ At(t, "px_clear")
  /\ ClearWorkspaceKeys(On(t))
  /\ Goto(t, "rs_lock")
  /\ UNCHANGED <<row, url, cont, restartMu, expired, crashes>>

-----------------------------------------------------------------------------
(***************************************************************************)
(* RestartByID.  A secret or plugin change starts it too.  TryLock skips a *)
(* workspace that is being restarted.  The status is read once; Stop and   *)
(* the UPDATE by id alone follow, and the mutex is released as the         *)
(* provisioning goroutine starts.                                          *)
(***************************************************************************)
RequestRestart(t, w) ==
  /\ "secret" \in Requests
  /\ row[w] # "absent"
  /\ Begin(t, "rs_lock", w, {})
  /\ UNCHANGED <<store, restartMu, expired, crashes>>

RestartLocks(t) ==
  /\ At(t, "rs_lock")
  /\ IF On(t) \in restartMu
     THEN Done(t) /\ UNCHANGED restartMu
     ELSE Goto(t, "rs_select") /\ restartMu' = restartMu \cup {On(t)}
  /\ UNCHANGED <<store, expired, crashes>>

Unlock(t) == restartMu' = restartMu \ {On(t)}

\* Mutant: the early return forgets the deferred Unlock.
RestartSelectsLeaks(t) ==
  /\ At(t, "rs_select")
  /\ IF On(t) \in RowsNotIn({"removed", "paused"}) \ Remote
     THEN Goto(t, "rs_parent") ELSE Done(t)
  /\ UNCHANGED <<store, restartMu, expired, crashes>>

RestartSelects(t) ==
  /\ At(t, "rs_select")
  /\ IF On(t) \in RowsNotIn({"removed", "paused"}) \ Remote
     THEN Goto(t, "rs_parent") /\ UNCHANGED restartMu
     ELSE Done(t) /\ Unlock(t)
  /\ UNCHANGED <<store, expired, crashes>>

RestartChecksParent(t) ==
  /\ At(t, "rs_parent")
  /\ IF AncestorPaused(On(t))
     THEN Done(t) /\ Unlock(t)
     ELSE Goto(t, "rs_stop") /\ UNCHANGED restartMu
  /\ UNCHANGED <<store, expired, crashes>>

RestartStops(t) ==
  /\ At(t, "rs_stop")
  /\ Stop(On(t))
  /\ Goto(t, "rs_mark")
  /\ UNCHANGED <<row, url, redis, restartMu, expired, crashes>>

RestartMarks(t) ==
  /\ At(t, "rs_mark")
  /\ Mark(On(t), "provisioning")
  /\ url' = [url EXCEPT ![On(t)] = "none"]
  /\ Goto(t, "rs_go")
  /\ UNCHANGED <<redis, cont, restartMu, expired, crashes>>

RestartProvisions(t) ==
  /\ At(t, "rs_go")
  /\ Goto(t, "pv_start")
  /\ Unlock(t)
  /\ UNCHANGED <<store, expired, crashes>>

(***************************************************************************)
(* POST /workspaces/:id/restart reads the row only to find that it exists, *)
(* and takes no mutex.                                                     *)
(***************************************************************************)
Restart(t, w) ==
  /\ "restart" \in Requests
  /\ row[w] # "absent"
  /\ Begin(t, "rt_parent", w, {})
  /\ UNCHANGED <<store, restartMu, expired, crashes>>

HandlerChecksParent(t) ==
  /\ At(t, "rt_parent")
  /\ IF AncestorPaused(On(t)) THEN Done(t) ELSE Goto(t, "rt_stop")
  /\ UNCHANGED <<store, restartMu, expired, crashes>>

HandlerStops(t) ==
  /\ At(t, "rt_stop")
  /\ Stop(On(t))
  /\ Goto(t, "rt_mark")
  /\ UNCHANGED <<row, url, redis, restartMu, expired, crashes>>

HandlerMarks(t) ==
  /\ At(t, "rt_mark")
  /\ Mark(On(t), "provisioning")
  /\ url' = [url EXCEPT ![On(t)] = "none"]
  /\ Goto(t, "pv_start")
  /\ UNCHANGED <<redis, cont, restartMu, expired, crashes>>

(***************************************************************************)
(* Pause and Resume walk the workspace and the descendants their query     *)
(* found, top down (the CTE yields level by level); the updates are by id. *)
(***************************************************************************)
Topmost(S) == {x \in S : Parent[x] \notin S}

Pause(t, w) ==
  /\ "pause" \in Requests
  /\ w \in RowsNotIn({"removed", "paused"})
  /\ Begin(t, "pa_stop", w, {w} \cup Below(w, RowsNotIn({"removed", "paused"})))
  /\ UNCHANGED <<store, restartMu, expired, crashes>>

PauseStops(t, x) ==
  /\ At(t, "pa_stop")
  /\ x \in Topmost(th[t].todo)
  /\ Stop(x)
  /\ th' = [th EXCEPT ![t].pc = "pa_mark", ![t].ws = x]
  /\ UNCHANGED <<row, url, redis, restartMu, expired, crashes>>

PauseMarks(t) ==
  /\ At(t, "pa_mark")
  /\ Mark(On(t), "paused")
  /\ url' = [url EXCEPT ![On(t)] = "none"]
  /\ Goto(t, "pa_clear")
  /\ UNCHANGED <<redis, cont, restartMu, expired, crashes>>

\* Mutant: the loop goes on without ClearWorkspaceKeys.
PauseKeepsKeys(t) ==
  /\ At(t, "pa_clear")
  /\ Advance(t, "pa_stop")
  /\ UNCHANGED <<store, restartMu, expired, crashes>>

PauseClears(t) ==
  /\ At(t, "pa_clear")
  /\ ClearWorkspaceKeys(On(t))
  /\ Advance(t, "pa_stop")
  /\ UNCHANGED <<row, url, cont, restartMu, expired, crashes>>

Resume(t, w) ==
  /\ "resume" \in Requests
  /\ row[w] = "paused"
  /\ Begin(t, "re_parent", w, {})
  /\ UNCHANGED <<store, restartMu, expired, crashes>>

\* Mutant: Resume does not climb to the ancestors.
ResumeIgnoresParent(t) ==
  /\ At(t, "re_parent")
  /\ th' = [th EXCEPT ![t].pc = "re_next",
               ![t].todo = {On(t)} \cup Below(On(t), WithStatus({"paused"}))]
  /\ UNCHANGED <<store, restartMu, expired, crashes>>

ResumeChecksParent(t) ==
  /\ At(t, "re_parent")
  /\ IF AncestorPaused(On(t))
     THEN Done(t)
     ELSE th' = [th EXCEPT ![t].pc = "re_next",
                   ![t].todo = {On(t)} \cup Below(On(t), WithStatus({"paused"}))]
  /\ UNCHANGED <<store, restartMu, expired, crashes>>

ResumeNext(t, x) ==
  /\ At(t, "re_next")
  /\ x \in Topmost(th[t].todo)
  /\ Mark(x, "provisioning")
  /\ IF th[t].todo = {x}
     THEN th' = [th EXCEPT ![t] = Job("pv_start", x, {})]
     ELSE \E u \in Workers :
            Fork(t, [th[t] EXCEPT !.todo = @ \ {x}], u, Job("pv_start", x, {}))
  /\ UNCHANGED <<url, redis, cont, restartMu, expired, crashes>>

(***************************************************************************)
(* Delete marks the whole subtree removed first, then stops containers and *)
(* clears keys, descendants before the workspace itself.                   *)
(***************************************************************************)
Delete(t, w) ==
  /\ "delete" \in Requests
  /\ row[w] # "absent"
  /\ Begin(t, "de_mark", w, {w} \cup Below(w, RowsNotIn({"removed"})))
  /\ UNCHANGED <<store, restartMu, expired, crashes>>

DeleteMarks(t) ==
  /\ At(t, "de_mark")
  /\ MarkAll(th[t].todo, "removed")
  /\ Goto(t, "de_stop")
  /\ UNCHANGED <<url, redis, cont, restartMu, expired, crashes>>

DeleteStops(t, x) ==
  /\ At(t, "de_stop")
  /\ LET below == th[t].todo \ {th[t].root}
     IN  x \in IF below = {} THEN th[t].todo ELSE Topmost(below)
  /\ Stop(x)
  /\ th' = [th EXCEPT ![t].pc = "de_clear", ![t].ws = x]
  /\ UNCHANGED <<row, url, redis, restartMu, expired, crashes>>

DeleteClears(t) ==
  /\ At(t, "de_clear")
  /\ ClearWorkspaceKeys(On(t))
  /\ Advance(t, "de_stop")
  /\ UNCHANGED <<row, url, cont, restartMu, expired, crashes>>

(***************************************************************************)
(* Teams.  Expand inserts one child per sub_workspace and, if the child's  *)
(* template exists, starts its container without recording how that went;  *)
(* Collapse stops, then marks, the direct children.                        *)
(***************************************************************************)
Expand(t, w) ==
  /\ "expand" \in Requests
  /\ Parent[w] \in RowsNotIn({})
  /\ Insert(w, "provisioning")
  /\ Begin(t, "xp_start", w, {}) \/ UNCHANGED th
  /\ UNCHANGED <<url, redis, cont, restartMu, expired, crashes>>

Collapse(t, w) ==
  /\ "collapse" \in Requests
  /\ LET team == {c \in RowsNotIn({"removed"}) : Parent[c] = w}
     IN  team # {} /\ Begin(t, "co_stop", w, team)
  /\ UNCHANGED <<store, restartMu, expired, crashes>>

CollapseStops(t, x) ==
  /\ At(t, "co_stop")
  /\ x \in th[t].todo
  /\ Stop(x)
  /\ th' = [th EXCEPT ![t].pc = "co_mark", ![t].ws = x]
  /\ UNCHANGED <<row, url, redis, restartMu, expired, crashes>>

CollapseMarks(t) ==
  /\ At(t, "co_mark")
  /\ Mark(On(t), "removed")
  /\ Advance(t, "co_stop")
  /\ UNCHANGED <<url, redis, cont, restartMu, expired, crashes>>

-----------------------------------------------------------------------------
(***************************************************************************)
(* The environment: containers die, Docker's unless-stopped policy brings  *)
(* them back, and the platform process restarts, losing its goroutines,    *)
(* its mutexes and the key-expiry events published meanwhile.              *)
(***************************************************************************)
ContainerDies(w) ==
  /\ "die" \in Requests
  /\ cont[w] = "running"
  /\ cont' = [cont EXCEPT ![w] = "exited"]
  /\ UNCHANGED <<row, url, redis, control>>

ContainerRespawns(w) ==
  /\ "die" \in Requests
  /\ cont[w] = "exited"
  /\ cont' = [cont EXCEPT ![w] = "running"]
  /\ UNCHANGED <<row, url, redis, control>>

Crash ==
  /\ crashes < MaxCrashes
  /\ crashes' = crashes + 1
  /\ th' = [t \in Threads |-> Idle]
  /\ restartMu' = {}
  /\ expired' = {}
  /\ \E quiet \in SUBSET Ws :
       redis' = [w \in Ws |-> IF w \in quiet THEN redis[w] \ {"live"} ELSE redis[w]]
  /\ UNCHANGED <<row, url, cont>>

-----------------------------------------------------------------------------
\* A request for w is taken up by goroutine t.
Arrives(t, w) ==
  \/ Create(t, w) \/ Expand(t, w) \/ Collapse(t, w)
  \/ Register(t, w) \/ Heartbeat(t, w) \/ Proxy(t, w) \/ RequestRestart(t, w)
  \/ Restart(t, w) \/ Pause(t, w) \/ Resume(t, w) \/ Delete(t, w)

\* Goroutine t executes its next statement.
Works(t) ==
  \/ CreateExternal(t)
  \/ StartReplaces(t) \/ StartCreates(t) \/ StartFails(t)
  \/ ProvisionFailed(t) \/ ProvisionStoresURL(t) \/ ProvisionCachesURL(t)
  \/ RegisterUpserts(t) \/ RegisterSetsKeys(t)
  \/ EvaluateReads(t) \/ EvaluateWrites(t)
  \/ ProxyReturns(t) \/ ProxyMarks(t) \/ ProxyClears(t)
  \/ RestartLocks(t) \/ RestartSelects(t) \/ RestartChecksParent(t)
  \/ RestartStops(t) \/ RestartMarks(t) \/ RestartProvisions(t)
  \/ HandlerChecksParent(t) \/ HandlerStops(t) \/ HandlerMarks(t)
  \/ PauseMarks(t) \/ PauseClears(t) \/ ResumeChecksParent(t)
  \/ DeleteMarks(t) \/ DeleteClears(t) \/ CollapseMarks(t)
  \/ \E x \in Ws : \/ PauseStops(t, x) \/ ResumeNext(t, x)
                   \/ DeleteStops(t, x) \/ CollapseStops(t, x)

Sweeps ==
  \/ SweepBegins \/ SweepMarks \/ SweepTurnsToRemote \/ SweepEnds
  \/ \E w \in Ws : SweepChecks(w) \/ SweepMarksRemote(w)
  \/ \E u \in Workers : SweepClears(u)

Monitors == \E w \in Ws, u \in Workers : LivenessMonitor(w, u)

Environment ==
  \/ \E w \in Ws : \/ ExpireLiveKey(w) \/ ExpireURLKey(w)
                   \/ ContainerDies(w) \/ ContainerRespawns(w)
  \/ Crash

Next ==
  \/ \E t \in Workers, w \in Ws : Arrives(t, w)
  \/ \E t \in Workers : Works(t)
  \/ Sweeps
  \/ Monitors
  \/ Environment

Spec == Init /\ [][Next]_vars
=============================================================================
