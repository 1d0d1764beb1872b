--------------------------- MODULE LifecycleProofs ---------------------------
(***************************************************************************)
(* Theorems about Lifecycle, for every set of workspaces, every parent     *)
(* relation and every number of goroutines.                                *)
(***************************************************************************)
EXTENDS LifecycleHistory, TLAPS

(***************************************************************************)
(* A goroutine at work knows its workspace.  The sweeper has none between  *)
(* two of them.                                                            *)
(***************************************************************************)
Located ==
  \A t \in Threads : th[t].pc \notin {"idle", "sw_local", "sw_remote"} => th[t].ws \in Ws

TypeInv == TypeOK /\ Located

-----------------------------------------------------------------------------
(***************************************************************************)
(* What the moves of a goroutine do to th.                                 *)
(***************************************************************************)
ThreadsOK == th \in [Threads -> Thread] /\ Located

\* Nothing but the threads in T moves.
Still(T) == \A u \in Threads \ T : th'[u] = th[u]

LEMMA IdleIsThread == Idle \in Thread
  BY DEF Idle, Thread, PC

LEMMA JobIsThread ==
  ASSUME NEW l \in PC, NEW w \in Ws \cup {NoWs}, NEW S \in SUBSET Ws
  PROVE  /\ Job(l, w, S) \in Thread
         /\ Job(l, w, S).pc = l
         /\ Job(l, w, S).ws = w
  BY DEF Job, Thread

LEMMA GotoMoves ==
  ASSUME ThreadsOK, NEW t \in Threads, NEW l \in PC, th[t].ws \in Ws, Goto(t, l)
  PROVE  ThreadsOK' /\ Still({t}) /\ th'[t].pc = l /\ th'[t].ws = th[t].ws
  BY DEF ThreadsOK, Located, Goto, Still, Thread

LEMMA DoneMoves ==
  ASSUME ThreadsOK, NEW t \in Threads, Done(t)
  PROVE  ThreadsOK' /\ Still({t}) /\ th'[t].pc = "idle"
  BY IdleIsThread DEF ThreadsOK, Located, Done, Still, Idle

LEMMA BeginMoves ==
  ASSUME ThreadsOK, NEW t \in Threads, NEW l \in PC, NEW w \in Ws,
         NEW S \in SUBSET Ws, Begin(t, l, w, S)
  PROVE  /\ ThreadsOK' /\ Still({t})
         /\ th[t].pc = "idle" /\ th'[t].pc = l /\ th'[t].ws = w
  BY JobIsThread DEF ThreadsOK, Located, Begin, Still, Idle

LEMMA PlanMoves ==
  ASSUME ThreadsOK, NEW t \in Threads, NEW l \in PC, NEW S \in SUBSET Ws, th[t].ws \in Ws,
         th' = [th EXCEPT ![t].pc = l, ![t].todo = S]
  PROVE  ThreadsOK' /\ Still({t}) /\ th'[t].pc = l /\ th'[t].ws = th[t].ws
  BY DEF ThreadsOK, Located, Still, Thread

LEMMA ForkMoves ==
  ASSUME ThreadsOK, NEW t \in Threads, NEW u, NEW next \in Thread, NEW job \in Thread,
         next.pc \notin {"idle", "sw_local", "sw_remote"} => next.ws \in Ws,
         job.pc \notin {"idle", "sw_local", "sw_remote"} => job.ws \in Ws,
         Fork(t, next, u, job)
  PROVE  /\ ThreadsOK' /\ Still({t, u})
         /\ u \in Workers /\ u # t /\ th[u].pc = "idle"
         /\ th'[t] = next /\ th'[u] = job
  BY DEF ThreadsOK, Located, Fork, Still, Idle, Threads

LEMMA AdvanceMoves ==
  ASSUME ThreadsOK, NEW t \in Threads, NEW l \in PC, th[t].ws \in Ws, Advance(t, l)
  PROVE  ThreadsOK' /\ Still({t}) /\ th'[t].pc \in {"idle", l}
  BY IdleIsThread DEF ThreadsOK, Located, Advance, On, Still, Thread, Idle

-----------------------------------------------------------------------------
(***************************************************************************)
(* What the statements do to the store.                                    *)
(***************************************************************************)
LEMMA MarkKeepsType ==
  ASSUME row \in [Ws -> Status], NEW w, NEW s \in Status, NEW barred,
         MarkUnless(w, s, barred)
  PROVE  row' \in [Ws -> Status]
  BY DEF MarkUnless

LEMMA MarkAllKeepsType ==
  ASSUME row \in [Ws -> Status], NEW W, NEW s \in Status, MarkAll(W, s)
  PROVE  row' \in [Ws -> Status]
  BY DEF MarkAll

\* The recursive queries answer with rows that satisfy their filter.
LEMMA BelowIsFiltered ==
  ASSUME NEW w, NEW S
  PROVE  Below(w, S) \subseteq S
  BY DEF Below

LEMMA QueriesAreRows ==
  ASSUME NEW T
  PROVE  WithStatus(T) \subseteq Ws /\ RowsNotIn(T) \subseteq Ws
  BY DEF WithStatus, RowsNotIn

LEMMA RedisKeepsType ==
  ASSUME redis \in [Ws -> SUBSET Keys], NEW w, NEW ks \in SUBSET Keys,
         AddKeys(w, ks) \/ ClearWorkspaceKeys(w)
  PROVE  redis' \in [Ws -> SUBSET Keys]
  BY DEF AddKeys, ClearWorkspaceKeys

LEMMA StopKeepsType ==
  ASSUME cont \in [Ws -> {"none", "running", "exited"}], NEW w, Stop(w)
  PROVE  cont' \in [Ws -> {"none", "running", "exited"}]
  BY DEF Stop

-----------------------------------------------------------------------------
(***************************************************************************)
(* What an action that is not RestartByID's does to the mutex and to the   *)
(* goroutines that hold it: nothing.                                       *)
(***************************************************************************)
Inside(t) == th[t].pc \in InRestartByID

Neutral ==
  /\ restartMu' = restartMu
  /\ \A t \in Workers :
       /\ Inside(t)' <=> Inside(t)
       /\ Inside(t) => th'[t].ws = th[t].ws

LEMMA NeutralKeepsMutex ==
  ASSUME RestartExclusive, Neutral
  PROVE  RestartExclusive'
  BY DEF RestartExclusive, Neutral, Inside, On

LEMMA BeginIsSound ==
  ASSUME TypeInv, NEW t \in Threads, NEW l \in PC \ InRestartByID, NEW w \in Ws,
         NEW S \in SUBSET Ws, Begin(t, l, w, S),
         StoreTypeOK', restartMu' = restartMu, expired' \subseteq expired,
         crashes' = crashes
  PROVE  TypeInv' /\ Neutral
<1>1. /\ ThreadsOK' /\ Still({t})
      /\ th[t].pc = "idle" /\ th'[t].pc = l
  BY BeginMoves DEF TypeInv, TypeOK, ThreadsOK
<1> QED
  BY <1>1 DEF TypeInv, TypeOK, ThreadsOK, Still, Neutral, Inside, InRestartByID, Threads

LEMMA GotoIsSound ==
  ASSUME TypeInv, NEW t \in Threads, NEW l \in PC, Goto(t, l),
         th[t].pc \notin {"idle", "sw_local", "sw_remote"},
         l \in InRestartByID <=> th[t].pc \in InRestartByID,
         StoreTypeOK', restartMu' = restartMu, expired' = expired, crashes' = crashes
  PROVE  TypeInv' /\ Neutral
<1>1. th[t].ws \in Ws
  BY DEF TypeInv, Located
<1>2. /\ ThreadsOK' /\ Still({t})
      /\ th'[t].pc = l /\ th'[t].ws = th[t].ws
  BY <1>1, GotoMoves DEF TypeInv, TypeOK, ThreadsOK
<1> QED
  BY <1>2 DEF TypeInv, TypeOK, ThreadsOK, Still, Neutral, Inside, Threads

LEMMA DoneIsSound ==
  ASSUME TypeInv, NEW t \in Threads, Done(t), th[t].pc \notin InRestartByID,
         StoreTypeOK', restartMu' = restartMu, expired' = expired, crashes' = crashes
  PROVE  TypeInv' /\ Neutral
<1>1. ThreadsOK' /\ Still({t}) /\ th'[t].pc = "idle"
  BY DoneMoves DEF TypeInv, TypeOK, ThreadsOK
<1> QED
  BY <1>1 DEF TypeInv, TypeOK, ThreadsOK, Still, Neutral, Inside, InRestartByID, Threads

LEMMA AdvanceIsSound ==
  ASSUME TypeInv, NEW t \in Threads, NEW l \in PC \ InRestartByID, Advance(t, l),
         th[t].pc \notin InRestartByID \cup {"idle", "sw_local", "sw_remote"},
         StoreTypeOK', restartMu' = restartMu, expired' = expired, crashes' = crashes
  PROVE  TypeInv' /\ Neutral
<1>1. th[t].ws \in Ws
  BY DEF TypeInv, Located
<1>2. ThreadsOK' /\ Still({t}) /\ th'[t].pc \in {"idle", l}
  BY <1>1, AdvanceMoves DEF TypeInv, TypeOK, ThreadsOK
<1> QED
  BY <1>2 DEF TypeInv, TypeOK, ThreadsOK, Still, Neutral, Inside, InRestartByID, Threads

\* The loop of t takes up x: Pause, Delete and Collapse.
LEMMA TakesUpIsSound ==
  ASSUME TypeInv, NEW t \in Threads, NEW l \in PC \ InRestartByID, NEW x \in Ws,
         th' = [th EXCEPT ![t].pc = l, ![t].ws = x], th[t].pc \notin InRestartByID,
         StoreTypeOK', restartMu' = restartMu, expired' = expired, crashes' = crashes
  PROVE  TypeInv' /\ Neutral
<1>1. ThreadsOK' /\ Still({t}) /\ th'[t].pc = l
  BY DEF TypeInv, TypeOK, ThreadsOK, Located, Still, Thread
<1> QED
  BY <1>1 DEF TypeInv, TypeOK, ThreadsOK, Still, Neutral, Inside, Threads

LEMMA ForkIsSound ==
  ASSUME TypeInv, NEW t \in Threads, NEW u, NEW next \in Thread, NEW job \in Thread,
         Fork(t, next, u, job),
         next.pc \notin InRestartByID, job.pc \notin InRestartByID,
         th[t].pc \notin InRestartByID,
         next.pc \notin {"idle", "sw_local", "sw_remote"} => next.ws \in Ws,
         job.pc \notin {"idle", "sw_local", "sw_remote"} => job.ws \in Ws,
         StoreTypeOK', restartMu' = restartMu, expired' = expired, crashes' = crashes
  PROVE  TypeInv' /\ Neutral
<1>1. /\ ThreadsOK' /\ Still({t, u})
      /\ u \in Workers /\ u # t /\ th[u].pc = "idle"
      /\ th'[t] = next /\ th'[u] = job
  BY ForkMoves DEF TypeInv, TypeOK, ThreadsOK
<1> QED
  BY <1>1 DEF TypeInv, TypeOK, ThreadsOK, Still, Neutral, Inside, InRestartByID, Threads

(***************************************************************************)
(* The first step of every request.                                        *)
(***************************************************************************)
LEMMA ArrivalsPreserve ==
  ASSUME TypeInv, NEW t \in Workers, NEW w \in Ws, Arrives(t, w)
  PROVE  TypeInv' /\ Neutral
<1> USE DEF TypeInv, TypeOK, StoreTypeOK, PC, InRestartByID
<1>0. t \in Threads
  BY DEF Threads
<1>1. CASE Create(t, w)
  BY <1>0, <1>1, BeginIsSound DEF Create, Insert, Status
<1>2. CASE Expand(t, w)
  <2>1. StoreTypeOK'
    BY <1>2 DEF Expand, Insert, Status
  <2>2. CASE Begin(t, "xp_start", w, {})
    BY <1>0, <1>2, <2>1, <2>2, BeginIsSound DEF Expand
  <2>3. CASE UNCHANGED th
    BY <1>2, <2>1, <2>3 DEF Expand, Located, Neutral, Inside
  <2> QED
    BY <1>2, <2>2, <2>3 DEF Expand
<1>3. CASE Collapse(t, w)
  BY <1>0, <1>3, BeginIsSound, QueriesAreRows DEF Collapse, store
<1>4. CASE Register(t, w)
  BY <1>0, <1>4, BeginIsSound DEF Register, store
<1>5. CASE Heartbeat(t, w)
  BY <1>0, <1>5, BeginIsSound DEF Heartbeat, store
<1>6. CASE Proxy(t, w)
  BY <1>0, <1>6, BeginIsSound, RedisKeepsType DEF Proxy, Keys
<1>7. CASE RequestRestart(t, w)
  BY <1>0, <1>7, BeginIsSound DEF RequestRestart, store
<1>8. CASE Restart(t, w)
  BY <1>0, <1>8, BeginIsSound DEF Restart, store
<1>9. CASE Pause(t, w)
  BY <1>0, <1>9, BeginIsSound, QueriesAreRows, BelowIsFiltered DEF Pause, store
<1>10. CASE Resume(t, w)
  BY <1>0, <1>10, BeginIsSound DEF Resume, store
<1>11. CASE Delete(t, w)
  BY <1>0, <1>11, BeginIsSound, QueriesAreRows, BelowIsFiltered DEF Delete, store
<1> QED
  BY <1>1, <1>2, <1>3, <1>4, <1>5, <1>6, <1>7, <1>8, <1>9, <1>10, <1>11 DEF Arrives

(***************************************************************************)
(* Every later statement of a request, RestartByID's mutex apart.          *)
(***************************************************************************)
LEMMA ProvisionPreserves ==
  ASSUME TypeInv, NEW t \in Workers,
         \/ CreateExternal(t) \/ StartReplaces(t) \/ StartCreates(t) \/ StartFails(t)
         \/ ProvisionFailed(t) \/ ProvisionStoresURL(t) \/ ProvisionCachesURL(t)
  PROVE  TypeInv' /\ Neutral
<1> USE DEF TypeInv, TypeOK, StoreTypeOK, PC, InRestartByID, At, Mark
<1>0. t \in Threads
  BY DEF Threads
<1>1. CASE CreateExternal(t)
  <2>1. StoreTypeOK'
    BY <1>1, MarkKeepsType, RedisKeepsType DEF CreateExternal, Status, Keys
  <2> QED
    BY <1>0, <1>1, <2>1, DoneIsSound DEF CreateExternal
<1>2. CASE StartReplaces(t)
  BY <1>0, <1>2, GotoIsSound, StopKeepsType DEF StartReplaces
<1>3. CASE StartCreates(t)
  BY <1>0, <1>3, GotoIsSound, DoneIsSound DEF StartCreates
<1>4. CASE StartFails(t)
  BY <1>0, <1>4, GotoIsSound, DoneIsSound DEF StartFails, store
<1>5. CASE ProvisionFailed(t)
  BY <1>0, <1>5, DoneIsSound, MarkKeepsType DEF ProvisionFailed, Status
<1>6. CASE ProvisionStoresURL(t)
  BY <1>0, <1>6, GotoIsSound DEF ProvisionStoresURL
<1>7. CASE ProvisionCachesURL(t)
  BY <1>0, <1>7, DoneIsSound, RedisKeepsType DEF ProvisionCachesURL, Keys
<1> QED
  BY <1>1, <1>2, <1>3, <1>4, <1>5, <1>6, <1>7

LEMMA AgentsPreserve ==
  ASSUME TypeInv, NEW t \in Workers,
         \/ RegisterUpserts(t) \/ RegisterSetsKeys(t)
         \/ EvaluateReads(t) \/ EvaluateWrites(t)
         \/ ProxyReturns(t) \/ ProxyMarks(t) \/ ProxyClears(t)
  PROVE  TypeInv' /\ Neutral
<1> USE DEF TypeInv, TypeOK, StoreTypeOK, PC, InRestartByID, At, Mark
<1>0. t \in Threads
  BY DEF Threads
<1>1. CASE RegisterUpserts(t)
  <2>1. StoreTypeOK'
    BY <1>1 DEF RegisterUpserts, Status
  <2> QED
    BY <1>0, <1>1, <2>1, GotoIsSound DEF RegisterUpserts
<1>2. CASE RegisterSetsKeys(t)
  BY <1>0, <1>2, DoneIsSound, RedisKeepsType DEF RegisterSetsKeys, Keys
<1>3. CASE EvaluateReads(t)
  <2>1. \/ \E l \in {"hb_degrade", "hb_heal", "hb_back"} : Goto(t, l)
        \/ Done(t)
    BY <1>3 DEF EvaluateReads
  <2> QED
    BY <1>0, <1>3, <2>1, GotoIsSound, DoneIsSound DEF EvaluateReads, store
<1>4. CASE EvaluateWrites(t)
  <2>1. row' \in [Ws -> Status]
    BY <1>4, MarkKeepsType DEF EvaluateWrites, Status
  <2> QED
    BY <1>0, <1>4, <2>1, DoneIsSound DEF EvaluateWrites
<1>5. CASE ProxyReturns(t)
  BY <1>0, <1>5, GotoIsSound, DoneIsSound DEF ProxyReturns, store
<1>6. CASE ProxyMarks(t)
  BY <1>0, <1>6, GotoIsSound, MarkKeepsType DEF ProxyMarks, Status
<1>7. CASE ProxyClears(t)
  BY <1>0, <1>7, GotoIsSound, RedisKeepsType DEF ProxyClears
<1> QED
  BY <1>1, <1>2, <1>3, <1>4, <1>5, <1>6, <1>7

LEMMA HandlersPreserve ==
  ASSUME TypeInv, NEW t \in Workers,
         \/ RestartStops(t) \/ RestartMarks(t)
         \/ HandlerChecksParent(t) \/ HandlerStops(t) \/ HandlerMarks(t)
         \/ PauseMarks(t) \/ PauseClears(t) \/ ResumeChecksParent(t)
         \/ DeleteMarks(t) \/ DeleteClears(t) \/ CollapseMarks(t)
  PROVE  TypeInv' /\ Neutral
<1> USE DEF TypeInv, TypeOK, StoreTypeOK, PC, InRestartByID, At, Mark
<1>0. t \in Threads
  BY DEF Threads
<1>1. CASE RestartStops(t)
  BY <1>0, <1>1, GotoIsSound, StopKeepsType DEF RestartStops
<1>2. CASE RestartMarks(t)
  BY <1>0, <1>2, GotoIsSound, MarkKeepsType DEF RestartMarks, Status
<1>3. CASE HandlerChecksParent(t)
  BY <1>0, <1>3, GotoIsSound, DoneIsSound DEF HandlerChecksParent, store
<1>4. CASE HandlerStops(t)
  BY <1>0, <1>4, GotoIsSound, StopKeepsType DEF HandlerStops
<1>5. CASE HandlerMarks(t)
  BY <1>0, <1>5, GotoIsSound, MarkKeepsType DEF HandlerMarks, Status
<1>6. CASE PauseMarks(t)
  BY <1>0, <1>6, GotoIsSound, MarkKeepsType DEF PauseMarks, Status
<1>7. CASE PauseClears(t)
  BY <1>0, <1>7, AdvanceIsSound, RedisKeepsType DEF PauseClears
<1>8. CASE ResumeChecksParent(t)
  <2>1. CASE Done(t)
    BY <1>0, <1>8, <2>1, DoneIsSound DEF ResumeChecksParent, store
  <2>2. CASE th' = [th EXCEPT ![t].pc = "re_next",
                      ![t].todo = {On(t)} \cup Below(On(t), WithStatus({"paused"}))]
    <3> DEFINE S == {On(t)} \cup Below(On(t), WithStatus({"paused"}))
    <3>1. S \subseteq Ws
      BY <1>0, <1>8, QueriesAreRows, BelowIsFiltered DEF ResumeChecksParent, Located, On
    <3>2. ThreadsOK' /\ Still({t}) /\ th'[t].pc = "re_next"
      <4>1. th' = [th EXCEPT ![t].pc = "re_next", ![t].todo = S]
        BY <2>2
      <4>2. ThreadsOK /\ th[t].ws \in Ws /\ "re_next" \in PC
        BY <1>0, <1>8 DEF ResumeChecksParent, ThreadsOK, Located
      <4> HIDE DEF S
      <4> QED  BY ONLY <1>0, <3>1, <4>1, <4>2, PlanMoves
    <3> QED
      BY <1>0, <1>8, <3>2 DEF ResumeChecksParent, ThreadsOK, Still, Neutral, Inside,
                             Threads, store
  <2> QED
    BY <1>8, <2>1, <2>2 DEF ResumeChecksParent
<1>9. CASE DeleteMarks(t)
  BY <1>0, <1>9, GotoIsSound, MarkAllKeepsType DEF DeleteMarks, Status
<1>10. CASE DeleteClears(t)
  BY <1>0, <1>10, AdvanceIsSound, RedisKeepsType DEF DeleteClears
<1>11. CASE CollapseMarks(t)
  BY <1>0, <1>11, AdvanceIsSound, MarkKeepsType DEF CollapseMarks, Status
<1> QED
  BY <1>1, <1>2, <1>3, <1>4, <1>5, <1>6, <1>7, <1>8, <1>9, <1>10, <1>11

LEMMA LoopsPreserve ==
  ASSUME TypeInv, NEW t \in Workers, NEW x \in Ws,
         \/ PauseStops(t, x) \/ ResumeNext(t, x)
         \/ DeleteStops(t, x) \/ CollapseStops(t, x)
  PROVE  TypeInv' /\ Neutral
<1> USE DEF TypeInv, TypeOK, StoreTypeOK, PC, InRestartByID, At, Mark
<1>0. t \in Threads
  BY DEF Threads
<1>1. CASE PauseStops(t, x)
  BY <1>0, <1>1, TakesUpIsSound, StopKeepsType DEF PauseStops
<1>2. CASE DeleteStops(t, x)
  BY <1>0, <1>2, TakesUpIsSound, StopKeepsType DEF DeleteStops
<1>3. CASE CollapseStops(t, x)
  BY <1>0, <1>3, TakesUpIsSound, StopKeepsType DEF CollapseStops
<1>4. CASE ResumeNext(t, x)
  <2>1. StoreTypeOK'
    BY <1>4, MarkKeepsType DEF ResumeNext, Status
  <2>2. /\ Job("pv_start", x, {}) \in Thread
        /\ Job("pv_start", x, {}).pc = "pv_start"
        /\ Job("pv_start", x, {}).ws = x
    BY JobIsThread
  <2>3. CASE th' = [th EXCEPT ![t] = Job("pv_start", x, {})]
    <3>1. ThreadsOK' /\ Still({t}) /\ th'[t].pc = "pv_start"
      BY <1>0, <2>2, <2>3 DEF ThreadsOK, Located, Still
    <3> QED
      BY <1>0, <1>4, <2>1, <3>1 DEF ResumeNext, ThreadsOK, Still, Neutral, Inside, Threads
  <2>4. ASSUME NEW u \in Workers,
               Fork(t, [th[t] EXCEPT !.todo = @ \ {x}], u, Job("pv_start", x, {}))
        PROVE  TypeInv' /\ Neutral
    <3> DEFINE next == [th[t] EXCEPT !.todo = @ \ {x}]
    <3>1. next \in Thread /\ next.pc = "re_next" /\ next.ws = th[t].ws
      BY <1>0, <1>4 DEF ResumeNext, Thread
    <3>2. th[t].ws \in Ws
      BY <1>0, <1>4 DEF ResumeNext, Located
    <3> HIDE DEF next
    <3> QED
      BY <1>0, <1>4, <2>1, <2>2, <2>4, <3>1, <3>2, ForkIsSound DEF ResumeNext, next
  <2> QED
    BY <1>4, <2>3, <2>4 DEF ResumeNext
<1> QED
  BY <1>1, <1>2, <1>3, <1>4

(***************************************************************************)
(* RestartByID: where the mutex is taken and where it is released.         *)
(***************************************************************************)
LEMMA LockPreserves ==
  ASSUME TypeInv, NEW t \in Workers, RestartLocks(t)
  PROVE  TypeInv' /\ (RestartExclusive => RestartExclusive')
<1>0. t \in Threads /\ th[t].ws \in Ws
  BY DEF Threads, TypeInv, Located, RestartLocks, At
<1>1. CASE On(t) \in restartMu
  <2>1. TypeInv' /\ Neutral
    BY <1>0, <1>1, DoneIsSound DEF RestartLocks, At, InRestartByID, store, TypeInv, TypeOK,
                                   StoreTypeOK
  <2> QED
    BY <2>1, NeutralKeepsMutex
<1>2. CASE On(t) \notin restartMu
  <2>1. /\ ThreadsOK' /\ Still({t})
        /\ th'[t].pc = "rs_select" /\ th'[t].ws = th[t].ws
    BY <1>0, <1>2, GotoMoves DEF RestartLocks, TypeInv, TypeOK, ThreadsOK, PC, InRestartByID
  <2>2. TypeInv'
    BY <1>0, <1>2, <2>1 DEF RestartLocks, TypeInv, TypeOK, StoreTypeOK, ThreadsOK, store, On
  <2>3. ASSUME RestartExclusive PROVE RestartExclusive'
    <3>1. /\ restartMu' = restartMu \cup {On(t)}
          /\ th[t].pc \notin InRestartByID /\ th'[t].pc \in InRestartByID
          /\ On(t)' = On(t)
          /\ \A u \in Workers \ {t} : th'[u] = th[u]
      BY <1>2, <2>1 DEF RestartLocks, At, InRestartByID, Still, Threads, On
    <3> QED
      BY <1>2, <2>3, <3>1 DEF RestartExclusive, On
  <2> QED
    BY <2>2, <2>3
<1> QED
  BY <1>1, <1>2

\* The return paths and the last statement of RestartByID.
LEMMA UnlockPreserves ==
  ASSUME TypeInv, NEW t \in Workers, th[t].pc \in InRestartByID, Unlock(t),
         Done(t) \/ Goto(t, "pv_start"), UNCHANGED <<store, expired, crashes>>
  PROVE  TypeInv' /\ (RestartExclusive => RestartExclusive')
<1>0. t \in Threads /\ th[t].ws \in Ws
  BY DEF Threads, TypeInv, Located, InRestartByID
<1>1. ThreadsOK' /\ Still({t}) /\ th'[t].pc \in {"idle", "pv_start"}
  BY <1>0, GotoMoves, DoneMoves DEF TypeInv, TypeOK, ThreadsOK, PC
<1>2. TypeInv'
  BY <1>1 DEF TypeInv, TypeOK, StoreTypeOK, ThreadsOK, store, Unlock
<1>3. ASSUME RestartExclusive PROVE RestartExclusive'
  <2>1. /\ restartMu' = restartMu \ {On(t)}
        /\ th'[t].pc \notin InRestartByID
        /\ \A u \in Workers \ {t} : th'[u] = th[u]
    BY <1>1 DEF Unlock, InRestartByID, Still, Threads
  <2> QED
    BY <1>3, <2>1 DEF RestartExclusive, On
<1> QED
  BY <1>2, <1>3

LEMMA RestartPreserves ==
  ASSUME TypeInv, NEW t \in Workers,
         \/ RestartLocks(t) \/ RestartSelects(t) \/ RestartChecksParent(t)
         \/ RestartProvisions(t)
  PROVE  TypeInv' /\ (RestartExclusive => RestartExclusive')
<1> USE DEF At, InRestartByID
<1>0. t \in Threads
  BY DEF Threads
<1>1. CASE UNCHANGED restartMu /\ RestartSelects(t) /\ Goto(t, "rs_parent")
  BY <1>0, <1>1, GotoIsSound, NeutralKeepsMutex
     DEF RestartSelects, store, TypeInv, TypeOK, StoreTypeOK, PC
<1>2. CASE UNCHANGED restartMu /\ RestartChecksParent(t) /\ Goto(t, "rs_stop")
  BY <1>0, <1>2, GotoIsSound, NeutralKeepsMutex
     DEF RestartChecksParent, store, TypeInv, TypeOK, StoreTypeOK, PC
<1>3. CASE RestartLocks(t)
  BY <1>3, LockPreserves
<1>4. CASE RestartProvisions(t)
  BY <1>4, UnlockPreserves DEF RestartProvisions
<1>5. CASE RestartSelects(t)
  BY <1>1, <1>5, UnlockPreserves DEF RestartSelects
<1>6. CASE RestartChecksParent(t)
  BY <1>2, <1>6, UnlockPreserves DEF RestartChecksParent
<1> QED
  BY <1>3, <1>4, <1>5, <1>6

(***************************************************************************)
(* The sweeper, the liveness monitor and the environment.                  *)
(***************************************************************************)
LEMMA SweeperIsNoWorker == Sweeper \in Threads /\ Sweeper \notin Workers
  BY LifecycleAssumption DEF Threads

\* The sweeper's own moves within one pass.
LEMMA SweeperMoves ==
  ASSUME TypeInv, NEW s \in Thread, th' = [th EXCEPT ![Sweeper] = s],
         s.pc \notin {"idle", "sw_local", "sw_remote"} => s.ws \in Ws,
         StoreTypeOK', restartMu' = restartMu, expired' = expired, crashes' = crashes
  PROVE  TypeInv' /\ Neutral
<1>1. ThreadsOK' /\ \A t \in Workers : th'[t] = th[t]
  BY SweeperIsNoWorker DEF TypeInv, TypeOK, ThreadsOK, Located, Threads
<1> QED
  BY <1>1 DEF TypeInv, TypeOK, ThreadsOK, Neutral, Inside

LEMMA SweepsPreserve ==
  ASSUME TypeInv, Sweeps
  PROVE  TypeInv' /\ Neutral
<1> USE DEF TypeInv, TypeOK, StoreTypeOK, At, Mark
<1>0. th[Sweeper] \in Thread
  BY SweeperIsNoWorker
<1>1. CASE SweepBegins
  <2>1. Sweepable(Ws \ Remote) \in SUBSET Ws
    BY DEF Sweepable
  <2>2. "sw_local" \in PC /\ NoWs \in Ws \cup {NoWs}
    BY DEF PC
  <2>3. /\ Job("sw_local", NoWs, Sweepable(Ws \ Remote)) \in Thread
        /\ Job("sw_local", NoWs, Sweepable(Ws \ Remote)).pc = "sw_local"
    BY <2>1, <2>2 DEF Job, Thread
  <2> QED
    BY <1>1, <2>3, SweeperMoves DEF SweepBegins, Begin, store
<1>2. CASE SweepMarks
  <2>1. th' = [th EXCEPT ![Sweeper] = [th[Sweeper] EXCEPT !.pc = "sw_clear"]]
    BY <1>2 DEF SweepMarks, Goto
  <2>2. /\ [th[Sweeper] EXCEPT !.pc = "sw_clear"] \in Thread
        /\ [th[Sweeper] EXCEPT !.pc = "sw_clear"].ws \in Ws
    BY <1>0, <1>2, SweeperIsNoWorker DEF SweepMarks, Located, Thread, PC
  <2>3. StoreTypeOK'
    BY <1>2, MarkKeepsType DEF SweepMarks, Status
  <2> QED
    BY <1>2, <2>1, <2>2, <2>3, SweeperMoves DEF SweepMarks
<1>3. CASE SweepTurnsToRemote
  <2> PICK stale \in SUBSET Sweepable(Remote) :
             th' = [th EXCEPT ![Sweeper].pc = "sw_remote", ![Sweeper].todo = stale]
    BY <1>3 DEF SweepTurnsToRemote
  <2> DEFINE s == [th[Sweeper] EXCEPT !.pc = "sw_remote", !.todo = stale]
  <2>1. stale \subseteq Ws
    BY StoreAssumption DEF Sweepable
  <2>2. s \in Thread /\ s.pc = "sw_remote"
    BY <1>0, <2>1 DEF Thread, PC
  <2>3. th' = [th EXCEPT ![Sweeper] = s]
    BY SweeperIsNoWorker
  <2> HIDE DEF s
  <2> QED
    BY <1>3, <2>2, <2>3, SweeperMoves DEF SweepTurnsToRemote, store
<1>4. CASE SweepEnds
  <2>1. Idle \in Thread /\ Idle.pc = "idle"
    BY IdleIsThread DEF Idle
  <2> QED
    BY <1>4, <2>1, SweeperMoves DEF SweepEnds, Done, store
<1>5. ASSUME NEW w \in Ws, SweepChecks(w) PROVE TypeInv' /\ Neutral
  <2>1. \E l \in {"sw_local", "sw_mark"}, x \in Ws \cup {NoWs} :
          /\ l = "sw_mark" => x \in Ws
          /\ th' = [th EXCEPT ![Sweeper].todo = @ \ {w}, ![Sweeper].pc = l, ![Sweeper].ws = x]
    BY <1>5 DEF SweepChecks
  <2> PICK l \in {"sw_local", "sw_mark"}, x \in Ws \cup {NoWs} :
          /\ l = "sw_mark" => x \in Ws
          /\ th' = [th EXCEPT ![Sweeper].todo = @ \ {w}, ![Sweeper].pc = l, ![Sweeper].ws = x]
    BY <2>1
  <2> DEFINE s == [th[Sweeper] EXCEPT !.todo = @ \ {w}, !.pc = l, !.ws = x]
  <2>2. s \in Thread /\ s.pc = l /\ s.ws = x
    BY <1>0 DEF Thread, PC
  <2>3. th' = [th EXCEPT ![Sweeper] = s]
    BY SweeperIsNoWorker
  <2> HIDE DEF s
  <2> QED
    BY <1>5, <2>2, <2>3, SweeperMoves DEF SweepChecks, store
<1>6. ASSUME NEW w \in Ws, SweepMarksRemote(w) PROVE TypeInv' /\ Neutral
  <2> DEFINE s == [th[Sweeper] EXCEPT !.todo = @ \ {w}, !.ws = w, !.pc = "sw_rclear"]
  <2>1. s \in Thread /\ s.ws = w
    BY <1>0 DEF Thread, PC
  <2>2. th' = [th EXCEPT ![Sweeper] = s]
    BY <1>6, SweeperIsNoWorker DEF SweepMarksRemote
  <2>3. StoreTypeOK'
    BY <1>6, MarkKeepsType DEF SweepMarksRemote, Status
  <2> HIDE DEF s
  <2> QED
    BY <1>6, <2>1, <2>2, <2>3, SweeperMoves DEF SweepMarksRemote
<1>7. ASSUME NEW u \in Workers, SweepClears(u) PROVE TypeInv' /\ Neutral
  <2>1. th[Sweeper].ws \in Ws /\ th[Sweeper].pc \notin InRestartByID
    BY <1>7, SweeperIsNoWorker DEF SweepClears, Located, InRestartByID
  <2> DEFINE job == Job("rs_lock", On(Sweeper), {})
             next == [th[Sweeper] EXCEPT !.ws = NoWs,
                        !.pc = IF At(Sweeper, "sw_clear") THEN "sw_local" ELSE "sw_remote"]
  <2>6. "rs_lock" \in PC /\ On(Sweeper) \in Ws
    BY <2>1 DEF PC, On
  <2>2. job \in Thread /\ job.pc = "rs_lock" /\ job.ws \in Ws
    BY <2>6, JobIsThread
  <2>3. next \in Thread /\ next.pc \in {"sw_local", "sw_remote"}
    BY <1>0 DEF Thread, PC
  <2>4. StoreTypeOK'
    BY <1>7, RedisKeepsType DEF SweepClears
  <2>5. Fork(Sweeper, next, u, job)
    BY <1>7 DEF SweepClears
  <2> HIDE DEF job, next
  <2> QED
    BY <1>7, <2>1, <2>2, <2>3, <2>4, <2>5, SweeperIsNoWorker, ForkIsSound
       DEF SweepClears, InRestartByID
<1> QED
  BY <1>1, <1>2, <1>3, <1>4, <1>5, <1>6, <1>7 DEF Sweeps

LEMMA MonitorPreserves ==
  ASSUME TypeInv, NEW w \in Ws, NEW u \in Workers, LivenessMonitor(w, u)
  PROVE  TypeInv' /\ Neutral
<1>1. StoreTypeOK'
  BY MarkKeepsType DEF LivenessMonitor, TypeInv, TypeOK, StoreTypeOK, Status
<1> QED
  BY <1>1, BeginIsSound DEF LivenessMonitor, Threads, PC, InRestartByID

LEMMA EnvironmentPreserves ==
  ASSUME TypeInv, Environment
  PROVE  TypeInv' /\ (RestartExclusive => RestartExclusive')
<1> USE DEF TypeInv, TypeOK, StoreTypeOK
<1>1. CASE Crash
  <2>1. ThreadsOK'
    BY <1>1, IdleIsThread DEF Crash, ThreadsOK, Located, Idle
  <2>2. redis' \in [Ws -> SUBSET Keys] /\ crashes' \in 0..MaxCrashes
    BY <1>1, LifecycleAssumption DEF Crash
  <2>3. TypeInv'
    BY <1>1, <2>1, <2>2 DEF Crash, ThreadsOK
  <2>4. \A t \in Workers : th'[t].pc \notin InRestartByID
    BY <1>1 DEF Crash, Idle, InRestartByID, Threads
  <2> QED
    BY <1>1, <2>3, <2>4 DEF Crash, RestartExclusive
<1>2. ASSUME NEW w \in Ws,
             \/ ExpireLiveKey(w) \/ ExpireURLKey(w)
             \/ ContainerDies(w) \/ ContainerRespawns(w)
      PROVE  TypeInv' /\ (RestartExclusive => RestartExclusive')
  <2>1. StoreTypeOK' /\ expired' \subseteq Ws
    BY <1>2 DEF ExpireLiveKey, ExpireURLKey, ContainerDies, ContainerRespawns, control
  <2>2. UNCHANGED <<th, restartMu, crashes>>
    BY <1>2 DEF ExpireLiveKey, ExpireURLKey, ContainerDies, ContainerRespawns, control
  <2> QED
    BY <2>1, <2>2 DEF Located, RestartExclusive, On
<1> QED
  BY <1>1, <1>2 DEF Environment

-----------------------------------------------------------------------------
LEMMA InitIsTyped == Init => TypeInv /\ RestartExclusive
<1> SUFFICES ASSUME Init PROVE TypeInv /\ RestartExclusive
  OBVIOUS
<1>1. StoreTypeOK
  BY DEF Init, StoreInit, StoreTypeOK, Status, Keys
<1>2. ThreadsOK
  BY IdleIsThread DEF Init, ThreadsOK, Located, Idle
<1>3. TypeInv
  BY <1>1, <1>2, LifecycleAssumption DEF Init, TypeInv, TypeOK, ThreadsOK
<1>4. RestartExclusive
  BY DEF Init, RestartExclusive, Idle, InRestartByID, Threads
<1> QED
  BY <1>3, <1>4

LEMMA StepPreserves ==
  TypeInv /\ [Next]_vars => TypeInv' /\ (RestartExclusive => RestartExclusive')
<1> SUFFICES ASSUME TypeInv, [Next]_vars
             PROVE  TypeInv' /\ (RestartExclusive => RestartExclusive')
  OBVIOUS
<1>1. ASSUME NEW t \in Workers, NEW w \in Ws, Arrives(t, w)
      PROVE  TypeInv' /\ (RestartExclusive => RestartExclusive')
  BY <1>1, ArrivalsPreserve, NeutralKeepsMutex
<1>2. ASSUME NEW t \in Workers, Works(t)
      PROVE  TypeInv' /\ (RestartExclusive => RestartExclusive')
  BY <1>2, ProvisionPreserves, AgentsPreserve, HandlersPreserve, LoopsPreserve,
     RestartPreserves, NeutralKeepsMutex DEF Works
<1>3. CASE Sweeps
  BY <1>3, SweepsPreserve, NeutralKeepsMutex
<1>4. CASE Monitors
  BY <1>4, MonitorPreserves, NeutralKeepsMutex DEF Monitors
<1>5. CASE Environment
  BY <1>5, EnvironmentPreserves
<1>6. CASE UNCHANGED vars
  BY <1>6 DEF vars, store, control, TypeInv, TypeOK, StoreTypeOK, Located, RestartExclusive, On
<1> QED
  BY <1>1, <1>2, <1>3, <1>4, <1>5, <1>6 DEF Next

(***************************************************************************)
(* Every reachable state is well typed.                                    *)
(***************************************************************************)
THEOREM TypeCorrect == Spec => []TypeOK
<1>1. TypeInv => TypeOK
  BY DEF TypeInv
<1> QED
  BY <1>1, InitIsTyped, StepPreserves, PTL DEF Spec

(***************************************************************************)
(* The restart mutex of a workspace is locked exactly while one goroutine  *)
(* is between TryLock and the deferred Unlock of RestartByID: no return    *)
(* path leaks it, no two restarts of one workspace are inside together,    *)
(* for any number of workspaces and goroutines and across process          *)
(* restarts.                                                               *)
(***************************************************************************)
THEOREM RestartsExclude == Spec => []RestartExclusive
<1>1. TypeInv /\ RestartExclusive /\ [Next]_vars => (TypeInv /\ RestartExclusive)'
  BY StepPreserves
<1> QED
  BY <1>1, InitIsTyped, PTL DEF Spec

-----------------------------------------------------------------------------
(***************************************************************************)
(* What a goroutine that has only ever seen its workspace removed can do.  *)
(***************************************************************************)

(***************************************************************************)
(* Where such a goroutine can be: every path that leads on to a write by   *)
(* id alone or to Start turns back at a status check before it, but for    *)
(* the Restart handler, which has none.                                    *)
(***************************************************************************)
LatePC ==
  {"reg_upsert", "reg_redis", "hb_read", "px_forward", "px_mark", "px_clear",
   "rs_lock", "rs_select", "rt_parent", "rt_stop", "rt_mark",
   "de_mark", "de_stop", "de_clear", "co_stop", "co_mark"}

LateInv ==
  \A t \in late :
    /\ t \in Workers /\ th[t] # Idle
    /\ th[t].pc \in LatePC
    /\ row[th[t].ws] = "removed"

-----------------------------------------------------------------------------
(***************************************************************************)
(* Most statements leave a removed workspace removed and create no         *)
(* container for it.                                                       *)
(***************************************************************************)
Kept(w) == row'[w] = "removed" /\ ~Created(w)

LEMMA ArrivalsKeep ==
  ASSUME TypeInv, NEW w \in Ws, row[w] = "removed",
         NEW t \in Workers, NEW v \in Ws, Arrives(t, v)
  PROVE  Kept(w)
<1> USE DEF Kept, Created, TypeInv, TypeOK, StoreTypeOK
<1>1. UNCHANGED <<row, cont>> => Kept(w)
  OBVIOUS
<1>2. CASE Create(t, v) \/ Expand(t, v)
  BY <1>2 DEF Create, Expand, Insert
<1> QED
  BY <1>1, <1>2 DEF Arrives, Collapse, Register, Heartbeat, Proxy, RequestRestart, Restart,
                    Pause, Resume, Delete, store

LEMMA SweepsKeep ==
  ASSUME TypeInv, NEW w \in Ws, row[w] = "removed", Sweeps
  PROVE  Kept(w)
<1> USE DEF Kept, Created, TypeInv, TypeOK, StoreTypeOK
<1>1. UNCHANGED <<row, cont>> => Kept(w)
  OBVIOUS
<1>2. CASE SweepMarks
  BY <1>2 DEF SweepMarks, MarkUnless
<1>3. ASSUME NEW v \in Ws, SweepMarksRemote(v) PROVE Kept(w)
  BY <1>3 DEF SweepMarksRemote, MarkUnless
<1> QED
  BY <1>1, <1>2, <1>3
     DEF Sweeps, SweepBegins, SweepTurnsToRemote, SweepEnds, SweepChecks, SweepClears, store

LEMMA OthersKeep ==
  ASSUME TypeInv, NEW w \in Ws, row[w] = "removed", Monitors \/ Environment
  PROVE  Kept(w)
<1> USE DEF Kept, Created, TypeInv, TypeOK, StoreTypeOK
<1>1. CASE Monitors
  BY <1>1 DEF Monitors, LivenessMonitor, MarkUnless
<1>2. CASE Environment
  BY <1>2 DEF Environment, ExpireLiveKey, ExpireURLKey, ContainerDies, ContainerRespawns,
              Crash
<1> QED
  BY <1>1, <1>2

\* The statements of a request that look before they write, or write no status.
LEMMA GuardedKeep ==
  ASSUME TypeInv, NEW w \in Ws, row[w] = "removed", NEW t \in Workers,
         \/ StartReplaces(t) \/ StartFails(t) \/ ProvisionStoresURL(t)
         \/ ProvisionCachesURL(t) \/ RegisterUpserts(t) \/ RegisterSetsKeys(t)
         \/ EvaluateReads(t) \/ ProxyReturns(t) \/ ProxyMarks(t) \/ ProxyClears(t)
         \/ RestartLocks(t) \/ RestartSelects(t) \/ RestartChecksParent(t)
         \/ RestartStops(t) \/ RestartProvisions(t)
         \/ HandlerChecksParent(t) \/ HandlerStops(t)
         \/ PauseClears(t) \/ ResumeChecksParent(t)
         \/ DeleteMarks(t) \/ DeleteClears(t) \/ CollapseMarks(t)
         \/ \E x \in Ws : PauseStops(t, x) \/ DeleteStops(t, x) \/ CollapseStops(t, x)
  PROVE  Kept(w)
<1> USE DEF Kept, Created, TypeInv, TypeOK, StoreTypeOK
<1>1. row' = row /\ (cont' = cont \/ \E v : Stop(v)) => Kept(w)
  BY DEF Stop
<1>2. CASE RegisterUpserts(t)
  BY <1>2 DEF RegisterUpserts
<1>3. CASE ProxyMarks(t)
  BY <1>3 DEF ProxyMarks, MarkUnless
<1>4. CASE DeleteMarks(t)
  BY <1>4 DEF DeleteMarks, MarkAll
<1>5. CASE CollapseMarks(t)
  BY <1>5 DEF CollapseMarks, Mark, MarkUnless
<1> QED
  BY <1>1, <1>2, <1>3, <1>4, <1>5
     DEF StartReplaces, StartFails, ProvisionStoresURL, ProvisionCachesURL, RegisterSetsKeys,
         EvaluateReads, ProxyReturns, ProxyClears, RestartLocks, RestartSelects,
         RestartChecksParent, RestartStops, RestartProvisions, HandlerChecksParent,
         HandlerStops, PauseClears, ResumeChecksParent, DeleteClears, PauseStops, DeleteStops,
         CollapseStops, store

-----------------------------------------------------------------------------
(***************************************************************************)
(* The others: a removed workspace comes back only through a write by id   *)
(* alone, or as a container that Start creates.                            *)
(***************************************************************************)
ComesBack(t, w) ==
  /\ Moves(t)
  /\ w \in {On(t)} \cup th[t].todo
  /\ row'[w] # "removed" => th[t].pc \in Unguarded
  /\ th[t].pc \in Unguarded \cup {"pv_create", "xp_create"}

LEMMA MovedOn ==
  ASSUME TypeInv, NEW t \in Threads, NEW l, th[t].pc # l, Goto(t, l) \/ (l = "idle" /\ Done(t))
  PROVE  Moves(t)
  BY DEF TypeInv, TypeOK, Goto, Done, Moves, Idle, Thread

LEMMA UnguardedBringBack ==
  ASSUME TypeInv, NEW w \in Ws, row[w] = "removed", ~Kept(w), NEW t \in Workers, Works(t)
  PROVE  ComesBack(t, w)
<1> USE DEF Kept, Created, At, On, Unguarded, ComesBack
<1>0. t \in Threads
  BY DEF Threads
<1>t. row \in [Ws -> Status] /\ cont \in [Ws -> {"none", "running", "exited"}]
  BY DEF TypeInv, TypeOK, StoreTypeOK
<1>m. ASSUME NEW v, NEW s, NEW b, MarkUnless(v, s, b), cont' = cont
      PROVE  w = v /\ "removed" \notin b /\ row'[w] # "removed"
  BY <1>m, <1>t DEF MarkUnless
<1>1. CASE CreateExternal(t)
  BY <1>0, <1>1, <1>m, MovedOn DEF CreateExternal, Mark
<1>2. CASE StartCreates(t)
  <2>1. row' = row /\ w = On(t)
    BY <1>2, <1>t DEF StartCreates
  <2> QED
    BY <1>0, <1>2, <2>1, MovedOn DEF StartCreates
<1>3. CASE ProvisionFailed(t)
  BY <1>0, <1>3, <1>m, MovedOn DEF ProvisionFailed, Mark
<1>4. CASE EvaluateWrites(t)
  <2>1. ~At(t, "hb_back")
    BY <1>4, <1>m DEF EvaluateWrites, Status
  <2> QED
    BY <1>0, <1>4, <1>m, <2>1, MovedOn DEF EvaluateWrites, Mark
<1>5. CASE RestartMarks(t)
  BY <1>0, <1>5, <1>m, MovedOn DEF RestartMarks, Mark
<1>6. CASE HandlerMarks(t)
  BY <1>0, <1>6, <1>m, MovedOn DEF HandlerMarks, Mark
<1>7. CASE PauseMarks(t)
  BY <1>0, <1>7, <1>m, MovedOn DEF PauseMarks, Mark
<1>8. ASSUME NEW x \in Ws, ResumeNext(t, x) PROVE ComesBack(t, w)
  <2>1. w = x /\ row'[w] # "removed"
    BY <1>8, <1>m DEF ResumeNext, Mark
  <2>2. w \in th[t].todo /\ th[t].pc = "re_next"
    BY <1>8, <2>1 DEF ResumeNext, Topmost
  <2>3. \/ th'[t].pc = "pv_start"
        \/ th'[t].todo = th[t].todo \ {x}
    BY <1>0, <1>8 DEF ResumeNext, Fork, Job, TypeInv, TypeOK, Thread
  <2> QED
    BY <2>1, <2>2, <2>3 DEF Moves
<1> QED
  BY <1>1, <1>2, <1>3, <1>4, <1>5, <1>6, <1>7, <1>8, GuardedKeep DEF Works

-----------------------------------------------------------------------------
(***************************************************************************)
(* LateInv is inductive.                                                   *)
(***************************************************************************)

\* Among the statements of a request only Resume's loop starts a goroutine.
LEMMA OnlyResumeForks ==
  ASSUME NEW u \in Workers, Works(u), NEW t \in Workers, t # u, th'[t] # th[t],
         th \in [Threads -> Thread]
  PROVE  \E x \in Ws : ResumeNext(u, x)
<1> USE DEF Goto, Done, Advance, Threads
<1>1. \/ CreateExternal(u) \/ StartReplaces(u) \/ StartCreates(u) \/ StartFails(u)
      \/ ProvisionFailed(u) \/ ProvisionStoresURL(u) \/ ProvisionCachesURL(u)
      => FALSE
  BY DEF CreateExternal, StartReplaces, StartCreates, StartFails, ProvisionFailed,
         ProvisionStoresURL, ProvisionCachesURL
<1>2. \/ RegisterUpserts(u) \/ RegisterSetsKeys(u) \/ EvaluateReads(u) \/ EvaluateWrites(u)
      \/ ProxyReturns(u) \/ ProxyMarks(u) \/ ProxyClears(u)
      => FALSE
  BY DEF RegisterUpserts, RegisterSetsKeys, EvaluateReads, EvaluateWrites, ProxyReturns,
         ProxyMarks, ProxyClears
<1>3. \/ RestartLocks(u) \/ RestartSelects(u) \/ RestartChecksParent(u) \/ RestartStops(u)
      \/ RestartMarks(u) \/ RestartProvisions(u) \/ HandlerChecksParent(u)
      \/ HandlerStops(u) \/ HandlerMarks(u)
      => FALSE
  BY DEF RestartLocks, RestartSelects, RestartChecksParent, RestartStops, RestartMarks,
         RestartProvisions, HandlerChecksParent, HandlerStops, HandlerMarks
<1>4. \/ PauseMarks(u) \/ PauseClears(u) \/ ResumeChecksParent(u) \/ DeleteMarks(u)
      \/ DeleteClears(u) \/ CollapseMarks(u)
      \/ \E x \in Ws : PauseStops(u, x) \/ DeleteStops(u, x) \/ CollapseStops(u, x)
      => FALSE
  BY DEF PauseMarks, PauseClears, ResumeChecksParent, DeleteMarks, DeleteClears, CollapseMarks,
         PauseStops, DeleteStops, CollapseStops
<1> QED
  BY <1>1, <1>2, <1>3, <1>4 DEF Works

\* A goroutine that has just started on a removed workspace.
LEMMA StartsLate ==
  ASSUME TypeInv, NEW t \in Workers, th[t] = Idle, th'[t] # Idle, Next,
         row'[th'[t].ws] = "removed"
  PROVE  th'[t].pc \in LatePC
<1> USE DEF LatePC
<1>0. t \in Threads /\ th \in [Threads -> Thread] /\ row \in [Ws -> Status]
  BY DEF Threads, TypeInv, TypeOK, StoreTypeOK
<1>j. ASSUME NEW u \in Threads, NEW l, NEW w \in Ws, NEW S, Begin(u, l, w, S)
      PROVE  th'[t].pc = l /\ th'[t].ws = w
  BY <1>0, <1>j DEF Begin, Job
<1>f. ASSUME NEW u \in Threads, NEW v, NEW next, NEW w, NEW l,
             th[u].pc # "idle", Fork(u, next, v, Job(l, w, {}))
      PROVE  th'[t].pc = l /\ th'[t].ws = w
  BY <1>0, <1>f DEF Fork, Job, Idle, Threads
<1>1. ASSUME NEW u \in Workers, NEW w \in Ws, Arrives(u, w) PROVE th'[t].pc \in LatePC
  <2>0. u \in Threads
    BY DEF Threads
  <2>1. CASE Create(u, w)
    BY <1>0, <1>j, <2>0, <2>1 DEF Create, Insert
  <2>2. CASE Expand(u, w)
    BY <1>0, <1>j, <2>0, <2>2 DEF Expand, Insert
  <2>3. CASE Collapse(u, w)
    BY <1>j, <2>0, <2>3 DEF Collapse
  <2>4. CASE Pause(u, w)
    BY <1>j, <2>0, <2>4 DEF Pause, RowsNotIn, WithStatus, store
  <2>5. CASE Resume(u, w)
    BY <1>j, <2>0, <2>5 DEF Resume, store
  <2> QED
    BY <1>1, <1>j, <2>0, <2>1, <2>2, <2>3, <2>4, <2>5
       DEF Arrives, Register, Heartbeat, Proxy, RequestRestart, Restart, Delete
<1>2. ASSUME NEW u \in Workers, Works(u) PROVE th'[t].pc \in LatePC
  <2>0. u \in Threads
    BY DEF Threads
  <2>1. th[u].pc # "idle"
    BY <1>2 DEF Works, CreateExternal, StartReplaces, StartCreates, StartFails, ProvisionFailed,
         ProvisionStoresURL, ProvisionCachesURL, RegisterUpserts, RegisterSetsKeys,
         EvaluateReads, EvaluateWrites, ProxyReturns, ProxyMarks, ProxyClears, RestartLocks,
         RestartSelects, RestartChecksParent, RestartStops, RestartMarks, RestartProvisions,
         HandlerChecksParent, HandlerStops, HandlerMarks, PauseMarks, PauseClears,
         ResumeChecksParent, DeleteMarks, DeleteClears, CollapseMarks, PauseStops, ResumeNext,
         DeleteStops, CollapseStops, At
  <2>2. u # t
    BY <2>1 DEF Idle
  <2>3. \E x \in Ws : ResumeNext(u, x)
    BY <1>0, <1>2, <2>0, <2>2, OnlyResumeForks DEF Idle
  <2>4. PICK x \in Ws : ResumeNext(u, x)
    BY <2>3
  <2>5. \E next, v : Fork(u, next, v, Job("pv_start", x, {}))
    BY <1>0, <2>2, <2>4 DEF ResumeNext
  <2>6. th'[t].ws = x
    BY <1>f, <2>0, <2>1, <2>5
  <2>7. row'[x] # "removed"
    BY <1>0, <2>4 DEF ResumeNext, Mark, MarkUnless
  <2> QED
    BY <2>6, <2>7
<1>3. CASE Sweeps
  <2>1. \E u \in Workers : SweepClears(u)
    BY <1>0, <1>3, SweeperIsNoWorker
       DEF Sweeps, SweepBegins, SweepMarks, SweepTurnsToRemote, SweepEnds, SweepChecks,
           SweepMarksRemote, Begin, Goto, Done
  <2>2. PICK u \in Workers : SweepClears(u)
    BY <2>1
  <2>3. /\ th[Sweeper].pc # "idle"
        /\ \E next : Fork(Sweeper, next, u, Job("rs_lock", On(Sweeper), {}))
    BY <2>2 DEF SweepClears
  <2> QED
    BY <1>f, <2>3, SweeperIsNoWorker
<1>4. CASE Monitors
  BY <1>4, <1>j DEF Monitors, LivenessMonitor, Threads
<1>5. CASE Environment
  BY <1>0, <1>5
     DEF Environment, ExpireLiveKey, ExpireURLKey, ContainerDies, ContainerRespawns, Crash,
         control
<1> QED
  BY <1>1, <1>2, <1>3, <1>4, <1>5 DEF Next

\* A goroutine that goes on while its workspace stays removed.
LEMMA StaysLate ==
  ASSUME TypeInv, NEW t \in Workers, th[t] # Idle, th[t].pc \in LatePC,
         row[th[t].ws] = "removed", Next, th'[t] # Idle, row'[th'[t].ws] = "removed"
  PROVE  th'[t].pc \in LatePC
<1> USE DEF LatePC
<1>0. /\ t \in Threads /\ th \in [Threads -> Thread] /\ row \in [Ws -> Status]
      /\ th[t].ws \in Ws
  BY DEF Threads, TypeInv, TypeOK, StoreTypeOK, Located
<1>1. CASE th'[t] = th[t]
  BY <1>1
<1>2. ASSUME Works(t) PROVE th'[t].pc \in LatePC
  <2> USE DEF At
  <2>1. CASE \/ CreateExternal(t) \/ StartReplaces(t) \/ StartCreates(t) \/ StartFails(t)
             \/ ProvisionFailed(t) \/ ProvisionStoresURL(t) \/ ProvisionCachesURL(t)
             \/ EvaluateWrites(t)
             \/ RestartChecksParent(t) \/ RestartStops(t) \/ RestartMarks(t)
             \/ RestartProvisions(t) \/ PauseMarks(t) \/ PauseClears(t)
             \/ ResumeChecksParent(t)
             \/ \E x \in Ws : PauseStops(t, x) \/ ResumeNext(t, x)
    BY <2>1 DEF CreateExternal, StartReplaces, StartCreates, StartFails, ProvisionFailed,
         ProvisionStoresURL, ProvisionCachesURL, EvaluateWrites, RestartChecksParent,
         RestartStops, RestartMarks, RestartProvisions, PauseMarks, PauseClears,
         ResumeChecksParent, PauseStops, ResumeNext
  <2>2. CASE EvaluateReads(t)
    BY <1>0, <2>2 DEF EvaluateReads, Done, On
  <2>3. CASE RestartSelects(t)
    BY <1>0, <2>3 DEF RestartSelects, RowsNotIn, WithStatus, Done, On
  <2>4. CASE HandlerMarks(t)
    BY <1>0, <2>4 DEF HandlerMarks, Mark, MarkUnless, Goto, On
  <2>5. CASE \/ RegisterUpserts(t) \/ RegisterSetsKeys(t) \/ ProxyReturns(t) \/ ProxyMarks(t)
             \/ ProxyClears(t) \/ RestartLocks(t) \/ HandlerChecksParent(t) \/ HandlerStops(t)
             \/ DeleteMarks(t)
    BY <1>0, <2>5 DEF RegisterUpserts, RegisterSetsKeys, ProxyReturns, ProxyMarks, ProxyClears,
         RestartLocks, HandlerChecksParent, HandlerStops, DeleteMarks, Goto, Done, Thread
  <2>6. CASE DeleteClears(t) \/ CollapseMarks(t)
    <3>1. \E l \in {"de_stop", "co_stop"} : Advance(t, l)
      BY <2>6 DEF DeleteClears, CollapseMarks
    <3>2. th'[t] = Idle \/ th'[t].pc \in {"de_stop", "co_stop"}
      BY <1>0, <3>1 DEF Advance, Thread
    <3> QED
      BY <1>2, <3>2 DEF Idle
  <2>7. CASE \E x \in Ws : DeleteStops(t, x) \/ CollapseStops(t, x)
    BY <1>0, <2>7 DEF DeleteStops, CollapseStops, Thread
  <2> QED
    BY <1>2, <2>1, <2>2, <2>3, <2>4, <2>5, <2>6, <2>7 DEF Works
<1>3. CASE th'[t] # th[t] /\ ~Works(t)
  <2>1. ASSUME NEW u \in Workers, NEW w \in Ws, Arrives(u, w) PROVE FALSE
    BY <1>0, <1>3, <2>1
       DEF Arrives, Create, Expand, Collapse, Register, Heartbeat, Proxy, RequestRestart,
           Restart, Pause, Resume, Delete, Begin, Threads
  <2>2. ASSUME NEW u \in Workers, Works(u) PROVE FALSE
    <3>1. u # t
      BY <1>3, <2>2
    <3>2. PICK x \in Ws : ResumeNext(u, x)
      BY <1>0, <1>3, <2>2, <3>1, OnlyResumeForks
    <3> QED
      BY <1>0, <1>3, <3>1, <3>2 DEF ResumeNext, Fork, Threads
  <2>3. CASE Sweeps
    BY <1>0, <1>3, <2>3, SweeperIsNoWorker
       DEF Sweeps, SweepBegins, SweepMarks, SweepTurnsToRemote, SweepEnds, SweepChecks,
           SweepMarksRemote, SweepClears, Begin, Goto, Done, Fork
  <2>4. CASE Monitors
    BY <1>0, <1>3, <2>4 DEF Monitors, LivenessMonitor, Begin
  <2>5. CASE Environment
    BY <1>0, <1>3, <2>5
       DEF Environment, ExpireLiveKey, ExpireURLKey, ContainerDies, ContainerRespawns, Crash,
           control
  <2> QED
    BY <2>1, <2>2, <2>3, <2>4, <2>5 DEF Next
<1> QED
  BY <1>1, <1>2, <1>3

LEMMA LateStep ==
  ASSUME TypeInv, LateInv, [Next /\ Records]_hvars
  PROVE  LateInv'
<1>1. CASE Next /\ Records
  <2> SUFFICES ASSUME NEW t \in late'
               PROVE  /\ t \in Workers /\ th'[t] # Idle
                      /\ th'[t].pc \in LatePC
                      /\ row'[th'[t].ws] = "removed"
    BY DEF LateInv
  <2>1. /\ t \in Workers /\ th'[t] # Idle /\ row'[th'[t].ws] = "removed"
        /\ th[t] = Idle \/ t \in late
    BY <1>1 DEF Records
  <2> QED
    BY <1>1, <2>1, StartsLate, StaysLate DEF LateInv
<1>2. CASE UNCHANGED hvars
  BY <1>2 DEF hvars, vars, store, control, LateInv
<1> QED
  BY <1>1, <1>2

(***************************************************************************)
(* Recording who is late restricts nothing: HSpec has Spec's behaviours.   *)
(***************************************************************************)
LEMMA HistoryIsSpec == HSpec => Spec
<1>1. [Next /\ Records]_hvars => [Next]_vars
  BY DEF hvars
<1> QED
  BY <1>1, PTL DEF HSpec, Spec

(***************************************************************************)
(* Delete's promise, as far as the code keeps it: a removed row or its     *)
(* container comes back only by a goroutine that was under way before the  *)
(* removal, through a write by id alone, or by the Restart handler; for    *)
(* any tree of workspaces and any number of goroutines.                    *)
(***************************************************************************)
THEOREM RemovedIsFinalForLateArrivals == HSpec => LateArrivalsBailOut
<1> DEFINE Bails ==
      \A w \in Ws : row[w] = "removed" /\ (row'[w] # "removed" \/ Created(w)) =>
        \E t \in Workers :
          /\ Moves(t)
          /\ w \in {On(t)} \cup th[t].todo
          /\ row'[w] # "removed" => th[t].pc \in Unguarded
          /\ t \notin late \/ At(t, "rt_mark")
<1>1. TypeInv /\ LateInv /\ [Next /\ Records]_hvars => [Bails]_hvars
  <2> SUFFICES ASSUME TypeInv, LateInv, Next,
                      NEW w \in Ws, row[w] = "removed", ~Kept(w)
               PROVE  \E t \in Workers :
                        /\ Moves(t)
                        /\ w \in {On(t)} \cup th[t].todo
                        /\ row'[w] # "removed" => th[t].pc \in Unguarded
                        /\ t \notin late \/ At(t, "rt_mark")
    BY DEF Kept
  <2>1. PICK t \in Workers : Works(t)
    BY ArrivalsKeep, SweepsKeep, OthersKeep DEF Next
  <2>2. ComesBack(t, w)
    BY <2>1, UnguardedBringBack
  <2>3. t \notin late \/ At(t, "rt_mark")
    BY <2>2 DEF ComesBack, LateInv, LatePC, Unguarded, At
  <2> QED
    BY <2>2, <2>3 DEF ComesBack
<1>2. Init /\ late = {} => LateInv
  BY DEF LateInv
<1>3. TypeInv /\ LateInv /\ [Next]_vars /\ [Next /\ Records]_hvars => TypeInv' /\ LateInv'
  BY LateStep, StepPreserves
<1>4. [Next /\ Records]_hvars => [Next]_vars
  BY DEF hvars
<1> QED
  BY <1>1, <1>2, <1>3, <1>4, InitIsTyped, PTL DEF HSpec, LateArrivalsBailOut

-----------------------------------------------------------------------------
(***************************************************************************)
(* What Pause, Delete and Collapse leave behind, when requests, events and *)
(* sweeps begin one at a time and the process lives on.                    *)
(*                                                                         *)
(* SettledIsDown speaks of the states in which nothing runs.  The others   *)
(* are of two kinds.  A handler that takes workspaces down runs alone, and *)
(* all it has not finished with is what its loop still holds.  While       *)
(* anything else runs no row becomes paused or removed, so a goroutine     *)
(* that has seen its workspace up brings up a container, a URL or a key    *)
(* of a workspace that is still up.                                        *)
(***************************************************************************)
Barred == {"paused", "removed"}

Taking == {"pa_stop", "pa_mark", "pa_clear", "de_mark", "de_stop", "de_clear",
           "co_stop", "co_mark"}

\* What leads on to a container, a URL or a key without another look at the row.
Bringing == {"pv_start", "pv_create", "pv_url", "pv_cache", "xp_start", "xp_create", "rs_go"}

Down(w) ==
  /\ row[w] \in Barred => cont[w] = "none"
  /\ row[w] = "paused" /\ w \notin External => url[w] = "none" /\ redis[w] = {}

AllDown == \A w \in Ws : Down(w)

Free == \A t \in Threads : th[t].pc \notin Taking

Apart == \A t, u \in Threads : th[t].pc \in Taking /\ u # t => th[u].pc = "idle"

Fits(t) ==
  /\ th[t].pc \in Bringing => row[th[t].ws] \notin Barred
  /\ th[t].pc = "reg_redis" => row[th[t].ws] # "paused"

Unfinished(t, w) ==
  \/ th[t].pc = "pa_clear" /\ w = th[t].ws
  \/ th[t].pc \in {"de_stop", "de_clear"} /\ w \in th[t].todo

\* What a handler has done about the workspaces it has not finished with.
Begun(t) ==
  /\ th[t].pc \in {"pa_mark", "pa_clear", "co_mark", "de_clear"} => cont[th[t].ws] = "none"
  /\ th[t].pc = "pa_clear" => url[th[t].ws] = "none"
  /\ th[t].pc \in {"de_stop", "de_clear"} => \A w \in th[t].todo : row[w] # "paused"

DownInv ==
  /\ Apart
  /\ \A t \in Threads : Fits(t) /\ Begun(t)
  /\ \A w \in Ws : Down(w) \/ \E t \in Threads : Unfinished(t, w)

\* What every step does that is not a handler's that takes workspaces down.
Steady ==
  \A w \in Ws : /\ row'[w] \in Barred => row'[w] = row[w]
                /\ Down(w) => Down(w)'

LEMMA OthersAreFree ==
  ASSUME DownInv, NEW t \in Threads, th[t].pc \notin Taking \cup {"idle"}
  PROVE  Free /\ AllDown
<1>1. Free
  BY DEF DownInv, Apart, Free, Taking
<1> QED
  BY <1>1 DEF DownInv, Free, AllDown, Unfinished, Taking

LEMMA SettledIsFree ==
  ASSUME DownInv, Settled
  PROVE  Free /\ AllDown
  BY DEF DownInv, Settled, Idle, Free, AllDown, Unfinished, Taking

LEMMA StaysFree ==
  ASSUME TypeInv, DownInv, Free, AllDown, Steady, NEW T \in SUBSET Threads, Still(T),
         \A u \in T : th'[u].pc \notin Taking /\ Fits(u)'
  PROVE  DownInv'
<1>1. \A u \in Threads : th'[u].pc \notin Taking
  BY DEF Free, Still
<1>2. AllDown'
  BY DEF AllDown, Steady
<1>3. ASSUME NEW u \in Threads \ T  PROVE Fits(u)'
  <2>1. th'[u] = th[u]
    BY DEF Still
  <2>2. th[u].pc \in Bringing \cup {"reg_redis"} => th[u].ws \in Ws
    BY DEF TypeInv, Located, Bringing
  <2> QED  BY <2>1, <2>2 DEF DownInv, Fits, Steady, Barred
<1>4. \A u \in Threads : Fits(u)' /\ Begun(u)'
  BY <1>1, <1>3 DEF Begun, Taking
<1> QED
  BY <1>1, <1>2, <1>4 DEF DownInv, Apart, AllDown

LEMMA GotoFits ==
  ASSUME TypeInv, DownInv, NEW t \in Threads, NEW l \in PC \ Taking, Goto(t, l), Steady,
         th[t].pc \notin Taking \cup {"idle", "sw_local", "sw_remote"},
         l \in Bringing => row'[th[t].ws] \notin Barred,
         l = "reg_redis" => row'[th[t].ws] # "paused"
  PROVE  DownInv'
<1>1. Free /\ AllDown
  BY OthersAreFree
<1>2. th[t].ws \in Ws /\ ThreadsOK
  BY DEF TypeInv, TypeOK, Located, ThreadsOK
<1>3. Still({t}) /\ th'[t].pc = l /\ th'[t].ws = th[t].ws
  BY <1>2, GotoMoves
<1>4. Fits(t)'
  BY <1>3 DEF Fits
<1> QED
  BY <1>1, <1>3, <1>4, StaysFree

LEMMA DoneFits ==
  ASSUME TypeInv, DownInv, NEW t \in Threads, Done(t), Steady,
         th[t].pc \notin Taking \cup {"idle"}
  PROVE  DownInv'
<1>1. Free /\ AllDown
  BY OthersAreFree
<1>2. Still({t}) /\ th'[t].pc = "idle"
  BY DoneMoves DEF TypeInv, TypeOK, ThreadsOK
<1>3. Fits(t)' /\ "idle" \notin Taking
  BY <1>2 DEF Fits, Bringing, Taking
<1> QED
  BY <1>1, <1>2, <1>3, StaysFree

LEMMA BeginFits ==
  ASSUME TypeInv, DownInv, Serial, NEW t \in Threads, NEW l \in PC \ Taking, NEW w \in Ws,
         NEW S \in SUBSET Ws, Begin(t, l, w, S), Steady,
         l \in Bringing => row'[w] \notin Barred, l # "reg_redis"
  PROVE  DownInv'
<1>1. Free /\ AllDown
  BY SettledIsFree DEF Begin
<1>2. Still({t}) /\ th'[t].pc = l /\ th'[t].ws = w
  BY BeginMoves DEF TypeInv, TypeOK, ThreadsOK
<1>3. Fits(t)'
  BY <1>2 DEF Fits
<1> QED
  BY <1>1, <1>2, <1>3, StaysFree

\* A handler that takes workspaces down starts when nothing else runs.
LEMMA BeginTakes ==
  ASSUME TypeInv, DownInv, Serial, NEW t \in Threads, NEW l \in {"pa_stop", "de_mark", "co_stop"},
         NEW w \in Ws, NEW S \in SUBSET Ws, Begin(t, l, w, S), UNCHANGED store
  PROVE  DownInv'
<1>1. AllDown /\ \A u \in Threads : th[u].pc = "idle"
  BY SettledIsFree DEF Begin, Settled, Idle
<1>2. Still({t}) /\ th'[t].pc = l
  BY BeginMoves DEF TypeInv, TypeOK, ThreadsOK, PC
<1>3. \A u \in Threads : u # t => th'[u].pc = "idle"
  BY <1>1, <1>2 DEF Still
<1>4. \A u \in Threads : Fits(u)' /\ Begun(u)'
  BY <1>2, <1>3 DEF Fits, Begun, Bringing
<1>5. Apart'
  BY <1>2, <1>3 DEF Apart, Taking
<1>6. \A v \in Ws : Down(v)'
  BY <1>1 DEF AllDown, Down, store
<1> QED
  BY <1>4, <1>5, <1>6 DEF DownInv

\* What happens beside the goroutines.
LEMMA BesideKeeps ==
  ASSUME TypeInv, DownInv, UNCHANGED th, Steady,
         \A w \in Ws : /\ cont[w] = "none" => cont'[w] = "none"
                       /\ url[w] = "none" => url'[w] = "none"
  PROVE  DownInv'
<1>1. Apart' /\ \A t, w : Unfinished(t, w) => Unfinished(t, w)'
  BY DEF DownInv, Apart, Unfinished
<1>2. ASSUME NEW t \in Threads  PROVE Fits(t)' /\ Begun(t)'
  <2>1. th[t].pc \notin {"idle", "sw_local", "sw_remote"} => th[t].ws \in Ws
    BY DEF TypeInv, Located
  <2>2. th[t].todo \subseteq Ws
    BY DEF TypeInv, TypeOK, Thread
  <2>3. Fits(t) /\ Begun(t)
    BY DEF DownInv
  <2>4. Fits(t)'
    BY <2>1, <2>3 DEF Fits, Bringing, Steady, Barred
  <2>5. Begun(t)'
    BY <2>1, <2>2, <2>3 DEF Begun, Steady, Barred
  <2> QED  BY <2>4, <2>5
<1>3. ASSUME NEW w \in Ws  PROVE Down(w)' \/ \E t \in Threads : Unfinished(t, w)'
  BY <1>1 DEF DownInv, Steady
<1> QED
  BY <1>1, <1>2, <1>3 DEF DownInv

\* A statement that changes what is known of one workspace.
LEMMA OneRow ==
  ASSUME NEW w \in Ws,
         \A v \in Ws \ {w} : /\ row'[v] = row[v] /\ url'[v] = url[v]
                             /\ redis'[v] = redis[v] /\ cont'[v] = cont[v],
         row'[w] \in Barred => row'[w] = row[w],
         Down(w) => Down(w)'
  PROVE  Steady
  BY DEF Steady, Down

LEMMA NothingStored ==
  ASSUME UNCHANGED store
  PROVE  Steady
  BY DEF Steady, Down, store

LEMMA ProvisionKeepsDown ==
  ASSUME TypeInv, DownInv, NEW t \in Workers,
         \/ CreateExternal(t) \/ StartReplaces(t) \/ StartCreates(t) \/ StartFails(t)
         \/ ProvisionFailed(t) \/ ProvisionStoresURL(t) \/ ProvisionCachesURL(t)
  PROVE  DownInv'
<1> USE DEF At, On, Mark, MarkUnless
<1>0. /\ t \in Threads /\ th[t].pc \notin Taking \cup {"idle", "sw_local", "sw_remote"}
      /\ th[t].ws \in Ws
  <2>1. t \in Threads
    BY DEF Threads
  <2>2. th[t].pc \notin Taking \cup {"idle", "sw_local", "sw_remote"}
    BY DEF Taking, CreateExternal, StartReplaces, StartCreates, StartFails, ProvisionFailed,
           ProvisionStoresURL, ProvisionCachesURL
  <2> QED  BY <2>1, <2>2 DEF TypeInv, Located
<1>00. StoreTypeOK /\ Fits(t)
  BY <1>0 DEF TypeInv, TypeOK, DownInv
<1>1. CASE CreateExternal(t)
  <2>1. Steady
    BY <1>0, <1>00, <1>1, OneRow DEF CreateExternal, StoreTypeOK, AddKeys, Barred, Down
  <2> QED  BY <1>0, <1>1, <2>1, DoneFits DEF CreateExternal
<1>2. CASE StartReplaces(t)
  <2>1. Steady
    BY <1>0, <1>00, <1>2, OneRow DEF StartReplaces, StoreTypeOK, Stop, Barred, Down
  <2>2. row'[th[t].ws] \notin Barred
    BY <1>00, <1>2 DEF StartReplaces, Fits, Bringing
  <2>3. \E l \in {"pv_create", "xp_create"} : Goto(t, l)
    BY <1>2 DEF StartReplaces
  <2> QED  BY <1>0, <2>1, <2>2, <2>3, GotoFits DEF PC, Taking
<1>3. CASE StartCreates(t)
  <2>1. row[th[t].ws] \notin Barred /\ row' = row
    BY <1>00, <1>3 DEF StartCreates, Fits, Bringing
  <2>2. Steady
    BY <1>0, <1>00, <1>3, <2>1, OneRow DEF StartCreates, StoreTypeOK, Barred, Down
  <2>3. Goto(t, "pv_url") \/ Done(t)
    BY <1>3 DEF StartCreates
  <2> QED  BY <1>0, <2>1, <2>2, <2>3, GotoFits, DoneFits DEF PC, Taking
<1>4. CASE StartFails(t)
  <2>1. Steady
    BY <1>4, NothingStored DEF StartFails
  <2>2. Goto(t, "pv_fail") \/ Done(t)
    BY <1>4 DEF StartFails
  <2> QED  BY <1>0, <2>1, <2>2, GotoFits, DoneFits DEF PC, Taking, Bringing
<1>5. CASE ProvisionFailed(t)
  <2>1. Steady
    BY <1>0, <1>00, <1>5, OneRow DEF ProvisionFailed, StoreTypeOK, Barred, Down
  <2> QED  BY <1>0, <1>5, <2>1, DoneFits DEF ProvisionFailed
<1>6. CASE ProvisionStoresURL(t)
  <2>1. row[th[t].ws] \notin Barred /\ row' = row
    BY <1>00, <1>6 DEF ProvisionStoresURL, Fits, Bringing
  <2>2. Steady
    BY <1>0, <1>00, <1>6, <2>1, OneRow DEF ProvisionStoresURL, StoreTypeOK, Barred, Down
  <2> QED  BY <1>0, <1>6, <2>1, <2>2, GotoFits DEF ProvisionStoresURL, PC, Taking
<1>7. CASE ProvisionCachesURL(t)
  <2>1. row[th[t].ws] \notin Barred /\ row' = row
    BY <1>00, <1>7 DEF ProvisionCachesURL, Fits, Bringing
  <2>2. Steady
    BY <1>0, <1>00, <1>7, <2>1, OneRow DEF ProvisionCachesURL, StoreTypeOK, AddKeys, Barred, Down
  <2> QED  BY <1>0, <1>7, <2>2, DoneFits DEF ProvisionCachesURL
<1> QED
  BY <1>1, <1>2, <1>3, <1>4, <1>5, <1>6, <1>7

LEMMA AgentsKeepDown ==
  ASSUME TypeInv, DownInv, NEW t \in Workers,
         \/ RegisterUpserts(t) \/ RegisterSetsKeys(t)
         \/ EvaluateReads(t) \/ EvaluateWrites(t)
         \/ ProxyReturns(t) \/ ProxyMarks(t) \/ ProxyClears(t)
  PROVE  DownInv'
<1> USE DEF At, On, Mark, MarkUnless
<1>0. /\ t \in Threads /\ th[t].pc \notin Taking \cup {"idle", "sw_local", "sw_remote"}
      /\ th[t].ws \in Ws
  <2>1. t \in Threads
    BY DEF Threads
  <2>2. th[t].pc \notin Taking \cup {"idle", "sw_local", "sw_remote"}
    BY DEF Taking, RegisterUpserts, RegisterSetsKeys, EvaluateReads, EvaluateWrites,
           ProxyReturns, ProxyMarks, ProxyClears
  <2> QED  BY <2>1, <2>2 DEF TypeInv, Located
<1>00. StoreTypeOK /\ Fits(t)
  BY <1>0 DEF TypeInv, TypeOK, DownInv
<1>1. CASE RegisterUpserts(t)
  <2>1. row'[th[t].ws] # "paused" /\ Steady
    BY <1>0, <1>00, <1>1, OneRow DEF RegisterUpserts, StoreTypeOK, Barred, Down
  <2> QED  BY <1>0, <1>1, <2>1, GotoFits DEF RegisterUpserts, PC, Taking, Bringing
<1>2. CASE RegisterSetsKeys(t)
  <2>1. row[th[t].ws] # "paused" /\ row' = row
    BY <1>00, <1>2 DEF RegisterSetsKeys, Fits
  <2>2. Steady
    BY <1>0, <1>00, <1>2, <2>1, OneRow DEF RegisterSetsKeys, StoreTypeOK, AddKeys, Barred, Down
  <2> QED  BY <1>0, <1>2, <2>2, DoneFits DEF RegisterSetsKeys
<1>3. CASE EvaluateReads(t)
  <2>1. Steady
    BY <1>3, NothingStored DEF EvaluateReads
  <2>2. \/ \E l \in {"hb_degrade", "hb_heal", "hb_back"} : Goto(t, l)
        \/ Done(t)
    BY <1>3 DEF EvaluateReads
  <2> QED  BY <1>0, <2>1, <2>2, GotoFits, DoneFits DEF PC, Taking, Bringing
<1>4. CASE EvaluateWrites(t)
  <2>1. Steady
    BY <1>0, <1>00, <1>4, OneRow DEF EvaluateWrites, StoreTypeOK, Barred, Down
  <2> QED  BY <1>0, <1>4, <2>1, DoneFits DEF EvaluateWrites
<1>5. CASE ProxyReturns(t)
  <2>1. Steady
    BY <1>5, NothingStored DEF ProxyReturns
  <2>2. Goto(t, "px_mark") \/ Goto(t, "rs_lock") \/ Done(t)
    BY <1>5 DEF ProxyReturns
  <2> QED  BY <1>0, <2>1, <2>2, GotoFits, DoneFits DEF PC, Taking, Bringing
<1>6. CASE ProxyMarks(t)
  <2>1. Steady
    BY <1>0, <1>00, <1>6, OneRow DEF ProxyMarks, StoreTypeOK, Barred, Down
  <2> QED  BY <1>0, <1>6, <2>1, GotoFits DEF ProxyMarks, PC, Taking, Bringing
<1>7. CASE ProxyClears(t)
  <2>1. Steady
    BY <1>0, <1>00, <1>7, OneRow DEF ProxyClears, StoreTypeOK, ClearWorkspaceKeys, Barred, Down
  <2> QED  BY <1>0, <1>7, <2>1, GotoFits DEF ProxyClears, PC, Taking, Bringing
<1> QED
  BY <1>1, <1>2, <1>3, <1>4, <1>5, <1>6, <1>7

\* Automatic restarts turn back at a row that is paused or removed; the one
\* asked for by hand writes 'provisioning' before it brings anything up.
LEMMA RestartsKeepDown ==
  ASSUME TypeInv, DownInv, NEW t \in Workers,
         \/ RestartLocks(t) \/ RestartSelects(t) \/ RestartChecksParent(t)
         \/ RestartStops(t) \/ RestartMarks(t) \/ RestartProvisions(t)
         \/ HandlerChecksParent(t) \/ HandlerStops(t) \/ HandlerMarks(t)
  PROVE  DownInv'
<1> USE DEF At, On, Mark, MarkUnless
<1>0. /\ t \in Threads /\ th[t].pc \notin Taking \cup {"idle", "sw_local", "sw_remote"}
      /\ th[t].ws \in Ws
  <2>1. t \in Threads
    BY DEF Threads
  <2>2. th[t].pc \notin Taking \cup {"idle", "sw_local", "sw_remote"}
    BY DEF Taking, RestartLocks, RestartSelects, RestartChecksParent, RestartStops,
           RestartMarks, RestartProvisions, HandlerChecksParent, HandlerStops, HandlerMarks
  <2> QED  BY <2>1, <2>2 DEF TypeInv, Located
<1>00. StoreTypeOK /\ Fits(t)
  BY <1>0 DEF TypeInv, TypeOK, DownInv
<1>1. CASE RestartLocks(t) \/ RestartSelects(t) \/ RestartChecksParent(t) \/ HandlerChecksParent(t)
  <2>1. Steady
    BY <1>1, NothingStored DEF RestartLocks, RestartSelects, RestartChecksParent,
                               HandlerChecksParent
  <2>2. \/ \E l \in {"rs_select", "rs_parent", "rs_stop", "rt_stop"} : Goto(t, l)
        \/ Done(t)
    BY <1>1 DEF RestartLocks, RestartSelects, RestartChecksParent, HandlerChecksParent
  <2> QED  BY <1>0, <2>1, <2>2, GotoFits, DoneFits DEF PC, InRestartByID, Taking, Bringing
<1>2. CASE RestartStops(t) \/ HandlerStops(t)
  <2>1. Steady
    BY <1>0, <1>00, <1>2, OneRow DEF RestartStops, HandlerStops, StoreTypeOK, Stop, Barred, Down
  <2>2. \E l \in {"rs_mark", "rt_mark"} : Goto(t, l)
    BY <1>2 DEF RestartStops, HandlerStops
  <2> QED  BY <1>0, <2>1, <2>2, GotoFits DEF PC, InRestartByID, Taking, Bringing
<1>3. CASE RestartMarks(t) \/ HandlerMarks(t)
  <2>1. Steady /\ row'[th[t].ws] \notin Barred
    BY <1>0, <1>00, <1>3, OneRow DEF RestartMarks, HandlerMarks, StoreTypeOK, Barred, Down
  <2>2. \E l \in {"rs_go", "pv_start"} : Goto(t, l)
    BY <1>3 DEF RestartMarks, HandlerMarks
  <2> QED  BY <1>0, <2>1, <2>2, GotoFits DEF PC, InRestartByID, Taking
<1>4. CASE RestartProvisions(t)
  <2>1. Steady
    BY <1>4, NothingStored DEF RestartProvisions
  <2>2. row'[th[t].ws] \notin Barred
    BY <1>00, <1>4 DEF RestartProvisions, store, Fits, Bringing
  <2> QED  BY <1>0, <1>4, <2>1, <2>2, GotoFits DEF RestartProvisions, PC, Taking
<1> QED
  BY <1>1, <1>2, <1>3, <1>4

LEMMA ResumeKeepsDown ==
  ASSUME TypeInv, DownInv, NEW t \in Workers,
         ResumeChecksParent(t) \/ \E x \in Ws : ResumeNext(t, x)
  PROVE  DownInv'
<1> USE DEF At, Mark, MarkUnless
<1>0. t \in Threads /\ th \in [Threads -> Thread] /\ StoreTypeOK /\ Free /\ AllDown
  <2>1. t \in Threads
    BY DEF Threads
  <2>2. th[t].pc \notin Taking \cup {"idle"}
    BY DEF Taking, ResumeChecksParent, ResumeNext
  <2> QED  BY <2>1, <2>2, OthersAreFree DEF TypeInv, TypeOK
<1>1. CASE ResumeChecksParent(t)
  <2>1. Steady
    BY <1>1, NothingStored DEF ResumeChecksParent
  <2>2. CASE Done(t)
    BY <1>0, <1>1, <2>1, <2>2, DoneFits DEF ResumeChecksParent, Taking
  <2>3. CASE \E S : th' = [th EXCEPT ![t].pc = "re_next", ![t].todo = S]
    <3>1. Still({t}) /\ th'[t].pc = "re_next"
      BY <1>0, <2>3 DEF Still, Thread
    <3>2. Fits(t)' /\ "re_next" \notin Taking
      BY <3>1 DEF Fits, Bringing, Taking
    <3> QED  BY <1>0, <2>1, <3>1, <3>2, StaysFree
  <2> QED  BY <1>1, <2>2, <2>3 DEF ResumeChecksParent
<1>2. ASSUME NEW x \in Ws, ResumeNext(t, x)  PROVE DownInv'
  <2>1. Steady /\ row'[x] \notin Barred
    BY <1>0, <1>2, OneRow DEF ResumeNext, StoreTypeOK, Barred, Down
  <2> DEFINE job == Job("pv_start", x, {})
  <2>2. job.pc = "pv_start" /\ job.ws = x /\ "pv_start" \notin Taking /\ "re_next" \notin Taking
    BY DEF Job, Taking
  <2>3. CASE th' = [th EXCEPT ![t] = job]
    <3>1. Still({t}) /\ th'[t] = job
      BY <1>0, <2>3 DEF Still
    <3> HIDE DEF job
    <3>2. Fits(t)'
      BY <2>1, <2>2, <3>1 DEF Fits
    <3> QED  BY <1>0, <2>1, <2>2, <3>1, <3>2, StaysFree
  <2>4. ASSUME NEW u \in Workers, Fork(t, [th[t] EXCEPT !.todo = @ \ {x}], u, job)
        PROVE  DownInv'
    <3>1. u \in Threads /\ u # t
      BY <2>4 DEF Fork, Threads
    <3>2. Still({t, u}) /\ th'[u] = job /\ th'[t] = [th[t] EXCEPT !.todo = @ \ {x}]
      BY <1>0, <2>4, <3>1 DEF Fork, Still
    <3>3. th'[t].pc = "re_next"
      BY <1>0, <1>2, <3>2 DEF ResumeNext, Thread
    <3> HIDE DEF job
    <3>4. Fits(u)' /\ Fits(t)'
      BY <2>1, <2>2, <3>2, <3>3 DEF Fits, Bringing
    <3> QED  BY <1>0, <2>1, <2>2, <3>1, <3>2, <3>3, <3>4, StaysFree
  <2> QED  BY <1>2, <2>3, <2>4 DEF ResumeNext
<1> QED
  BY <1>1, <1>2

(***************************************************************************)
(* Pause, Delete and Collapse at work.                                     *)
(***************************************************************************)
LEMMA TakerGoesOn ==
  ASSUME TypeInv, DownInv, NEW t \in Threads, th[t].pc \in Taking,
         Still({t}), th'[t].pc \in Taking \cup {"idle"}, Begun(t)',
         \A w \in Ws : Down(w)' \/ Unfinished(t, w)'
  PROVE  DownInv'
<1>1. \A u \in Threads : u # t => th'[u].pc = "idle"
  BY DEF DownInv, Apart, Still
<1>2. Apart'
  BY <1>1 DEF Apart, Taking
<1>3. \A u \in Threads : Fits(u)' /\ Begun(u)'
  BY <1>1 DEF Fits, Begun, Bringing, Taking
<1> QED
  BY <1>2, <1>3 DEF DownInv

LEMMA TakerAlone ==
  ASSUME TypeInv, DownInv, NEW t \in Workers, th[t].pc \in Taking
  PROVE  /\ t \in Threads /\ th \in [Threads -> Thread] /\ StoreTypeOK /\ Begun(t)
         /\ \A w \in Ws : Down(w) \/ Unfinished(t, w)
         /\ th[t].ws \in Ws /\ th[t].todo \subseteq Ws
<1>1. t \in Threads
  BY DEF Threads
<1>2. \A u \in Threads, w \in Ws : Unfinished(u, w) => u = t
  BY <1>1 DEF DownInv, Apart, Unfinished, Taking
<1>3. \A w \in Ws : Down(w) \/ Unfinished(t, w)
  BY <1>2 DEF DownInv
<1>4. th[t].ws \in Ws /\ th[t].todo \subseteq Ws
  BY <1>1 DEF TypeInv, TypeOK, Located, Thread, Taking
<1> QED
  BY <1>1, <1>3, <1>4 DEF TypeInv, TypeOK, DownInv

\* The loop takes up x and stops its container.
LEMMA StopsKeepDown ==
  ASSUME TypeInv, DownInv, NEW t \in Workers, NEW x \in Ws,
         PauseStops(t, x) \/ DeleteStops(t, x) \/ CollapseStops(t, x)
  PROVE  DownInv'
<1>1. PICK l \in {"pa_mark", "de_clear", "co_mark"} :
        /\ th' = [th EXCEPT ![t].pc = l, ![t].ws = x]
        /\ (l = "de_clear") <=> (th[t].pc = "de_stop")
  BY DEF At, PauseStops, DeleteStops, CollapseStops
<1>2. th[t].pc \in {"pa_stop", "de_stop", "co_stop"} /\ th[t].pc \in Taking
  BY DEF At, PauseStops, DeleteStops, CollapseStops, Taking
<1>3. /\ cont' = [cont EXCEPT ![x] = "none"] /\ UNCHANGED <<row, url, redis>>
  BY DEF PauseStops, DeleteStops, CollapseStops, Stop
<1>4. /\ Still({t}) /\ th'[t].pc = l /\ th'[t].ws = x /\ th'[t].todo = th[t].todo
  BY <1>1, <1>2, TakerAlone DEF Still, Thread
<1>5. cont'[x] = "none" /\ \A w \in Ws : cont[w] = "none" => cont'[w] = "none"
  BY <1>2, <1>3, TakerAlone DEF StoreTypeOK
<1>6. Begun(t)'
  BY <1>1, <1>2, <1>3, <1>4, <1>5, TakerAlone DEF Begun
<1>7. \A w \in Ws : Down(w)' \/ Unfinished(t, w)'
  BY <1>1, <1>2, <1>3, <1>4, <1>5, TakerAlone DEF Down, Unfinished
<1> QED
  BY <1>2, <1>4, <1>6, <1>7, TakerGoesOn, TakerAlone DEF Taking

LEMMA AdvanceLeaves ==
  ASSUME TypeInv, NEW t \in Threads, NEW l \in PC, th[t].ws \in Ws, Advance(t, l)
  PROVE  /\ Still({t})
         /\ \/ th'[t].pc = "idle" /\ th[t].todo \ {th[t].ws} = {}
            \/ th'[t].pc = l /\ th'[t].todo = th[t].todo \ {th[t].ws}
  BY DEF TypeInv, TypeOK, Advance, On, Still, Thread, Idle

LEMMA PausesKeepDown ==
  ASSUME TypeInv, DownInv, NEW t \in Workers, PauseMarks(t) \/ PauseClears(t)
  PROVE  DownInv'
<1> USE DEF At, On
<1>0. th[t].pc \in Taking
  BY DEF PauseMarks, PauseClears, Taking
<1>00. /\ t \in Threads /\ th \in [Threads -> Thread] /\ StoreTypeOK /\ Begun(t)
       /\ th[t].ws \in Ws /\ \A w \in Ws : Down(w) \/ Unfinished(t, w)
  BY <1>0, TakerAlone
<1>1. CASE PauseMarks(t)
  <2>1. Still({t}) /\ th'[t].pc = "pa_clear" /\ th'[t].ws = th[t].ws
    BY <1>00, <1>1 DEF PauseMarks, Goto, Still, Thread
  <2>2. /\ cont' = cont /\ redis' = redis /\ url' = [url EXCEPT ![th[t].ws] = "none"]
        /\ \A w \in Ws : w # th[t].ws => row'[w] = row[w] /\ url'[w] = url[w]
    BY <1>00, <1>1 DEF PauseMarks, Mark, MarkUnless, StoreTypeOK
  <2>3. Begun(t)'
    BY <1>00, <1>1, <2>1, <2>2 DEF PauseMarks, Begun, StoreTypeOK
  <2>4. ASSUME NEW w \in Ws  PROVE Down(w)' \/ Unfinished(t, w)'
    BY <1>00, <1>1, <2>1, <2>2 DEF PauseMarks, Down, Unfinished
  <2> QED  BY <1>0, <1>00, <2>1, <2>3, <2>4, TakerGoesOn DEF Taking
<1>2. CASE PauseClears(t)
  <2>1. Still({t}) /\ th'[t].pc \in {"idle", "pa_stop"}
    BY <1>00, <1>2, AdvanceLeaves DEF PauseClears, PC
  <2>2. /\ UNCHANGED <<row, url, cont>> /\ redis'[th[t].ws] = {}
        /\ \A w \in Ws : w # th[t].ws => redis'[w] = redis[w]
    BY <1>00, <1>2 DEF PauseClears, ClearWorkspaceKeys, StoreTypeOK
  <2>3. Begun(t)'
    BY <2>1 DEF Begun
  <2>4. ASSUME NEW w \in Ws  PROVE Down(w)'
    BY <1>00, <1>2, <2>2 DEF PauseClears, Begun, Down, Unfinished
  <2> QED  BY <1>0, <1>00, <2>1, <2>3, <2>4, TakerGoesOn DEF Taking
<1> QED
  BY <1>1, <1>2

LEMMA RemovalsKeepDown ==
  ASSUME TypeInv, DownInv, NEW t \in Workers,
         DeleteMarks(t) \/ DeleteClears(t) \/ CollapseMarks(t)
  PROVE  DownInv'
<1> USE DEF At, On
<1>0. th[t].pc \in Taking
  BY DEF DeleteMarks, DeleteClears, CollapseMarks, Taking
<1>00. /\ t \in Threads /\ th \in [Threads -> Thread] /\ StoreTypeOK /\ Begun(t)
       /\ th[t].ws \in Ws /\ th[t].todo \subseteq Ws
       /\ \A w \in Ws : Down(w) \/ Unfinished(t, w)
  BY <1>0, TakerAlone
<1>1. CASE DeleteMarks(t)
  <2>1. Still({t}) /\ th'[t].pc = "de_stop" /\ th'[t].todo = th[t].todo
    BY <1>00, <1>1 DEF DeleteMarks, Goto, Still, Thread
  <2>2. /\ UNCHANGED <<cont, url, redis>>
        /\ \A w \in Ws : row'[w] = IF w \in th[t].todo /\ row[w] # "absent" THEN "removed" ELSE row[w]
    BY <1>1 DEF DeleteMarks, MarkAll
  <2>3. Begun(t)'
    BY <1>00, <2>1, <2>2 DEF Begun
  <2>4. ASSUME NEW w \in Ws  PROVE Down(w)' \/ Unfinished(t, w)'
    BY <1>00, <1>1, <2>1, <2>2 DEF DeleteMarks, Down, Unfinished
  <2> QED  BY <1>0, <1>00, <2>1, <2>3, <2>4, TakerGoesOn DEF Taking
<1>2. CASE DeleteClears(t)
  <2>1. /\ Still({t})
        /\ \/ th'[t].pc = "idle" /\ th[t].todo \ {th[t].ws} = {}
           \/ th'[t].pc = "de_stop" /\ th'[t].todo = th[t].todo \ {th[t].ws}
    BY <1>00, <1>2, AdvanceLeaves DEF DeleteClears, PC
  <2>2. /\ UNCHANGED <<row, url, cont>> /\ redis'[th[t].ws] = {}
        /\ \A w \in Ws : w # th[t].ws => redis'[w] = redis[w]
    BY <1>00, <1>2 DEF DeleteClears, ClearWorkspaceKeys, StoreTypeOK
  <2>3. Begun(t)'
    BY <1>00, <1>2, <2>1, <2>2 DEF DeleteClears, Begun
  <2>4. ASSUME NEW w \in Ws  PROVE Down(w)' \/ Unfinished(t, w)'
    <3>1. CASE w = th[t].ws
      BY <1>00, <1>2, <2>2, <3>1 DEF DeleteClears, Begun, Down, Unfinished
    <3>2. CASE w # th[t].ws
      BY <1>00, <1>2, <2>1, <2>2, <3>2 DEF DeleteClears, Down, Unfinished
    <3> QED  BY <3>1, <3>2
  <2> QED  BY <1>0, <1>00, <2>1, <2>3, <2>4, TakerGoesOn DEF Taking
<1>3. CASE CollapseMarks(t)
  <2>1. Still({t}) /\ th'[t].pc \in {"idle", "co_stop"}
    BY <1>00, <1>3, AdvanceLeaves DEF CollapseMarks, PC
  <2>2. /\ UNCHANGED <<url, redis, cont>> /\ row'[th[t].ws] \in {"absent", "removed"}
        /\ \A w \in Ws : w # th[t].ws => row'[w] = row[w]
    BY <1>00, <1>3 DEF CollapseMarks, Mark, MarkUnless, StoreTypeOK
  <2>3. Begun(t)'
    BY <2>1 DEF Begun
  <2>4. ASSUME NEW w \in Ws  PROVE Down(w)'
    BY <1>00, <1>3, <2>2 DEF CollapseMarks, Begun, Down, Unfinished
  <2> QED  BY <1>0, <1>00, <2>1, <2>3, <2>4, TakerGoesOn DEF Taking
<1> QED
  BY <1>1, <1>2, <1>3

(***************************************************************************)
(* Requests arrive, the sweeper and the liveness monitor run, keys expire  *)
(* and containers die and come back.                                       *)
(***************************************************************************)
LEMMA ArrivalsKeepDown ==
  ASSUME TypeInv, DownInv, Serial, NEW t \in Workers, NEW w \in Ws, Arrives(t, w)
  PROVE  DownInv'
<1>0. t \in Threads /\ StoreTypeOK
  BY DEF Threads, TypeInv, TypeOK
<1>00. /\ \A l \in {"reg_upsert", "hb_read", "rs_lock", "rt_parent", "re_parent", "px_forward",
                   "cr_online", "pv_start", "xp_start"} :
            l \in PC \ Taking /\ l # "reg_redis"
       /\ \A l \in {"reg_upsert", "hb_read", "rs_lock", "rt_parent", "re_parent", "px_forward"} :
            l \notin Bringing
  BY DEF PC, Taking, Bringing
<1>1. CASE Create(t, w)
  <2>1. Steady /\ row'[w] \notin Barred
    BY <1>0, <1>1, OneRow DEF Create, Insert, StoreTypeOK, Barred, Down
  <2>2. \E l \in {"cr_online", "pv_start"} : Begin(t, l, w, {})
    BY <1>1 DEF Create
  <2> QED  BY <1>0, <1>00, <2>1, <2>2, BeginFits
<1>2. CASE Expand(t, w)
  <2>1. Steady /\ row'[w] \notin Barred
    BY <1>0, <1>2, OneRow DEF Expand, Insert, StoreTypeOK, Barred, Down
  <2>2. CASE Begin(t, "xp_start", w, {})
    BY <1>0, <1>00, <2>1, <2>2, BeginFits
  <2>3. CASE UNCHANGED th
    BY <1>2, <2>1, <2>3, BesideKeeps DEF Expand
  <2> QED  BY <1>2, <2>2, <2>3 DEF Expand
<1>3. CASE Register(t, w) \/ Heartbeat(t, w) \/ RequestRestart(t, w) \/ Restart(t, w) \/ Resume(t, w)
  <2>1. Steady
    BY <1>3, NothingStored DEF Register, Heartbeat, RequestRestart, Restart, Resume
  <2>2. \E l \in {"reg_upsert", "hb_read", "rs_lock", "rt_parent", "re_parent"} : Begin(t, l, w, {})
    BY <1>3 DEF Register, Heartbeat, RequestRestart, Restart, Resume
  <2> QED  BY <1>0, <1>00, <2>1, <2>2, BeginFits
<1>4. CASE Proxy(t, w)
  <2>1. Down(w)
    BY <1>4, SettledIsFree DEF Proxy, Begin, AllDown
  <2>2. Steady
    BY <1>0, <1>4, <2>1, OneRow DEF Proxy, AddKeys, StoreTypeOK, Barred, Down
  <2>3. Begin(t, "px_forward", w, {})
    BY <1>4 DEF Proxy
  <2> QED  BY <1>0, <1>00, <2>2, <2>3, BeginFits
<1>5. CASE Pause(t, w) \/ Delete(t, w) \/ Collapse(t, w)
  <2>1. UNCHANGED store
    BY <1>5 DEF Pause, Delete, Collapse
  <2>2. \E l \in {"pa_stop", "de_mark", "co_stop"}, S \in SUBSET Ws : Begin(t, l, w, S)
    <3>1. RowsNotIn({"removed", "paused"}) \subseteq Ws /\ RowsNotIn({"removed"}) \subseteq Ws
      BY QueriesAreRows
    <3>2. {w} \cup Below(w, RowsNotIn({"removed", "paused"})) \subseteq Ws
      BY <3>1, BelowIsFiltered
    <3>3. {w} \cup Below(w, RowsNotIn({"removed"})) \subseteq Ws
      BY <3>1, BelowIsFiltered
    <3>4. {c \in RowsNotIn({"removed"}) : Parent[c] = w} \subseteq Ws
      BY <3>1
    <3> QED  BY <1>5, <3>2, <3>3, <3>4 DEF Pause, Delete, Collapse
  <2> QED  BY <1>0, <2>1, <2>2, BeginTakes
<1> QED
  BY <1>1, <1>2, <1>3, <1>4, <1>5 DEF Arrives

LEMMA SweepsKeepDown ==
  ASSUME TypeInv, DownInv, Serial, Sweeps
  PROVE  DownInv'
<1> USE DEF At, On
<1>0. Sweeper \in Threads /\ th \in [Threads -> Thread] /\ StoreTypeOK
  BY SweeperIsNoWorker DEF TypeInv, TypeOK
\* A pass moves the sweeper to l, which brings nothing.
<1>1. ASSUME NEW l \in {"idle", "sw_local", "sw_remote", "sw_mark", "sw_clear", "sw_rclear"},
             Steady, Still({Sweeper}), th'[Sweeper].pc = l, Free, AllDown
      PROVE  DownInv'
  <2>1. Fits(Sweeper)' /\ l \notin Taking
    BY <1>1 DEF Fits, Bringing, Taking
  <2> QED  BY <1>0, <1>1, <2>1, StaysFree
<1>2. th[Sweeper].pc \notin Taking \cup {"idle"} => Free /\ AllDown
  BY <1>0, OthersAreFree
<1>3. CASE SweepBegins
  <2>1. Steady /\ Free /\ AllDown
    BY <1>3, NothingStored, SettledIsFree DEF SweepBegins, Begin
  <2>2. Still({Sweeper}) /\ th'[Sweeper].pc = "sw_local"
    BY <1>0, <1>3 DEF SweepBegins, Begin, Job, Still
  <2> QED  BY <1>1, <2>1, <2>2
<1>4. CASE SweepMarks
  <2>1. th[Sweeper].ws \in Ws
    BY <1>0, <1>4 DEF SweepMarks, TypeInv, Located
  <2>2. Steady
    BY <1>0, <1>4, <2>1, OneRow DEF SweepMarks, MarkUnless, StoreTypeOK, Barred, Down
  <2>3. Still({Sweeper}) /\ th'[Sweeper].pc = "sw_clear"
    BY <1>0, <1>4 DEF SweepMarks, Goto, Still, Thread
  <2> QED  BY <1>1, <1>2, <1>4, <2>2, <2>3 DEF SweepMarks, Taking
<1>5. CASE SweepTurnsToRemote
  <2>1. Steady
    BY <1>5, NothingStored DEF SweepTurnsToRemote
  <2>2. Still({Sweeper}) /\ th'[Sweeper].pc = "sw_remote"
    BY <1>0, <1>5 DEF SweepTurnsToRemote, Still, Thread
  <2> QED  BY <1>1, <1>2, <1>5, <2>1, <2>2 DEF SweepTurnsToRemote, Taking
<1>6. CASE SweepEnds
  <2>1. Steady
    BY <1>6, NothingStored DEF SweepEnds
  <2> QED  BY <1>0, <1>6, <2>1, DoneFits DEF SweepEnds, Taking
<1>7. ASSUME NEW w \in Ws, SweepChecks(w)  PROVE DownInv'
  <2>1. Steady
    BY <1>7, NothingStored DEF SweepChecks
  <2>2. Still({Sweeper}) /\ th'[Sweeper].pc \in {"sw_local", "sw_mark"}
    BY <1>0, <1>7 DEF SweepChecks, Still, Thread
  <2> QED  BY <1>1, <1>2, <1>7, <2>1, <2>2 DEF SweepChecks, Taking
<1>8. ASSUME NEW w \in Ws, SweepMarksRemote(w)  PROVE DownInv'
  <2>1. Steady
    BY <1>0, <1>8, OneRow DEF SweepMarksRemote, MarkUnless, StoreTypeOK, Barred, Down
  <2>2. Still({Sweeper}) /\ th'[Sweeper].pc = "sw_rclear"
    BY <1>0, <1>8 DEF SweepMarksRemote, Still, Thread
  <2> QED  BY <1>1, <1>2, <1>8, <2>1, <2>2 DEF SweepMarksRemote, Taking
<1>9. ASSUME NEW u \in Workers, SweepClears(u)  PROVE DownInv'
  <2>1. th[Sweeper].ws \in Ws /\ Free /\ AllDown
    BY <1>0, <1>2, <1>9 DEF SweepClears, TypeInv, Located, Taking
  <2>2. Steady
    BY <1>0, <1>9, <2>1, OneRow DEF SweepClears, ClearWorkspaceKeys, StoreTypeOK, Barred, Down
  <2>3. u \in Threads /\ u # Sweeper
    BY SweeperIsNoWorker DEF Threads
  <2>4. /\ Still({Sweeper, u}) /\ th'[u].pc = "rs_lock"
        /\ th'[Sweeper].pc \in {"sw_local", "sw_remote"}
    BY <1>0, <1>9, <2>3 DEF SweepClears, Fork, Job, Still, Thread
  <2>5. /\ Fits(u)' /\ Fits(Sweeper)'
        /\ th'[u].pc \notin Taking /\ th'[Sweeper].pc \notin Taking
    BY <2>4 DEF Fits, Bringing, Taking
  <2> QED  BY <1>0, <2>1, <2>2, <2>3, <2>4, <2>5, StaysFree
<1> QED
  BY <1>3, <1>4, <1>5, <1>6, <1>7, <1>8, <1>9 DEF Sweeps

LEMMA MonitorKeepsDown ==
  ASSUME TypeInv, DownInv, Serial, NEW w \in Ws, NEW u \in Workers, LivenessMonitor(w, u)
  PROVE  DownInv'
<1>1. u \in Threads /\ StoreTypeOK
  BY DEF Threads, TypeInv, TypeOK
<1>2. Steady
  BY <1>1, OneRow DEF LivenessMonitor, MarkUnless, StoreTypeOK, Barred, Down
<1>3. Begin(u, "rs_lock", w, {})
  BY DEF LivenessMonitor
<1> QED
  BY <1>1, <1>2, <1>3, BeginFits DEF PC, Taking, Bringing

LEMMA EnvironmentKeepsDown ==
  ASSUME TypeInv, DownInv, MaxCrashes = 0, Environment
  PROVE  DownInv'
<1>1. ~Crash
  BY DEF Crash, TypeInv, TypeOK
<1>2. PICK w \in Ws : \/ ExpireLiveKey(w) \/ ExpireURLKey(w)
                      \/ ContainerDies(w) \/ ContainerRespawns(w)
  BY <1>1 DEF Environment
<1>3. StoreTypeOK /\ UNCHANGED <<row, url, th>>
  BY <1>2 DEF TypeInv, TypeOK, ExpireLiveKey, ExpireURLKey, ContainerDies, ContainerRespawns, control
<1>4. Steady
  BY <1>2, <1>3, OneRow DEF ExpireLiveKey, ExpireURLKey, ContainerDies, ContainerRespawns,
                            StoreTypeOK, Barred, Down
<1>5. \A v \in Ws : cont[v] = "none" => cont'[v] = "none"
  BY <1>2, <1>3 DEF ExpireLiveKey, ExpireURLKey, ContainerDies, ContainerRespawns, StoreTypeOK
<1> QED
  BY <1>3, <1>4, <1>5, BesideKeeps

LEMMA InitIsDown == Init => DownInv
  BY DEF Init, StoreInit, Idle, DownInv, Apart, Fits, Begun, Down, Barred, Taking, Bringing

LEMMA StepKeepsDown ==
  ASSUME Serial, MaxCrashes = 0, TypeInv, DownInv, [Next]_vars
  PROVE  DownInv'
<1>1. ASSUME NEW t \in Workers, NEW w \in Ws, Arrives(t, w)  PROVE DownInv'
  BY <1>1, ArrivalsKeepDown
<1>2. ASSUME NEW t \in Workers, Works(t)  PROVE DownInv'
  BY <1>2, ProvisionKeepsDown, AgentsKeepDown, RestartsKeepDown, ResumeKeepsDown,
     StopsKeepDown, PausesKeepDown, RemovalsKeepDown DEF Works
<1>3. CASE Sweeps
  BY <1>3, SweepsKeepDown
<1>4. CASE Monitors
  BY <1>4, MonitorKeepsDown DEF Monitors
<1>5. CASE Environment
  BY <1>5, EnvironmentKeepsDown
<1>6. CASE UNCHANGED vars
  <2>1. UNCHANGED store /\ UNCHANGED th
    BY <1>6 DEF vars, control
  <2>2. Steady /\ UNCHANGED <<cont, url>>
    BY <2>1, NothingStored DEF store
  <2> QED  BY <2>1, <2>2, BesideKeeps
<1> QED
  BY <1>1, <1>2, <1>3, <1>4, <1>5, <1>6 DEF Next

(***************************************************************************)
(* Once Delete, Collapse or Pause has returned the container is gone, and  *)
(* nothing leads to a paused workspace any more: for any set of workspaces *)
(* and any parent relation, any number of goroutines, and whatever agents, *)
(* sweeps, key expiries, respawns and secret changes did between two       *)
(* requests.  It holds of handlers that run to their end, one at a time:   *)
(* two of them at once, or a process that dies between UPDATE and Stop,    *)
(* can leave a container behind.                                           *)
(***************************************************************************)
THEOREM SettledMeansDown ==
  ASSUME Serial, MaxCrashes = 0
  PROVE  Spec => []SettledIsDown
<1>1. DownInv => SettledIsDown
  <2> SUFFICES ASSUME DownInv, Settled
               PROVE  \A w \in Ws :
                        /\ row[w] \in {"paused", "removed"} => cont[w] = "none"
                        /\ row[w] = "paused" /\ w \notin External
                             => url[w] = "none" /\ redis[w] = {}
    BY DEF SettledIsDown
  <2> QED  BY SettledIsFree DEF AllDown, Down, Barred
<1>2. Init => TypeInv /\ DownInv
  BY InitIsTyped, InitIsDown
<1>3. TypeInv /\ DownInv /\ [Next]_vars => (TypeInv /\ DownInv)'
  BY StepPreserves, StepKeepsDown
<1> QED
  BY <1>1, <1>2, <1>3, PTL DEF Spec

-----------------------------------------------------------------------------
(***************************************************************************)
(* No restart below a paused ancestor, when requests, events and sweeps    *)
(* begin one at a time.                                                    *)
(*                                                                         *)
(* Below is a least set: it holds the children of its members, and what    *)
(* holds those of w and of its own members holds it.  No induction is      *)
(* needed for what follows.                                                *)
(***************************************************************************)
LEMMA BelowHasChildren ==
  ASSUME NEW w, NEW S, NEW c \in S, Parent[c] \in {w} \cup Below(w, S)
  PROVE  c \in Below(w, S)
<1> SUFFICES ASSUME NEW D \in SUBSET S, Children({w} \cup D, S) \subseteq D
             PROVE  c \in D
  BY DEF Below
<1>1. Below(w, S) \subseteq D
  BY DEF Below
<1>2. c \in Children({w} \cup D, S)
  BY <1>1 DEF Children
<1> QED
  BY <1>2

LEMMA BelowIsLeast ==
  ASSUME NEW w, NEW S, NEW D \in SUBSET S, Children({w} \cup D, S) \subseteq D
  PROVE  Below(w, S) \subseteq D
  BY DEF Below

LEMMA BelowIsBelow ==
  ASSUME NEW w, NEW S, NEW c \in Below(w, S)
  PROVE  Parent[c] = w \/ Parent[c] \in Below(w, S)
<1> DEFINE D == {d \in Below(w, S) : Parent[d] \in {w} \cup Below(w, S)}
<1>1. D \subseteq Below(w, S) /\ D \subseteq S
  BY BelowIsFiltered
<1>2. ASSUME NEW d \in Children({w} \cup D, S)  PROVE d \in D
  <2>1. d \in S /\ Parent[d] \in {w} \cup Below(w, S)
    BY <1>1 DEF Children
  <2>2. d \in Below(w, S)
    BY <2>1, BelowHasChildren
  <2> QED  BY <2>1, <2>2
<1> HIDE DEF D
<1>3. Below(w, S) \subseteq D
  BY <1>1, <1>2, BelowIsLeast
<1> QED
  BY <1>3 DEF D

(***************************************************************************)
(* What a goroutine that is to restart or resume has seen of the ancestors *)
(* stays true: only Pause pauses, and while it runs nothing else does.     *)
(* The loop of Resume holds with a workspace all its paused ancestors, and *)
(* takes a workspace only when none of them is left.                       *)
(***************************************************************************)
Climbing == {"pa_stop", "pa_mark", "pa_clear", "re_parent"}

ClimbsAlone ==
  \A t \in Workers, u \in Threads : th[t].pc \in Climbing /\ u # t => th[u].pc = "idle"

Paused == WithStatus({"paused"})

Covered(T) ==
  \A x \in T : /\ \A a \in Paused : x \in Below(a, Ws) => a \in T
               /\ Parent[x] \notin T => \A a \in T : x \notin Below(a, Ws)

Climbed(t) ==
  /\ th[t].pc \in {"rs_stop", "rs_mark", "rt_stop", "rt_mark"} => ~AncestorPaused(th[t].ws)
  /\ th[t].pc = "re_parent" => th[t].ws \in Paused
  /\ th[t].pc = "re_next" => Covered(th[t].todo)

ClimbInv == ClimbsAlone /\ \A t \in Workers : Climbed(t)

\* The workspaces Resume is to take: the one asked for and the paused ones
\* that paused ones lead to.
LEMMA ResumeCovers ==
  ASSUME NEW w \in Paused, ~AncestorPaused(w)
  PROVE  Covered({w} \cup Below(w, Paused))
<1> DEFINE T == {w} \cup Below(w, Paused)
           D == {c \in Below(w, Paused) : \A a \in Paused : c \in Below(a, Ws) => a \in T}
<1>1. \A a \in Paused : w \notin Below(a, Ws)
  BY DEF AncestorPaused, Paused
<1>2. D \subseteq Below(w, Paused) /\ D \subseteq Paused /\ T \subseteq Paused
  BY BelowIsFiltered
<1>3. ASSUME NEW c \in Children({w} \cup D, Paused)  PROVE c \in D
  <2>1. c \in Paused /\ Parent[c] \in {w} \cup D
    BY DEF Children
  <2>2. c \in Below(w, Paused)
    BY <1>2, <2>1, BelowHasChildren
  <2>3. ASSUME NEW a \in Paused, c \in Below(a, Ws)  PROVE a \in T
    <3>1. CASE Parent[c] = a
      BY <1>2, <2>1, <3>1
    <3>2. CASE Parent[c] \in Below(a, Ws)
      BY <1>1, <2>1, <3>2
    <3> QED  BY <2>3, <3>1, <3>2, BelowIsBelow
  <2> QED  BY <2>2, <2>3
<1>4. Below(w, Paused) \subseteq D
  <2> HIDE DEF D
  <2> QED  BY <1>2, <1>3, BelowIsLeast
<1>5. ASSUME NEW x \in T, NEW a \in Paused, x \in Below(a, Ws)  PROVE a \in T
  BY <1>1, <1>4, <1>5
<1>6. ASSUME NEW x \in T, Parent[x] \notin T, NEW a \in T  PROVE x \notin Below(a, Ws)
  <2>1. x = w
    BY <1>6, BelowIsBelow
  <2> QED  BY <1>1, <1>2, <2>1
<1> HIDE DEF T
<1>7. Covered(T)
  BY <1>5, <1>6 DEF Covered
<1> QED
  BY <1>7 DEF T

\* Resume takes x.
LEMMA ResumeTakes ==
  ASSUME NEW T, Covered(T), NEW x \in T, Parent[x] \notin T,
         Paused' \subseteq Paused, x \notin Paused'
  PROVE  ~AncestorPaused(x)' /\ Covered(T \ {x})'
<1>1. \A a \in T : x \notin Below(a, Ws)
  BY DEF Covered
<1>2. ~AncestorPaused(x)'
  <2>1. \A a \in Paused' : x \notin Below(a, Ws)
    BY <1>1 DEF Covered
  <2> QED  BY <2>1 DEF AncestorPaused, Paused
<1>3. ASSUME NEW y \in T \ {x}, NEW a \in Paused', y \in Below(a, Ws)  PROVE a \in T \ {x}
  BY <1>3 DEF Covered
<1>4. ASSUME NEW y \in T \ {x}, Parent[y] \notin T \ {x}, NEW a \in T \ {x}
      PROVE  y \notin Below(a, Ws)
  <2>1. CASE Parent[y] \notin T
    BY <2>1 DEF Covered
  <2>2. CASE Parent[y] = x
    BY <1>1, <2>2, BelowIsBelow
  <2> QED  BY <1>4, <2>1, <2>2
<1> QED
  BY <1>2, <1>3, <1>4 DEF Covered

Seen == {"rs_stop", "rs_mark", "rt_stop", "rt_mark"}

PausesNothing == Paused' \subseteq Paused

LEMMA MarkPausesNothing ==
  ASSUME row \in [Ws -> Status], NEW w, NEW s \in Status \ {"paused"}, NEW barred,
         MarkUnless(w, s, barred)
  PROVE  PausesNothing
  BY DEF MarkUnless, PausesNothing, Paused, WithStatus

LEMMA SameRowsPauseNothing ==
  ASSUME UNCHANGED row
  PROVE  PausesNothing /\ Paused' = Paused
  BY DEF PausesNothing, Paused, WithStatus

LEMMA SeenStaysSeen ==
  ASSUME PausesNothing, NEW w, ~AncestorPaused(w)
  PROVE  ~AncestorPaused(w)'
  BY DEF PausesNothing, Paused, AncestorPaused

\* The threads in T go where they neither pause nor resume.
LEMMA OthersClimbOn ==
  ASSUME ClimbInv, PausesNothing, NEW T \in SUBSET Threads, Still(T),
         Settled \/ \E u \in T : th[u].pc # "idle",
         \A v \in T : th'[v].pc \notin Climbing /\ Climbed(v)'
  PROVE  ClimbInv'
<1>1. \A t \in Workers : th[t].pc \in Climbing => t \in T
  BY DEF ClimbInv, ClimbsAlone, Settled, Idle, Climbing, Threads
<1>2. \A t \in Workers : th'[t].pc \notin Climbing
  BY <1>1 DEF Still, Threads
<1>3. ASSUME NEW t \in Workers, t \notin T  PROVE Climbed(t)'
  <2>1. th'[t] = th[t] /\ th[t].pc \notin Climbing /\ Climbed(t)
    BY <1>1, <1>3 DEF Still, Threads, ClimbInv
  <2>2. Covered(th[t].todo) => Covered(th[t].todo)'
    BY <2>1 DEF Covered, PausesNothing
  <2> QED  BY <2>1, <2>2, SeenStaysSeen DEF Climbed, Climbing
<1> QED
  BY <1>2, <1>3 DEF ClimbInv, ClimbsAlone

\* A pause, or a resume that has not looked yet, runs alone.
LEMMA ClimbsOnAlone ==
  ASSUME NEW t \in Threads, Still({t}), \A u \in Threads : u # t => th[u].pc = "idle", Climbed(t)'
  PROVE  ClimbInv'
<1>1. \A u \in Threads : u # t => th'[u].pc = "idle"
  BY DEF Still
<1>2. \A u \in Workers : Climbed(u)'
  BY <1>1 DEF Climbed, Threads
<1> QED
  BY <1>1, <1>2 DEF ClimbInv, ClimbsAlone, Climbing, Threads

LEMMA GotoClimbs ==
  ASSUME TypeInv, ClimbInv, PausesNothing, NEW t \in Threads, NEW l \in PC \ Climbing, Goto(t, l),
         th[t].pc \notin {"idle", "sw_local", "sw_remote"}, l # "re_next",
         l \in Seen => ~AncestorPaused(th[t].ws)'
  PROVE  ClimbInv'
<1>1. th[t].ws \in Ws /\ ThreadsOK
  BY DEF TypeInv, TypeOK, Located, ThreadsOK
<1>2. Still({t}) /\ th'[t].pc = l /\ th'[t].ws = th[t].ws
  BY <1>1, GotoMoves
<1>3. th'[t].pc \notin Climbing /\ Climbed(t)'
  BY <1>2 DEF Climbed, Climbing, Seen
<1> QED
  BY <1>2, <1>3, OthersClimbOn

LEMMA DoneClimbs ==
  ASSUME TypeInv, ClimbInv, PausesNothing, NEW t \in Threads, Done(t), th[t].pc # "idle"
  PROVE  ClimbInv'
<1>1. Still({t}) /\ th'[t].pc = "idle"
  BY DoneMoves DEF TypeInv, TypeOK, ThreadsOK
<1>2. th'[t].pc \notin Climbing /\ Climbed(t)'
  BY <1>1 DEF Climbed, Climbing
<1> QED
  BY <1>1, <1>2, OthersClimbOn

LEMMA BeginClimbs ==
  ASSUME TypeInv, ClimbInv, PausesNothing, Serial, NEW t \in Threads, NEW l \in PC, NEW w \in Ws,
         NEW S \in SUBSET Ws, Begin(t, l, w, S), l \notin Seen \cup {"re_next"},
         l = "re_parent" => w \in Paused'
  PROVE  ClimbInv'
<1>1. Still({t}) /\ th'[t].pc = l /\ th'[t].ws = w
  BY BeginMoves DEF TypeInv, TypeOK, ThreadsOK
<1>2. Climbed(t)'
  BY <1>1 DEF Climbed, Seen
<1>3. \A u \in Threads : th[u].pc = "idle"
  BY DEF Begin, Settled, Idle
<1> QED
  BY <1>1, <1>2, <1>3, ClimbsOnAlone

LEMMA AtWork ==
  ASSUME TypeInv, NEW t \in Workers, th[t].pc \notin {"idle", "sw_local", "sw_remote"}
  PROVE  /\ t \in Threads /\ th \in [Threads -> Thread] /\ th[t].ws \in Ws
         /\ row \in [Ws -> Status]
  BY DEF TypeInv, TypeOK, StoreTypeOK, Located, Threads

LEMMA ProvisionClimbs ==
  ASSUME TypeInv, ClimbInv, NEW t \in Workers,
         \/ CreateExternal(t) \/ StartReplaces(t) \/ StartCreates(t) \/ StartFails(t)
         \/ ProvisionFailed(t) \/ ProvisionStoresURL(t) \/ ProvisionCachesURL(t)
  PROVE  ClimbInv'
<1> USE DEF At, On, store
<1>1. th[t].pc \in {"cr_online", "pv_start", "pv_create", "pv_fail", "pv_url", "pv_cache",
                   "xp_start", "xp_create"}
  BY DEF CreateExternal, StartReplaces, StartCreates, StartFails, ProvisionFailed,
         ProvisionStoresURL, ProvisionCachesURL
<1>2. \/ UNCHANGED row
      \/ Mark(th[t].ws, "online") \/ Mark(th[t].ws, "failed")
  BY DEF CreateExternal, StartReplaces, StartCreates, StartFails, ProvisionFailed,
         ProvisionStoresURL, ProvisionCachesURL
<1>3. PausesNothing
  BY <1>1, <1>2, AtWork, MarkPausesNothing, SameRowsPauseNothing DEF Mark, Status
<1>4. Done(t) \/ \E l \in {"pv_create", "xp_create", "pv_url", "pv_fail", "pv_cache"} : Goto(t, l)
  BY DEF CreateExternal, StartReplaces, StartCreates, StartFails, ProvisionFailed,
         ProvisionStoresURL, ProvisionCachesURL
<1> QED
  BY <1>1, <1>3, <1>4, AtWork, DoneClimbs, GotoClimbs DEF PC, Climbing, Seen

LEMMA AgentsClimb ==
  ASSUME TypeInv, ClimbInv, NEW t \in Workers,
         \/ RegisterUpserts(t) \/ RegisterSetsKeys(t) \/ EvaluateReads(t) \/ EvaluateWrites(t)
         \/ ProxyReturns(t) \/ ProxyMarks(t) \/ ProxyClears(t)
  PROVE  ClimbInv'
<1> USE DEF At, On, store
<1>1. th[t].pc \in {"reg_upsert", "reg_redis", "hb_read", "hb_degrade", "hb_heal", "hb_back",
                   "px_forward", "px_mark", "px_clear"}
  BY DEF RegisterUpserts, RegisterSetsKeys, EvaluateReads, EvaluateWrites, ProxyReturns,
         ProxyMarks, ProxyClears
<1>2. \/ UNCHANGED row \/ row' = [row EXCEPT ![th[t].ws] = "online"]
      \/ \E s \in {"online", "degraded", "offline"}, b \in SUBSET Status :
           MarkUnless(th[t].ws, s, b)
  BY DEF RegisterUpserts, RegisterSetsKeys, EvaluateReads, EvaluateWrites, ProxyReturns,
         ProxyMarks, ProxyClears, Mark, Status
<1>3. PausesNothing
  <2>1. CASE row' = [row EXCEPT ![th[t].ws] = "online"]
    BY <1>1, <2>1, AtWork DEF PausesNothing, Paused, WithStatus
  <2> QED  BY <1>1, <1>2, <2>1, AtWork, MarkPausesNothing, SameRowsPauseNothing DEF Status
<1>4. \/ Done(t)
      \/ \E l \in {"reg_redis", "hb_degrade", "hb_heal", "hb_back", "px_mark", "px_clear",
                   "rs_lock"} : Goto(t, l)
  BY DEF RegisterUpserts, RegisterSetsKeys, EvaluateReads, EvaluateWrites, ProxyReturns,
         ProxyMarks, ProxyClears
<1> QED
  BY <1>1, <1>3, <1>4, AtWork, DoneClimbs, GotoClimbs DEF PC, InRestartByID, Climbing, Seen

LEMMA RestartsClimb ==
  ASSUME TypeInv, ClimbInv, NEW t \in Workers,
         \/ RestartLocks(t) \/ RestartSelects(t) \/ RestartChecksParent(t)
         \/ RestartStops(t) \/ RestartMarks(t) \/ RestartProvisions(t)
         \/ HandlerChecksParent(t) \/ HandlerStops(t) \/ HandlerMarks(t)
  PROVE  ClimbInv'
<1> USE DEF At, On, store
<1>1. th[t].pc \in InRestartByID \cup {"rs_lock", "rt_parent", "rt_stop", "rt_mark"}
  BY DEF RestartLocks, RestartSelects, RestartChecksParent, RestartStops, RestartMarks,
         RestartProvisions, HandlerChecksParent, HandlerStops, HandlerMarks, InRestartByID
<1>2. UNCHANGED row \/ Mark(th[t].ws, "provisioning")
  BY DEF RestartLocks, RestartSelects, RestartChecksParent, RestartStops, RestartMarks,
         RestartProvisions, HandlerChecksParent, HandlerStops, HandlerMarks
<1>3. /\ t \in Threads /\ th[t].ws \in Ws /\ row \in [Ws -> Status] /\ Climbed(t)
      /\ th[t].pc \notin {"idle", "sw_local", "sw_remote"}
  BY <1>1, AtWork DEF InRestartByID, ClimbInv
<1>4. PausesNothing
  BY <1>2, <1>3, MarkPausesNothing, SameRowsPauseNothing DEF Mark, Status
<1>5. \/ Done(t)
      \/ \E l \in {"rs_select", "rs_parent", "rs_go", "pv_start"} : Goto(t, l)
      \/ \E l \in Seen : Goto(t, l) /\ ~AncestorPaused(th[t].ws)
  BY <1>3 DEF RestartLocks, RestartSelects, RestartChecksParent, RestartStops, RestartMarks,
         RestartProvisions, HandlerChecksParent, HandlerStops, HandlerMarks, Seen, Climbed
<1>6. CASE Done(t)
  BY <1>3, <1>4, <1>6, DoneClimbs
<1>7. ASSUME NEW l \in {"rs_select", "rs_parent", "rs_go", "pv_start"}, Goto(t, l)
      PROVE  ClimbInv'
  BY <1>3, <1>4, <1>7, GotoClimbs DEF PC, InRestartByID, Climbing, Seen
<1>8. ASSUME NEW l \in Seen, Goto(t, l), ~AncestorPaused(th[t].ws)
      PROVE  ClimbInv'
  <2>1. ~AncestorPaused(th[t].ws)'
    <3>1. th'[t].ws = th[t].ws
      BY <1>3, <1>8, AtWork DEF Goto, Thread
    <3>2. ASSUME NEW w, ~AncestorPaused(w)  PROVE ~AncestorPaused(w)'
      BY <1>4, <3>2, SeenStaysSeen
    <3> QED  BY <1>8, <3>1, <3>2 DEF AncestorPaused
  <2>2. l \in PC \ Climbing /\ l # "re_next"
    BY DEF Seen, PC, InRestartByID, Climbing
  <2> QED  BY <1>3, <1>4, <1>8, <2>1, <2>2, GotoClimbs
<1> QED
  BY <1>5, <1>6, <1>7, <1>8

LEMMA ResumeClimbs ==
  ASSUME TypeInv, ClimbInv, NEW t \in Workers, NEW x \in Ws, ResumeNext(t, x)
  PROVE  ClimbInv' /\ ~AncestorPaused(x)'
<1>1. /\ th[t].pc = "re_next" /\ x \in th[t].todo /\ Parent[x] \notin th[t].todo
      /\ Mark(x, "provisioning") /\ Covered(th[t].todo)
  BY DEF ResumeNext, At, Topmost, ClimbInv, Climbed
<1>2. /\ t \in Threads /\ ThreadsOK /\ row \in [Ws -> Status]
  BY DEF TypeInv, TypeOK, StoreTypeOK, ThreadsOK, Threads
<1>3. PausesNothing
  BY <1>1, <1>2, MarkPausesNothing DEF Mark, Status
<1>4. x \notin Paused'
  BY <1>1, <1>2 DEF Mark, MarkUnless, Paused, WithStatus
<1>5. PICK T : T = th[t].todo
  OBVIOUS
<1>6. ~AncestorPaused(x)' /\ Covered(T \ {x})'
  BY <1>1, <1>3, <1>4, <1>5, ResumeTakes DEF PausesNothing
<1>7. CASE th[t].todo = {x}
  <2>1. Still({t}) /\ th'[t].pc = "pv_start"
    BY <1>2, <1>7, JobIsThread DEF ResumeNext, Still, ThreadsOK, PC
  <2>2. th'[t].pc \notin Climbing /\ Climbed(t)'
    BY <2>1 DEF Climbing, Climbed
  <2> QED  BY <1>1, <1>2, <1>3, <1>6, <2>1, <2>2, OthersClimbOn
<1>8. ASSUME NEW u \in Workers,
             Fork(t, [th[t] EXCEPT !.todo = @ \ {x}], u, Job("pv_start", x, {}))
      PROVE  ClimbInv'
  <2>1. /\ u \in Threads /\ u # t /\ Still({t, u})
        /\ th'[t].pc = "re_next" /\ th'[t].todo = T \ {x} /\ th'[u].pc = "pv_start"
    BY <1>1, <1>2, <1>5, <1>8 DEF Fork, Still, ThreadsOK, Threads, Thread, Job
  <2>2. Climbed(t)' /\ Climbed(u)'
    BY <1>6, <2>1 DEF Climbed, Covered
  <2>3. th'[t].pc \notin Climbing /\ th'[u].pc \notin Climbing
    BY <2>1 DEF Climbing
  <2> QED  BY <1>1, <1>2, <1>3, <2>1, <2>2, <2>3, OthersClimbOn
<1> QED
  BY <1>6, <1>7, <1>8 DEF ResumeNext

LEMMA PausesClimb ==
  ASSUME TypeInv, ClimbInv, NEW t \in Workers,
         \/ PauseMarks(t) \/ PauseClears(t) \/ ResumeChecksParent(t)
         \/ \E x \in Ws : PauseStops(t, x)
  PROVE  ClimbInv'
<1> USE DEF At, On
<1>1. th[t].pc \in Climbing
  BY DEF PauseMarks, PauseClears, ResumeChecksParent, PauseStops, Climbing
<1>2. /\ t \in Threads /\ ThreadsOK /\ th[t].ws \in Ws /\ Climbed(t)
      /\ \A u \in Threads : u # t => th[u].pc = "idle"
  BY <1>1 DEF TypeInv, TypeOK, ThreadsOK, Located, Threads, Climbing, ClimbInv, ClimbsAlone
<1>3. CASE PauseMarks(t)
  <2>1. Still({t}) /\ th'[t].pc = "pa_clear"
    BY <1>2, <1>3, GotoMoves DEF PauseMarks, PC
  <2>2. Climbed(t)'
    BY <2>1 DEF Climbed
  <2> QED  BY <1>2, <2>1, <2>2, ClimbsOnAlone
<1>4. CASE PauseClears(t)
  <2>1. Still({t}) /\ th'[t].pc \in {"idle", "pa_stop"}
    BY <1>2, <1>4, AdvanceMoves DEF PauseClears, PC
  <2>2. Climbed(t)'
    BY <2>1 DEF Climbed
  <2> QED  BY <1>2, <2>1, <2>2, ClimbsOnAlone
<1>5. ASSUME NEW x \in Ws, PauseStops(t, x)  PROVE ClimbInv'
  <2>0. th' = [th EXCEPT ![t].pc = "pa_mark", ![t].ws = x] /\ th \in [Threads -> Thread]
    BY <1>2, <1>5 DEF PauseStops, ThreadsOK
  <2>1. Still({t}) /\ th'[t].pc = "pa_mark"
    BY <1>2, <2>0 DEF Still, Thread
  <2>2. Climbed(t)'
    BY <2>1 DEF Climbed
  <2> QED  BY <1>2, <2>1, <2>2, ClimbsOnAlone
<1>6. CASE ResumeChecksParent(t)
  <2>1. UNCHANGED row /\ th[t].pc = "re_parent"
    BY <1>6 DEF ResumeChecksParent, store
  <2>2. CASE Done(t)
    BY <1>1, <1>2, <2>1, <2>2, SameRowsPauseNothing, DoneClimbs
  <2>3. CASE /\ ~AncestorPaused(th[t].ws)
             /\ th' = [th EXCEPT ![t].pc = "re_next",
                         ![t].todo = {th[t].ws} \cup Below(th[t].ws, Paused)]
    <3>1. PICK w : w = th[t].ws
      OBVIOUS
    <3>2. w \in Paused
      BY <1>2, <2>1, <3>1 DEF Climbed
    <3>3. PICK T : T = {w} \cup Below(w, Paused)
      OBVIOUS
    <3>4. Covered(T)
      BY <2>3, <3>1, <3>2, <3>3, ResumeCovers
    <3>5. Covered(T)'
      BY <2>1, <3>4, SameRowsPauseNothing DEF Covered
    <3>6. Still({t}) /\ th'[t].pc = "re_next" /\ th'[t].todo = T
      BY <1>2, <2>3, <3>1, <3>3 DEF Still, ThreadsOK, Thread
    <3>7. Climbed(t)'
      BY <3>5, <3>6 DEF Climbed, Covered
    <3> QED  BY <1>2, <3>6, <3>7, ClimbsOnAlone
  <2> QED  BY <1>6, <2>2, <2>3 DEF ResumeChecksParent, Paused
<1> QED
  BY <1>3, <1>4, <1>5, <1>6

LEMMA RemovalsClimb ==
  ASSUME TypeInv, ClimbInv, NEW t \in Workers,
         \/ DeleteMarks(t) \/ DeleteClears(t) \/ CollapseMarks(t)
         \/ \E x \in Ws : DeleteStops(t, x) \/ CollapseStops(t, x)
  PROVE  ClimbInv'
<1> USE DEF At, On
<1>1. th[t].pc \in {"de_mark", "de_stop", "de_clear", "co_stop", "co_mark"}
  BY DEF DeleteMarks, DeleteClears, CollapseMarks, DeleteStops, CollapseStops
<1>2. /\ t \in Threads /\ ThreadsOK /\ th[t].ws \in Ws /\ row \in [Ws -> Status]
  BY <1>1, AtWork DEF TypeInv, TypeOK, ThreadsOK
<1>3. PausesNothing
  <2>1. CASE MarkAll(th[t].todo, "removed")
    BY <1>2, <2>1 DEF MarkAll, PausesNothing, Paused, WithStatus
  <2>2. \/ MarkAll(th[t].todo, "removed") \/ Mark(th[t].ws, "removed") \/ UNCHANGED row
    BY DEF DeleteMarks, DeleteClears, CollapseMarks, DeleteStops, CollapseStops
  <2> QED
    BY <1>2, <2>1, <2>2, MarkPausesNothing, SameRowsPauseNothing DEF Mark, Status
<1>4. Still({t}) /\ th'[t].pc \in {"idle", "de_stop", "de_clear", "co_stop", "co_mark"}
  <2>1. CASE DeleteMarks(t)
    BY <1>2, <2>1, GotoMoves DEF DeleteMarks, PC
  <2>2. CASE DeleteClears(t) \/ CollapseMarks(t)
    BY <1>2, <2>2, AdvanceMoves DEF DeleteClears, CollapseMarks, PC
  <2>3. ASSUME NEW x \in Ws, NEW l \in {"de_clear", "co_mark"},
               th' = [th EXCEPT ![t].pc = l, ![t].ws = x]
        PROVE  Still({t}) /\ th'[t].pc = l
    BY <1>2, <2>3 DEF Still, ThreadsOK, Thread
  <2>4. ASSUME NEW x \in Ws, DeleteStops(t, x) \/ CollapseStops(t, x)
        PROVE  \E l \in {"de_clear", "co_mark"} : th' = [th EXCEPT ![t].pc = l, ![t].ws = x]
    BY <2>4 DEF DeleteStops, CollapseStops
  <2> QED
    BY <2>1, <2>2, <2>3, <2>4
<1>5. th'[t].pc \notin Climbing /\ Climbed(t)'
  BY <1>4 DEF Climbing, Climbed
<1> QED
  BY <1>1, <1>2, <1>3, <1>4, <1>5, OthersClimbOn

LEMMA BesideClimbs ==
  ASSUME ClimbInv, UNCHANGED th, Paused' = Paused
  PROVE  ClimbInv'
<1>1. ASSUME NEW t \in Workers  PROVE Climbed(t)'
  <2>1. Climbed(t)
    BY DEF ClimbInv
  <2>2. Covered(th[t].todo) => Covered(th[t].todo)'
    BY DEF Covered
  <2>3. AncestorPaused(th[t].ws)' => AncestorPaused(th[t].ws)
    BY DEF AncestorPaused, Paused
  <2> QED  BY <2>1, <2>2, <2>3 DEF Climbed
<1> QED
  BY <1>1 DEF ClimbInv, ClimbsAlone

LEMMA ArrivalsClimb ==
  ASSUME TypeInv, ClimbInv, Serial, NEW t \in Workers, NEW w \in Ws, Arrives(t, w)
  PROVE  ClimbInv'
<1>0. t \in Threads /\ row \in [Ws -> Status]
  BY DEF Threads, TypeInv, TypeOK, StoreTypeOK
<1>1. CASE Create(t, w) \/ Expand(t, w)
  <2>1. Paused' = Paused /\ PausesNothing
    BY <1>0, <1>1 DEF Create, Expand, Insert, Paused, PausesNothing, WithStatus
  <2>2. UNCHANGED th \/ \E l \in {"cr_online", "pv_start", "xp_start"} : Begin(t, l, w, {})
    BY <1>1 DEF Create, Expand
  <2>3. CASE UNCHANGED th
    BY <2>1, <2>3, BesideClimbs
  <2>4. ASSUME NEW l \in {"cr_online", "pv_start", "xp_start"}, Begin(t, l, w, {})
        PROVE  ClimbInv'
    <3>1. l \in PC /\ l \notin Seen \cup {"re_next"} /\ l # "re_parent"
      BY DEF PC, Seen
    <3> QED  BY <1>0, <2>1, <2>4, <3>1, BeginClimbs
  <2> QED  BY <2>2, <2>3, <2>4
<1>2. CASE \/ Register(t, w) \/ Heartbeat(t, w) \/ Proxy(t, w) \/ RequestRestart(t, w)
           \/ Restart(t, w)
  <2>1. PausesNothing
    BY <1>2, SameRowsPauseNothing DEF Register, Heartbeat, Proxy, RequestRestart, Restart, store
  <2>2. \E l \in {"reg_upsert", "hb_read", "px_forward", "rs_lock", "rt_parent"} :
          Begin(t, l, w, {})
    BY <1>2 DEF Register, Heartbeat, Proxy, RequestRestart, Restart
  <2>3. ASSUME NEW l \in {"reg_upsert", "hb_read", "px_forward", "rs_lock", "rt_parent"},
               Begin(t, l, w, {})
        PROVE  ClimbInv'
    <3>1. l \in PC /\ l \notin Seen \cup {"re_next"} /\ l # "re_parent"
      BY DEF PC, Seen
    <3> QED  BY <1>0, <2>1, <2>3, <3>1, BeginClimbs
  <2> QED  BY <2>2, <2>3
<1>3. CASE Resume(t, w)
  <2>1. PausesNothing /\ w \in Paused'
    BY <1>0, <1>3, SameRowsPauseNothing DEF Resume, store, Paused, WithStatus
  <2>2. Begin(t, "re_parent", w, {})
    BY <1>3 DEF Resume
  <2> QED  BY <1>0, <2>1, <2>2, BeginClimbs DEF PC, Seen
<1>4. CASE Pause(t, w) \/ Delete(t, w) \/ Collapse(t, w)
  <2>1. PausesNothing
    BY <1>4, SameRowsPauseNothing DEF Pause, Delete, Collapse, store
  <2>2. \E l \in {"pa_stop", "de_mark", "co_stop"}, S \in SUBSET Ws : Begin(t, l, w, S)
    <3>1. RowsNotIn({"removed", "paused"}) \subseteq Ws /\ RowsNotIn({"removed"}) \subseteq Ws
      BY QueriesAreRows
    <3>2. {w} \cup Below(w, RowsNotIn({"removed", "paused"})) \subseteq Ws
      BY <3>1, BelowIsFiltered
    <3>3. {w} \cup Below(w, RowsNotIn({"removed"})) \subseteq Ws
      BY <3>1, BelowIsFiltered
    <3>4. {c \in RowsNotIn({"removed"}) : Parent[c] = w} \subseteq Ws
      BY <3>1
    <3> QED  BY <1>4, <3>2, <3>3, <3>4 DEF Pause, Delete, Collapse
  <2> QED  BY <1>0, <2>1, <2>2, BeginClimbs DEF PC, Seen
<1> QED
  BY <1>1, <1>2, <1>3, <1>4 DEF Arrives

LEMMA SweepsClimb ==
  ASSUME TypeInv, ClimbInv, Serial, Sweeps
  PROVE  ClimbInv'
<1> USE DEF At, On
<1>0. /\ Sweeper \in Threads /\ th \in [Threads -> Thread] /\ row \in [Ws -> Status]
  BY SweeperIsNoWorker DEF TypeInv, TypeOK, StoreTypeOK
<1>1. PausesNothing
  <2>1. UNCHANGED row \/ \E w, b : MarkUnless(w, "offline", b)
    BY DEF Sweeps, SweepBegins, SweepMarks, SweepTurnsToRemote, SweepEnds, SweepChecks,
           SweepMarksRemote, SweepClears, store
  <2> QED  BY <1>0, <2>1, MarkPausesNothing, SameRowsPauseNothing DEF Status
<1>2. Settled \/ th[Sweeper].pc # "idle"
  BY DEF Sweeps, SweepBegins, Begin, SweepMarks, SweepTurnsToRemote, SweepEnds, SweepChecks,
         SweepMarksRemote, SweepClears
\* A pass moves the sweeper to l, where nothing is paused or resumed.
<1>3. ASSUME NEW l \in {"idle", "sw_local", "sw_remote", "sw_mark", "sw_clear", "sw_rclear"},
             Still({Sweeper}), th'[Sweeper].pc = l
      PROVE  ClimbInv'
  <2>1. th'[Sweeper].pc \notin Climbing /\ Climbed(Sweeper)'
    BY <1>3 DEF Climbing, Climbed
  <2> QED  BY <1>0, <1>1, <1>2, <1>3, <2>1, OthersClimbOn
<1>4. CASE SweepBegins
  <2>1. Still({Sweeper}) /\ th'[Sweeper].pc = "sw_local"
    BY <1>0, <1>4 DEF SweepBegins, Begin, Job, Still
  <2> QED  BY <1>3, <2>1
<1>5. CASE SweepMarks
  <2>1. Still({Sweeper}) /\ th'[Sweeper].pc = "sw_clear"
    BY <1>0, <1>5 DEF SweepMarks, Goto, Still, Thread
  <2> QED  BY <1>3, <2>1
<1>6. CASE SweepTurnsToRemote
  <2>1. Still({Sweeper}) /\ th'[Sweeper].pc = "sw_remote"
    BY <1>0, <1>6 DEF SweepTurnsToRemote, Still, Thread
  <2> QED  BY <1>3, <2>1
<1>7. CASE SweepEnds
  <2>1. Still({Sweeper}) /\ th'[Sweeper].pc = "idle"
    BY <1>0, <1>7, DoneMoves DEF SweepEnds, TypeInv, TypeOK, ThreadsOK
  <2> QED  BY <1>3, <2>1
<1>8. ASSUME NEW w \in Ws, SweepChecks(w)  PROVE ClimbInv'
  <2>1. Still({Sweeper}) /\ th'[Sweeper].pc \in {"sw_local", "sw_mark"}
    BY <1>0, <1>8 DEF SweepChecks, Still, Thread
  <2> QED  BY <1>3, <2>1
<1>9. ASSUME NEW w \in Ws, SweepMarksRemote(w)  PROVE ClimbInv'
  <2>1. Still({Sweeper}) /\ th'[Sweeper].pc = "sw_rclear"
    BY <1>0, <1>9 DEF SweepMarksRemote, Still, Thread
  <2> QED  BY <1>3, <2>1
<1>10. ASSUME NEW u \in Workers, SweepClears(u)  PROVE ClimbInv'
  <2>1. u \in Threads /\ u # Sweeper
    BY SweeperIsNoWorker DEF Threads
  <2>2. /\ Still({Sweeper, u}) /\ th'[u].pc = "rs_lock"
        /\ th'[Sweeper].pc \in {"sw_local", "sw_remote"}
    BY <1>0, <1>10, <2>1 DEF SweepClears, Fork, Job, Still, Thread
  <2>3. /\ Climbed(u)' /\ Climbed(Sweeper)'
        /\ th'[u].pc \notin Climbing /\ th'[Sweeper].pc \notin Climbing
    BY <2>2 DEF Climbing, Climbed
  <2> QED  BY <1>0, <1>1, <1>2, <2>1, <2>2, <2>3, OthersClimbOn
<1> QED
  BY <1>4, <1>5, <1>6, <1>7, <1>8, <1>9, <1>10 DEF Sweeps

LEMMA MonitorClimbs ==
  ASSUME TypeInv, ClimbInv, Serial, NEW w \in Ws, NEW u \in Workers, LivenessMonitor(w, u)
  PROVE  ClimbInv'
<1>1. u \in Threads /\ row \in [Ws -> Status]
  BY DEF Threads, TypeInv, TypeOK, StoreTypeOK
<1>2. PausesNothing
  BY <1>1, MarkPausesNothing DEF LivenessMonitor, Status
<1>3. Begin(u, "rs_lock", w, {})
  BY DEF LivenessMonitor
<1> QED
  BY <1>1, <1>2, <1>3, BeginClimbs DEF PC, Seen

LEMMA EnvironmentClimbs ==
  ASSUME ClimbInv, Environment
  PROVE  ClimbInv'
<1>1. CASE Crash
  <2>1. \A t \in Threads : th'[t].pc = "idle"
    BY <1>1 DEF Crash, Idle
  <2> QED  BY <2>1 DEF ClimbInv, ClimbsAlone, Climbed, Climbing, Threads
<1>2. CASE UNCHANGED <<row, th>>
  BY <1>2, SameRowsPauseNothing, BesideClimbs
<1>3. Crash \/ UNCHANGED <<row, th>>
  BY DEF Environment, ExpireLiveKey, ExpireURLKey, ContainerDies, ContainerRespawns, control
<1> QED
  BY <1>1, <1>2, <1>3

LEMMA InitClimbs == Init => ClimbInv
<1> SUFFICES ASSUME Init PROVE ClimbInv
  OBVIOUS
<1>1. \A t \in Threads : th[t].pc = "idle"
  BY DEF Init, Idle
<1> QED
  BY <1>1 DEF ClimbInv, ClimbsAlone, Climbed, Climbing, Threads

LEMMA StepClimbs ==
  ASSUME Serial, TypeInv, ClimbInv, [Next]_vars
  PROVE  ClimbInv'
<1>1. ASSUME NEW t \in Workers, NEW w \in Ws, Arrives(t, w)  PROVE ClimbInv'
  BY <1>1, ArrivalsClimb
<1>2. ASSUME NEW t \in Workers, Works(t)  PROVE ClimbInv'
  BY <1>2, ProvisionClimbs, AgentsClimb, RestartsClimb, ResumeClimbs, PausesClimb, RemovalsClimb
     DEF Works
<1>3. CASE Sweeps
  BY <1>3, SweepsClimb
<1>4. CASE Monitors
  BY <1>4, MonitorClimbs DEF Monitors
<1>5. CASE Environment
  BY <1>5, EnvironmentClimbs
<1>6. CASE UNCHANGED vars
  <2>1. UNCHANGED <<row, th>>
    BY <1>6 DEF vars, store, control
  <2> QED  BY <2>1, SameRowsPauseNothing, BesideClimbs
<1> QED
  BY <1>1, <1>2, <1>3, <1>4, <1>5, <1>6 DEF Next

\* Only three statements put a row that exists back to 'provisioning'.
LEMMA WhoBringsBack ==
  ASSUME TypeInv, [Next]_vars, NEW w \in Ws,
         row[w] \notin {"absent", "provisioning"}, row'[w] = "provisioning"
  PROVE  \E t \in Workers :
           \/ (RestartMarks(t) \/ HandlerMarks(t)) /\ w = th[t].ws
           \/ ResumeNext(t, w)
<1>1. row \in [Ws -> Status]
  BY DEF TypeInv, TypeOK, StoreTypeOK
<1>2. UNCHANGED row => FALSE
  OBVIOUS
<1>3. ASSUME NEW v, NEW s, NEW b, MarkUnless(v, s, b)  PROVE w = v /\ s = "provisioning"
  BY <1>1, <1>3 DEF MarkUnless
<1>4. ASSUME NEW v, NEW s, Insert(v, s)  PROVE FALSE
  BY <1>1, <1>4 DEF Insert
<1>5. ASSUME NEW t \in Workers, NEW v \in Ws, Arrives(t, v)  PROVE FALSE
  BY <1>2, <1>4, <1>5
     DEF Arrives, Create, Expand, Collapse, Register, Heartbeat, Proxy, RequestRestart, Restart,
         Pause, Resume, Delete, store
<1>6. ASSUME NEW t \in Workers, Works(t)
      PROVE  \/ (RestartMarks(t) \/ HandlerMarks(t)) /\ w = th[t].ws
             \/ ResumeNext(t, w)
  <2> USE DEF store
  <2>1. ASSUME \/ CreateExternal(t) \/ StartReplaces(t) \/ StartCreates(t) \/ StartFails(t)
               \/ ProvisionFailed(t) \/ ProvisionStoresURL(t) \/ ProvisionCachesURL(t)
        PROVE  FALSE
    BY <1>2, <1>3, <2>1 DEF CreateExternal, StartReplaces, StartCreates, StartFails,
                            ProvisionFailed, ProvisionStoresURL, ProvisionCachesURL, Mark
  <2>2. ASSUME RegisterUpserts(t)  PROVE FALSE
    BY <1>1, <1>2, <2>2 DEF RegisterUpserts
  <2>3. ASSUME \/ RegisterSetsKeys(t) \/ EvaluateReads(t) \/ EvaluateWrites(t)
               \/ ProxyReturns(t) \/ ProxyMarks(t) \/ ProxyClears(t)
        PROVE  FALSE
    BY <1>2, <1>3, <2>3 DEF RegisterSetsKeys, EvaluateReads, EvaluateWrites, ProxyReturns,
                            ProxyMarks, ProxyClears, Mark
  <2>4. ASSUME \/ RestartLocks(t) \/ RestartSelects(t) \/ RestartChecksParent(t)
               \/ RestartStops(t) \/ RestartProvisions(t)
               \/ HandlerChecksParent(t) \/ HandlerStops(t)
        PROVE  FALSE
    BY <1>2, <2>4 DEF RestartLocks, RestartSelects, RestartChecksParent, RestartStops,
                      RestartProvisions, HandlerChecksParent, HandlerStops
  <2>5. ASSUME PauseMarks(t) \/ PauseClears(t) \/ ResumeChecksParent(t) \/ DeleteClears(t)
               \/ CollapseMarks(t)
        PROVE  FALSE
    BY <1>2, <1>3, <2>5 DEF PauseMarks, PauseClears, ResumeChecksParent, DeleteClears,
                            CollapseMarks, Mark
  <2>6. ASSUME DeleteMarks(t)  PROVE FALSE
    BY <2>6 DEF DeleteMarks, MarkAll
  <2>7. ASSUME NEW x \in Ws, PauseStops(t, x) \/ DeleteStops(t, x) \/ CollapseStops(t, x)
        PROVE  FALSE
    BY <1>2, <2>7 DEF PauseStops, DeleteStops, CollapseStops
  <2>8. ASSUME RestartMarks(t) \/ HandlerMarks(t)  PROVE w = th[t].ws
    BY <1>3, <2>8 DEF RestartMarks, HandlerMarks, Mark, On
  <2>9. ASSUME NEW x \in Ws, ResumeNext(t, x)  PROVE w = x
    BY <1>3, <2>9 DEF ResumeNext, Mark
  <2> QED
    <3>1. ASSUME NEW x \in Ws, ResumeNext(t, x)  PROVE ResumeNext(t, w)
      BY <2>9, <3>1
    <3> QED  BY <1>6, <2>1, <2>2, <2>3, <2>4, <2>5, <2>6, <2>7, <2>8, <3>1 DEF Works
<1>7. ASSUME Sweeps  PROVE FALSE
  <2>1. UNCHANGED row \/ \E v, b : MarkUnless(v, "offline", b)
    BY <1>7 DEF Sweeps, SweepBegins, SweepMarks, SweepTurnsToRemote, SweepEnds, SweepChecks,
                SweepMarksRemote, SweepClears, store
  <2> QED  BY <1>2, <1>3, <2>1
<1>8. Monitors => FALSE
  BY <1>3 DEF Monitors, LivenessMonitor
<1>9. Environment => FALSE
  BY <1>2 DEF Environment, ExpireLiveKey, ExpireURLKey, ContainerDies, ContainerRespawns, Crash
<1>10. ~UNCHANGED vars
  BY <1>2 DEF vars, store
<1> QED
  BY <1>5, <1>6, <1>7, <1>8, <1>9, <1>10 DEF Next

(***************************************************************************)
(* A workspace is restarted or resumed only while none of its ancestors is *)
(* paused, whichever of the six paths asks for it: for any tree (and any   *)
(* parent relation that is none), any number of goroutines, and with the   *)
(* process dying at any step.  The look at the ancestors and the UPDATE    *)
(* are two statements, so a pause that begins between them would break it: *)
(* hence one request, event or sweep at a time.                            *)
(***************************************************************************)
THEOREM NoRestartUnderPause ==
  ASSUME Serial
  PROVE  Spec => NoRestartBelowPause
<1>1. ASSUME TypeInv, ClimbInv, [Next]_vars
      PROVE  \A w \in Ws : row[w] \notin {"absent", "provisioning"} /\ row'[w] = "provisioning"
               => ~AncestorPaused(w)'
  <2> SUFFICES ASSUME NEW w \in Ws, row[w] \notin {"absent", "provisioning"},
                      row'[w] = "provisioning"
               PROVE  ~AncestorPaused(w)'
    OBVIOUS
  <2>1. PICK t \in Workers : \/ (RestartMarks(t) \/ HandlerMarks(t)) /\ w = th[t].ws
                             \/ ResumeNext(t, w)
    BY <1>1, WhoBringsBack
  <2>2. CASE ResumeNext(t, w)
    BY <1>1, <2>2, ResumeClimbs
  <2>3. CASE (RestartMarks(t) \/ HandlerMarks(t)) /\ w = th[t].ws
    <3>1. ~AncestorPaused(w)
      BY <1>1, <2>3 DEF RestartMarks, HandlerMarks, At, ClimbInv, Climbed
    <3>2. PausesNothing
      BY <1>1, <2>3, MarkPausesNothing
         DEF RestartMarks, HandlerMarks, Mark, TypeInv, TypeOK, StoreTypeOK, Status
    <3> QED  BY <3>1, <3>2, SeenStaysSeen
  <2> QED  BY <2>1, <2>2, <2>3
<1>2. Init => TypeInv /\ ClimbInv
  BY InitIsTyped, InitClimbs
<1>3. TypeInv /\ ClimbInv /\ [Next]_vars => (TypeInv /\ ClimbInv)'
  BY StepPreserves, StepClimbs
<1> QED
  BY <1>1, <1>2, <1>3, PTL DEF Spec, NoRestartBelowPause
=============================================================================
