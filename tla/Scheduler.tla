------------------------------ MODULE Scheduler ------------------------------
(***************************************************************************)
(* Cron schedules: the poll loop that fires what is due and the handlers   *)
(* that create, edit and delete schedules beside it.                       *)
(*                                                                         *)
(*   state : "absent", "enabled", "disabled" or "deleted"                  *)
(*   cron  : the expression (with its timezone) in the row                 *)
(*   due   : the schedules whose next_run_at has passed, in the order of   *)
(*           next_run_at                                                   *)
(*   batch : what the tick under way has selected and not yet started, by  *)
(*           its place in due at the SELECT, with the expression it read   *)
(*   fires : the goroutines of the tick; one slot of the semaphore each    *)
(*   ticking : a tick is under way                                         *)
(*   shots : forwards of a schedule since its present due time (history)   *)
(*   crashes : how often the platform process has restarted                *)
(***************************************************************************)
EXTENDS Naturals, Sequences, FiniteSets, SequencesExt

CONSTANTS
  Schedules,   \* schedule ids (bound: each is created at most once)
  Crons,       \* cron expressions ComputeNextRun accepts
  NoDate,      \* those among them that match no date of the next five years
  Slots,       \* maxConcurrent goroutines
  BatchLimit,  \* batchLimit
  Users,       \* what users write: pairs of schedule and expression (bound)
  MaxCrashes   \* restarts of the platform process (bound)

NoSchedule == "none"

ASSUME SchedulerAssumption ==
  /\ NoSchedule \notin Schedules
  /\ NoDate \subseteq Crons
  /\ Users \subseteq Schedules \X Crons
  /\ BatchLimit \in Nat \ {0}
  /\ MaxCrashes \in Nat

VARIABLES state, cron, due, batch, fires, ticking, shots, crashes

table == <<state, cron, due>>

control == <<batch, fires, ticking>>

vars == <<table, control, shots, crashes>>

Job == [id : Schedules, cron : Crons]

Idle == [pc |-> "idle", id |-> NoSchedule, cron |-> NoSchedule]

Fire == {Idle} \cup [pc : {"send", "sent", "update"}, id : Schedules, cron : Crons]

TypeOK ==
  /\ state \in [Schedules -> {"absent", "enabled", "disabled", "deleted"}]
  /\ cron \in [Schedules -> Crons \cup {NoSchedule}]
  /\ due \in Seq(Schedules)
  /\ batch \in [DOMAIN batch -> Job] /\ DOMAIN batch \subseteq Nat
  /\ IsFiniteSet(DOMAIN batch) /\ Cardinality(DOMAIN batch) <= BatchLimit
  /\ fires \in [Slots -> Fire]
  /\ ticking \in BOOLEAN
  /\ shots \in [Schedules -> Nat]
  /\ crashes \in 0..MaxCrashes

Init ==
  /\ state = [s \in Schedules |-> "absent"]
  /\ cron = [s \in Schedules |-> NoSchedule]
  /\ due = <<>>
  /\ batch = <<>>
  /\ fires = [i \in Slots |-> Idle]
  /\ ticking = FALSE
  /\ shots = [s \in Schedules |-> 0]
  /\ crashes = 0

Exists(s) == state[s] \in {"enabled", "disabled"}

IsDue(s) == s \in ToSet(due)

\* due without s.
Without(s) ==
  IF IsDue(s) THEN RemoveAt(due, CHOOSE i \in DOMAIN due : due[i] = s) ELSE due

(***************************************************************************)
(* next_run_at := ComputeNextRun(c).  For an expression that matches no    *)
(* date the cron library answers the zero time: due at once, and before    *)
(* everything else.                                                        *)
(***************************************************************************)
NextRun(s, c) ==
  due' = IF c \in NoDate THEN <<s>> \o Without(s) ELSE Without(s)

\* A schedule that becomes due (again) may be sent once more.
Rearm(s) == shots' = [shots EXCEPT ![s] = 0]

-----------------------------------------------------------------------------
(***************************************************************************)
(* ScheduleHandler.  Update is one UPDATE with COALESCE: the expression,   *)
(* the flag or both change.  Delete removes the row under a firing tick.   *)
(***************************************************************************)
Create(s, c, b) ==
  /\ state[s] = "absent"
  /\ <<s, c>> \in Users
  /\ state' = [state EXCEPT ![s] = b]
  /\ cron' = [cron EXCEPT ![s] = c]
  /\ NextRun(s, c)
  /\ UNCHANGED <<control, shots, crashes>>

Update(s, b) ==
  /\ Exists(s)
  /\ state' = [state EXCEPT ![s] = b]
  /\ \/ UNCHANGED <<cron, due, shots>>
     \/ \E c \in Crons : /\ <<s, c>> \in Users
                         /\ cron' = [cron EXCEPT ![s] = c]
                         /\ NextRun(s, c)
                         /\ Rearm(s)
  /\ UNCHANGED <<control, crashes>>

Delete(s) ==
  /\ Exists(s)
  /\ state' = [state EXCEPT ![s] = "deleted"]
  /\ due' = Without(s)
  /\ UNCHANGED <<cron, control, shots, crashes>>

\* Time passes next_run_at.
BecomesDue(s) ==
  /\ Exists(s)
  /\ ~IsDue(s)
  /\ due' = Append(due, s)
  /\ Rearm(s)
  /\ UNCHANGED <<state, cron, control, crashes>>

-----------------------------------------------------------------------------
(***************************************************************************)
(* tick: SELECT the due, enabled rows, oldest first, at most BatchLimit;   *)
(* start each in a goroutine, at most |Slots| at a time; wait for all.     *)
(***************************************************************************)
Ready == {i \in DOMAIN due : state[due[i]] = "enabled"}

Selected == {i \in Ready : Cardinality({j \in Ready : j < i}) < BatchLimit}

Selects(rows) ==
  /\ ~ticking
  /\ rows # {}
  /\ ticking' = TRUE
  /\ batch' = [i \in rows |-> [id |-> due[i], cron |-> cron[due[i]]]]
  /\ UNCHANGED <<table, fires, shots, crashes>>

\* Mutant: newest first.
TickNewestFirst == Selects({i \in Ready : Cardinality({j \in Ready : j > i}) < BatchLimit})

Tick == Selects(Selected)

\* The oldest of the batch takes a free slot.
Starts(i) ==
  /\ fires[i] = Idle
  /\ \E n \in DOMAIN batch :
       /\ \A m \in DOMAIN batch : n <= m
       /\ fires' = [fires EXCEPT ![i] = [pc |-> "send", id |-> batch[n].id,
                                         cron |-> batch[n].cron]]
       /\ batch' = [m \in DOMAIN batch \ {n} |-> batch[m]]
  /\ UNCHANGED <<table, ticking, shots, crashes>>

\* Mutant: no wg.Wait().
TickReturns ==
  /\ ticking
  /\ DOMAIN batch = {}
  /\ ticking' = FALSE
  /\ UNCHANGED <<table, batch, fires, shots, crashes>>

TickEnds ==
  /\ ticking
  /\ DOMAIN batch = {}
  /\ \A i \in Slots : fires[i] = Idle
  /\ ticking' = FALSE
  /\ UNCHANGED <<table, batch, fires, shots, crashes>>

-----------------------------------------------------------------------------
(***************************************************************************)
(* fireSchedule: forward the prompt, then write the outcome and the next   *)
(* run, computed from the expression the tick read.  (The activity row and *)
(* the event that follow touch nothing of this module.)                    *)
(***************************************************************************)
Step(i, p) == fires' = [fires EXCEPT ![i].pc = p]

\* The proxy refuses (no workspace, no URL) or forwards.
Send(i) ==
  /\ fires[i].pc = "send"
  /\ \/ Step(i, "update") /\ UNCHANGED shots
     \/ Step(i, "sent") /\ shots' = [shots EXCEPT ![fires[i].id] = @ + 1]
  /\ UNCHANGED <<table, batch, ticking, crashes>>

\* The agent answers or the connection breaks; fireTimeout cannot end the
\* forward, for the proxy detaches it from the context that has it.
Returns(i) ==
  /\ fires[i].pc = "sent"
  /\ Step(i, "update")
  /\ UNCHANGED <<table, batch, ticking, shots, crashes>>

\* Mutant: an error leaves next_run_at as it was.
UpdatesOnSuccess(i) ==
  /\ fires[i].pc = "update"
  /\ Exists(fires[i].id)
  /\ NextRun(fires[i].id, fires[i].cron) \/ UNCHANGED due
  /\ fires' = [fires EXCEPT ![i] = Idle]
  /\ UNCHANGED <<state, cron, batch, ticking, shots, crashes>>

Updates(i) ==
  /\ fires[i].pc = "update"
  /\ IF Exists(fires[i].id)
     THEN /\ NextRun(fires[i].id, fires[i].cron)
          /\ IF fires[i].cron \in NoDate THEN Rearm(fires[i].id) ELSE UNCHANGED shots
     ELSE UNCHANGED <<due, shots>>
  /\ fires' = [fires EXCEPT ![i] = Idle]
  /\ UNCHANGED <<state, cron, batch, ticking, crashes>>

\* A restart loses the tick; what it had not written is due still.
Crash ==
  /\ crashes < MaxCrashes
  /\ crashes' = crashes + 1
  /\ batch' = <<>>
  /\ fires' = [i \in Slots |-> Idle]
  /\ ticking' = FALSE
  /\ UNCHANGED <<table, shots>>

Works(i) == Starts(i) \/ Send(i) \/ Updates(i)

Handlers(s) ==
  \/ \E b \in {"enabled", "disabled"} : (\E c \in Crons : Create(s, c, b)) \/ Update(s, b)
  \/ Delete(s)
  \/ BecomesDue(s)

Next ==
  \/ \E s \in Schedules : Handlers(s)
  \/ Tick \/ TickEnds
  \/ \E i \in Slots : Works(i) \/ Returns(i)
  \/ Crash

Spec == Init /\ [][Next]_vars
=============================================================================
