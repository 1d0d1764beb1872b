---------------------------- MODULE SchedulerProps ----------------------------
(***************************************************************************)
(* What the scheduler promises.                                            *)
(***************************************************************************)
EXTENDS Scheduler

(***************************************************************************)
(* A schedule is never fired beside itself: of one schedule there is at    *)
(* most one goroutine, and what still waits in the tick is not running     *)
(* (scheduler.go:73-75: the tick waits so that the next one does not fire  *)
(* again what has not been updated).                                       *)
(***************************************************************************)
NoOverlap ==
  \A i \in Slots : fires[i] # Idle =>
    /\ \A j \in Slots \ {i} : fires[j].id # fires[i].id
    /\ \A n \in DOMAIN batch : batch[n].id # fires[i].id

(***************************************************************************)
(* A due time is forwarded once, and once more only for each restart of    *)
(* the process between the forward and the UPDATE, whatever edits come     *)
(* between (fireSchedule).                                                 *)
(***************************************************************************)
OncePerDueTime == \A s \in Schedules : shots[s] <= 1 + crashes

(***************************************************************************)
(* The poll loop and its goroutines make progress; agents, users and time  *)
(* need not.                                                               *)
(***************************************************************************)
Fairness == WF_vars(Tick) /\ WF_vars(TickEnds) /\ \A i \in Slots : WF_vars(Works(i))

FairSpec == Spec /\ Fairness

(***************************************************************************)
(* "goroutine polls every 30s, fires due schedules"                        *)
(* (docs/edit-history/2026-04-10.md:318): what is due and enabled is       *)
(* fired, unless it is edited, disabled or deleted first.                  *)
(***************************************************************************)
EveryDueIsFired ==
  \A s \in Schedules :
    IsDue(s) /\ state[s] = "enabled"
    ~> \/ \E i \in Slots : fires[i].id = s
       \/ ~IsDue(s) \/ state[s] # "enabled"

(***************************************************************************)
(* The same under what the code needs for it: forwards end, and fewer than *)
(* BatchLimit schedules are due for ever because their expression matches  *)
(* no date.  Then the ORDER BY and the LIMIT starve nobody, with agents    *)
(* that answer in any order and with a restart in any state.               *)
(***************************************************************************)
ForwardsEnd == \A i \in Slots : []<>(fires[i].pc # "sent")

Flooded ==
  Cardinality({s \in Schedules : Exists(s) /\ cron[s] \in NoDate}) >= BatchLimit

DueIsFired == ForwardsEnd /\ <>[]~Flooded => EveryDueIsFired
=============================================================================
