--------------------------- MODULE SchedulerProofs ---------------------------
(***************************************************************************)
(* What holds of the scheduler for any number of schedules, slots and      *)
(* restarts and any LIMIT.                                                 *)
(***************************************************************************)
EXTENDS SchedulerProps, SequenceTheorems, FiniteSetTheorems, WellFoundedInduction, TLAPS

(***************************************************************************)
(* What is due.  A schedule has one row, so it is due once, and a deleted  *)
(* one is not.                                                             *)
(***************************************************************************)
Distinct == \A i, j \in DOMAIN due : due[i] = due[j] => i = j

DueExist == \A s \in Schedules : IsDue(s) => Exists(s)

Written == \A s \in Schedules : state[s] # "absent" => cron[s] \in Crons

LEMMA RemoveAtProperties ==
  ASSUME NEW S, NEW q \in Seq(S), NEW i \in DOMAIN q
  PROVE  /\ RemoveAt(q, i) \in Seq(S)
         /\ Len(RemoveAt(q, i)) = Len(q) - 1
         /\ \A k \in 1..(Len(q) - 1) :
              RemoveAt(q, i)[k] = IF k < i THEN q[k] ELSE q[k + 1]
<1>1. Len(q) \in Nat /\ i \in 1..Len(q) /\ \A k \in 1..Len(q) : q[k] \in S
  OBVIOUS
<1> DEFINE a == SubSeq(q, 1, i - 1)
           b == SubSeq(q, i + 1, Len(q))
<1>2. /\ a \in Seq(S) /\ Len(a) = i - 1
      /\ \A k \in 1..(i - 1) : a[k] = q[k]
  <2>1. 1 \in Int /\ i - 1 \in Int /\ \A k \in 1..(i - 1) : q[k] \in S
    BY <1>1
  <2>2. /\ a \in Seq(S)
        /\ Len(a) = IF 1 <= i - 1 THEN (i - 1) - 1 + 1 ELSE 0
        /\ \A k \in 1..((i - 1) - 1 + 1) : a[k] = q[1 + k - 1]
    BY <2>1, SubSeqProperties, SMTT(20)
  <2> QED  BY <1>1, <2>2
<1>3. /\ b \in Seq(S) /\ Len(b) = Len(q) - i
      /\ \A k \in 1..(Len(q) - i) : b[k] = q[i + k]
  <2>1. i + 1 \in Int /\ Len(q) \in Int /\ \A k \in (i + 1)..Len(q) : q[k] \in S
    BY <1>1
  <2>2. /\ b \in Seq(S)
        /\ Len(b) = IF i + 1 <= Len(q) THEN Len(q) - (i + 1) + 1 ELSE 0
        /\ \A k \in 1..(Len(q) - (i + 1) + 1) : b[k] = q[(i + 1) + k - 1]
    BY <2>1, SubSeqProperties, SMTT(20)
  <2> QED  BY <1>1, <2>2
<1>4. RemoveAt(q, i) = a \o b
  BY DEF RemoveAt
<1> HIDE DEF a, b
<1>5. /\ a \o b \in Seq(S)
      /\ Len(a \o b) = Len(a) + Len(b)
      /\ \A k \in 1..(Len(a) + Len(b)) :
           (a \o b)[k] = IF k <= Len(a) THEN a[k] ELSE b[k - Len(a)]
  <2>1. a \in Seq(S) /\ b \in Seq(S)
    BY <1>2, <1>3
  <2> QED  BY ONLY <2>1, ConcatProperties
<1> DEFINE d == a \o b
<1>6. Len(a) + Len(b) = Len(q) - 1
  BY <1>1, <1>2, <1>3
<1>7. d \in Seq(S) /\ Len(d) = Len(q) - 1
  BY <1>5, <1>6
<1>8. ASSUME NEW k \in 1..(Len(q) - 1)
      PROVE  d[k] = IF k < i THEN q[k] ELSE q[k + 1]
  <2>1. d[k] = IF k <= Len(a) THEN a[k] ELSE b[k - Len(a)]
    BY <1>5, <1>6
  <2>2. CASE k < i
    <3>1. k <= Len(a) /\ k \in 1..(i - 1)
      BY <1>1, <1>2, <2>2
    <3> QED  BY <1>2, <2>1, <2>2, <3>1
  <2>3. CASE ~(k < i)
    <3>1. ~(k <= Len(a)) /\ k - Len(a) = k + 1 - i /\ k + 1 - i \in 1..(Len(q) - i)
      BY <1>1, <1>2, <2>3
    <3>2. d[k] = b[k + 1 - i]
      BY <2>1, <3>1
    <3>3. b[k + 1 - i] = q[i + (k + 1 - i)]
      BY <1>3, <3>1
    <3>4. i + (k + 1 - i) = k + 1
      BY <1>1
    <3> QED  BY <2>3, <3>2, <3>3, <3>4
  <2> QED  BY <2>2, <2>3
<1> HIDE DEF d
<1> QED
  BY <1>4, <1>7, <1>8 DEF d

LEMMA WithoutProperties ==
  ASSUME due \in Seq(Schedules), Distinct, NEW s \in Schedules
  PROVE  /\ Without(s) \in Seq(Schedules)
         /\ \A i, j \in DOMAIN Without(s) : Without(s)[i] = Without(s)[j] => i = j
         /\ ToSet(Without(s)) = ToSet(due) \ {s}
<1>1. CASE ~IsDue(s)
  BY <1>1 DEF Without, IsDue, Distinct
<1>2. CASE IsDue(s)
  <2> DEFINE p == CHOOSE i \in DOMAIN due : due[i] = s
             q == Without(s)
  <2>1. p \in DOMAIN due /\ due[p] = s
    BY <1>2 DEF IsDue, ToSet
  <2>2. q = RemoveAt(due, p)
    BY <1>2 DEF Without
  <2> HIDE DEF p, q
  <2>3. /\ q \in Seq(Schedules) /\ Len(q) = Len(due) - 1
        /\ \A k \in 1..(Len(due) - 1) : q[k] = IF k < p THEN due[k] ELSE due[k + 1]
    BY <2>1, <2>2, RemoveAtProperties
  <2>4. Len(due) \in Nat /\ DOMAIN due = 1..Len(due) /\ DOMAIN q = 1..(Len(due) - 1)
        /\ p \in 1..Len(due)
    BY <2>1, <2>3
  <2> DEFINE o(k) == IF k < p THEN k ELSE k + 1
  <2>5. \A k \in DOMAIN q : o(k) \in DOMAIN due /\ o(k) # p /\ q[k] = due[o(k)]
    <3>1. \A k \in DOMAIN q : k \in Int /\ o(k) \in 1..Len(due) /\ o(k) # p
      BY <2>4
    <3>2. \A k \in DOMAIN q : q[k] = due[o(k)]
      BY <2>3, <2>4
    <3> QED  BY <2>4, <3>1, <3>2
  <2>6. \A i, j \in DOMAIN q : o(i) = o(j) => i = j
    BY <2>4
  <2> HIDE DEF o
  <2>7. \A i, j \in DOMAIN q : q[i] = q[j] => i = j
    BY <2>5, <2>6 DEF Distinct
  <2>8. ASSUME NEW x \in ToSet(q)  PROVE x \in ToSet(due) \ {s}
    <3>1. PICK k \in DOMAIN q : q[k] = x
      BY DEF ToSet
    <3>2. PICK m \in DOMAIN due : m # p /\ due[m] = x
      BY <2>5, <3>1
    <3> QED  BY <2>1, <3>2 DEF Distinct, ToSet
  <2>9. ASSUME NEW x \in ToSet(due) \ {s}  PROVE x \in ToSet(q)
    <3>1. PICK m \in DOMAIN due : due[m] = x
      BY DEF ToSet
    <3>2. m # p
      BY <2>1, <3>1
    <3>3. PICK k \in DOMAIN q : q[k] = x
      <4>1. CASE m < p
        BY <2>3, <2>4, <3>1, <4>1
      <4>2. CASE m > p
        <5>1. m - 1 \in DOMAIN q /\ ~(m - 1 < p) /\ (m - 1) + 1 = m
          BY <2>4, <4>2
        <5> QED  BY <2>3, <2>4, <3>1, <5>1
      <4> QED  BY <2>4, <3>2, <4>1, <4>2
    <3> QED  BY <3>3 DEF ToSet
  <2> QED  BY <2>3, <2>7, <2>8, <2>9 DEF q
<1> QED
  BY <1>1, <1>2

(***************************************************************************)
(* After ComputeNextRun the schedule is due if and only if its expression  *)
(* matches no date; the others are as due as they were.                    *)
(***************************************************************************)
LEMMA NextRunProperties ==
  ASSUME due \in Seq(Schedules), Distinct,
         NEW s \in Schedules, NEW c, NextRun(s, c)
  PROVE  /\ due' \in Seq(Schedules)
         /\ Distinct'
         /\ IsDue(s)' <=> c \in NoDate
         /\ \A r \in Schedules \ {s} : IsDue(r)' <=> IsDue(r)
<1> DEFINE q == Without(s)
<1>1. /\ q \in Seq(Schedules)
      /\ \A i, j \in DOMAIN q : q[i] = q[j] => i = j
      /\ ToSet(q) = ToSet(due) \ {s}
  BY WithoutProperties
<1>2. due' = IF c \in NoDate THEN <<s>> \o q ELSE q
  BY DEF NextRun
<1> HIDE DEF q
<1>3. CASE c \notin NoDate
  BY <1>1, <1>2, <1>3 DEF Distinct, IsDue
<1>4. CASE c \in NoDate
  <2>1. <<s>> \in Seq(Schedules) /\ Len(<<s>>) = 1 /\ <<s>>[1] = s
    OBVIOUS
  <2>2. /\ due' \in Seq(Schedules) /\ Len(due') = 1 + Len(q)
        /\ \A k \in 1..(1 + Len(q)) : due'[k] = IF k <= 1 THEN s ELSE q[k - 1]
    <3>1. due' = <<s>> \o q
      BY <1>2, <1>4
    <3>2. /\ due' \in Seq(Schedules) /\ Len(due') = Len(<<s>>) + Len(q)
          /\ \A k \in 1..(Len(<<s>>) + Len(q)) :
               due'[k] = IF k <= Len(<<s>>) THEN <<s>>[k] ELSE q[k - Len(<<s>>)]
      BY ONLY <1>1, <2>1, <3>1, ConcatProperties
    <3>3. Len(q) \in Nat
      BY <1>1
    <3> QED  BY <2>1, <3>2, <3>3
  <2>3. Len(q) \in Nat /\ DOMAIN q = 1..Len(q) /\ DOMAIN due' = 1..(1 + Len(q))
    BY <1>1, <2>2
  <2>4. due'[1] = s /\ \A k \in DOMAIN q : k + 1 \in DOMAIN due' /\ due'[k + 1] = q[k]
    BY <2>2, <2>3
  <2>5. \A k \in DOMAIN due' : k = 1 \/ (k - 1 \in DOMAIN q /\ due'[k] = q[k - 1])
    BY <2>2, <2>3
  <2>6. \A k \in DOMAIN q : q[k] # s
    BY <1>1 DEF ToSet
  <2>7. Distinct'
    <3> SUFFICES ASSUME NEW i \in DOMAIN due', NEW j \in DOMAIN due', due'[i] = due'[j]
                 PROVE  i = j
      BY DEF Distinct
    <3>1. CASE i = 1 \/ j = 1
      BY <2>4, <2>5, <2>6, <3>1
    <3>2. CASE i # 1 /\ j # 1
      <4>1. i - 1 \in DOMAIN q /\ j - 1 \in DOMAIN q /\ q[i - 1] = q[j - 1]
        BY <2>5, <3>2
      <4>2. i - 1 = j - 1
        BY <1>1, <4>1
      <4> QED  BY <2>3, <4>2
    <3> QED  BY <3>1, <3>2
  <2>8. IsDue(s)'
    BY <2>3, <2>4 DEF IsDue, ToSet
  <2>9. ASSUME NEW r \in Schedules \ {s}  PROVE IsDue(r)' <=> IsDue(r)
    <3>1. IsDue(r) <=> \E k \in DOMAIN q : q[k] = r
      BY <1>1 DEF IsDue, ToSet
    <3>2. IsDue(r)' <=> \E k \in DOMAIN due' : due'[k] = r
      BY DEF IsDue, ToSet
    <3>3. (\E k \in DOMAIN due' : due'[k] = r) => \E k \in DOMAIN q : q[k] = r
      BY <2>4, <2>5
    <3>4. (\E k \in DOMAIN q : q[k] = r) => \E k \in DOMAIN due' : due'[k] = r
      BY <2>4
    <3> QED  BY <3>1, <3>2, <3>3, <3>4
  <2> QED  BY <1>4, <2>2, <2>7, <2>8, <2>9
<1> QED
  BY <1>3, <1>4

-----------------------------------------------------------------------------
(***************************************************************************)
(* The invariant.  Between two ticks nothing is under way; a tick has a    *)
(* schedule once, in its batch or in one goroutine.  shots counts what was *)
(* sent for the present due time, so before a forward, and before the      *)
(* SELECT that leads to one, it is at most the number of restarts: that    *)
(* many goroutines have been lost between their forward and their UPDATE.  *)
(***************************************************************************)
Firing(s, steps) == \E i \in Slots : fires[i].id = s /\ fires[i].pc \in steps

Waiting(s) == \E n \in DOMAIN batch : batch[n].id = s

Resting == ~ticking => DOMAIN batch = {} /\ \A i \in Slots : fires[i] = Idle

WaitsOnce == \A m, n \in DOMAIN batch : batch[m].id = batch[n].id => m = n

AbsentIsUnsent ==
  \A s \in Schedules : state[s] = "absent" =>
    shots[s] = 0 /\ ~Waiting(s) /\ ~Firing(s, {"send", "sent", "update"})

ToSend ==
  \A s \in Schedules : Waiting(s) \/ Firing(s, {"send"}) => shots[s] <= crashes

ToSelect ==
  \A s \in Schedules :
    IsDue(s) /\ ~Firing(s, {"sent", "update"}) => shots[s] <= crashes

Rows == TypeOK /\ Distinct /\ DueExist /\ Written

Ticks == Resting /\ WaitsOnce /\ NoOverlap

Shots == AbsentIsUnsent /\ ToSend /\ ToSelect /\ OncePerDueTime

IInv == Rows /\ Ticks /\ Shots

LEMMA InitHolds == Init => IInv
<1> SUFFICES ASSUME Init  PROVE IInv
  OBVIOUS
<1>1. /\ state = [s \in Schedules |-> "absent"]
      /\ cron = [s \in Schedules |-> NoSchedule]
      /\ due = <<>> /\ DOMAIN due = {}
      /\ DOMAIN batch = {} /\ batch = <<>>
      /\ fires = [i \in Slots |-> Idle]
      /\ ticking = FALSE
      /\ shots = [s \in Schedules |-> 0]
      /\ crashes = 0
  BY DEF Init
<1>2. TypeOK
  <2>1. batch \in [DOMAIN batch -> Job] /\ DOMAIN batch \subseteq Nat
    BY <1>1
  <2>2. fires \in [Slots -> Fire]
    BY <1>1 DEF Fire
  <2>3. crashes \in 0..MaxCrashes
    BY <1>1, SchedulerAssumption
  <2>4. due \in Seq(Schedules)
    BY <1>1
  <2>5. /\ state \in [Schedules -> {"absent", "enabled", "disabled", "deleted"}]
        /\ cron \in [Schedules -> Crons \cup {NoSchedule}]
        /\ ticking \in BOOLEAN
        /\ shots \in [Schedules -> Nat]
    BY <1>1
  <2>6. IsFiniteSet(DOMAIN batch) /\ Cardinality(DOMAIN batch) <= BatchLimit
    BY <1>1, FS_EmptySet, SchedulerAssumption
  <2> QED  BY ONLY <2>1, <2>2, <2>3, <2>4, <2>5, <2>6 DEF TypeOK
<1>3. Distinct /\ DueExist /\ Written
  BY <1>1 DEF Distinct, DueExist, Written, IsDue, ToSet
<1>4. Resting /\ WaitsOnce /\ NoOverlap
  BY <1>1 DEF Resting, WaitsOnce, NoOverlap
<1>5. \A s \in Schedules : shots[s] = 0 /\ ~Waiting(s) /\ ~Firing(s, {"send", "sent", "update"})
  BY <1>1 DEF Waiting, Firing, Idle
<1>6. Shots
  BY <1>1, <1>5 DEF Shots, AbsentIsUnsent, ToSend, ToSelect, OncePerDueTime, IsDue, ToSet, Firing
<1> QED
  BY <1>2, <1>3, <1>4, <1>6 DEF IInv, Rows, Ticks

-----------------------------------------------------------------------------
(***************************************************************************)
(* The handlers and the passing of time leave the tick alone.  What they   *)
(* do to a schedule that is due or becomes due again they do with its      *)
(* count of forwards at zero, or with the schedule as due as it was.       *)
(***************************************************************************)
LEMMA TickUntouched ==
  ASSUME Ticks, UNCHANGED control
  PROVE  Ticks'
BY DEF Ticks, Resting, WaitsOnce, NoOverlap, control

\* An edit of s that leaves it due only with few forwards keeps the counts.
LEMMA EditKeepsShots ==
  ASSUME Rows, Shots, UNCHANGED <<control, crashes>>,
         NEW s \in Schedules,
         state[s] = "absent" \/ Exists(s),
         state'[s] # "absent",
         \A r \in Schedules \ {s} : /\ state'[r] = state[r]
                                    /\ IsDue(r)' <=> IsDue(r)
                                    /\ shots'[r] = shots[r],
         shots'[s] = shots[s] \/ shots'[s] = 0,
         IsDue(s)' => shots'[s] = 0 \/ IsDue(s)
  PROVE  Shots'
<1>1. \A r \in Schedules : /\ Waiting(r)' <=> Waiting(r)
                           /\ \A S : Firing(r, S)' <=> Firing(r, S)
  BY DEF Waiting, Firing, control
<1>2. /\ crashes \in Nat /\ crashes' = crashes
      /\ \A r \in Schedules : shots[r] \in Nat
  BY SchedulerAssumption DEF Rows, TypeOK
<1>3. AbsentIsUnsent'
  BY <1>1 DEF Shots, AbsentIsUnsent
<1>4. ToSend'
  BY <1>1, <1>2 DEF Shots, ToSend
<1>5. ToSelect'
  BY <1>1, <1>2 DEF Shots, ToSelect
<1>6. OncePerDueTime'
  BY <1>2 DEF Shots, OncePerDueTime
<1> QED
  BY <1>3, <1>4, <1>5, <1>6 DEF Shots

LEMMA CreateKeeps ==
  ASSUME IInv, NEW s \in Schedules, NEW c \in Crons, NEW b \in {"enabled", "disabled"},
         Create(s, c, b)
  PROVE  IInv'
<1>1. /\ state[s] = "absent" /\ NextRun(s, c)
      /\ state' = [state EXCEPT ![s] = b] /\ cron' = [cron EXCEPT ![s] = c]
      /\ UNCHANGED <<control, shots, crashes>>
  BY DEF Create
<1>2. TypeOK /\ Distinct /\ DueExist /\ Written /\ due \in Seq(Schedules)
  BY DEF IInv, Rows, TypeOK
<1>3. /\ due' \in Seq(Schedules) /\ Distinct'
      /\ \A r \in Schedules \ {s} : IsDue(r)' <=> IsDue(r)
  BY <1>1, <1>2, NextRunProperties
<1>4. state'[s] = b /\ \A r \in Schedules \ {s} : state'[r] = state[r]
  BY <1>1, <1>2 DEF TypeOK
<1>5. Rows'
  <2>1. TypeOK'
    BY <1>1, <1>2, <1>3 DEF TypeOK, control
  <2>2. DueExist'
    BY <1>2, <1>3, <1>4 DEF DueExist, Exists
  <2>3. Written'
    BY <1>1, <1>2, <1>4 DEF Written, TypeOK
  <2> QED  BY <1>3, <2>1, <2>2, <2>3 DEF Rows
<1>6. shots'[s] = 0
  BY <1>1 DEF IInv, Shots, AbsentIsUnsent
<1>7. Shots'
  BY <1>1, <1>3, <1>4, <1>6, EditKeepsShots DEF IInv
<1>8. Ticks'
  BY <1>1, TickUntouched DEF IInv
<1> QED
  BY <1>5, <1>7, <1>8 DEF IInv

LEMMA UpdateKeeps ==
  ASSUME IInv, NEW s \in Schedules, NEW b \in {"enabled", "disabled"}, Update(s, b)
  PROVE  IInv'
<1>1. /\ Exists(s) /\ state' = [state EXCEPT ![s] = b]
      /\ UNCHANGED <<control, crashes>>
  BY DEF Update
<1>2. TypeOK /\ Distinct /\ DueExist /\ Written /\ due \in Seq(Schedules)
  BY DEF IInv, Rows, TypeOK
<1>3. state'[s] = b /\ \A r \in Schedules \ {s} : state'[r] = state[r]
  BY <1>1, <1>2 DEF TypeOK
<1>4. Ticks'
  BY <1>1, TickUntouched DEF IInv
<1>5. CASE UNCHANGED <<cron, due, shots>>
  <2>1. \A r \in Schedules : IsDue(r)' <=> IsDue(r)
    BY <1>5 DEF IsDue
  <2>2. TypeOK'
    BY <1>1, <1>2, <1>5 DEF TypeOK, control
  <2>3. Distinct' /\ DueExist' /\ Written'
    BY <1>1, <1>2, <1>3, <1>5, <2>1 DEF Distinct, DueExist, Written, Exists
  <2>4. Shots'
    BY <1>1, <1>3, <1>5, <2>1, EditKeepsShots DEF IInv
  <2> QED  BY <1>4, <2>2, <2>3, <2>4 DEF IInv, Rows
<1>6. ASSUME NEW c \in Crons, cron' = [cron EXCEPT ![s] = c], NextRun(s, c), Rearm(s)
      PROVE  IInv'
  <2>1. /\ due' \in Seq(Schedules) /\ Distinct'
        /\ \A r \in Schedules \ {s} : IsDue(r)' <=> IsDue(r)
    BY <1>2, <1>6, NextRunProperties
  <2>2. shots' = [shots EXCEPT ![s] = 0]
    BY <1>6 DEF Rearm
  <2>3. TypeOK'
    BY <1>1, <1>2, <1>6, <2>1, <2>2 DEF TypeOK, control
  <2>4. DueExist'
    BY <1>2, <1>3, <2>1 DEF DueExist, Exists
  <2>5. shots'[s] = 0 /\ \A r \in Schedules \ {s} : shots'[r] = shots[r]
    BY <1>2, <2>2 DEF TypeOK
  <2>6. Shots'
    BY <1>1, <1>3, <2>1, <2>5, EditKeepsShots DEF IInv
  <2>7. Written'
    BY <1>1, <1>2, <1>3, <1>6 DEF Written, TypeOK, Exists
  <2> QED  BY <1>4, <2>1, <2>3, <2>4, <2>6, <2>7 DEF IInv, Rows
<1> QED
  BY <1>5, <1>6 DEF Update

LEMMA DeleteKeeps ==
  ASSUME IInv, NEW s \in Schedules, Delete(s)
  PROVE  IInv'
<1>1. /\ Exists(s) /\ state' = [state EXCEPT ![s] = "deleted"]
      /\ due' = Without(s)
      /\ UNCHANGED <<cron, control, shots, crashes>>
  BY DEF Delete
<1>2. TypeOK /\ Distinct /\ DueExist /\ Written /\ due \in Seq(Schedules)
  BY DEF IInv, Rows, TypeOK
<1>3. /\ due' \in Seq(Schedules) /\ Distinct' /\ ToSet(due') = ToSet(due) \ {s}
  BY <1>1, <1>2, WithoutProperties DEF Distinct
<1>4. ~IsDue(s)' /\ \A r \in Schedules \ {s} : IsDue(r)' <=> IsDue(r)
  BY <1>3 DEF IsDue
<1>5. state'[s] = "deleted" /\ \A r \in Schedules \ {s} : state'[r] = state[r]
  BY <1>1, <1>2 DEF TypeOK
<1>6. TypeOK'
  BY <1>1, <1>2, <1>3 DEF TypeOK, control
<1>7. DueExist'
  BY <1>2, <1>4, <1>5 DEF DueExist, Exists
<1>8. Shots'
  BY <1>1, <1>4, <1>5, EditKeepsShots DEF IInv
<1>9. Ticks'
  BY <1>1, TickUntouched DEF IInv
<1>10. Written'
  BY <1>1, <1>2, <1>5 DEF Written, Exists
<1> QED
  BY <1>3, <1>6, <1>7, <1>8, <1>9, <1>10 DEF IInv, Rows

LEMMA BecomesDueKeeps ==
  ASSUME IInv, NEW s \in Schedules, BecomesDue(s)
  PROVE  IInv'
<1>1. /\ Exists(s) /\ ~IsDue(s) /\ due' = Append(due, s)
      /\ shots' = [shots EXCEPT ![s] = 0]
      /\ UNCHANGED <<state, cron, control, crashes>>
  BY DEF BecomesDue, Rearm
<1>2. TypeOK /\ Distinct /\ DueExist /\ Written /\ due \in Seq(Schedules) /\ Len(due) \in Nat
  BY DEF IInv, Rows, TypeOK
<1>3. /\ due' \in Seq(Schedules) /\ DOMAIN due' = DOMAIN due \cup {Len(due) + 1}
      /\ due'[Len(due) + 1] = s /\ \A k \in DOMAIN due : due'[k] = due[k]
  BY <1>1, <1>2, AppendProperties
<1>4. \A k \in DOMAIN due : due[k] # s
  BY <1>1 DEF IsDue, ToSet
<1>5. Distinct'
  BY <1>2, <1>3, <1>4 DEF Distinct
<1>6. \A r \in Schedules \ {s} : IsDue(r)' <=> IsDue(r)
  BY <1>3 DEF IsDue, ToSet
<1>7. TypeOK'
  BY <1>1, <1>2, <1>3 DEF TypeOK, control
<1>8. DueExist'
  BY <1>1, <1>2, <1>6 DEF DueExist, Exists
<1>9. shots'[s] = 0 /\ \A r \in Schedules \ {s} : shots'[r] = shots[r]
  BY <1>1, <1>2 DEF TypeOK
<1>10. state'[s] # "absent" /\ \A r \in Schedules \ {s} : state'[r] = state[r]
  BY <1>1 DEF Exists
<1>11. Shots'
  BY <1>1, <1>6, <1>9, <1>10, EditKeepsShots DEF IInv
<1>12. Ticks'
  BY <1>1, TickUntouched DEF IInv
<1>13. Written'
  BY <1>1, <1>2 DEF Written
<1> QED
  BY <1>5, <1>7, <1>8, <1>11, <1>12, <1>13 DEF IInv, Rows

-----------------------------------------------------------------------------
(***************************************************************************)
(* The tick.                                                               *)
(***************************************************************************)
LEMMA FireTypes ==
  ASSUME TypeOK, NEW i \in Slots
  PROVE  /\ fires[i] # Idle <=> fires[i].pc \in {"send", "sent", "update"}
         /\ fires[i] # Idle => fires[i].id \in Schedules /\ fires[i].cron \in Crons
         /\ fires[i] = Idle => fires[i].id \notin Schedules /\ fires[i].pc = "idle"
BY SchedulerAssumption DEF TypeOK, Fire, Idle

\* Goroutines that move on or end do not come to overlap.
MovesOn ==
  \A i \in Slots : \/ fires'[i] = Idle
                   \/ fires[i] # Idle /\ fires'[i].id = fires[i].id

LEMMA MovesKeepTicks ==
  ASSUME TypeOK, TypeOK', Ticks, UNCHANGED <<batch, ticking>>, MovesOn
  PROVE  Ticks'
<1>1. WaitsOnce'
  BY DEF Ticks, WaitsOnce
<1>2. Resting'
  BY DEF Ticks, Resting, MovesOn
<1>3. NoOverlap'
  <2> SUFFICES ASSUME NEW i \in Slots, fires'[i] # Idle
               PROVE  /\ \A j \in Slots \ {i} : fires'[j].id # fires'[i].id
                      /\ \A n \in DOMAIN batch : batch[n].id # fires'[i].id
    BY DEF NoOverlap
  <2>1. fires[i] # Idle /\ fires'[i].id = fires[i].id /\ fires'[i].id \in Schedules
    BY FireTypes DEF MovesOn
  <2>2. ASSUME NEW j \in Slots \ {i}  PROVE fires'[j].id # fires'[i].id
    <3>1. CASE fires'[j] = Idle
      BY <2>1, <3>1, SchedulerAssumption DEF Idle
    <3>2. CASE fires'[j] # Idle
      BY <2>1, <3>2 DEF Ticks, NoOverlap, MovesOn
    <3> QED  BY <3>1, <3>2
  <2>3. \A n \in DOMAIN batch : batch[n].id # fires'[i].id
    BY <2>1 DEF Ticks, NoOverlap
  <2> QED  BY <2>2, <2>3
<1> QED
  BY <1>1, <1>2, <1>3 DEF Ticks

LEMMA LargestOfFinite ==
  ASSUME NEW S \in SUBSET Nat, IsFiniteSet(S), S # {}
  PROVE  \E m \in S : \A i \in S : i <= m
<1> DEFINE above(m) == {i \in S : i > m}
           A == {above(m) : m \in S}
           R == StrictSubsetOrdering(S)
<1>1. IsWellFoundedOn(R, SUBSET S) /\ A \subseteq SUBSET S /\ A # {}
  <2>1. IsWellFoundedOn(R, SUBSET S)
    BY FS_StrictSubsetOrderingWellFounded, FS_FiniteSubsetsOfFinite
  <2> QED  BY <2>1
<1>2. \E x \in A : \A y \in A : <<y, x>> \notin R
  <2> HIDE DEF A, R
  <2> QED  BY <1>1, WFMin
<1>3. PICK m \in S : \A k \in S : <<above(k), above(m)>> \notin R
  BY <1>2
<1>4. \A k \in S : ~(above(k) \subseteq above(m) /\ above(k) # above(m))
  BY <1>3 DEF StrictSubsetOrdering
<1>5. ASSUME NEW k \in S, k > m  PROVE FALSE
  <2>1. k \in Nat /\ m \in Nat /\ \A i \in S : i \in Nat
    OBVIOUS
  <2>2. above(k) \subseteq above(m)
    <3> SUFFICES ASSUME NEW i \in S, i > k  PROVE i > m
      OBVIOUS
    <3> QED  BY <1>5, <2>1
  <2>3. k \in above(m) /\ k \notin above(k)
    BY <1>5, <2>1
  <2> HIDE DEF above
  <2> QED  BY <1>4, <2>2, <2>3
<1>6. \A i \in S : i \in Nat /\ m \in Nat
  OBVIOUS
<1> QED
  BY <1>5, <1>6

(***************************************************************************)
(* The LIMIT: before the youngest of the selected come fewer than          *)
(* BatchLimit that are ready, and the other selected are among them.       *)
(***************************************************************************)
LEMMA SelectedIsLimited ==
  ASSUME due \in Seq(Schedules)
  PROVE  IsFiniteSet(Selected) /\ Cardinality(Selected) <= BatchLimit
<1>1. Selected \subseteq Ready /\ Ready \subseteq 1..Len(due) /\ Len(due) \in Nat
  BY DEF Selected, Ready
<1>2. IsFiniteSet(Ready) /\ IsFiniteSet(Selected)
  <2>1. IsFiniteSet(1..Len(due))
    BY <1>1, FS_Interval
  <2> QED  BY <1>1, <2>1, FS_Subset
<1>3. CASE Selected = {}
  BY <1>2, <1>3, FS_EmptySet, SchedulerAssumption
<1>4. CASE Selected # {}
  <2>1. PICK m \in Selected : \A i \in Selected : i <= m
    BY <1>1, <1>2, <1>4, LargestOfFinite
  <2>2. m \in Nat /\ \A i \in Selected : i \in Nat /\ i <= m
    BY <1>1, <2>1
  <2> DEFINE before == {j \in Ready : j < m}
  <2>3. Cardinality(before) < BatchLimit
    BY DEF Selected
  <2>4. IsFiniteSet(before) /\ Cardinality(before) \in Nat
    BY <1>2, FS_Subset, FS_CardinalityType
  <2>5. Selected \subseteq before \cup {m}
    BY <1>1, <2>2
  <2>6. /\ IsFiniteSet(before \cup {m})
        /\ Cardinality(before \cup {m}) = Cardinality(before) + 1
    <3>1. m \notin before
      BY <2>2
    <3> QED  BY <2>4, <3>1, FS_AddElement
  <2> HIDE DEF before
  <2>7. Cardinality(Selected) <= Cardinality(before) + 1 /\ Cardinality(Selected) \in Nat
    BY <1>2, <2>5, <2>6, FS_Subset, FS_CardinalityType
  <2> QED  BY <1>2, <2>3, <2>4, <2>7, SchedulerAssumption
<1> QED
  BY <1>3, <1>4

LEMMA TickKeeps ==
  ASSUME IInv, Tick
  PROVE  IInv'
<1>1. /\ ~ticking /\ ticking' = TRUE
      /\ batch' = [k \in Selected |-> [id |-> due[k], cron |-> cron[due[k]]]]
      /\ UNCHANGED <<table, fires, shots, crashes>>
  BY DEF Tick, Selects
<1>2. TypeOK /\ Distinct /\ Written /\ due \in Seq(Schedules)
  BY DEF IInv, Rows, TypeOK
<1>3. Selected \subseteq DOMAIN due /\ DOMAIN due \subseteq Nat
  BY <1>2 DEF Selected, Ready
<1>4. \A k \in Selected : /\ due[k] \in Schedules /\ IsDue(due[k])
                          /\ state[due[k]] = "enabled"
  BY <1>2, <1>3 DEF Selected, Ready, IsDue, ToSet
<1>5. \A i \in Slots : fires[i] = Idle
  BY <1>1 DEF IInv, Ticks, Resting
<1>6. DOMAIN batch' = Selected /\ \A k \in Selected : batch'[k].id = due[k]
  BY <1>1
<1>7. \A k \in Selected : cron[due[k]] \in Crons
  BY <1>2, <1>4 DEF Written
<1>8. TypeOK'
  <2>1. batch' \in [DOMAIN batch' -> Job] /\ DOMAIN batch' \subseteq Nat
    BY <1>1, <1>3, <1>4, <1>6, <1>7 DEF Job
  <2>2. IsFiniteSet(DOMAIN batch') /\ Cardinality(DOMAIN batch') <= BatchLimit
    BY <1>2, <1>6, SelectedIsLimited
  <2> QED  BY <1>1, <1>2, <2>1, <2>2 DEF TypeOK, table
<1>9. Rows'
  BY <1>1, <1>8 DEF IInv, Rows, Distinct, DueExist, Written, IsDue, Exists, table
<1>10. Ticks'
  <2>1. WaitsOnce'
    BY <1>2, <1>3, <1>6 DEF WaitsOnce, Distinct
  <2>2. Resting' /\ NoOverlap'
    BY <1>1, <1>5 DEF Resting, NoOverlap
  <2> QED  BY <2>1, <2>2 DEF Ticks
<1>11. Shots'
  <2>1. \A r \in Schedules : /\ \A S : Firing(r, S)' <=> Firing(r, S)
                             /\ IsDue(r)' <=> IsDue(r)
    BY <1>1 DEF Firing, IsDue, table
  <2>2. \A r \in Schedules : Waiting(r)' => IsDue(r) /\ state[r] = "enabled"
    BY <1>4, <1>6 DEF Waiting
  <2>3. \A r \in Schedules : ~Firing(r, {"sent", "update"})
    BY <1>5 DEF Firing, Idle
  <2>4. AbsentIsUnsent'
    BY <1>1, <2>1, <2>2 DEF IInv, Shots, AbsentIsUnsent, table
  <2>5. ToSend'
    BY <1>1, <2>1, <2>2, <2>3 DEF IInv, Shots, ToSend, ToSelect
  <2>6. ToSelect' /\ OncePerDueTime'
    BY <1>1, <2>1 DEF IInv, Shots, ToSelect, OncePerDueTime
  <2> QED  BY <2>4, <2>5, <2>6 DEF Shots
<1> QED
  BY <1>9, <1>10, <1>11 DEF IInv

LEMMA StartsKeeps ==
  ASSUME IInv, NEW i \in Slots, Starts(i)
  PROVE  IInv'
<1>1. fires[i] = Idle /\ UNCHANGED <<table, ticking, shots, crashes>>
  BY DEF Starts
<1>2. PICK n \in DOMAIN batch :
        /\ fires' = [fires EXCEPT ![i] = [pc |-> "send", id |-> batch[n].id,
                                          cron |-> batch[n].cron]]
        /\ batch' = [m \in DOMAIN batch \ {n} |-> batch[m]]
  BY DEF Starts
<1>3. TypeOK /\ fires \in [Slots -> Fire] /\ batch \in [DOMAIN batch -> Job]
  BY DEF IInv, Rows, TypeOK
<1> DEFINE s == batch[n].id
<1>4. s \in Schedules /\ batch[n].cron \in Crons
  BY <1>3 DEF Job
<1>5. /\ fires'[i] = [pc |-> "send", id |-> s, cron |-> batch[n].cron]
      /\ fires'[i].id = s /\ fires'[i].pc = "send"
      /\ \A j \in Slots \ {i} : fires'[j] = fires[j]
  BY <1>2, <1>3
<1>6. DOMAIN batch' = DOMAIN batch \ {n} /\ \A m \in DOMAIN batch' : batch'[m] = batch[m]
  BY <1>2
<1>7. TypeOK'
  <2>1. batch' \in [DOMAIN batch' -> Job] /\ DOMAIN batch' \subseteq Nat
    BY <1>2, <1>3, <1>6 DEF TypeOK
  <2>2. [pc |-> "send", id |-> s, cron |-> batch[n].cron] \in Fire
    BY <1>4 DEF Fire
  <2>3. fires' \in [Slots -> Fire]
    BY <1>2, <1>3, <2>2
  <2>4. IsFiniteSet(DOMAIN batch') /\ Cardinality(DOMAIN batch') <= BatchLimit
    BY <1>3, <1>6, FS_Subset, FS_CardinalityType, SchedulerAssumption DEF TypeOK
  <2> QED  BY <1>1, <1>3, <2>1, <2>3, <2>4 DEF TypeOK, table
<1> HIDE DEF s
<1>8. Rows'
  BY <1>1, <1>7 DEF IInv, Rows, Distinct, DueExist, Written, IsDue, Exists, table
<1>9. Waiting(s)
  BY DEF Waiting, s
<1>10. Ticks'
  <2>1. WaitsOnce'
    BY <1>6 DEF IInv, Ticks, WaitsOnce
  <2>2. ticking
    BY DEF IInv, Ticks, Resting
  <2>3. Resting'
    BY <1>1, <2>2 DEF Resting
  <2>4. \A j \in Slots \ {i} : fires[j].id # s
    <3>1. SUFFICES ASSUME NEW j \in Slots \ {i}, fires[j].id = s  PROVE FALSE
      OBVIOUS
    <3>2. fires[j] # Idle
      BY <1>3, <1>4, <3>1, FireTypes DEF s
    <3> QED  BY <3>1, <3>2 DEF IInv, Ticks, NoOverlap, s
  <2>5. \A m \in DOMAIN batch' : batch'[m].id # s
    BY <1>6 DEF IInv, Ticks, WaitsOnce, s
  <2>6. NoOverlap'
    <3> SUFFICES ASSUME NEW k \in Slots, fires'[k] # Idle
                 PROVE  /\ \A j \in Slots \ {k} : fires'[j].id # fires'[k].id
                        /\ \A m \in DOMAIN batch' : batch'[m].id # fires'[k].id
      BY DEF NoOverlap
    <3>1. CASE k = i
      BY <1>5, <2>4, <2>5, <3>1
    <3>2. CASE k # i
      <4>1. fires'[k] = fires[k] /\ fires[k] # Idle /\ fires[k].id # s
        BY <1>5, <2>4, <3>2
      <4>2. \A j \in Slots \ {k} : fires'[j].id # fires'[k].id
        BY <1>5, <4>1 DEF IInv, Ticks, NoOverlap
      <4>3. \A m \in DOMAIN batch' : batch'[m].id # fires'[k].id
        BY <1>6, <4>1 DEF IInv, Ticks, NoOverlap
      <4> QED  BY <4>2, <4>3
    <3> QED  BY <3>1, <3>2
  <2> QED  BY <2>1, <2>3, <2>6 DEF Ticks
<1>11. Shots'
  <2>1. \A r \in Schedules : IsDue(r)' <=> IsDue(r)
    BY <1>1 DEF IsDue, table
  <2>2. \A r \in Schedules : Waiting(r)' => Waiting(r)
    BY <1>6 DEF Waiting
  <2>3. fires[i].pc = "idle"
    BY <1>1 DEF Idle
  <2>4. ASSUME NEW r \in Schedules
        PROVE  Firing(r, {"sent", "update"})' <=> Firing(r, {"sent", "update"})
    <3>1. \A j \in Slots : (fires'[j].id = r /\ fires'[j].pc \in {"sent", "update"})
                          <=> (fires[j].id = r /\ fires[j].pc \in {"sent", "update"})
      BY <1>5, <2>3
    <3> QED  BY <3>1 DEF Firing
  <2>5. ASSUME NEW r \in Schedules, NEW S, Firing(r, S)'  PROVE Firing(r, S) \/ r = s
    BY <1>5, <2>5 DEF Firing
  <2>6. AbsentIsUnsent'
    BY <1>1, <1>9, <2>2, <2>5 DEF IInv, Shots, AbsentIsUnsent, table
  <2>7. ToSend'
    BY <1>1, <1>9, <2>2, <2>5 DEF IInv, Shots, ToSend
  <2>8. ToSelect' /\ OncePerDueTime'
    BY <1>1, <2>1, <2>4 DEF IInv, Shots, ToSelect, OncePerDueTime
  <2> QED  BY <2>6, <2>7, <2>8 DEF Shots
<1> QED
  BY <1>8, <1>10, <1>11 DEF IInv

LEMMA TickEndsKeeps ==
  ASSUME IInv, TickEnds
  PROVE  IInv'
<1>1. /\ DOMAIN batch = {} /\ \A i \in Slots : fires[i] = Idle
      /\ ticking' = FALSE /\ UNCHANGED <<table, batch, fires, shots, crashes>>
  BY DEF TickEnds
<1>2. Rows'
  BY <1>1 DEF IInv, Rows, TypeOK, Distinct, DueExist, Written, IsDue, Exists, table
<1>3. Ticks'
  BY <1>1 DEF Ticks, Resting, WaitsOnce, NoOverlap
<1>4. Shots'
  BY <1>1 DEF IInv, Shots, AbsentIsUnsent, ToSend, ToSelect, OncePerDueTime,
              Waiting, Firing, IsDue, table
<1> QED
  BY <1>2, <1>3, <1>4 DEF IInv

LEMMA StepMoves ==
  ASSUME TypeOK, NEW i \in Slots, NEW p \in {"sent", "update"},
         fires[i] # Idle, Step(i, p)
  PROVE  /\ fires' \in [Slots -> Fire]
         /\ fires'[i] # Idle /\ fires'[i].pc = p /\ fires'[i].id = fires[i].id
         /\ \A j \in Slots \ {i} : fires'[j] = fires[j]
<1>1. fires' = [fires EXCEPT ![i].pc = p] /\ fires \in [Slots -> Fire]
  BY DEF Step, TypeOK
<1>2. fires[i] \in [pc : {"send", "sent", "update"}, id : Schedules, cron : Crons]
  BY <1>1 DEF Fire
<1>3. /\ fires'[i] = [fires[i] EXCEPT !.pc = p]
      /\ \A j \in Slots \ {i} : fires'[j] = fires[j]
  BY <1>1
<1>4. /\ fires'[i] \in [pc : {"send", "sent", "update"}, id : Schedules, cron : Crons]
      /\ fires'[i].pc = p /\ fires'[i].id = fires[i].id
  BY <1>2, <1>3
<1>5. fires' \in [Slots -> Fire]
  BY <1>1, <1>3, <1>4 DEF Fire
<1>6. fires'[i] # Idle
  BY <1>4 DEF Idle
<1> QED
  BY <1>3, <1>4, <1>5, <1>6

LEMMA SendKeeps ==
  ASSUME IInv, NEW i \in Slots, Send(i)
  PROVE  IInv'
<1>1. fires[i].pc = "send" /\ UNCHANGED <<table, batch, ticking, crashes>>
  BY DEF Send
<1>2. TypeOK /\ shots \in [Schedules -> Nat] /\ crashes \in Nat
  BY SchedulerAssumption DEF IInv, Rows, TypeOK
<1>3. fires[i] # Idle /\ fires[i].id \in Schedules
  BY <1>1, <1>2, FireTypes
<1> PICK s \in Schedules : s = fires[i].id
  BY <1>3
<1>4. PICK p \in {"sent", "update"} :
        /\ Step(i, p)
        /\ IF p = "sent" THEN shots' = [shots EXCEPT ![s] = @ + 1] ELSE UNCHANGED shots
  <2>1. CASE Step(i, "update") /\ UNCHANGED shots
    BY <2>1
  <2>2. CASE Step(i, "sent") /\ shots' = [shots EXCEPT ![s] = @ + 1]
    BY <2>2
  <2> QED  BY <2>1, <2>2 DEF Send
<1>5. /\ fires' \in [Slots -> Fire]
      /\ fires'[i] # Idle /\ fires'[i].pc = p /\ fires'[i].id = s
      /\ \A j \in Slots \ {i} : fires'[j] = fires[j]
  BY <1>2, <1>3, <1>4, StepMoves
<1>6. Firing(s, {"send"}) /\ \A n \in DOMAIN batch : batch[n].id # s
  BY <1>1, <1>3 DEF Firing, IInv, Ticks, NoOverlap
<1>7. \A j \in Slots \ {i} : fires'[j].id # s
  BY <1>3, <1>5 DEF IInv, Ticks, NoOverlap
<1>8. /\ shots' \in [Schedules -> Nat]
      /\ shots'[s] <= shots[s] + 1 /\ \A r \in Schedules \ {s} : shots'[r] = shots[r]
  <2>1. shots[s] \in Nat /\ shots[s] + 1 \in Nat
    BY <1>2, <1>3
  <2> QED  BY <1>2, <1>3, <1>4, <2>1
<1>9. TypeOK'
  BY <1>1, <1>2, <1>5, <1>8 DEF TypeOK, table
<1>10. Rows'
  BY <1>1, <1>9 DEF IInv, Rows, Distinct, DueExist, Written, IsDue, Exists, table
<1>11. Ticks'
  BY <1>1, <1>2, <1>3, <1>5, <1>9, MovesKeepTicks DEF IInv, MovesOn
<1>12. Shots'
  <2>1. \A r \in Schedules : /\ IsDue(r)' <=> IsDue(r)
                             /\ Waiting(r)' <=> Waiting(r)
    BY <1>1 DEF IsDue, Waiting, table
  <2>2. ASSUME NEW r \in Schedules \ {s}, NEW S  PROVE Firing(r, S)' <=> Firing(r, S)
    BY <1>5 DEF Firing
  <2>3. ~Firing(s, {"send"})' /\ Firing(s, {"sent", "update"})' /\ ~Waiting(s)
    BY <1>5, <1>6, <1>7 DEF Firing, Waiting
  <2>4. state[s] # "absent" /\ shots[s] <= crashes
    BY <1>3, <1>6 DEF IInv, Shots, AbsentIsUnsent, ToSend, Firing
  <2>5. AbsentIsUnsent'
    BY <1>1, <1>8, <2>1, <2>2, <2>4 DEF IInv, Shots, AbsentIsUnsent, table
  <2>6. ToSend'
    BY <1>1, <1>8, <2>1, <2>2, <2>3 DEF IInv, Shots, ToSend
  <2>7. ToSelect'
    BY <1>1, <1>8, <2>1, <2>2, <2>3 DEF IInv, Shots, ToSelect
  <2>8. shots'[s] <= 1 + crashes
    <3>1. shots[s] \in Nat /\ shots'[s] \in Nat
      BY <1>2, <1>3, <1>8
    <3> QED  BY <1>2, <1>8, <2>4, <3>1
  <2>9. OncePerDueTime'
    BY <1>1, <1>8, <2>8 DEF IInv, Shots, OncePerDueTime
  <2> QED  BY <2>5, <2>6, <2>7, <2>9 DEF Shots
<1> QED
  BY <1>10, <1>11, <1>12 DEF IInv

LEMMA ReturnsKeeps ==
  ASSUME IInv, NEW i \in Slots, Returns(i)
  PROVE  IInv'
<1>1. /\ fires[i].pc = "sent" /\ Step(i, "update")
      /\ UNCHANGED <<table, batch, ticking, shots, crashes>>
  BY DEF Returns
<1>2. TypeOK
  BY DEF IInv, Rows
<1>3. fires[i] # Idle
  BY <1>1, <1>2, FireTypes
<1>4. /\ fires' \in [Slots -> Fire]
      /\ fires'[i] # Idle /\ fires'[i].pc = "update" /\ fires'[i].id = fires[i].id
      /\ \A j \in Slots \ {i} : fires'[j] = fires[j]
  BY <1>1, <1>2, <1>3, StepMoves
<1>5. TypeOK'
  BY <1>1, <1>2, <1>4 DEF TypeOK, table
<1>6. Rows'
  BY <1>1, <1>5 DEF IInv, Rows, Distinct, DueExist, Written, IsDue, Exists, table
<1>7. Ticks'
  BY <1>1, <1>2, <1>3, <1>4, <1>5, MovesKeepTicks DEF IInv, MovesOn
<1>8. Shots'
  <2>1. \A r \in Schedules : /\ IsDue(r)' <=> IsDue(r)
                             /\ Waiting(r)' <=> Waiting(r)
    BY <1>1 DEF IsDue, Waiting, table
  <2>2. ASSUME NEW r \in Schedules
        PROVE  /\ Firing(r, {"send"})' <=> Firing(r, {"send"})
               /\ Firing(r, {"sent", "update"})' <=> Firing(r, {"sent", "update"})
               /\ Firing(r, {"send", "sent", "update"})' <=> Firing(r, {"send", "sent", "update"})
    <3>1. \A j \in Slots : /\ fires'[j].id = fires[j].id
                           /\ fires'[j].pc = "send" <=> fires[j].pc = "send"
                           /\ fires'[j].pc \in {"sent", "update"} <=> fires[j].pc \in {"sent", "update"}
      BY <1>1, <1>4
    <3> QED  BY <3>1 DEF Firing
  <2> QED  BY <1>1, <2>1, <2>2 DEF IInv, Shots, AbsentIsUnsent, ToSend, ToSelect, OncePerDueTime, table
<1> QED
  BY <1>6, <1>7, <1>8 DEF IInv

LEMMA UpdatesKeeps ==
  ASSUME IInv, NEW i \in Slots, Updates(i)
  PROVE  IInv'
<1> PICK s, c : s = fires[i].id /\ c = fires[i].cron
  OBVIOUS
<1>1. /\ fires[i].pc = "update" /\ fires' = [fires EXCEPT ![i] = Idle]
      /\ UNCHANGED <<state, cron, batch, ticking, crashes>>
      /\ IF Exists(s)
         THEN NextRun(s, c) /\ IF c \in NoDate THEN Rearm(s) ELSE UNCHANGED shots
         ELSE UNCHANGED <<due, shots>>
  BY DEF Updates
<1>2. /\ TypeOK /\ Distinct /\ DueExist /\ Written /\ due \in Seq(Schedules)
      /\ fires \in [Slots -> Fire]
      /\ shots \in [Schedules -> Nat] /\ crashes \in Nat
  BY SchedulerAssumption DEF IInv, Rows, TypeOK
<1>3. fires[i] # Idle /\ s \in Schedules
  BY <1>1, <1>2, FireTypes
<1>4. fires'[i] = Idle /\ \A j \in Slots \ {i} : fires'[j] = fires[j]
  BY <1>1, <1>2
<1>5. /\ due' \in Seq(Schedules) /\ Distinct'
      /\ \A r \in Schedules \ {s} : IsDue(r)' <=> IsDue(r)
      /\ IsDue(s)' => Exists(s) /\ c \in NoDate
  <2>1. CASE Exists(s)
    BY <1>1, <1>2, <1>3, <2>1, NextRunProperties
  <2>2. CASE ~Exists(s)
    BY <1>1, <1>2, <1>3, <2>2 DEF Distinct, DueExist, IsDue
  <2> QED  BY <2>1, <2>2
<1>6. /\ shots' \in [Schedules -> Nat]
      /\ \A r \in Schedules \ {s} : shots'[r] = shots[r]
      /\ shots'[s] = 0 \/ shots'[s] = shots[s]
      /\ Exists(s) /\ c \in NoDate => shots'[s] = 0
  <2>1. CASE shots' = [shots EXCEPT ![s] = 0]
    BY <1>2, <1>3, <2>1
  <2>2. CASE UNCHANGED shots /\ ~(Exists(s) /\ c \in NoDate)
    BY <1>2, <2>2
  <2> QED  BY <1>1, <2>1, <2>2 DEF Rearm
<1>7. TypeOK'
  <2>1. fires' \in [Slots -> Fire]
    BY <1>1, <1>2 DEF Fire
  <2> QED  BY <1>1, <1>2, <1>5, <1>6, <2>1 DEF TypeOK
<1>8. Rows'
  <2>1. DueExist'
    BY <1>1, <1>2, <1>5 DEF DueExist, Exists
  <2>2. Written'
    BY <1>1, <1>2 DEF Written
  <2> QED  BY <1>5, <1>7, <2>1, <2>2 DEF Rows
<1>9. Ticks'
  <2>1. MovesOn
    BY <1>4 DEF MovesOn
  <2> QED  BY <1>1, <1>2, <1>7, <2>1, MovesKeepTicks DEF IInv
<1>10. Shots'
  <2>1. \A r \in Schedules : Waiting(r)' <=> Waiting(r)
    BY <1>1 DEF Waiting
  <2>2. ASSUME NEW r \in Schedules, NEW S \in SUBSET {"send", "sent", "update"}, Firing(r, S)'
        PROVE  Firing(r, S)
    BY <1>4, <2>2 DEF Firing, Idle
  <2>3. ASSUME NEW r \in Schedules \ {s}
        PROVE  Firing(r, {"sent", "update"})' <=> Firing(r, {"sent", "update"})
    <3>1. \A j \in Slots : (fires'[j].id = r /\ fires'[j].pc \in {"sent", "update"})
                          <=> (fires[j].id = r /\ fires[j].pc \in {"sent", "update"})
      BY <1>4 DEF Idle
    <3> QED  BY <3>1 DEF Firing
  <2> DEFINE below(r, n) == shots[r] <= n => shots'[r] <= n
  <2>4. \A r \in Schedules : below(r, crashes) /\ below(r, 1 + crashes)
    BY <1>2, <1>3, <1>6
  <2>5. AbsentIsUnsent'
    BY <1>1, <1>6, <2>1, <2>2 DEF IInv, Shots, AbsentIsUnsent
  <2>6. ToSend'
    BY <1>1, <2>1, <2>2, <2>4 DEF IInv, Shots, ToSend
  <2>7. ToSelect'
    <3> SUFFICES ASSUME NEW r \in Schedules, IsDue(r)', ~Firing(r, {"sent", "update"})'
                 PROVE  shots'[r] <= crashes
      BY <1>1 DEF ToSelect
    <3>1. CASE r = s
      BY <1>2, <1>5, <1>6, <3>1
    <3>2. CASE r # s
      BY <1>5, <1>6, <2>3, <3>2 DEF IInv, Shots, ToSelect
    <3> QED  BY <3>1, <3>2
  <2>8. OncePerDueTime'
    BY <1>1, <2>4 DEF IInv, Shots, OncePerDueTime
  <2> QED  BY <2>5, <2>6, <2>7, <2>8 DEF Shots
<1> QED
  BY <1>8, <1>9, <1>10 DEF IInv

LEMMA CrashKeeps ==
  ASSUME IInv, Crash
  PROVE  IInv'
<1>1. /\ crashes < MaxCrashes /\ crashes' = crashes + 1
      /\ batch' = <<>> /\ DOMAIN batch' = {} /\ fires' = [i \in Slots |-> Idle] /\ ticking' = FALSE
      /\ UNCHANGED <<table, shots>>
  BY DEF Crash
<1>2. TypeOK /\ crashes \in 0..MaxCrashes /\ MaxCrashes \in Nat
  BY SchedulerAssumption DEF IInv, Rows, TypeOK
<1>3. crashes' \in 0..MaxCrashes /\ crashes \in Nat
  BY <1>1, <1>2
<1>4. TypeOK'
  <2>1. fires' \in [Slots -> Fire]
    BY <1>1 DEF Fire
  <2>2. batch' \in [DOMAIN batch' -> Job] /\ DOMAIN batch' \subseteq Nat
    BY <1>1
  <2>3. IsFiniteSet(DOMAIN batch') /\ Cardinality(DOMAIN batch') <= BatchLimit
    BY <1>1, FS_EmptySet, SchedulerAssumption
  <2> QED  BY <1>1, <1>2, <1>3, <2>1, <2>2, <2>3 DEF TypeOK, table
<1>5. Rows'
  BY <1>1, <1>4 DEF IInv, Rows, Distinct, DueExist, Written, IsDue, Exists, table
<1>6. Ticks'
  BY <1>1 DEF Ticks, Resting, WaitsOnce, NoOverlap
<1>7. Shots'
  <2>1. \A r \in Schedules : /\ shots[r] \in Nat /\ shots[r] <= crashes'
                             /\ shots'[r] = shots[r]
    BY <1>1, <1>2, <1>3 DEF IInv, Shots, OncePerDueTime, TypeOK
  <2>2. \A r \in Schedules : ~Waiting(r)' /\ ~Firing(r, {"send", "sent", "update"})'
    BY <1>1 DEF Waiting, Firing, Idle
  <2>3. AbsentIsUnsent'
    BY <1>1, <2>1, <2>2 DEF IInv, Shots, AbsentIsUnsent, table
  <2>4. ToSend' /\ ToSelect'
    BY <2>1 DEF ToSend, ToSelect
  <2>5. OncePerDueTime'
    BY <1>1, <1>3, <2>1 DEF OncePerDueTime
  <2> QED  BY <2>3, <2>4, <2>5 DEF Shots
<1> QED
  BY <1>5, <1>6, <1>7 DEF IInv

-----------------------------------------------------------------------------
LEMMA NextKeeps == IInv /\ [Next]_vars => IInv'
<1> SUFFICES ASSUME IInv, [Next]_vars  PROVE IInv'
  OBVIOUS
<1>1. ASSUME NEW s \in Schedules, Handlers(s)  PROVE IInv'
  BY <1>1, CreateKeeps, UpdateKeeps, DeleteKeeps, BecomesDueKeeps DEF Handlers
<1>2. CASE Tick
  BY <1>2, TickKeeps
<1>3. CASE TickEnds
  BY <1>3, TickEndsKeeps
<1>4. ASSUME NEW i \in Slots, Works(i) \/ Returns(i)  PROVE IInv'
  BY <1>4, StartsKeeps, SendKeeps, UpdatesKeeps, ReturnsKeeps DEF Works
<1>5. CASE Crash
  BY <1>5, CrashKeeps
<1>6. CASE UNCHANGED vars
  <2>1. UNCHANGED <<state, cron, due, batch, fires, ticking, shots, crashes>>
    BY <1>6 DEF vars, table, control
  <2>2. Rows'
    BY <2>1 DEF IInv, Rows, TypeOK, Distinct, DueExist, Written, IsDue, Exists
  <2>3. Ticks'
    BY <2>1 DEF IInv, Ticks, Resting, WaitsOnce, NoOverlap
  <2>4. Shots'
    BY <2>1 DEF IInv, Shots, AbsentIsUnsent, ToSend, ToSelect, OncePerDueTime, Waiting, Firing, IsDue
  <2> QED  BY <2>2, <2>3, <2>4 DEF IInv
<1> QED
  BY <1>1, <1>2, <1>3, <1>4, <1>5, <1>6 DEF Next

LEMMA Invariant == Spec => []IInv
  BY InitHolds, NextKeeps, PTL DEF Spec

(***************************************************************************)
(* Every variable keeps its type.                                          *)
(***************************************************************************)
THEOREM SchedulerTyped == Spec => []TypeOK
<1>1. IInv => TypeOK
  BY DEF IInv, Rows
<1> QED
  BY Invariant, <1>1, PTL

(***************************************************************************)
(* No schedule is fired beside itself, whatever is edited, deleted or      *)
(* created meanwhile and however the goroutines of a tick interleave.      *)
(***************************************************************************)
THEOREM NeverBesideItself == Spec => []NoOverlap
<1>1. IInv => NoOverlap
  BY DEF IInv, Ticks
<1> QED
  BY Invariant, <1>1, PTL

(***************************************************************************)
(* A due time is forwarded once, and once more at most for each restart.   *)
(***************************************************************************)
THEOREM SentOncePerDueTime == Spec => []OncePerDueTime
<1>1. IInv => OncePerDueTime
  BY DEF IInv, Shots
<1> QED
  BY Invariant, <1>1, PTL
=============================================================================
