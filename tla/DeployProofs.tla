---------------------------- MODULE DeployProofs ----------------------------
(***************************************************************************)
(* What is read of a secret, and that a change which the container does    *)
(* not have yet is on its way to it, for every number of keys, plugins,    *)
(* requests, provisionings and starts of the platform.                     *)
(*                                                                         *)
(* A row says with which key it was stored and in which run of the         *)
(* platform.  As every start sets every row's version to 0, a row of       *)
(* version 1 is one of this run, and so of this run's key: from that       *)
(* follows all that is said of reading.  PluginsDue and SecretDue are the  *)
(* safety part of PluginsArrive and SecretArrives, which need fairness.    *)
(***************************************************************************)
EXTENDS DeployProps, TLAPS

\* The run a row was stored in, its key and its version agree.
Keyed ==
  \A r \in {global, local} \ {NoRow} :
    /\ r.run <= run
    /\ r.enc = NoKey => r.ver = 0
    /\ r.run = run => r.enc = key
    /\ r.ver = 1 => r.run = run

\* A restart that somebody has asked for and that has not provisioned yet.
RestartDue == asked > 0 \/ holder # "free"

\* A provisioning that has yet to start a container.
StartDue == \E p \in Provs : prov[p].at \in {"begun", "global", "env"}

Removing(steps) == \E j \in Jobs : job[j].at \in steps

\* Without the mark, at most one provisioning is under way.
Alone == "overlap" \notin marks => \A p, q \in Provs : prov[p] # Idle /\ prov[q] # Idle => p = q

\* A secret of this run is what env has of it.
Current(env) == local # NoRow /\ local.run = run => env = Read(local)

ReadInTime ==
  {"died", "overlap"} \cap marks = {} =>
    \A p \in Provs : prov[p].at = "env" => Current(prov[p].env) \/ RestartDue

(* The secret in the container's environment is the one that is stored, or *)
(* a restart or a provisioning is under way that will read it              *)
(* (secrets.go:252): SetSecret and a restart that is skipped never leave   *)
(* the container behind with nobody at work.                               *)
SecretDue ==
  {"died", "overlap"} \cap marks = {} /\ box # NoBox
    => Current(box.env) \/ RestartDue \/ StartDue

(* The container has loaded the plugins that are on its volume and has     *)
(* their skills, or a restart, a provisioning or the uninstall that will   *)
(* ask for a restart is under way (plugins.go: go h.restartFunc).          *)
PluginsDue ==
  {"error", "died", "late"} \cap marks = {} /\ box # NoBox
    => /\ box.loaded = dirs \/ RestartDue \/ StartDue \/ Removing({"removed"})
       /\ \/ UNION {SkillsOf[q] : q \in dirs} \subseteq skills
          \/ RestartDue \/ StartDue \/ Removing({"skills", "removed"})

(* Provisioning is never refused a secret: DecryptVersioned's error, and   *)
(* with it loadWorkspaceSecrets' abort, cannot happen on rows that this    *)
(* code stored.                                                            *)
NeverRefused == \A r \in Rows : Read(r) # Refused

IInv == TypeOK /\ Keyed /\ Alone /\ ReadInTime /\ SecretDue /\ PluginsDue

(***************************************************************************)
(* What the provisionings read of a row is a value, or what is taken for   *)
(* one; and it is not None unless there is no row.                         *)
(***************************************************************************)
LEMMA ReadIsValue ==
  ASSUME NEW row \in Row \cup {NoRow}
  PROVE  Read(row) \in Value \cup {Refused}
<1>1. CASE row = NoRow
  BY <1>1 DEF Read, Value
<1>2. CASE row # NoRow
  BY <1>2 DEF Read, Row, Value
<1> QED
  BY <1>1, <1>2

LEMMA Accepted ==
  ASSUME TypeOK, Keyed, NEW row \in {global, local}
  PROVE  Read(row) # Refused
<1>1. CASE row = NoRow
  BY <1>1 DEF Read, None, Refused
<1>2. CASE row # NoRow
  <2>1. row \in Row /\ row \in {global, local} \ {NoRow}
    BY <1>2 DEF TypeOK
  <2>2. row.val \in 1 .. MaxOps /\ row.ver \in {0, 1} /\ row.enc \in Keys \cup {NoKey}
    BY <2>1 DEF Row
  <2>3. row.ver = 1 => row.enc = key /\ key # NoKey
    BY <2>1, DeployAssumption DEF Keyed
  <2> QED
    BY <1>2, <2>2, <2>3, DeployAssumption DEF Read, Refused, Garbled
<1> QED
  BY <1>1, <1>2

LEMMA LocalIsNotNone ==
  ASSUME TypeOK, local # NoRow
  PROVE  Read(local) # None
<1>1. local \in Row
  BY DEF TypeOK
<1>2. local.val \in 1 .. MaxOps /\ local.ver \in {0, 1}
  BY <1>1 DEF Row
<1> QED
  BY <1>2, DeployAssumption DEF Read, Refused, Garbled, None

(***************************************************************************)
(* A row stored now.                                                       *)
(***************************************************************************)
LEMMA StoredIsRow ==
  ASSUME TypeOK, ops < MaxOps
  PROVE  Stored(ops + 1) \in Row
<1>1. ops + 1 \in 1 .. MaxOps
  BY DeployAssumption DEF TypeOK
<1>2. CurrentVersion \in {0, 1}
  BY DEF CurrentVersion
<1>3. key \in Keys \cup {NoKey} /\ run \in 1 .. MaxRuns
  BY DEF TypeOK
<1> QED
  BY <1>1, <1>2, <1>3 DEF Stored, Row

(***************************************************************************)
(* `go provisionWorkspace(...)` is a provisioning that has begun, beside   *)
(* those that run already.                                                 *)
(***************************************************************************)
LEMMA SpawnIs ==
  ASSUME TypeOK, NEW put \in SUBSET Plugins, Spawn(put)
  PROVE  \E p \in Provs :
           /\ prov[p] = Idle
           /\ prov' = [prov EXCEPT ![p] = [at |-> "begun", put |-> put, env |-> None]]
           /\ prov'[p].at = "begun"
<1> DEFINE p == CHOOSE q \in Provs : prov[q] = Idle
<1>1. p \in Provs /\ prov[p] = Idle
  BY DEF Spawn
<1>2. prov' = [prov EXCEPT ![p] = [at |-> "begun", put |-> put, env |-> None]]
  BY DEF Spawn
<1>3. prov'[p] = [at |-> "begun", put |-> put, env |-> None]
  BY <1>1, <1>2 DEF TypeOK
<1>4. prov'[p].at = "begun"
  BY <1>3
<1> HIDE DEF p
<1> QED
  BY <1>1, <1>2, <1>4

LEMMA SpawnTypes ==
  ASSUME TypeOK, NEW put \in SUBSET Plugins, Spawn(put)
  PROVE  /\ prov' \in [Provs -> Provisioning \cup {Idle}]
         /\ marks' \in SUBSET {"error", "died", "overlap", "late"}
         /\ marks \subseteq marks'
<1>1. [at |-> "begun", put |-> put, env |-> None] \in Provisioning
  BY DEF Provisioning, Value
<1>2. prov' \in [Provs -> Provisioning \cup {Idle}]
  <2>1. PICK p \in Provs : prov' = [prov EXCEPT ![p] = [at |-> "begun", put |-> put, env |-> None]]
    BY SpawnIs
  <2> QED
    BY <1>1, <2>1 DEF TypeOK
<1> QED
  BY <1>2 DEF TypeOK, Spawn

LEMMA SpawnAlone ==
  ASSUME TypeOK, Alone, NEW put \in SUBSET Plugins, Spawn(put)
  PROVE  /\ Alone' /\ StartDue'
         /\ "overlap" \notin marks' => \A p \in Provs : prov'[p].at \in {"idle", "begun"}
<1>1. PICK p \in Provs :
        /\ prov[p] = Idle
        /\ prov' = [prov EXCEPT ![p] = [at |-> "begun", put |-> put, env |-> None]]
        /\ prov'[p].at = "begun"
  BY SpawnIs
<1>2. \A q \in Provs : q # p => prov'[q] = prov[q]
  BY <1>1 DEF TypeOK
<1>3. "overlap" \notin marks' => \A q \in Provs : prov[q] = Idle
  BY DEF Spawn
<1>4. "overlap" \notin marks' => \A q \in Provs : q # p => prov'[q] = Idle
  BY <1>2, <1>3
<1>5. Idle.at = "idle"
  BY DEF Idle
<1>6. StartDue'
  BY <1>1 DEF StartDue
<1> QED
  BY <1>1, <1>4, <1>5, <1>6 DEF Alone

(***************************************************************************)
(* Types: one step per action.                                             *)
(***************************************************************************)
LEMMA InitTyped == Init => TypeOK
<1> SUFFICES ASSUME Init PROVE TypeOK
  OBVIOUS
<1>1. prov \in [Provs -> Provisioning \cup {Idle}] /\ job \in [Jobs -> Request \cup {Idle}]
  BY DEF Init
<1>2. run \in 1 .. MaxRuns /\ ops \in 0 .. MaxOps /\ asked \in Nat
  BY DeployAssumption DEF Init
<1> QED
  BY <1>1, <1>2 DEF Init, TypeOK

LEMMA RequestsTyped ==
  ASSUME TypeOK, Requests
  PROVE  TypeOK'
<1>1. OrgPlugins \in SUBSET Plugins /\ {} \in SUBSET Plugins
  BY DeployAssumption
<1>2. Op
  BY DEF Requests, Create, Import, Set, Delete, SetGlobal, DeleteGlobal, Restart
<1>3. ops < MaxOps /\ ops' \in 0 .. MaxOps
  BY <1>2, DeployAssumption DEF Op, TypeOK
<1>4. Stored(ops + 1) \in Row /\ [Stored(ops + 1) EXCEPT !.ver = 0] \in Row
  BY <1>3, StoredIsRow DEF Row
<1>5. CASE Create
  BY <1>1, <1>3, <1>5, SpawnTypes
  DEF Create, TypeOK, processVars, secretVars, volumeVars, restartVars
<1>6. CASE Import
  BY <1>1, <1>3, <1>4, <1>6, SpawnTypes
  DEF Import, TypeOK, processVars, volumeVars, restartVars
<1>7. CASE Set
  BY <1>3, <1>4, <1>7 DEF Set, TypeOK, processVars, volumeVars
<1>8. CASE Delete
  BY <1>3, <1>8 DEF Delete, TypeOK, processVars, volumeVars
<1>9. CASE SetGlobal
  BY <1>3, <1>4, <1>9 DEF SetGlobal, TypeOK, processVars, volumeVars, restartVars
<1>10. CASE DeleteGlobal
  BY <1>3, <1>10 DEF DeleteGlobal, TypeOK, processVars, volumeVars, restartVars
<1>11. CASE Restart
  BY <1>1, <1>3, <1>11, SpawnTypes
  DEF Restart, TypeOK, processVars, secretVars, volumeVars, restartVars
<1> QED
  BY <1>5, <1>6, <1>7, <1>8, <1>9, <1>10, <1>11 DEF Requests

LEMMA RestartTyped ==
  ASSUME TypeOK, RestartSteps
  PROVE  TypeOK'
<1>1. CASE RestartBegins
  BY <1>1 DEF RestartBegins, TypeOK, processVars, secretVars, volumeVars
<1>2. CASE RestartSkipped
  BY <1>2 DEF RestartSkipped, TypeOK, processVars, secretVars, volumeVars
<1>3. CASE RestartStops
  BY <1>3 DEF RestartStops, TypeOK, processVars, secretVars, volumeVars
<1>4. CASE RestartSpawns
  BY <1>4, SpawnTypes DEF RestartSpawns, TypeOK, processVars, secretVars, volumeVars
<1> QED
  BY <1>1, <1>2, <1>3, <1>4 DEF RestartSteps

LEMMA LoadTyped ==
  ASSUME TypeOK, NEW plugins \in SUBSET Plugins, Load(plugins)
  PROVE  skills' \in SUBSET Skills
<1>1. \A q \in Plugins : SkillsOf[q] \subseteq Skills
  BY DeployAssumption
<1> QED
  BY <1>1 DEF Load, TypeOK

LEMMA ProvTyped ==
  ASSUME TypeOK, NEW p \in Provs, ProvSteps(p)
  PROVE  TypeOK'
<1>1. prov[p] \in Provisioning \cup {Idle} /\ Idle.at = "idle"
  BY DEF TypeOK, Idle
<1>2. prov[p] # Idle =>
        /\ prov[p].put \in SUBSET Plugins /\ prov[p].env \in Value
        /\ \A at \in {"global", "env", "write"}, e \in Value :
             /\ [prov[p] EXCEPT !.at = at, !.env = e] \in Provisioning
             /\ [prov[p] EXCEPT !.at = at] \in Provisioning
  BY <1>1 DEF Provisioning
<1>3. Read(global) \in Value \cup {Refused} /\ Read(local) \in Value \cup {Refused}
  BY ReadIsValue DEF TypeOK
<1>4. CASE ReadGlobals(p)
  <2>1. prov' \in [Provs -> Provisioning \cup {Idle}]
    BY <1>1, <1>2, <1>3, <1>4 DEF ReadGlobals, TypeOK
  <2> QED
    BY <1>4, <2>1 DEF ReadGlobals, TypeOK, processVars, secretVars, volumeVars, restartVars
<1>5. CASE ReadLocals(p)
  <2>1. prov[p] # Idle
    BY <1>1, <1>5 DEF ReadLocals
  <2>2. Merge(prov[p].env, Read(local)) \in Value \cup {Refused}
    BY <1>2, <1>3, <2>1 DEF Merge
  <2>3. prov' \in [Provs -> Provisioning \cup {Idle}]
    BY <1>1, <1>2, <1>5, <2>1, <2>2 DEF ReadLocals, TypeOK
  <2> QED
    BY <1>5, <2>3 DEF ReadLocals, TypeOK, processVars, secretVars, volumeVars, restartVars
<1>6. CASE StartBox(p)
  <2>1. prov[p] # Idle
    BY <1>1, <1>6 DEF StartBox
  <2>2. prov' \in [Provs -> Provisioning \cup {Idle}]
    BY <1>1, <1>2, <1>6, <2>1 DEF StartBox, TypeOK
  <2>3. box' \in Box
    BY <1>2, <1>6, <2>1 DEF StartBox, TypeOK, Box
  <2>4. skills' \in SUBSET Skills
    BY <1>6, LoadTyped DEF StartBox, TypeOK
  <2> QED
    BY <1>6, <2>2, <2>3, <2>4 DEF StartBox, TypeOK, processVars, secretVars, restartVars
<1>7. CASE WriteFiles(p)
  <2>1. prov[p] # Idle
    BY <1>1, <1>7 DEF WriteFiles
  <2>2. prov' \in [Provs -> Provisioning \cup {Idle}]
    BY <1>7 DEF WriteFiles, TypeOK
  <2>3. dirs' \in SUBSET Plugins
    BY <1>2, <1>7, <2>1 DEF WriteFiles, TypeOK
  <2>4. box' \in Box \cup {NoBox}
    BY <1>7, <2>3 DEF WriteFiles, TypeOK, Box
  <2>5. skills' \in SUBSET Skills
    BY <1>7, <2>3, LoadTyped DEF WriteFiles, TypeOK
  <2>6. marks' \in SUBSET {"error", "died", "overlap", "late"}
    BY <1>7 DEF WriteFiles, TypeOK
  <2> QED
    BY <1>7, <2>2, <2>3, <2>4, <2>5, <2>6
    DEF WriteFiles, TypeOK, processVars, secretVars, restartVars
<1>8. CASE StartFails(p)
  BY <1>8 DEF StartFails, TypeOK, processVars, secretVars, volumeVars, restartVars
<1> QED
  BY <1>4, <1>5, <1>6, <1>7, <1>8 DEF ProvSteps

LEMMA JobTyped ==
  ASSUME TypeOK, NEW j \in Jobs, Stage(j) \/ Uninstall(j) \/ JobSteps(j)
  PROVE  TypeOK'
<1>1. job[j] \in Request \cup {Idle} /\ Idle.at = "idle"
  BY DEF TypeOK, Idle
<1>2. Op => ops' \in 0 .. MaxOps
  BY DeployAssumption DEF Op, TypeOK
<1>3. CASE Stage(j)
  <2>1. \A p \in Plugins : [at |-> "staged", plugin |-> p] \in Request
    BY DEF Request
  <2>2. job' \in [Jobs -> Request \cup {Idle}]
    BY <1>3, <2>1 DEF Stage, TypeOK
  <2> QED
    BY <1>2, <1>3, <2>2 DEF Stage, TypeOK, processVars, secretVars, volumeVars, restartVars
<1>4. CASE Uninstall(j)
  <2>1. \A p \in Plugins : SkillsOf[p] \in SUBSET Skills
    BY DeployAssumption
  <2>2. \A p \in Plugins :
          [at |-> "manifest", plugin |-> p, owns |-> IF p \in dirs THEN SkillsOf[p] ELSE {}]
            \in Request
    BY <2>1 DEF Request
  <2>3. job' \in [Jobs -> Request \cup {Idle}]
    BY <1>4, <2>2 DEF Uninstall, TypeOK
  <2> QED
    BY <1>2, <1>4, <2>3 DEF Uninstall, TypeOK, processVars, secretVars, volumeVars, restartVars
<1>5. CASE Deliver(j)
  <2>1. job[j].plugin \in Plugins
    BY <1>1, <1>5 DEF Deliver, Request
  <2> QED
    BY <1>5, <2>1 DEF Deliver, AskedAfter, TypeOK, processVars, secretVars
<1>6. CASE RemoveSkills(j)
  <2>1. [job[j] EXCEPT !.at = "skills"] \in Request
    BY <1>1, <1>6 DEF RemoveSkills, Request
  <2>2. job' \in [Jobs -> Request \cup {Idle}]
    BY <1>6, <2>1 DEF RemoveSkills, TypeOK
  <2> QED
    BY <1>6, <2>2 DEF RemoveSkills, TypeOK, processVars, secretVars, restartVars
<1>7. CASE RemoveDir(j)
  <2>1. [job[j] EXCEPT !.at = "removed"] \in Request
    BY <1>1, <1>7 DEF RemoveDir, Request
  <2>2. job' \in [Jobs -> Request \cup {Idle}]
    BY <1>7, <2>1 DEF RemoveDir, TypeOK
  <2>3. dirs' \in SUBSET Plugins /\ marks' \in SUBSET {"error", "died", "overlap", "late"}
    BY <1>7 DEF RemoveDir, TypeOK
  <2> QED
    BY <1>7, <2>2, <2>3 DEF RemoveDir, TypeOK, processVars, secretVars, restartVars
<1>8. CASE UninstallRestarts(j)
  BY <1>8 DEF UninstallRestarts, TypeOK, processVars, secretVars, volumeVars
<1> QED
  BY <1>3, <1>4, <1>5, <1>6, <1>7, <1>8 DEF JobSteps

LEMMA StartTyped ==
  ASSUME TypeOK, PlatformStart
  PROVE  TypeOK'
<1>1. \A row \in Row \cup {NoRow} : DownAndUp(row) \in Row \cup {NoRow}
  BY DEF DownAndUp, Row
<1>2. run' \in 1 .. MaxRuns
  BY DeployAssumption DEF PlatformStart, TypeOK
<1>3. marks' \in SUBSET {"error", "died", "overlap", "late"}
  BY DEF PlatformStart, TypeOK
<1>4. prov' \in [Provs -> Provisioning \cup {Idle}] /\ job' \in [Jobs -> Request \cup {Idle}]
  BY DEF PlatformStart
<1> QED
  BY <1>1, <1>2, <1>3, <1>4 DEF PlatformStart, TypeOK, volumeVars

(***************************************************************************)
(* Every step, of whichever kind, keeps the types.                         *)
(***************************************************************************)
LEMMA StepTyped ==
  ASSUME TypeOK, [Next]_vars
  PROVE  TypeOK'
<1>1. CASE UNCHANGED vars
  BY <1>1 DEF TypeOK, vars, processVars, secretVars, volumeVars, restartVars
<1>2. CASE Next
  BY <1>2, RequestsTyped, RestartTyped, ProvTyped, JobTyped, StartTyped DEF Next
<1> QED
  BY <1>1, <1>2

(***************************************************************************)
(* Rows: those that the API and an import store now are of this run and    *)
(* this key, and a start makes every version 0.                            *)
(***************************************************************************)
LEMMA StepKeyed ==
  ASSUME TypeOK, Keyed, [Next]_vars
  PROVE  Keyed'
<1> DEFINE Good(r) == /\ r.run <= run
                      /\ r.enc = NoKey => r.ver = 0
                      /\ r.run = run => r.enc = key
                      /\ r.ver = 1 => r.run = run
<1>1. run \in Nat
  BY DeployAssumption DEF TypeOK
<1>2. Good(Stored(ops + 1)) /\ Good([Stored(ops + 1) EXCEPT !.ver = 0])
  BY <1>1 DEF Stored, CurrentVersion
<1>3. CASE UNCHANGED <<key, run, global, local>>
  BY <1>3 DEF Keyed
<1>4. CASE Import \/ Set
  <2>1. Good(local') /\ UNCHANGED <<key, run, global>>
    BY <1>2, <1>4 DEF Import, Set, processVars
  <2> QED
    BY <2>1 DEF Keyed
<1>5. CASE SetGlobal
  <2>1. Good(global') /\ UNCHANGED <<key, run, local>>
    BY <1>2, <1>5 DEF SetGlobal, processVars
  <2> QED
    BY <2>1 DEF Keyed
<1>6. CASE Delete \/ DeleteGlobal
  BY <1>6 DEF Delete, DeleteGlobal, processVars, Keyed
<1>7. CASE PlatformStart
  <2>1. run' = run + 1 /\ global' = DownAndUp(global) /\ local' = DownAndUp(local)
    BY <1>7 DEF PlatformStart
  <2>2. SUFFICES ASSUME NEW s \in {global, local} \ {NoRow}
                 PROVE  /\ DownAndUp(s).run <= run + 1 /\ DownAndUp(s).run # run + 1
                        /\ DownAndUp(s).ver = 0
    <3>1. \A r \in {global', local'} \ {NoRow} :
            \E s \in {global, local} \ {NoRow} : r = DownAndUp(s)
      BY <2>1 DEF DownAndUp
    <3> QED
      BY <2>1, <3>1 DEF Keyed
  <2>3. s \in Row /\ s.run <= run
    BY DEF TypeOK, Keyed
  <2>4. DownAndUp(s).run = s.run /\ DownAndUp(s).ver = 0 /\ s.run \in Nat
    BY <2>3, DeployAssumption DEF DownAndUp, Row
  <2> QED
    BY <1>1, <2>3, <2>4
<1>8. CASE Create \/ Restart
  BY <1>3, <1>8 DEF Create, Restart, processVars, secretVars
<1>9. CASE RestartSteps
  BY <1>3, <1>9
  DEF RestartSteps, RestartBegins, RestartSkipped, RestartStops, RestartSpawns,
      processVars, secretVars
<1>10. ASSUME NEW p \in Provs, ProvSteps(p) PROVE Keyed'
  BY <1>3, <1>10
  DEF ProvSteps, ReadGlobals, ReadLocals, StartBox, WriteFiles, StartFails,
      processVars, secretVars
<1>11. ASSUME NEW j \in Jobs, Stage(j) \/ Uninstall(j) \/ JobSteps(j) PROVE Keyed'
  BY <1>3, <1>11
  DEF Stage, Uninstall, JobSteps, Deliver, RemoveSkills, RemoveDir, UninstallRestarts,
      processVars, secretVars
<1>12. CASE UNCHANGED vars
  BY <1>3, <1>12 DEF vars, processVars, secretVars
<1> QED
  BY <1>4, <1>5, <1>6, <1>7, <1>8, <1>9, <1>10, <1>11, <1>12 DEF Next, Requests

(***************************************************************************)
(* A provisioning's own steps do not add to those that are under way.      *)
(***************************************************************************)
LEMMA FewerAlone ==
  ASSUME TypeOK, Alone, marks \subseteq marks',
         \A p \in Provs : prov[p] = Idle => prov'[p] = Idle
  PROVE  Alone'
BY DEF Alone

LEMMA ProvMoves ==
  ASSUME TypeOK, NEW p \in Provs, ProvSteps(p)
  PROVE  /\ prov[p] # Idle
         /\ \A q \in Provs : q # p => prov'[q] = prov[q]
         /\ marks \subseteq marks'
         /\ UNCHANGED <<processVars, secretVars, restartVars, job>>
BY DEF ProvSteps, ReadGlobals, ReadLocals, StartBox, WriteFiles, StartFails, Idle, TypeOK

LEMMA StepAlone ==
  ASSUME TypeOK, Alone, [Next]_vars
  PROVE  Alone'
<1>1. CASE UNCHANGED <<prov, marks>>
  BY <1>1 DEF Alone
<1>2. {} \in SUBSET Plugins /\ OrgPlugins \in SUBSET Plugins
  BY DeployAssumption
<1>3. CASE Create \/ Import \/ Restart \/ RestartSpawns
  BY <1>2, <1>3, SpawnAlone DEF Create, Import, Restart, RestartSpawns
<1>4. CASE Set \/ Delete \/ SetGlobal \/ DeleteGlobal
  BY <1>1, <1>4 DEF Set, Delete, SetGlobal, DeleteGlobal
<1>5. CASE RestartBegins \/ RestartSkipped \/ RestartStops
  BY <1>1, <1>5 DEF RestartBegins, RestartSkipped, RestartStops
<1>6. CASE PlatformStart
  BY <1>6 DEF PlatformStart, Alone
<1>7. ASSUME NEW p \in Provs, ProvSteps(p) PROVE Alone'
  BY <1>7, ProvMoves, FewerAlone
<1>8. ASSUME NEW j \in Jobs, Stage(j) \/ Uninstall(j) \/ JobSteps(j) PROVE Alone'
  <2>1. UNCHANGED prov /\ marks \subseteq marks'
    BY <1>8
    DEF Stage, Uninstall, JobSteps, Deliver, RemoveSkills, RemoveDir, UninstallRestarts
  <2> QED
    BY <2>1, FewerAlone
<1>9. CASE UNCHANGED vars
  BY <1>1, <1>9 DEF vars
<1> QED
  BY <1>3, <1>4, <1>5, <1>6, <1>7, <1>8, <1>9 DEF Next, Requests, RestartSteps

(***************************************************************************)
(* A restart is asked for, or held back by the one that holds the mutex:   *)
(* it is due afterwards.                                                   *)
(***************************************************************************)
LEMMA DueAfter ==
  ASSUME TypeOK, Set \/ Delete \/ RestartBegins \/ RestartSkipped \/ RestartStops
  PROVE  RestartDue' /\ UNCHANGED <<prov, marks>>
<1>1. asked \in Nat
  BY DEF TypeOK
<1> QED
  BY <1>1
  DEF Set, Delete, RestartBegins, RestartSkipped, RestartStops, RestartDue

LEMMA Spawns ==
  ASSUME TypeOK, Alone, Create \/ Import \/ Restart \/ RestartSpawns
  PROVE  /\ StartDue' /\ marks \subseteq marks'
         /\ "overlap" \notin marks' => \A p \in Provs : prov'[p].at \in {"idle", "begun"}
<1>1. {} \in SUBSET Plugins /\ OrgPlugins \in SUBSET Plugins
  BY DeployAssumption
<1>2. PICK put \in SUBSET Plugins : Spawn(put)
  BY <1>1 DEF Create, Import, Restart, RestartSpawns
<1> QED
  BY <1>2, SpawnAlone, SpawnTypes

\* Reading the tables, which is never refused, leaves the container to start.
LEMMA Reads ==
  ASSUME TypeOK, Keyed, NEW p \in Provs, ReadGlobals(p) \/ ReadLocals(p)
  PROVE  StartDue' /\ prov'[p].at \in {"global", "env"}
<1>1. Read(global) # Refused /\ Read(local) # Refused
  BY Accepted
<1>2. CASE ReadGlobals(p)
  <2>1. prov[p] \in Provisioning
    BY <1>2 DEF ReadGlobals, TypeOK, Idle
  <2>2. prov'[p] = [prov[p] EXCEPT !.at = "global", !.env = Read(global)]
    BY <1>1, <1>2 DEF ReadGlobals, TypeOK
  <2>3. prov'[p].at = "global"
    BY <2>1, <2>2 DEF Provisioning
  <2> QED
    BY <2>3 DEF StartDue
<1>3. CASE ReadLocals(p)
  <2>1. prov[p] \in Provisioning
    BY <1>3 DEF ReadLocals, TypeOK, Idle
  <2>2. Merge(prov[p].env, Read(local)) # Refused
    <3>1. prov[p].env # Refused
      BY <2>1, DeployAssumption DEF Provisioning, Value, None, Garbled, Refused
    <3> QED
      BY <1>1, <3>1 DEF Merge
  <2>3. prov'[p] = [prov[p] EXCEPT !.at = "env", !.env = Merge(prov[p].env, Read(local))]
    BY <1>3, <2>2 DEF ReadLocals, TypeOK
  <2>4. prov'[p].at = "env"
    BY <2>1, <2>3 DEF Provisioning
  <2> QED
    BY <2>4 DEF StartDue
<1> QED
  BY <1>2, <1>3

(***************************************************************************)
(* What a container is about to be given: a provisioning between its two   *)
(* reads and its start.                                                    *)
(***************************************************************************)
LEMMA StepInTime ==
  ASSUME TypeOK, Keyed, Alone, ReadInTime, [Next]_vars
  PROVE  ReadInTime'
<1> SUFFICES ASSUME {"died", "overlap"} \cap marks' = {},
                    NEW p \in Provs, prov'[p].at = "env"
             PROVE  (Current(prov[p].env) \/ RestartDue)'
  BY DEF ReadInTime
<1>1. CASE /\ marks \subseteq marks' /\ prov'[p] = prov[p]
           /\ UNCHANGED <<local, key, run, holder>> /\ asked' \in Nat /\ asked' >= asked
  <2>1. {"died", "overlap"} \cap marks = {} /\ prov[p].at = "env"
    BY <1>1
  <2>2. Current(prov[p].env) \/ RestartDue
    BY <2>1 DEF ReadInTime
  <2>3. CASE Current(prov[p].env)
    BY <1>1, <2>3 DEF Current, Read
  <2>4. CASE RestartDue
    BY <1>1, <2>4 DEF RestartDue, TypeOK
  <2> QED
    BY <2>2, <2>3, <2>4
<1>2. CASE Set \/ Delete \/ RestartBegins \/ RestartSkipped \/ RestartStops
  BY <1>2, DueAfter
<1>3. CASE Create \/ Import \/ Restart \/ RestartSpawns
  BY <1>3, Spawns
<1>4. asked \in Nat
  BY DEF TypeOK
<1>5. CASE SetGlobal \/ DeleteGlobal
  BY <1>1, <1>4, <1>5 DEF SetGlobal, DeleteGlobal, processVars, restartVars
<1>6. CASE PlatformStart
  BY <1>6 DEF PlatformStart, Idle
<1>7. ASSUME NEW j \in Jobs, Stage(j) \/ Uninstall(j) \/ JobSteps(j)
      PROVE  (Current(prov[p].env) \/ RestartDue)'
  BY <1>1, <1>4, <1>7
  DEF Stage, Uninstall, JobSteps, Deliver, RemoveSkills, RemoveDir, UninstallRestarts,
      AskedAfter, processVars, secretVars, restartVars
<1>8. ASSUME NEW q \in Provs, ProvSteps(q), q # p
      PROVE  (Current(prov[p].env) \/ RestartDue)'
  BY <1>1, <1>4, <1>8, ProvMoves DEF processVars, secretVars, restartVars
<1>9. CASE ReadLocals(p)
  <2>1. prov[p] \in Provisioning
    BY <1>9 DEF ReadLocals, TypeOK, Idle
  <2>2. prov'[p].env = Merge(prov[p].env, Read(local))
    BY <1>9, <2>1 DEF ReadLocals, TypeOK, Idle, Provisioning
  <2>3. local # NoRow /\ Merge(prov[p].env, Read(local)) # Refused
          => Merge(prov[p].env, Read(local)) = Read(local)
    BY LocalIsNotNone DEF Merge
  <2>4. Merge(prov[p].env, Read(local)) # Refused
    <3>1. Merge(prov[p].env, Read(local)) = Refused => prov'[p] = Idle
      BY <1>9 DEF ReadLocals, TypeOK
    <3> QED
      BY <3>1 DEF Idle
  <2>5. UNCHANGED <<key, run, local>>
    BY <1>9 DEF ReadLocals, processVars, secretVars
  <2> QED
    BY <2>2, <2>3, <2>4, <2>5 DEF Current, Read
<1>10. CASE ReadGlobals(p) \/ StartBox(p) \/ WriteFiles(p) \/ StartFails(p)
  <2>1. prov[p] \in Provisioning
    BY <1>10, ProvMoves DEF ProvSteps, TypeOK
  <2>2. CASE ReadGlobals(p)
    BY <2>1, <2>2, Reads DEF ReadGlobals, TypeOK, Idle, Provisioning
  <2>3. CASE StartBox(p)
    BY <2>1, <2>3 DEF StartBox, TypeOK, Idle, Provisioning
  <2>4. CASE WriteFiles(p) \/ StartFails(p)
    BY <2>4 DEF WriteFiles, StartFails, TypeOK, Idle
  <2> QED
    BY <1>10, <2>2, <2>3, <2>4
<1>11. CASE UNCHANGED vars
  BY <1>1, <1>4, <1>11 DEF vars, processVars, secretVars, restartVars
<1> QED
  BY <1>2, <1>3, <1>5, <1>6, <1>7, <1>8, <1>9, <1>10, <1>11
  DEF Next, Requests, RestartSteps, ProvSteps

LEMMA StepSecret ==
  ASSUME TypeOK, Keyed, Alone, ReadInTime, SecretDue, [Next]_vars
  PROVE  SecretDue'
<1> SUFFICES ASSUME {"died", "overlap"} \cap marks' = {}, box' # NoBox
             PROVE  (Current(box.env) \/ RestartDue \/ StartDue)'
  BY DEF SecretDue
<1>1. CASE /\ marks \subseteq marks' /\ box # NoBox /\ box'.env = box.env
           /\ UNCHANGED <<local, key, run, holder>> /\ asked' \in Nat /\ asked' >= asked
           /\ StartDue => StartDue'
  <2>1. Current(box.env) \/ RestartDue \/ StartDue
    BY <1>1 DEF SecretDue
  <2>2. CASE Current(box.env)
    BY <1>1, <2>2 DEF Current, Read
  <2>3. CASE RestartDue
    BY <1>1, <2>3 DEF RestartDue, TypeOK
  <2> QED
    BY <1>1, <2>1, <2>2, <2>3
<1>2. CASE Set \/ Delete \/ RestartBegins \/ RestartSkipped \/ RestartStops
  BY <1>2, DueAfter
<1>3. CASE Create \/ Import \/ Restart \/ RestartSpawns
  BY <1>3, Spawns
<1>4. asked \in Nat
  BY DEF TypeOK
<1>5. CASE SetGlobal \/ DeleteGlobal
  BY <1>1, <1>4, <1>5 DEF SetGlobal, DeleteGlobal, processVars, restartVars, StartDue
<1>6. CASE PlatformStart
  <2>1. local' = DownAndUp(local) /\ run' = run + 1
    BY <1>6 DEF PlatformStart
  <2>2. local # NoRow => local \in Row /\ local.run <= run
    BY DEF TypeOK, Keyed
  <2>3. local # NoRow => DownAndUp(local).run = local.run /\ local.run \in Nat
    BY <2>2, DeployAssumption DEF DownAndUp, Row
  <2>4. run \in Nat
    BY DeployAssumption DEF TypeOK
  <2>5. local' # NoRow => local'.run # run'
    BY <2>1, <2>2, <2>3, <2>4 DEF DownAndUp
  <2> QED
    BY <2>5 DEF Current
<1>7. ASSUME NEW j \in Jobs, Stage(j) \/ Uninstall(j) \/ JobSteps(j)
      PROVE  (Current(box.env) \/ RestartDue \/ StartDue)'
  BY <1>1, <1>4, <1>7
  DEF Stage, Uninstall, JobSteps, Deliver, RemoveSkills, RemoveDir, UninstallRestarts,
      AskedAfter, processVars, secretVars, restartVars, StartDue
<1>8. ASSUME NEW p \in Provs, ReadGlobals(p) \/ ReadLocals(p)
      PROVE  StartDue'
  BY <1>8, Reads
<1>9. ASSUME NEW p \in Provs, StartBox(p)
      PROVE  (Current(box.env) \/ RestartDue)'
  <2>1. box'.env = prov[p].env /\ prov[p].at = "env"
    BY <1>9 DEF StartBox
  <2>2. UNCHANGED <<local, key, run, asked, holder, marks>>
    BY <1>9 DEF StartBox, processVars, secretVars, restartVars
  <2>3. Current(prov[p].env) \/ RestartDue
    BY <2>1, <2>2 DEF ReadInTime
  <2>4. CASE Current(prov[p].env)
    BY <2>1, <2>2, <2>4 DEF Current, Read
  <2>5. CASE RestartDue
    BY <2>2, <2>5 DEF RestartDue
  <2> QED
    BY <2>3, <2>4, <2>5
<1>10. ASSUME NEW p \in Provs, WriteFiles(p)
       PROVE  (Current(box.env) \/ RestartDue \/ StartDue)'
  <2>1. StartDue => StartDue'
    BY <1>10 DEF WriteFiles, StartDue, TypeOK
  <2>2. box # NoBox /\ box'.env = box.env
    BY <1>10 DEF WriteFiles, TypeOK, Box
  <2> QED
    BY <1>1, <1>4, <1>10, <2>1, <2>2 DEF WriteFiles, processVars, secretVars, restartVars
<1>11. ASSUME NEW p \in Provs, StartFails(p)
       PROVE  FALSE
  BY <1>11 DEF StartFails
<1>12. CASE UNCHANGED vars
  BY <1>1, <1>4, <1>12 DEF vars, processVars, secretVars, restartVars, StartDue
<1> QED
  BY <1>2, <1>3, <1>5, <1>6, <1>7, <1>8, <1>9, <1>10, <1>11, <1>12
  DEF Next, Requests, RestartSteps, ProvSteps

(***************************************************************************)
(* Plugins and skills: what RemoveSkills takes away may be another         *)
(* plugin's too, until the restart that the uninstall asks for.            *)
(***************************************************************************)
LEMMA StepPlugins ==
  ASSUME TypeOK, Keyed, Alone, PluginsDue, [Next]_vars
  PROVE  PluginsDue'
<1> DEFINE All == UNION {SkillsOf[q] : q \in dirs} \subseteq skills
<1> SUFFICES ASSUME {"error", "died", "late"} \cap marks' = {}, box' # NoBox
             PROVE  (/\ box.loaded = dirs \/ RestartDue \/ StartDue \/ Removing({"removed"})
                     /\ All \/ RestartDue \/ StartDue \/ Removing({"skills", "removed"}))'
  BY DEF PluginsDue
<1>1. marks \subseteq marks' /\ box # NoBox
        => /\ box.loaded = dirs \/ RestartDue \/ StartDue \/ Removing({"removed"})
           /\ All \/ RestartDue \/ StartDue \/ Removing({"skills", "removed"})
  BY DEF PluginsDue
<1>2. CASE Set \/ Delete \/ RestartBegins \/ RestartSkipped \/ RestartStops
  BY <1>2, DueAfter
<1>3. CASE Create \/ Import \/ Restart \/ RestartSpawns
  BY <1>3, Spawns
<1>4. asked \in Nat
  BY DEF TypeOK
<1>5. CASE SetGlobal \/ DeleteGlobal
  BY <1>1, <1>5
  DEF SetGlobal, DeleteGlobal, processVars, volumeVars, restartVars, RestartDue, StartDue, Removing
<1>6. CASE PlatformStart
  <2>1. ~Working /\ marks \subseteq marks' /\ UNCHANGED <<dirs, skills, box>>
    BY <1>6 DEF PlatformStart, volumeVars
  <2>2. ~RestartDue /\ ~StartDue /\ ~Removing({"skills", "removed"}) /\ ~Removing({"removed"})
    BY <2>1 DEF Working, RestartDue, StartDue, Removing, Idle
  <2> QED
    BY <1>1, <2>1, <2>2
<1>7. ASSUME NEW p \in Provs, ReadGlobals(p) \/ ReadLocals(p)
      PROVE  StartDue'
  BY <1>7, Reads
<1>8. ASSUME NEW p \in Provs, StartBox(p)
      PROVE  box'.loaded = dirs' /\ All'
  BY <1>8 DEF StartBox, Load
<1>9. ASSUME NEW p \in Provs, WriteFiles(p), box # box'
      PROVE  box'.loaded = dirs' /\ All'
  BY <1>9 DEF WriteFiles, Load, TypeOK, Box
<1>10. ASSUME NEW p \in Provs, WriteFiles(p), box = box'
       PROVE  \/ box'.loaded = dirs' /\ All'
              \/ UNCHANGED <<dirs, skills, box, marks, job, asked, holder>> /\ (StartDue => StartDue')
  BY <1>10 DEF WriteFiles, Load, TypeOK, Box, StartDue, restartVars
<1>11. ASSUME NEW p \in Provs, StartFails(p)
       PROVE  FALSE
  BY <1>11 DEF StartFails
<1>12. CASE UNCHANGED vars
  BY <1>1, <1>12 DEF vars, processVars, volumeVars, restartVars, RestartDue, StartDue, Removing
<1>13. ASSUME NEW j \in Jobs, Deliver(j) \/ UninstallRestarts(j)
       PROVE  RestartDue'
  BY <1>4, <1>13 DEF Deliver, UninstallRestarts, AskedAfter, RestartDue
<1>14. ASSUME NEW j \in Jobs, RemoveDir(j)
       PROVE  Removing({"removed"})' /\ Removing({"skills", "removed"})'
  <2>1. job[j] \in Request
    BY <1>14 DEF RemoveDir, TypeOK, Idle
  <2>2. job'[j].at = "removed"
    BY <1>14, <2>1 DEF RemoveDir, TypeOK, Request
  <2> QED
    BY <2>2 DEF Removing
<1>15. ASSUME NEW j \in Jobs, Stage(j) \/ Uninstall(j) \/ RemoveSkills(j)
       PROVE  /\ UNCHANGED <<asked, holder, prov, dirs, box, marks>>
              /\ Removing({"removed"}) => Removing({"removed"})'
              /\ Removing({"skills", "removed"}) => Removing({"skills", "removed"})'
              /\ UNCHANGED skills \/ Removing({"skills", "removed"})'
  <2>1. \A i \in Jobs : i # j => job'[i] = job[i]
    BY <1>15 DEF Stage, Uninstall, RemoveSkills, TypeOK
  <2>2. job[j].at \notin {"skills", "removed"}
    BY <1>15 DEF Stage, Uninstall, RemoveSkills, Idle
  <2>3. RemoveSkills(j) => job'[j].at = "skills"
    <3>1. RemoveSkills(j) => job[j] \in Request
      BY DEF RemoveSkills, TypeOK, Idle
    <3> QED
      BY <3>1 DEF RemoveSkills, TypeOK, Request
  <2> QED
    BY <1>15, <2>1, <2>2, <2>3
    DEF Stage, Uninstall, RemoveSkills, Removing, volumeVars, restartVars
<1>16. ASSUME NEW j \in Jobs, Stage(j) \/ Uninstall(j) \/ RemoveSkills(j)
       PROVE  (/\ box.loaded = dirs \/ RestartDue \/ StartDue \/ Removing({"removed"})
               /\ All \/ RestartDue \/ StartDue \/ Removing({"skills", "removed"}))'
  BY <1>1, <1>15, <1>16 DEF RestartDue, StartDue
<1> QED
  BY <1>1, <1>2, <1>3, <1>5, <1>6, <1>7, <1>8, <1>9, <1>10, <1>11, <1>12, <1>13, <1>14, <1>16
  DEF Next, Requests, RestartSteps, ProvSteps, JobSteps, RestartDue, Removing

(***************************************************************************)
(* The invariant, at the start and from step to step.                      *)
(***************************************************************************)
LEMMA InitHolds == Init => IInv
<1> SUFFICES ASSUME Init PROVE IInv
  OBVIOUS
<1>1. TypeOK
  BY InitTyped
<1>2. Keyed /\ Alone /\ ReadInTime /\ SecretDue /\ PluginsDue
  BY DEF Init, Keyed, Alone, ReadInTime, SecretDue, PluginsDue, Idle
<1> QED
  BY <1>1, <1>2 DEF IInv

LEMMA StepHolds == IInv /\ [Next]_vars => IInv'
<1> SUFFICES ASSUME IInv, [Next]_vars PROVE IInv'
  OBVIOUS
<1>1. TypeOK' /\ Keyed' /\ Alone'
  BY StepTyped, StepKeyed, StepAlone DEF IInv
<1>2. ReadInTime' /\ SecretDue' /\ PluginsDue'
  BY StepInTime, StepSecret, StepPlugins DEF IInv
<1> QED
  BY <1>1, <1>2 DEF IInv

LEMMA Invariant == Spec => []IInv
  BY InitHolds, StepHolds, PTL DEF Spec

(***************************************************************************)
(* Every variable has its type, in every run.                              *)
(***************************************************************************)
THEOREM Typed == Spec => []TypeOK
<1>1. IInv => TypeOK
  BY DEF IInv
<1> QED
  BY <1>1, Invariant, PTL

(***************************************************************************)
(* Plaintext rows keep version 0 and are handed out as they are, by a      *)
(* platform with a key too (DecryptVersioned's version 0).                 *)
(***************************************************************************)
THEOREM Plaintext == Spec => []PlaintextSurvives
<1>1. IInv => PlaintextSurvives
  <2> SUFFICES ASSUME IInv, NEW r \in Rows, r.enc = NoKey PROVE Read(r) = r.val
    BY DEF PlaintextSurvives
  <2>1. r # NoRow /\ r.ver = 0
    BY DEF IInv, Keyed, Rows
  <2> QED
    BY <2>1 DEF Read
<1> QED
  BY <1>1, Invariant, PTL

(***************************************************************************)
(* A row stored since the start is read with the key it was stored with.   *)
(***************************************************************************)
THEOREM ReadBackFresh == Spec => []FreshReadsBack
<1>1. IInv => FreshReadsBack
  <2> SUFFICES ASSUME IInv, NEW r \in Rows, r.run = run, r.ver = CurrentVersion
               PROVE  Read(r) = r.val
    BY DEF FreshReadsBack
  <2>1. r # NoRow /\ r.enc = key
    BY DEF IInv, Keyed, Rows
  <2> QED
    BY <2>1 DEF Read, CurrentVersion
<1> QED
  BY <1>1, Invariant, PTL

(***************************************************************************)
(* DecryptVersioned never fails: version 1 means this run's key.           *)
(***************************************************************************)
THEOREM ReadNeverRefused == Spec => []NeverRefused
<1>1. IInv => NeverRefused
  BY Accepted DEF IInv, NeverRefused, Rows
<1> QED
  BY <1>1, Invariant, PTL

(***************************************************************************)
(* What is not in the container yet is on its way there.                   *)
(***************************************************************************)
THEOREM ChangesUnderWay == Spec => [](SecretDue /\ PluginsDue)
<1>1. IInv => SecretDue /\ PluginsDue
  BY DEF IInv
<1> QED
  BY <1>1, Invariant, PTL
=============================================================================
