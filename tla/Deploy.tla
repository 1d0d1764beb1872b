-------------------------------- MODULE Deploy --------------------------------
(****************************************************************************)
(* What a workspace's container is made of: the secrets it is given and the *)
(* plugins it loads, and the restarts that are to bring a change to it      *)
(* (handlers/secrets.go, plugins.go, org.go, workspace_restart.go and       *)
(* workspace_provision.go, crypto/aes.go, db/postgres.go).  One workspace,  *)
(* one secret name, which may have a global and a workspace row.            *)
(*                                                                          *)
(*   key     the process's SECRETS_ENCRYPTION_KEY, or NoKey                 *)
(*   global, local   the rows of the two tables, or NoRow: the value, the   *)
(*           key its bytes are encrypted with, its encryption_version; and, *)
(*           for the properties, the run of the platform that stored it     *)
(*   run     how often the platform has started                             *)
(*   dirs, skills    /configs/plugins and /configs/skills on the volume     *)
(*   box     the container: the secret in its environment, the plugins it   *)
(*           loaded when it started, and the provisioning that still has    *)
(*           files to write to it; or NoBox                                 *)
(*   asked   calls of restartFunc that have not begun                       *)
(*   holder  what the goroutine that holds the restart mutex has done       *)
(*   prov    provisionWorkspace goroutines                                  *)
(*   job     plugin requests                                                *)
(*   born    whether the workspace has been created                         *)
(*   ops     requests so far                                                *)
(*   marks   for the properties: "error", a request failed half way;        *)
(*           "died", the process died with work in hand; "overlap", two     *)
(*           provisionings ran at a time; "late", files were written after  *)
(*           the agent had loaded its plugins                               *)
(*                                                                          *)
(* Left out: pausing and removal (Lifecycle), markers in CLAUDE.md, the     *)
(* restart's pause of 10 s and the uninstall's of 2 s, which no property    *)
(* here relies on.                                                          *)
(****************************************************************************)
EXTENDS Integers, FiniteSets, FiniteSetsExt

CONSTANTS Keys,      \* encryption keys an operator may configure
          NoKey,     \* SECRETS_ENCRYPTION_KEY is unset
          Plugins, Skills,
          SkillsOf,  \* the skills in a plugin's directory and manifest
          OrgPlugins,   \* those that an org's template may name
          Jobs, Provs,
          NoRow, NoBox,
          MaxOps, MaxRuns   \* bounds: requests, starts of the platform

ASSUME DeployAssumption ==
  /\ SkillsOf \in [Plugins -> SUBSET Skills] /\ OrgPlugins \subseteq Plugins
  /\ NoKey \notin Keys /\ MaxOps \in Nat /\ MaxRuns \in Nat \ {0}

VARIABLES key, global, local, run, dirs, skills, box,
          asked, holder, prov, job, born, ops, marks

secretVars  == <<global, local>>
processVars == <<key, run>>
volumeVars  == <<dirs, skills>>
restartVars == <<asked, holder>>
vars == <<processVars, secretVars, volumeVars, box, restartVars, prov, job, born, ops, marks>>

None    == 0            \* no value; values are the numbers of the requests
Refused == -1           \* DecryptVersioned's error
Garbled == -2           \* ciphertext taken for a value
Idle    == [at |-> "idle"]

-----------------------------------------------------------------------------
(* crypto *)

VersionInverted == IF key = NoKey THEN 1 ELSE 0        \* an inverted test

CurrentVersion == IF key = NoKey THEN 0 ELSE 1

\* Encrypt, and the row the secrets API stores it in.
Stored(v) == [val |-> v, enc |-> key, ver |-> CurrentVersion, run |-> run]

\* DecryptVersioned: version 0 is handed out as it is; GCM fails on bytes
\* that this key did not seal.
Read(row) ==
  CASE row = NoRow                  -> None
    [] row # NoRow /\ row.ver = 0   -> IF row.enc = NoKey THEN row.val ELSE Garbled
    [] row # NoRow /\ row.ver = 1   -> IF key # NoKey /\ row.enc = key THEN row.val
                                       ELSE Refused

\* The merge of provisioning and of Values: the workspace's row wins, and a
\* row that cannot be read fails the whole.
Merge(g, l) == IF Refused \in {g, l} THEN Refused ELSE IF l # None THEN l ELSE g

-----------------------------------------------------------------------------
Init ==
  /\ key \in Keys \cup {NoKey} /\ run = 1
  /\ global = NoRow /\ local = NoRow
  /\ dirs = {} /\ skills = {} /\ box = NoBox
  /\ asked = 0 /\ holder = "free"
  /\ prov = [p \in Provs |-> Idle] /\ job = [j \in Jobs |-> Idle]
  /\ born = FALSE /\ ops = 0 /\ marks = {}

Op == ops < MaxOps /\ ops' = ops + 1

\* `go provisionWorkspace(...)`, beside those that are under way; put: the
\* plugins in its configFiles.
Spawn(put) ==
  /\ \E p \in Provs : prov[p] = Idle
  /\ prov' = [prov EXCEPT ![CHOOSE p \in Provs : prov[p] = Idle] =
                [at |-> "begun", put |-> put, env |-> None]]
  /\ marks' = marks \cup {m \in {"overlap"} : \E p \in Provs : prov[p] # Idle}

-----------------------------------------------------------------------------
(* Creation.  An org import stores the .env files of the workspace, without *)
(* a version, before it provisions, with the plugins of the org's template. *)

Create ==
  /\ ~born /\ born' = TRUE /\ Op /\ Spawn({})
  /\ UNCHANGED <<processVars, secretVars, volumeVars, box, restartVars, job>>

Import ==
  /\ ~born /\ born' = TRUE /\ Op
  /\ \E put \in {{}, OrgPlugins} : Spawn(put)
  /\ local' = [Stored(ops + 1) EXCEPT !.ver = 0]   \* the column's default
  /\ UNCHANGED <<processVars, global, volumeVars, box, restartVars, job>>

-----------------------------------------------------------------------------
(* Secrets.  Only a workspace's own are followed by a restart. *)

Set ==
  /\ born /\ Op
  /\ local' = Stored(ops + 1)
  /\ asked' = asked + 1
  /\ UNCHANGED <<processVars, global, volumeVars, box, holder, prov, job, born, marks>>

Delete ==
  /\ Op /\ local # NoRow
  /\ local' = NoRow
  /\ asked' = asked + 1
  /\ UNCHANGED <<processVars, global, volumeVars, box, holder, prov, job, born, marks>>

SetGlobal ==
  /\ Op
  /\ global' = Stored(ops + 1)
  /\ UNCHANGED <<processVars, local, volumeVars, box, restartVars, prov, job, born, marks>>

DeleteGlobal ==
  /\ Op /\ global # NoRow
  /\ global' = NoRow
  /\ UNCHANGED <<processVars, local, volumeVars, box, restartVars, prov, job, born, marks>>

-----------------------------------------------------------------------------
(* RestartByID.  The mutex is held until the provisioning is under way. *)

RestartBegins ==
  /\ asked > 0 /\ holder = "free"
  /\ asked' = asked - 1 /\ holder' = "locked"
  /\ UNCHANGED <<processVars, secretVars, volumeVars, box, prov, job, born, ops, marks>>

\* A mutex held until the provisioning is over.
SkippedTooLong ==
  /\ asked > 0 /\ (holder # "free" \/ \E p \in Provs : prov[p] # Idle)
  /\ asked' = asked - 1
  /\ UNCHANGED <<processVars, secretVars, volumeVars, box, holder, prov, job, born, ops, marks>>

\* TryLock fails: this restart is left to the one in progress.
RestartSkipped ==
  /\ asked > 0 /\ holder # "free"
  /\ asked' = asked - 1
  /\ UNCHANGED <<processVars, secretVars, volumeVars, box, holder, prov, job, born, ops, marks>>

RestartStops ==
  /\ holder = "locked" /\ holder' = "stopped"
  /\ box' = NoBox
  /\ UNCHANGED <<processVars, secretVars, volumeVars, asked, prov, job, born, ops, marks>>

RestartSpawns ==
  /\ holder = "stopped" /\ holder' = "free"
  /\ Spawn({})
  /\ UNCHANGED <<processVars, secretVars, volumeVars, box, asked, job, born, ops>>

\* The Restart handler stops and provisions without the mutex.
Restart ==
  /\ born /\ Op
  /\ box' = NoBox
  /\ Spawn({})
  /\ UNCHANGED <<processVars, secretVars, volumeVars, restartVars, job, born>>

-----------------------------------------------------------------------------
(* provisionWorkspace reads the two tables in two queries. *)

ReadGlobals(p) ==
  /\ prov[p].at = "begun"
  /\ prov' = [prov EXCEPT ![p] = IF Read(global) = Refused THEN Idle
                                 ELSE [prov[p] EXCEPT !.at = "global", !.env = Read(global)]]
  /\ UNCHANGED <<processVars, secretVars, volumeVars, box, restartVars, job, born, ops, marks>>

ReadLocals(p) ==
  /\ prov[p].at = "global"
  /\ prov' = [prov EXCEPT ![p] =
                LET env == Merge(prov[p].env, Read(local))
                IN  IF env = Refused THEN Idle ELSE [prov[p] EXCEPT !.at = "env", !.env = env]]
  /\ UNCHANGED <<processVars, secretVars, volumeVars, box, restartVars, job, born, ops, marks>>

\* The adapter in a container loads the plugins and copies the skills that
\* are not there yet.
Load(plugins) == skills' = skills \cup UNION {SkillsOf[q] : q \in plugins}

\* Start replaces whatever container there is.
StartBox(p) ==
  LET more == prov[p].put # {}
  IN /\ prov[p].at = "env"
     /\ prov' = [prov EXCEPT ![p] = IF more THEN [@ EXCEPT !.at = "write"] ELSE Idle]
     /\ box' = [env |-> prov[p].env, loaded |-> dirs, by |-> IF more THEN p ELSE NoBox]
     /\ Load(dirs)
     /\ UNCHANGED <<processVars, secretVars, dirs, restartVars, job, born, ops, marks>>

\* The files are copied into the container that runs by now, whose agent may
\* have loaded its plugins before; an error is only logged.
WriteFiles(p) ==
  /\ prov[p].at = "write"
  /\ prov' = [prov EXCEPT ![p] = Idle]
  /\ \/ /\ box # NoBox /\ box.by = p
        /\ dirs' = dirs \cup prov[p].put
        /\ \/ /\ box' = [box EXCEPT !.loaded = dirs', !.by = NoBox]
              /\ Load(dirs') /\ UNCHANGED marks
           \/ /\ box' = [box EXCEPT !.by = NoBox]
              /\ marks' = marks \cup {"late"} /\ UNCHANGED skills
     \/ UNCHANGED <<dirs, box, skills, marks>>
  /\ UNCHANGED <<processVars, secretVars, restartVars, job, born, ops>>

StartFails(p) ==
  /\ prov[p].at = "env"
  /\ prov' = [prov EXCEPT ![p] = Idle]
  /\ box' = NoBox
  /\ UNCHANGED <<processVars, secretVars, volumeVars, restartVars, job, born, ops, marks>>

-----------------------------------------------------------------------------
(* Plugins. *)

AskedNot(change) == UNCHANGED asked                     \* a forgotten restart

AskedAfter(change) == asked' = IF change THEN asked + 1 ELSE asked

\* A source that does not parse, has no resolver, cannot be fetched in time,
\* is named badly or is too large is an error that changes nothing.
Stage(j) ==
  /\ job[j] = Idle /\ born /\ Op
  /\ \E p \in Plugins : job' = [job EXCEPT ![j] = [at |-> "staged", plugin |-> p]]
  /\ UNCHANGED <<processVars, secretVars, volumeVars, box, restartVars, prov, born, marks>>

\* deliverToContainer: 503 when no container runs.
Deliver(j) ==
  /\ job[j].at = "staged"
  /\ job' = [job EXCEPT ![j] = Idle]
  /\ dirs' = IF box = NoBox THEN dirs ELSE dirs \cup {job[j].plugin}
  /\ AskedAfter(box # NoBox)
  /\ UNCHANGED <<processVars, secretVars, skills, box, holder, prov, born, ops, marks>>

Uninstall(j) ==
  /\ job[j] = Idle /\ box # NoBox /\ Op
  /\ \E p \in Plugins :
       job' = [job EXCEPT ![j] = [at |-> "manifest", plugin |-> p,
                                  owns |-> IF p \in dirs THEN SkillsOf[p] ELSE {}]]
  /\ UNCHANGED <<processVars, secretVars, volumeVars, box, restartVars, prov, born, marks>>

\* One rm for each skill of the manifest; what goes wrong is not looked at.
RemoveSkills(j) ==
  /\ job[j].at = "manifest"
  /\ job' = [job EXCEPT ![j].at = "skills"]
  /\ skills' = IF box = NoBox THEN skills ELSE skills \ job[j].owns
  /\ UNCHANGED <<processVars, secretVars, dirs, box, restartVars, prov, born, ops, marks>>

\* The rm of the plugin fails without a container, or with Docker.
RemoveDir(j) ==
  /\ job[j].at = "skills"
  /\ \/ /\ box # NoBox
        /\ dirs' = dirs \ {job[j].plugin}
        /\ job' = [job EXCEPT ![j].at = "removed"]
        /\ UNCHANGED marks
     \/ /\ job' = [job EXCEPT ![j] = Idle]
        /\ marks' = marks \cup {m \in {"error"} : box # NoBox}
        /\ UNCHANGED dirs
  /\ UNCHANGED <<processVars, secretVars, skills, box, restartVars, prov, born, ops>>

UninstallRestarts(j) ==
  /\ job[j].at = "removed"
  /\ job' = [job EXCEPT ![j] = Idle]
  /\ asked' = asked + 1
  /\ UNCHANGED <<processVars, secretVars, volumeVars, box, holder, prov, born, ops, marks>>

-----------------------------------------------------------------------------
(* The platform stops and starts, perhaps with another key.  RunMigrations  *)
(* runs every .sql file in order, the .down files too: 018 drops the column *)
(* encryption_version and makes it again, with 0 for every row.             *)

DownAndUpSealed(row) == IF row = NoRow THEN row ELSE [row EXCEPT !.ver = 1]

DownAndUp(row) == IF row = NoRow THEN row ELSE [row EXCEPT !.ver = 0]

Working == asked > 0 \/ holder # "free" \/ (\E p \in Provs : prov[p] # Idle)
           \/ (\E j \in Jobs : job[j] # Idle)

PlatformStart ==
  /\ run < MaxRuns /\ run' = run + 1
  /\ key' \in Keys \cup {NoKey}
  /\ global' = DownAndUp(global) /\ local' = DownAndUp(local)
  /\ asked' = 0 /\ holder' = "free"
  /\ prov' = [p \in Provs |-> Idle] /\ job' = [j \in Jobs |-> Idle]
  /\ marks' = marks \cup {m \in {"died"} : Working}
  /\ UNCHANGED <<volumeVars, box, born, ops>>

-----------------------------------------------------------------------------
RestartSteps == RestartBegins \/ RestartSkipped \/ RestartStops \/ RestartSpawns
ProvSteps(p) == ReadGlobals(p) \/ ReadLocals(p) \/ StartBox(p) \/ WriteFiles(p) \/ StartFails(p)
JobSteps(j)  == Deliver(j) \/ RemoveSkills(j) \/ RemoveDir(j) \/ UninstallRestarts(j)
Requests == Create \/ Import \/ Set \/ Delete \/ SetGlobal \/ DeleteGlobal \/ Restart

Next ==
  \/ Requests \/ RestartSteps \/ PlatformStart
  \/ \E p \in Provs : ProvSteps(p)
  \/ \E j \in Jobs : Stage(j) \/ Uninstall(j) \/ JobSteps(j)

Spec == Init /\ [][Next]_vars

\* Goroutines that have begun go on: Docker and the database answer.
Fairness ==
  /\ WF_vars(RestartSteps)
  /\ \A p \in Provs : WF_vars(ProvSteps(p))
  /\ \A j \in Jobs : WF_vars(JobSteps(j))

FairSpec == Spec /\ Fairness
=============================================================================
