-------------------------------- MODULE Files ---------------------------------
(****************************************************************************)
(* The files of a workspace: the API that edits them (handlers/templates.go *)
(* and template_import.go, container_files.go), the provisioning that       *)
(* copies templates over them (provisioner.go), and the agent that loads    *)
(* them and watches its skills (main.py, skill_loader/watcher.py).          *)
(*                                                                          *)
(*   template   the host's template directory of the workspace's name, or   *)
(*              NoTemplate; a file that is missing is Missing               *)
(*   volume     the config volume, mounted as /configs in each container    *)
(*   agent      the container's process, or NoAgent: how far it is, the     *)
(*              skill it uses, the watcher's baseline, and the provisioning *)
(*              that created it.  For the property: blind, the watcher does *)
(*              not know what was loaded                                    *)
(*   edit       requests of the API                                         *)
(*   supply     provisionWorkspace goroutines                               *)
(*   edits      edits and provisionings so far, for the bound               *)
(*                                                                          *)
(* One config.yaml, which names one skill of one file unless the platform   *)
(* generated it, and the LangGraph adapter, the only one that reloads.      *)
(* Left out: reading and listing files, path checks, and the status, which  *)
(* Lifecycle has: a container stops and is provisioned again at any time.   *)
(****************************************************************************)
EXTENDS Integers

CONSTANTS Edits, Supplies, NoTemplate, NoAgent, NoSupply,
          MaxEdits                     \* bound: edits and provisionings

VARIABLES template, volume, agent, edit, supply, edits

fileVars == <<template, volume, agent, edit, supply, edits>>

Config  == "config.yaml"
Skill   == "SKILL.md"
Paths   == {Config, Skill}
Missing == 0                           \* edits are numbered from 1
Shipped == -1                          \* what a template was made with
Default == -2                          \* ensureDefaultConfig, generateDefaultConfig
Empty   == [f \in Paths |-> Missing]
Resting == [at |-> "rest"]

EditAt(r, at) == edit[r].at = at
SupplyAt(p, at) == supply[p].at = at
AgentAt(at) == agent # NoAgent /\ agent.at = at

-----------------------------------------------------------------------------
(* The files API *)

\* files: what is to be written; for a deletion, the file to be gone.
Edit(r, op, files) ==
  /\ EditAt(r, "rest") /\ edits < MaxEdits
  /\ edits' = edits + 1
  /\ edit' = [edit EXCEPT ![r] =
       [at |-> "find", op |-> op, left |-> files, config |-> Config \in files,
        val |-> IF op = "delete" THEN Missing ELSE edits + 1]]
  /\ UNCHANGED <<template, volume, agent, supply>>

WriteFile(r, f) == Edit(r, "write", {f})
DeleteFile(r, f) == Edit(r, "delete", {f})
ReplaceFiles(r, files) == Edit(r, "replace", files)

EditGoes(r, at) == edit' = [edit EXCEPT ![r].at = at]
EditEnds(r) == edit' = [edit EXCEPT ![r] = Resting]

\* One that is between two starts is not running.
FindContainer(r) ==
  /\ EditAt(r, "find")
  /\ \/ agent # NoAgent /\ EditGoes(r, "container")
     \/ (agent = NoAgent \/ AgentAt("boot")) /\ EditGoes(r, "volume")
  /\ UNCHANGED <<template, volume, agent, supply, edits>>

\* A tar is extracted one file after the other.
Puts(r) ==
  \E f \in edit[r].left :
    /\ volume' = [volume EXCEPT ![f] = edit[r].val]
    /\ edit' = [edit EXCEPT ![r].left = @ \ {f}]

CopyFilesToContainer(r) ==
  /\ EditAt(r, "container") /\ agent # NoAgent
  /\ Puts(r)
  /\ UNCHANGED <<template, agent, supply, edits>>

\* An ephemeral container with the volume, which Docker makes if it is not there.
WriteViaEphemeral(r) ==
  /\ EditAt(r, "volume")
  /\ Puts(r)
  /\ UNCHANGED <<template, agent, supply, edits>>

\* The container is gone, Docker fails, or the client has hung up.
EditFails(r) ==
  /\ EditAt(r, "container") \/ (EditAt(r, "volume") /\ edit[r].op # "replace")
  /\ EditEnds(r)
  /\ UNCHANGED <<template, volume, agent, supply, edits>>

\* The last resort of ReplaceFiles, which answers 200.
WriteToTemplate(r) ==
  /\ EditAt(r, "volume") /\ edit[r].op = "replace"
  /\ template' = IF template = NoTemplate THEN template
                 ELSE [f \in Paths |-> IF f \in edit[r].left THEN edit[r].val ELSE template[f]]
  /\ EditEnds(r)
  /\ UNCHANGED <<volume, agent, supply, edits>>

Written(r) ==
  /\ EditAt(r, "container") \/ EditAt(r, "volume")
  /\ edit[r].left = {}
  /\ IF EditAt(r, "container") /\ edit[r].op = "replace" /\ ~edit[r].config
     THEN EditGoes(r, "test") ELSE EditEnds(r)
  /\ UNCHANGED <<template, volume, agent, supply, edits>>

\* test -f: exec fails without a container and not for the command's exit code.
TestConfig(r) ==
  /\ EditAt(r, "test")
  /\ IF agent # NoAgent THEN EditEnds(r) ELSE EditGoes(r, "default")
  /\ UNCHANGED <<template, volume, agent, supply, edits>>

GenerateConfig(r) ==
  /\ EditAt(r, "default")
  /\ volume' = IF agent = NoAgent THEN volume ELSE [volume EXCEPT ![Config] = Default]
  /\ EditEnds(r)
  /\ UNCHANGED <<template, agent, supply, edits>>

-----------------------------------------------------------------------------
(* Provisioning *)

\* from: "none", "own" for the template of the workspace's name, "other" for
\* the runtime's or one that was asked for, "default" for a generated config.
Provision(p, from) ==
  /\ SupplyAt(p, "rest") /\ edits < MaxEdits
  /\ edits' = edits + 1
  /\ supply' = [supply EXCEPT ![p] = [at |-> "start", from |-> from, put |-> Empty, left |-> {}]]
  /\ UNCHANGED <<template, volume, edit>>

Create(p) ==
  /\ edits = 0
  /\ \E from \in {"other", "default"} : Provision(p, from)
  /\ UNCHANGED agent

\* The handler applies a template of the name, asked or not; RestartByID and
\* Resume (after Pause) apply none.
Restart(p) ==
  /\ edits > 0
  /\ IF template # NoTemplate THEN Provision(p, "own")
     ELSE \E from \in {"none", "other"} : Provision(p, from)
  /\ agent' = NoAgent

RestartByID(p) ==
  /\ edits > 0
  /\ Provision(p, "none")
  /\ agent' = NoAgent

Pause ==
  /\ agent # NoAgent /\ agent' = NoAgent
  /\ UNCHANGED <<template, volume, edit, supply, edits>>

\* The container runs before the template is in it.
Start(p) ==
  /\ SupplyAt(p, "start")
  /\ agent' = [at |-> "boot", skill |-> Missing, base |-> Missing, by |-> p, blind |-> FALSE]
  /\ supply' = [supply EXCEPT ![p].at = "copy"]
  /\ UNCHANGED <<template, volume, edit, edits>>

SupplyEnds(p) ==
  /\ supply' = [supply EXCEPT ![p] = Resting]
  /\ agent' = IF agent # NoAgent /\ agent.by = p THEN [agent EXCEPT !.by = NoSupply] ELSE agent

StartFails(p) ==
  /\ SupplyAt(p, "start")
  /\ supply' = [supply EXCEPT ![p] = Resting]
  /\ agent' \in {agent, NoAgent}       \* before or after the old one is removed
  /\ UNCHANGED <<template, volume, edit, edits>>

\* The archive is made of what the directory has now.
CopyTemplateToContainer(p) ==
  LET files == CASE supply[p].from = "own"     -> [f \in Paths |-> template[f]]
                 [] supply[p].from = "other"   -> [f \in Paths |-> Shipped]
                 [] supply[p].from = "default" -> [Empty EXCEPT ![Config] = Default]
                 [] supply[p].from = "none"    -> Empty
  IN /\ SupplyAt(p, "copy")
     /\ supply' = [supply EXCEPT ![p].at = "extract", ![p].put = files,
                                  ![p].left = {f \in Paths : files[f] # Missing}]
     /\ UNCHANGED <<template, volume, agent, edit, edits>>

\* The container is named by its id: not one that has taken its place.
Extract(p) ==
  /\ SupplyAt(p, "extract") /\ agent # NoAgent /\ agent.by = p
  /\ \E f \in supply[p].left :
       /\ volume' = [volume EXCEPT ![f] = supply[p].put[f]]
       /\ supply' = [supply EXCEPT ![p].left = @ \ {f}]
  /\ UNCHANGED <<template, agent, edit, edits>>

\* All is written, or the rest cannot be, which is logged.
Provisioned(p) ==
  /\ SupplyAt(p, "extract")
  /\ SupplyEnds(p)
  /\ UNCHANGED <<template, volume, edit, edits>>

-----------------------------------------------------------------------------
(* The agent *)

Becomes(next) ==
  /\ agent' = next
  /\ UNCHANGED <<template, volume, edit, supply, edits>>

\* Without a config.yaml the process ends and Docker starts it again; a default
\* one names no skill.
LoadConfig ==
  /\ AgentAt("boot") /\ volume[Config] # Missing
  /\ Becomes([agent EXCEPT !.at = IF volume[Config] = Default THEN "serve" ELSE "load"])

LoadSkills ==
  /\ AgentAt("load")
  /\ Becomes([agent EXCEPT !.at = "register", !.skill = volume[Skill]])

\* Only now, after it has registered, is the baseline taken.
WatcherStarts ==
  /\ AgentAt("register")
  /\ Becomes([agent EXCEPT !.at = "watch", !.base = volume[Skill],
                           !.blind = agent.skill = Missing \/ agent.skill # volume[Skill]])

Notice ==
  /\ AgentAt("watch") /\ volume[Skill] # agent.base
  /\ Becomes([agent EXCEPT !.at = "settle"])

\* The baseline is what is found after the pause.
Settle ==
  /\ AgentAt("settle")
  /\ Becomes([agent EXCEPT !.base = volume[Skill],
                           !.at = IF volume[Skill] = agent.base THEN "watch" ELSE "reload"])

\* The baseline is taken again when the skill has been read.
ReloadThenScan ==
  /\ AgentAt("reload")
  /\ \E read \in {agent.base, volume[Skill]} :
       Becomes([agent EXCEPT !.at = "watch", !.base = volume[Skill],
                             !.skill = IF read = Missing \/ @ = Missing THEN @ ELSE read])

\* A skill without its file is not loaded, and one that was not loaded when
\* the agent started is not among those that are replaced.
ReloadSkill ==
  /\ AgentAt("reload")
  /\ Becomes([agent EXCEPT !.at = "watch",
                           !.skill = IF volume[Skill] = Missing \/ @ = Missing THEN @ ELSE volume[Skill]])

\* The restart policy.
Respawns ==
  /\ agent # NoAgent /\ agent.at # "boot"
  /\ Becomes([agent EXCEPT !.at = "boot", !.skill = Missing, !.base = Missing, !.blind = FALSE])

\* The container goes on without the platform.
PlatformRestarts ==
  /\ \/ \E r \in Edits : ~EditAt(r, "rest")
     \/ \E p \in Supplies : ~SupplyAt(p, "rest")
  /\ edit' = [r \in Edits |-> Resting]
  /\ supply' = [p \in Supplies |-> Resting]
  /\ agent' = IF agent = NoAgent THEN NoAgent ELSE [agent EXCEPT !.by = NoSupply]
  /\ UNCHANGED <<template, volume, edits>>

-----------------------------------------------------------------------------

FilesInit ==
  /\ template \in {NoTemplate, [f \in Paths |-> Shipped]}
  /\ volume = Empty
  /\ agent = NoAgent
  /\ edit = [r \in Edits |-> Resting]
  /\ supply = [p \in Supplies |-> Resting]
  /\ edits = 0

AgentWorks ==
  \/ LoadConfig \/ LoadSkills \/ WatcherStarts
  \/ Notice \/ Settle \/ ReloadSkill

FilesNext ==
  \/ \E r \in Edits :
       \/ \E f \in Paths : WriteFile(r, f) \/ DeleteFile(r, f)
       \/ \E files \in SUBSET Paths \ {{}} : ReplaceFiles(r, files)
       \/ FindContainer(r) \/ CopyFilesToContainer(r) \/ WriteViaEphemeral(r)
       \/ EditFails(r) \/ WriteToTemplate(r) \/ Written(r) \/ TestConfig(r) \/ GenerateConfig(r)
  \/ \E p \in Supplies :
       \/ Create(p) \/ Restart(p) \/ RestartByID(p)
       \/ Start(p) \/ StartFails(p) \/ CopyTemplateToContainer(p) \/ Extract(p) \/ Provisioned(p)
  \/ Pause \/ AgentWorks \/ Respawns \/ PlatformRestarts

FilesSpec == FilesInit /\ [][FilesNext]_fileVars
=============================================================================
