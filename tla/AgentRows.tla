------------------------------ MODULE AgentRows ------------------------------
(****************************************************************************)
(* Which agent a workspace has (handlers/agent.go): the agents table, and   *)
(* requests that test it in one statement and write it in the next.         *)
(*                                                                          *)
(*   agents   the table: the workspace and the status of each agent         *)
(*   req      Assign, Replace and Move requests between the two statements  *)
(*   raced    for the property: workspaces that two requests were about to  *)
(*            give an agent at a time, or that took the agents of such a    *)
(*            workspace                                                     *)
(*                                                                          *)
(* Left out: the model's name, events, and whether the workspace exists:    *)
(* its row never goes away.                                                 *)
(****************************************************************************)
EXTENDS Integers, FiniteSets

CONSTANTS Spaces, Agents, Requests,
          Unassigned, NoRequest

ASSUME AgentsAssumption ==
  Unassigned \notin [ws : Spaces, status : {"active", "replaced", "removed"}]

VARIABLES agents, req, raced

agentVars == <<agents, req, raced>>

Active(w) == {a \in Agents : agents[a] = [ws |-> w, status |-> "active"]}

\* UPDATE ... WHERE status = 'active' takes every such row, not one.
WithActive(w, row) == [a \in Agents |-> IF a \in Active(w) THEN row ELSE agents[a]]

Busy(r) == req[r] # NoRequest

\* Requests that are about to give w an agent.
Open(w) == {r \in Requests : Busy(r) /\ req[r].to = w}

Opens(r, op, from, to) ==
  /\ ~Busy(r)
  /\ req' = [req EXCEPT ![r] = [op |-> op, from |-> from, to |-> to]]
  /\ raced' = IF Open(to) = {} THEN raced ELSE raced \cup {to}

Closes(r) == req' = [req EXCEPT ![r] = NoRequest]

\* 409 when the count is not zero.
Assign(r, w) ==
  /\ Active(w) = {}
  /\ Opens(r, "insert", w, w)
  /\ UNCHANGED agents

ReplaceKeeps(r, w) ==                          \* the old agent not deactivated
  /\ Active(w) # {}
  /\ Opens(r, "insert", w, w)
  /\ UNCHANGED agents

\* 404 when there is none.
Replace(r, w) ==
  /\ Active(w) # {}
  /\ Opens(r, "insert", w, w)
  /\ agents' = WithActive(w, [ws |-> w, status |-> "replaced"])

InsertAgent(r) ==
  /\ Busy(r) /\ req[r].op = "insert"
  /\ \E a \in Agents :
       /\ agents[a] = Unassigned
       /\ agents' = [agents EXCEPT ![a] = [ws |-> req[r].to, status |-> "active"]]
  /\ Closes(r)
  /\ UNCHANGED raced

\* The database failed, the client hung up or the process died.
RequestFails(r) ==
  /\ Busy(r) /\ Closes(r)
  /\ UNCHANGED <<agents, raced>>

Remove(w) ==
  /\ Active(w) # {}
  /\ agents' = WithActive(w, [ws |-> w, status |-> "removed"])
  /\ UNCHANGED <<req, raced>>

Move(r, w, to) ==
  /\ Active(to) = {}
  /\ Opens(r, "move", w, to)
  /\ UNCHANGED agents

\* Also when the source has none: 404.
MoveAgent(r) ==
  /\ Busy(r) /\ req[r].op = "move"
  /\ agents' = WithActive(req[r].from, [ws |-> req[r].to, status |-> "active"])
  /\ raced' = IF req[r].from \in raced THEN raced \cup {req[r].to} ELSE raced
  /\ Closes(r)

AgentsInit ==
  /\ agents = [a \in Agents |-> Unassigned]
  /\ req = [r \in Requests |-> NoRequest]
  /\ raced = {}

AgentsNext ==
  \/ \E r \in Requests :
       \/ \E w \in Spaces : Assign(r, w) \/ Replace(r, w) \/ \E to \in Spaces : Move(r, w, to)
       \/ InsertAgent(r) \/ MoveAgent(r) \/ RequestFails(r)
  \/ \E w \in Spaces : Remove(w)

AgentsSpec == AgentsInit /\ [][AgentsNext]_agentVars
=============================================================================
