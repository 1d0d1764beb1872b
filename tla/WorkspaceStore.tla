---------------------------- MODULE WorkspaceStore ----------------------------
(***************************************************************************)
(* The state the platform's handlers share, and the single statements they *)
(* issue against it.  Postgres, Redis and Docker each execute one          *)
(* statement atomically; nothing spans two of them, so every interleaving  *)
(* hazard of the platform lives between two operators of this module.      *)
(*                                                                         *)
(*   row   : workspaces.status; "absent" before the INSERT                 *)
(*   url   : workspaces.url: "none" (NULL or ''), "host" (the              *)
(*           http://127.0.0.1:port the provisioner stored) or "agent" (the *)
(*           address the agent reported or an operator typed)              *)
(*   redis : which of the keys ws:{id} ("live", TTL 60s) and ws:{id}:url   *)
(*           ("url", TTL 5 min) exist                                      *)
(*   cont  : the container ws-{id}: "none", "running" or "exited"          *)
(***************************************************************************)
EXTENDS Naturals

CONSTANTS
  Ws,        \* workspace ids
  NoWs,      \* no workspace
  Parent,    \* workspaces.parent_id
  External,  \* workspaces created with "external": true in the payload
  Remote     \* workspaces whose runtime column is 'external'

ASSUME StoreAssumption ==
  /\ NoWs \notin Ws
  /\ Parent \in [Ws -> Ws \cup {NoWs}]
  /\ External \subseteq Ws
  /\ Remote \subseteq Ws

VARIABLES row, url, redis, cont

store == <<row, url, redis, cont>>

Status == {"absent", "provisioning", "online", "degraded", "offline",
           "paused", "failed", "removed"}

Keys == {"live", "url"}

StoreTypeOK ==
  /\ row \in [Ws -> Status]
  /\ url \in [Ws -> {"none", "host", "agent"}]
  /\ redis \in [Ws -> SUBSET Keys]
  /\ cont \in [Ws -> {"none", "running", "exited"}]

StoreInit ==
  /\ row = [w \in Ws |-> "absent"]
  /\ url = [w \in Ws |-> "none"]
  /\ redis = [w \in Ws |-> {}]
  /\ cont = [w \in Ws |-> "none"]

-----------------------------------------------------------------------------
(***************************************************************************)
(* Postgres.  An UPDATE ... WHERE id = $1 AND status NOT IN (barred)       *)
(* touches nothing when the row is missing or its status is barred.        *)
(***************************************************************************)
Insert(w, s) ==
  /\ row[w] = "absent"
  /\ row' = [row EXCEPT ![w] = s]

MarkUnless(w, s, barred) ==
  row' = [row EXCEPT ![w] = IF @ \in barred \cup {"absent"} THEN @ ELSE s]

Mark(w, s) == MarkUnless(w, s, {})

\* UPDATE ... SET status = s WHERE id = ANY(W).
MarkAll(W, s) ==
  row' = [w \in Ws |-> IF w \in W /\ row[w] # "absent" THEN s ELSE row[w]]

(***************************************************************************)
(* The recursive queries.  Below(w, S) is the CTE "descendants": the least *)
(* set of rows that satisfy the filter S which has the children of w and   *)
(* the children of its members.  A filtered-out row hides its subtree.     *)
(***************************************************************************)
Children(D, S) == {c \in S : Parent[c] \in D}

Below(w, S) == {c \in S : \A D \in SUBSET S : Children({w} \cup D, S) \subseteq D => c \in D}

WithStatus(T) == {w \in Ws : row[w] \in T}

RowsNotIn(T) == WithStatus(Status \ (T \cup {"absent"}))

\* isParentPaused climbs parent_id to the first paused ancestor.
AncestorPaused(w) == \E a \in WithStatus({"paused"}) : w \in Below(a, Ws)

-----------------------------------------------------------------------------
(***************************************************************************)
(* Redis.  A handler's consecutive Redis commands are one step.            *)
(***************************************************************************)
AddKeys(w, ks) == redis' = [redis EXCEPT ![w] = @ \cup ks]

ClearWorkspaceKeys(w) == redis' = [redis EXCEPT ![w] = {}]

(***************************************************************************)
(* Docker.  Stop and the first half of Start force-remove the container by *)
(* name; IsRunning answers FALSE for a missing container and for an error  *)
(* of the inspect call alike, so it may answer FALSE for any container.    *)
(***************************************************************************)
Stop(w) == cont' = [cont EXCEPT ![w] = "none"]

Running(w) == cont[w] = "running"

IsRunning(w) == {Running(w), FALSE}
=============================================================================
