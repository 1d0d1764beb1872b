----------------------------- MODULE Hierarchy ------------------------------
(****************************************************************************)
(* Who may talk to whom, who is listed as a peer, and whose memories are    *)
(* found (registry/access.go, handlers/discovery.go, handlers/memories.go), *)
(* while PATCH /workspaces/:id (handlers/workspace.go) nests and unnests.   *)
(*                                                                          *)
(*   parent   workspaces.parent_id; Top is NULL                             *)
(*   removed  workspaces whose status is removed; parent_id stays           *)
(*   memory   agent_memories                                                *)
(*   ask      requests, each statement of theirs a step                     *)
(*   seen     for the properties, what was so while the request ran: who    *)
(*            was near the asker at some time (ever) and all the time       *)
(*            (always), who was moved, and who was removed before it        *)
(*   changes  moves and removals, for the bound                             *)
(*                                                                          *)
(* Left out: what a peer, a memory or an URL says, namespaces and text      *)
(* search, which only narrow a result, its limit of 50 rows, and the status *)
(* and the cache that Discover reads after the rule has let it through.     *)
(****************************************************************************)
EXTENDS Integers

CONSTANTS Nodes, Top, Memories, Unwritten, Asks, NoAsk,
          MaxChanges            \* bound: PATCHes of a parent, and removals

ASSUME TopAssumption == Top \notin Nodes

VARIABLES parent, removed, memory, ask, seen, changes

hierarchyVars == <<parent, removed, memory, ask, seen, changes>>

Scopes == {"LOCAL", "TEAM", "GLOBAL"}

Unseen == [ever |-> {}, always |-> {}, moved |-> {}, gone |-> {}]

At(a, at) == ask[a] # NoAsk /\ ask[a].at = at

\* What the rule is about: oneself, a sibling, the parent, a child.
Near(p, x) == {y \in Nodes : y = x \/ p[x] = p[y] \/ p[y] = x \/ p[x] = y}

\* A request that is refused for its token reads nothing.
Begins(a, op, x, y, scope, at, got) ==
  /\ ask[a] = NoAsk
  /\ ask' = [ask EXCEPT ![a] =
       [op |-> op, from |-> x, to |-> y, scope |-> scope, at |-> at,
        own |-> Top, rest |-> {}, got |-> got, failed |-> FALSE]]
  /\ seen' = [seen EXCEPT ![a] =
       [ever |-> Near(parent, x), always |-> Near(parent, x), moved |-> {}, gone |-> removed]]
  /\ UNCHANGED <<parent, removed, memory, changes>>

Turns(a, r) ==
  /\ ask' = [ask EXCEPT ![a] = r]
  /\ UNCHANGED <<parent, removed, memory, seen, changes>>

Ends(a) ==
  /\ ask' = [ask EXCEPT ![a] = NoAsk]
  /\ seen' = [seen EXCEPT ![a] = Unseen]

-----------------------------------------------------------------------------
(* The rule: CanCommunicate, which looks up one end after the other *)

AllowedDown(x, px, y, py) == px = py \/ py = x           \* not up to the parent
Allowed(x, px, y, py) == px = py \/ py = x \/ px = y

\* Also the proxy's, before it forwards a message (CheckAccess has no more to do).
Check(a, op, x, y) ==
  IF x = y THEN Begins(a, op, x, y, "TEAM", IF op = "discover" THEN "url" ELSE "done", {y})
           ELSE Begins(a, op, x, y, "TEAM", "caller", {})

CheckAccess(a, x, y) == Check(a, "check", x, y)
Discover(a, x, y) == Check(a, "discover", x, y)

LookUpCaller(a) ==
  /\ At(a, "caller")
  /\ Turns(a, [ask[a] EXCEPT !.at = "target", !.own = parent[ask[a].from]])

\* A search goes on with its next row.
LookUpTarget(a) ==
  LET q   == ask[a]
      yes == Allowed(q.from, q.own, q.to, parent[q.to])
  IN /\ At(a, "target")
     /\ Turns(a, IF q.op = "search"
                 THEN [q EXCEPT !.at = "rows", !.own = Top,
                         !.got = @ \cup IF yes THEN {[by |-> q.to, scope |-> "TEAM"]} ELSE {}]
                 ELSE [q EXCEPT !.at = IF q.op = "discover" THEN "url" ELSE "done",
                         !.own = Top, !.got = IF yes THEN {q.to} ELSE {}])

\* The URL is registered, cached or made up for a workspace that is up; or there is none.
FindURL(a) ==
  /\ At(a, "url")
  /\ \E got \in {{}, ask[a].got} : Turns(a, [ask[a] EXCEPT !.at = "done", !.got = got])

\* Either look-up fails: no.
LookUpFails(a) ==
  /\ At(a, "caller") \/ At(a, "target")
  /\ Turns(a, [ask[a] EXCEPT !.at = IF ask[a].op = "search" THEN "rows" ELSE "done",
                             !.own = Top, !.failed = TRUE])

-----------------------------------------------------------------------------
(* Peers, Commit and Search begin with the asker's own parent *)

Peers(a, x) == Begins(a, "peers", x, x, "TEAM", "own", {})
Search(a, x, s) == Begins(a, "search", x, x, s, "own", {})
Commit(a, x, s) == Begins(a, "commit", x, x, s, IF s = "GLOBAL" THEN "own" ELSE "insert", {})

After(op) == CASE op = "peers"  -> "siblings"
               [] op = "search" -> "query"
               [] op = "commit" -> "insert"

\* Commit and Search drop the error and go on as if the asker were at the top.
LookUpOwn(a) ==
  LET q == ask[a]
  IN /\ At(a, "own")
     /\ \/ Turns(a, [q EXCEPT !.at = After(q.op), !.own = parent[q.from]])
        \/ /\ q.op # "peers"
           /\ Turns(a, [q EXCEPT !.at = After(q.op), !.failed = TRUE])

\* queryPeerMaps: a query that fails finds nobody.
Finds(a, next, found) ==
  \/ Turns(a, [ask[a] EXCEPT !.at = next, !.got = @ \cup found])
  \/ Turns(a, [ask[a] EXCEPT !.at = next, !.failed = TRUE])

SiblingsAndRemoved(a) ==                       \* without AND w.status != 'removed'
  /\ At(a, "siblings")
  /\ Finds(a, "children", {y \in Nodes : parent[y] = ask[a].own /\ y # ask[a].from})

Siblings(a) ==
  /\ At(a, "siblings")
  /\ Finds(a, "children", {y \in Nodes \ removed : parent[y] = ask[a].own /\ y # ask[a].from})

Children(a) ==
  /\ At(a, "children")
  /\ Finds(a, "above", {y \in Nodes \ removed : parent[y] = ask[a].from})

Above(a) ==
  /\ At(a, "above")
  /\ Finds(a, "done", {ask[a].own} \ (removed \cup {Top}))

\* 403 when it is GLOBAL and the asker was seen below another.
CommitRow(a) ==
  /\ At(a, "insert")
  /\ ask[a].scope = "GLOBAL" => ask[a].own = Top
  /\ \E m \in Memories :
       /\ memory[m] = Unwritten
       /\ memory' = [memory EXCEPT ![m] = [by |-> ask[a].from, scope |-> ask[a].scope]]
  /\ Ends(a)
  /\ UNCHANGED <<parent, removed, changes>>

\* DELETE ... WHERE workspace_id: its own only.
Delete(m) ==
  /\ memory[m] # Unwritten
  /\ memory' = [memory EXCEPT ![m] = Unwritten]
  /\ UNCHANGED <<parent, removed, ask, seen, changes>>

Stored == {memory[m] : m \in Memories} \ {Unwritten}

RowsAndRemoved(q) ==                           \* without AND w.status != 'removed'
  LET team == IF q.own = Top THEN q.from ELSE q.own
      InTeam(y) == parent[y] = team \/ y = team
  IN {r \in Stored :
        \/ q.scope = "none" /\ r.by = q.from
        \/ q.scope = r.scope /\ \/ r.scope = "LOCAL" /\ r.by = q.from
                                \/ r.scope = "TEAM" /\ InTeam(r.by)
                                \/ r.scope = "GLOBAL"}

\* The team is the parent's, or one's own at the top.  No scope: one's own.
Rows(q) ==
  LET team == IF q.own = Top THEN q.from ELSE q.own
      InTeam(y) == y \notin removed /\ (parent[y] = team \/ y = team)
  IN {r \in Stored :
        \/ q.scope = "none" /\ r.by = q.from
        \/ q.scope = r.scope /\ \/ r.scope = "LOCAL" /\ r.by = q.from
                                \/ r.scope = "TEAM" /\ InTeam(r.by)
                                \/ r.scope = "GLOBAL"}

\* Rows of others with the scope TEAM are looked at one by one.
Query(a) ==
  LET q     == ask[a]
      doubt == {r \in Rows(q) : r.scope = "TEAM" /\ r.by # q.from}
  IN /\ At(a, "query")
     /\ Turns(a, [q EXCEPT !.at = "rows", !.own = Top, !.rest = doubt, !.got = Rows(q) \ doubt])

NextRow(a) ==
  LET q == ask[a]
  IN /\ At(a, "rows")
     /\ IF q.rest = {}
        THEN Turns(a, [q EXCEPT !.at = "done"])
        ELSE \E r \in q.rest :
               Turns(a, [q EXCEPT !.at = "caller", !.to = r.by, !.rest = @ \ {r}])

-----------------------------------------------------------------------------

\* The answer is given, refused, or the client is gone.
Close(a) ==
  /\ ask[a] # NoAsk
  /\ Ends(a)
  /\ UNCHANGED <<parent, removed, memory, changes>>

\* Update: any parent, also the workspace itself or one below it.
Patch(w, p) ==
  LET to == [parent EXCEPT ![w] = p]
  IN /\ changes < MaxChanges /\ parent[w] # p
     /\ changes' = changes + 1
     /\ parent' = to
     /\ seen' = [a \in Asks |->
          IF ask[a] = NoAsk THEN seen[a]
          ELSE [seen[a] EXCEPT !.ever = @ \cup Near(to, ask[a].from),
                               !.always = @ \cap Near(to, ask[a].from),
                               !.moved = @ \cup {w}]]
     /\ UNCHANGED <<removed, memory, ask>>

\* Delete and Collapse, row by row.
RemoveNode(w) ==
  /\ changes < MaxChanges /\ w \notin removed
  /\ changes' = changes + 1
  /\ removed' = removed \cup {w}
  /\ UNCHANGED <<parent, memory, ask, seen>>

\* Parents are given when a workspace is made, so there is no cycle yet.
HierarchyInit ==
  /\ parent \in [Nodes -> Nodes \cup {Top}]
  /\ \A S \in SUBSET Nodes \ {{}} : \E x \in S : parent[x] \notin S
  /\ removed = {}
  /\ memory = [m \in Memories |-> Unwritten]
  /\ ask = [a \in Asks |-> NoAsk]
  /\ seen = [a \in Asks |-> Unseen]
  /\ changes = 0

HierarchyNext ==
  \/ \E a \in Asks :
       \/ \E x \in Nodes :
            \/ \E y \in Nodes : CheckAccess(a, x, y) \/ Discover(a, x, y)
            \/ Peers(a, x)
            \/ \E s \in Scopes : Commit(a, x, s)
            \/ \E s \in Scopes \cup {"none"} : Search(a, x, s)
       \/ LookUpCaller(a) \/ LookUpTarget(a) \/ LookUpFails(a) \/ FindURL(a)
       \/ LookUpOwn(a) \/ Siblings(a) \/ Children(a) \/ Above(a)
       \/ CommitRow(a) \/ Query(a) \/ NextRow(a) \/ Close(a)
  \/ \E m \in Memories : Delete(m)
  \/ \E w \in Nodes : RemoveNode(w) \/ \E p \in Nodes \cup {Top} : Patch(w, p)

HierarchySpec == HierarchyInit /\ [][HierarchyNext]_hierarchyVars
=============================================================================
