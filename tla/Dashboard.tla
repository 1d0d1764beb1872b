------------------------------ MODULE Dashboard ------------------------------
(****************************************************************************)
(* molecli's terminal dashboard (platform/cmd/cli).  One loop takes one     *)
(* message at a time: a key, the answer of a request, or what the WebSocket *)
(* brought.  Requests and the socket run beside it, so their answers come   *)
(* in any order.                                                            *)
(*                                                                          *)
(*   name, status  the platform's workspaces ("removed": not listed)        *)
(*   open, wire    the connections still open; what each has yet to bring   *)
(*   conns         connections made so far; they are named 1, 2, ...        *)
(*   ws            the commands and messages about the socket on their way  *)
(*   wsConn, wsGen, wsReady       the model's fields of those names         *)
(*   rows, selected, filter       the list, the cursor (from 0) and the     *)
(*                 names the filter matches                                 *)
(*   mode          which input the keys go to                               *)
(*   fetch         the list requests: the refresh's own, and one other      *)
(*   requests, replies            changes asked for, and their answers      *)
(*   changes, faults, ops         how much of each bound is used up         *)
(*                                                                          *)
(* Left out: quitting, which closes the connection and ends it all; errMsg, *)
(* tabs and scrolling, the event log, agent cards, roles and tiers, and the *)
(* chat: discoverForChatCmd sends no X-Workspace-ID, so the platform        *)
(* answers 400 and the chat never opens.                                    *)
(****************************************************************************)
EXTENDS Integers, Sequences, FiniteSets, SequencesExt

CONSTANTS Ids,         \* workspaces
          Called, First, \* their names; those there when the dashboard starts
          Names,       \* names a workspace may have, in their order
          Found,       \* the names the one text typed as a filter matches
          Statuses,    \* statuses of a workspace that is not removed
          NoConn,
          MaxChanges,  \* bound: changes made by others
          MaxFaults,   \* bound: dropped connections and failed dials
          MaxOps       \* bound: requests made with keys

ASSUME DashboardAssumption ==
  /\ IsFiniteSet(Ids) /\ NoConn \notin Nat
  /\ Names \subseteq Nat \ {0} /\ Found \subseteq Names
  /\ Called \in [Ids -> Names] /\ First \subseteq Ids
  /\ {"provisioning", "online"} \subseteq Statuses /\ "removed" \notin Statuses

VARIABLES name, status, changes, open, wire, conns, faults,
          ws, wsConn, wsGen, wsReady,
          rows, selected, filter, mode,
          fetch, requests, replies, ops

platform == <<name, status, changes>>
socket   == <<open, wire, conns, faults>>
wsVars   == <<ws, wsConn, wsGen, wsReady>>
listVars == <<rows, selected>>
keyVars  == <<filter, mode>>
httpVars == <<fetch, requests, replies, ops>>
vars     == <<platform, socket, wsVars, listVars, keyVars, httpVars>>

Unnamed  == 0                        \* the empty name, which no filter finds
Anything == Names \cup {Unnamed}     \* what the empty filter matches
Row      == [id : Ids, name : Anything, status : Statuses]
Slots    == {"refresh", "asked"}
Idle     == [at |-> "idle", list |-> {}]
Waiting  == [at |-> "waiting", list |-> {}]

\* What GET /workspaces answers.
Listing == {[id |-> i, name |-> name[i], status |-> status[i]] :
              i \in {j \in Ids : status[j] # "removed"}}

\* sort.Slice by name; it promises no order among equal names.
Sorted(s) == \A i, j \in DOMAIN s : i < j => s[i].name <= s[j].name
OrdersAny(set) == SetToSeqs(set)                      \* a forgotten sort
Orders(set) == {s \in SetToSeqs(set) : Sorted(s)}

\* The lines a filter shows; the cursor is on the one with that many above it.
Filtered(r, f) == {k \in DOMAIN r : r[k].name \in f}
Above(k) == {j \in Filtered(rows, filter) : j < k}
HasSelected == selected < Cardinality(Filtered(rows, filter))
Selected == rows[CHOOSE k \in Filtered(rows, filter) : Cardinality(Above(k)) = selected]
Clamp(r, f) == LET n == Cardinality(Filtered(r, f))
               IN  IF selected >= n THEN IF n = 0 THEN 0 ELSE n - 1 ELSE selected

\* r without the first line of i.
Lines(r, i) == {k \in DOMAIN r : r[k].id = i}
Without(r, i) ==
  IF Lines(r, i) = {} THEN r
  ELSE RemoveAt(r, CHOOSE k \in Lines(r, i) : \A j \in Lines(r, i) : k <= j)
ShownButLast == {rows[k].id : k \in 1 .. Len(rows) - 1}   \* an off-by-one
Shown == {rows[k].id : k \in DOMAIN rows}

\* One event to every open connection.
Cast(i, e, n) ==
  wire' = [c \in DOMAIN wire |->
             IF c \in open THEN Append(wire[c], [id |-> i, event |-> e, name |-> n])
                           ELSE wire[c]]

Init ==
  /\ status = [i \in Ids |-> IF i \in First THEN "online" ELSE "removed"]
  /\ name = Called
  /\ changes = 0
  /\ open = {} /\ wire = << >> /\ conns = 0 /\ faults = 0
  /\ ws = <<[kind |-> "dial"]>>
  /\ wsConn = NoConn /\ wsGen = 1 /\ wsReady = FALSE
  /\ rows = << >> /\ selected = 0
  /\ filter = Anything /\ mode = "list"
  /\ fetch = [s \in Slots |-> IF s = "refresh" THEN Waiting ELSE Idle]
  /\ requests = {} /\ replies = {} /\ ops = 0

-----------------------------------------------------------------------------
(* The platform, changed by others. *)

Change ==
  /\ changes < MaxChanges
  /\ changes' = changes + 1
  /\ \E i \in Ids :
       /\ \E s \in Statuses \cup {"removed"} :
            /\ s # status[i]
            /\ status[i] = "removed" => s = "provisioning"
            /\ status' = [status EXCEPT ![i] = s]
            /\ Cast(i, s, name[i])
  /\ UNCHANGED <<name, open, conns, faults, wsVars, listVars, keyVars, httpVars>>

-----------------------------------------------------------------------------
(* The socket.  At(i) takes the i-th command off ws. *)

At(i) == RemoveAt(ws, i)

Dial(i) ==
  /\ ws[i].kind = "dial"
  /\ conns' = conns + 1
  /\ wire' = Append(wire, << >>)
  /\ open' = open \cup {conns + 1}
  /\ ws' = Append(At(i), [kind |-> "connected", conn |-> conns + 1])
  /\ UNCHANGED <<platform, faults, wsConn, wsGen, wsReady, listVars, keyVars, httpVars>>

WsConnected(i) ==
  /\ ws[i].kind = "connected"
  /\ open' = open \ {wsConn}
  /\ wsConn' = ws[i].conn
  /\ wsReady' = TRUE
  /\ wsGen' = wsGen + 1
  /\ ws' = Append(At(i), [kind |-> "listen", conn |-> ws[i].conn, gen |-> wsGen + 1])
  /\ UNCHANGED <<platform, wire, conns, faults, listVars, keyVars, httpVars>>

\* A reader that ends without a word to the loop.
WsErrorStops(gen, rest) ==
  IF gen # wsGen
  THEN ws' = rest /\ UNCHANGED <<open, wsConn, wsGen, wsReady>>
  ELSE /\ open' = open \ {wsConn} /\ wsConn' = NoConn /\ wsReady' = FALSE
       /\ ws' = rest /\ UNCHANGED wsGen

\* WsErrorMsg: an error of another generation is ignored.
WsError(gen, rest) ==
  IF gen # wsGen
  THEN ws' = rest /\ UNCHANGED <<open, wsConn, wsGen, wsReady>>
  ELSE /\ open' = open \ {wsConn}
       /\ wsConn' = NoConn
       /\ wsReady' = FALSE
       /\ ws' = Append(rest, [kind |-> "tick"])
       /\ UNCHANGED wsGen

\* connectWSCmd reports a failed dial without a generation, which is 0.
DialFails(i) ==
  /\ ws[i].kind = "dial" /\ faults < MaxFaults
  /\ faults' = faults + 1
  /\ WsError(0, At(i))
  /\ UNCHANGED <<platform, wire, conns, listVars, keyVars, httpVars>>

\* The connection breaks; what it had not brought yet is lost.
Drop ==
  /\ faults < MaxFaults
  /\ faults' = faults + 1
  /\ \E c \in open : open' = open \ {c} /\ wire' = [wire EXCEPT ![c] = << >>]
  /\ UNCHANGED <<platform, conns, wsVars, listVars, keyVars, httpVars>>

ReadFails(i) ==
  /\ ws[i].kind = "listen" /\ ws[i].conn \notin open
  /\ WsError(ws[i].gen, At(i))
  /\ UNCHANGED <<platform, wire, conns, faults, listVars, keyVars, httpVars>>

\* A ticker that keeps dialling.
ReconnectKeepsTicking(i) ==
  /\ ws[i].kind = "tick"
  /\ ws' = At(i) \o <<[kind |-> "dial"], [kind |-> "tick"]>>
  /\ UNCHANGED <<platform, socket, wsConn, wsGen, wsReady, listVars, keyVars, httpVars>>

ReconnectTick(i) ==
  /\ ws[i].kind = "tick"
  /\ ws' = Append(At(i), [kind |-> "dial"])
  /\ UNCHANGED <<platform, socket, wsConn, wsGen, wsReady, listVars, keyVars, httpVars>>

\* applyEvent.  Only WORKSPACE_REMOVED moves the cursor.
ClampNot(r) == selected
ClampOnRemove(r) == Clamp(r, filter)

ApplyEvent(e) ==
  CASE e.event = "removed" /\ e.id \in Shown ->
         /\ rows' = Without(rows, e.id)
         /\ selected' = ClampOnRemove(Without(rows, e.id))
    [] e.event \in {"provisioning", "online"} /\ e.id \notin Shown ->
         /\ rows' \in Orders(Range(rows) \cup
              {[id |-> e.id, status |-> e.event,
                name |-> IF e.event = "provisioning" THEN e.name ELSE Unnamed]})
         /\ UNCHANGED selected
    [] e.event \in {"online", "offline"} /\ e.id \in Shown ->
         /\ rows' = [k \in DOMAIN rows |-> IF rows[k].id = e.id
                       THEN [rows[k] EXCEPT !.status = e.event] ELSE rows[k]]
         /\ UNCHANGED selected
    [] OTHER -> UNCHANGED listVars

\* listenWS reads one event; the loop applies it and listens again.
WsEvent(i) ==
  /\ ws[i].kind = "listen" /\ ws[i].conn \in open
  /\ wire[ws[i].conn] # << >>
  /\ wire' = [wire EXCEPT ![ws[i].conn] = Tail(@)]
  /\ IF ws[i].gen # wsGen
     THEN ws' = At(i) /\ UNCHANGED listVars
     ELSE /\ ApplyEvent(Head(wire[ws[i].conn]))
          /\ ws' = IF wsConn = NoConn THEN At(i)
                   ELSE Append(At(i), [kind |-> "listen", conn |-> wsConn, gen |-> wsGen])
  /\ UNCHANGED <<platform, open, conns, faults, wsConn, wsGen, wsReady, keyVars, httpVars>>

-----------------------------------------------------------------------------
(* List requests.  The client gives up after 10 s and the refresh comes every *)
(* 30 s, so the refresh finds its own request answered.                       *)

Ask(s) == fetch[s] = Idle /\ fetch' = [fetch EXCEPT ![s] = Waiting]

\* A refresh spared while the socket is up.
RefreshWhenDown ==
  /\ ~wsReady /\ Ask("refresh")
  /\ UNCHANGED <<platform, socket, wsVars, listVars, keyVars, requests, replies, ops>>

RefreshTick ==
  /\ Ask("refresh")
  /\ UNCHANGED <<platform, socket, wsVars, listVars, keyVars, requests, replies, ops>>

FetchAnswered(s) ==
  /\ fetch[s] = Waiting
  /\ fetch' = [fetch EXCEPT ![s] = [at |-> "answered", list |-> Listing]]
  /\ UNCHANGED <<platform, socket, wsVars, listVars, keyVars, requests, replies, ops>>

FetchFails(s) ==
  /\ fetch[s] = Waiting
  /\ fetch' = [fetch EXCEPT ![s] = Idle]
  /\ UNCHANGED <<platform, socket, wsVars, listVars, keyVars, requests, replies, ops>>

WorkspacesMsg(s) ==
  /\ fetch[s].at = "answered"
  /\ rows' \in Orders(fetch[s].list)
  /\ selected' = Clamp(rows', filter)
  /\ fetch' = [fetch EXCEPT ![s] = Idle]
  /\ UNCHANGED <<platform, socket, wsVars, keyVars, requests, replies, ops>>

-----------------------------------------------------------------------------
(* Changes asked for from here: the platform makes one, then answers. *)

Request(r) ==
  /\ ops < MaxOps
  /\ ops' = ops + 1
  /\ requests' = requests \cup {r}
  /\ UNCHANGED <<fetch, replies>>

\* DELETE /workspaces/:id says yes to a workspace already removed as well.
DeleteServed(r) ==
  /\ r.op = "delete"
  /\ status' = [status EXCEPT ![r.id] = "removed"]
  /\ Cast(r.id, "removed", name[r.id])
  /\ replies' = replies \cup {r}
  /\ UNCHANGED name

CreateServed(r) ==
  /\ r.op = "create"
  /\ \E i \in {j \in Ids : status[j] = "removed" /\ j \notin Shown} :
       /\ status' = [status EXCEPT ![i] = "provisioning"]
       /\ name' = [name EXCEPT ![i] = r.name]
       /\ Cast(i, "provisioning", r.name)
  /\ replies' = replies \cup {r}

UpdateServed(r) ==
  /\ r.op = "update"
  /\ name' = [name EXCEPT ![r.id] = r.name]
  /\ replies' = replies \cup {r}
  /\ UNCHANGED <<status, wire>>

Serve(r) ==
  /\ requests' = requests \ {r}
  /\ DeleteServed(r) \/ CreateServed(r) \/ UpdateServed(r)
  /\ UNCHANGED <<changes, open, conns, faults, wsVars, listVars, keyVars, fetch, ops>>

\* A refusal (a workspace with children is not deleted unconfirmed) or an
\* error only sets errMsg.
RequestFails(r) ==
  /\ requests' = requests \ {r}
  /\ UNCHANGED <<platform, socket, wsVars, listVars, keyVars, fetch, replies, ops>>

DeletedMsg(r) ==
  /\ r.op = "delete"
  /\ rows' = Without(rows, r.id)
  /\ selected' = Clamp(Without(rows, r.id), filter)
  /\ mode' = IF mode = "confirm" THEN "list" ELSE mode
  /\ replies' = replies \ {r}
  /\ UNCHANGED <<platform, socket, wsVars, filter, fetch, requests, ops>>

\* CreatedMsg and UpdatedMsg fetch the list.
ChangedMsg(r) ==
  /\ r.op \in {"create", "update"}
  /\ Ask("asked")
  /\ replies' = replies \ {r}
  /\ UNCHANGED <<platform, socket, wsVars, listVars, keyVars, requests, ops>>

-----------------------------------------------------------------------------
(* Keys. *)

Quiet == UNCHANGED <<platform, socket, wsVars>>

Move ==
  /\ mode = "list"
  /\ \/ selected > 0 /\ selected' = selected - 1
     \/ selected < Cardinality(Filtered(rows, filter)) - 1 /\ selected' = selected + 1
  /\ Quiet /\ UNCHANGED <<rows, keyVars, httpVars>>

KeyR ==
  /\ mode = "list" /\ ops < MaxOps
  /\ ops' = ops + 1
  /\ Ask("asked")
  /\ Quiet /\ UNCHANGED <<listVars, keyVars, requests, replies>>

KeyD ==
  /\ mode = "list" /\ HasSelected
  /\ mode' = "confirm"
  /\ Quiet /\ UNCHANGED <<listVars, filter, httpVars>>

\* Any key but y takes the question back.
Answer ==
  /\ mode = "confirm"
  /\ mode' = "list"
  /\ \/ /\ HasSelected
        /\ Request([op |-> "delete", id |-> Selected.id, name |-> Unnamed])
     \/ UNCHANGED httpVars
  /\ Quiet /\ UNCHANGED <<listVars, filter>>

OpenForm ==
  /\ mode = "list"
  /\ \/ mode' = "spawn"
     \/ /\ HasSelected
        /\ mode' = "edit"
  /\ Quiet /\ UNCHANGED <<listVars, filter, httpVars>>

\* A form is submitted with whatever name was typed, but with one.
Submit ==
  /\ mode' = "list"
  /\ \E n \in Names :
       \/ mode = "spawn" /\ Request([op |-> "create", id |-> NoConn, name |-> n])
       \/ /\ mode = "edit" /\ HasSelected
          /\ Request([op |-> "update", id |-> Selected.id, name |-> n])
       \/ mode = "edit" /\ ~HasSelected /\ UNCHANGED httpVars
  /\ Quiet /\ UNCHANGED <<listVars, filter>>

CancelForm ==
  /\ mode \in {"spawn", "edit"}
  /\ mode' = "list"
  /\ Quiet /\ UNCHANGED <<listVars, filter, httpVars>>

Slash ==
  /\ mode = "list"
  /\ mode' = "filter" /\ filter' = Anything /\ selected' = 0
  /\ Quiet /\ UNCHANGED <<rows, httpVars>>

TypeFilter ==
  /\ mode = "filter"
  /\ filter' \in {Anything, Found} \ {filter}
  /\ selected' = 0
  /\ Quiet /\ UNCHANGED <<rows, mode, httpVars>>

LeaveFilter ==
  /\ mode = "filter"
  /\ mode' = "list" /\ selected' = Clamp(rows, filter)
  /\ Quiet /\ UNCHANGED <<rows, filter, httpVars>>

ClearFilter ==
  /\ mode = "list" /\ filter # Anything
  /\ filter' = Anything /\ selected' = Clamp(rows, Anything)
  /\ Quiet /\ UNCHANGED <<rows, mode, httpVars>>

Keys ==
  \/ Move \/ KeyR \/ KeyD \/ Answer
  \/ OpenForm \/ Submit \/ CancelForm
  \/ Slash \/ TypeFilter \/ LeaveFilter \/ ClearFilter

WsStep(i) ==
  \/ Dial(i) \/ DialFails(i) \/ WsConnected(i)
  \/ ReadFails(i) \/ ReconnectTick(i) \/ WsEvent(i)

Next ==
  \/ Change \/ Drop \/ Keys \/ RefreshTick
  \/ \E i \in DOMAIN ws : WsStep(i)
  \/ \E s \in Slots : FetchAnswered(s) \/ FetchFails(s) \/ WorkspacesMsg(s)
  \/ \E r \in requests : Serve(r) \/ RequestFails(r)
  \/ \E r \in replies : DeletedMsg(r) \/ ChangedMsg(r)

Spec == Init /\ [][Next]_vars

\* The loop takes what the socket and the refresh bring, timers fire, and the
\* platform does not answer the refresh with errors for ever.  Of keys and of
\* the requests they make nothing is assumed.
Fairness ==
  /\ WF_vars(\E i \in DOMAIN ws : WsStep(i))
  /\ WF_vars(RefreshTick)
  /\ SF_vars(FetchAnswered("refresh"))
  /\ WF_vars(WorkspacesMsg("refresh"))

FairSpec == Spec /\ Fairness
=============================================================================
