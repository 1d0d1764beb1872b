--------------------------- MODULE DashboardProps ---------------------------
(* What the dashboard promises its user. *)
EXTENDS Dashboard

(* What is on its way: events to a connection, commands of the socket to   *)
(* the loop, changes asked for to the platform and back.                   *)
Event == [id : Ids, event : Statuses \cup {"removed"}, name : Names]
Command ==
  [kind : {"dial", "tick"}] \cup [kind : {"connected"}, conn : Nat]
    \cup [kind : {"listen"}, conn : Nat, gen : Nat]
Asked ==
  [op : {"delete"}, id : Ids, name : {Unnamed}] \cup [op : {"create"}, id : {NoConn}, name : Names]
    \cup [op : {"update"}, id : Ids, name : Names]
Fetch == [at : {"idle", "waiting", "answered"}, list : SUBSET Row]

PlatformTypes ==
  /\ name \in [Ids -> Names]
  /\ status \in [Ids -> Statuses \cup {"removed"}]
  /\ changes \in Nat

SocketTypes ==
  /\ wire \in Seq(Seq(Event)) /\ conns = Len(wire) /\ open \subseteq 1 .. conns
  /\ faults \in Nat
  /\ ws \in Seq(Command)
  /\ wsConn \in Nat \cup {NoConn} /\ wsGen \in Nat \ {0} /\ wsReady \in BOOLEAN

ListTypes ==
  /\ rows \in Seq(Row) /\ Sorted(rows)
  /\ selected \in Nat
  /\ filter \in {Anything, Found}
  /\ mode \in {"list", "confirm", "spawn", "edit", "filter"}

RequestTypes ==
  /\ fetch \in [Slots -> Fetch]
  /\ requests \subseteq Asked /\ replies \subseteq Asked
  /\ ops \in Nat

(* Every variable has its type. *)
TypeOK == PlatformTypes /\ SocketTypes /\ ListTypes /\ RequestTypes

(* The cursor is on a row of the filtered list, or at its top: whatever    *)
(* refreshes, events, deletions and filters did to the list in the         *)
(* meantime, enter, e and d find a workspace when one is shown             *)
(* (clampSelected, model.go:153).                                          *)
CursorOnARow == selected = 0 \/ selected < Cardinality(Filtered(rows, filter))

(* A workspace has one line, however its row came: the list request, an    *)
(* event or both.                                                          *)
OneLineEach ==
  \A j, k \in DOMAIN rows : rows[j].id = rows[k].id => j = k

(* The socket is looked after by one chain of commands: never are two      *)
(* connections dialled, awaited or read at a time, and a connection that   *)
(* is open is the model's own or on its way to it, so none leaks           *)
(* (update.go:137 "prevents leak").                                        *)
OneSocket ==
  /\ Len(ws) <= 1
  /\ \A c \in open : \/ c = wsConn
                     \/ \E i \in DOMAIN ws : ws[i].kind = "connected" /\ ws[i].conn = c

ListAgrees == Range(rows) = Listing

(* The refresh every 30 s repairs what the socket lost or brought late, an *)
(* answer older than an event, and a row the user deleted while a list     *)
(* was on its way: when the platform comes to rest the list becomes what   *)
(* it answers and stays so.                                                *)
Converges == <>[](ListAgrees)

(* A connection that breaks while the dashboard listens is noticed and     *)
(* dialled again.  (What becomes of that dial: Reconnects.)                *)
DropsAreMended ==
  [](wsConn # NoConn /\ wsConn \notin open
       => <>(\E i \in DOMAIN ws : ws[i].kind = "dial"))

(* update.go:175 "WS disconnected, reconnecting..." and 179 "attempt a     *)
(* fresh connection": a dashboard without a connection gets one.           *)
Reconnects == [](~wsReady => <>(wsReady))
=============================================================================
