--------------------------------- MODULE Hub ---------------------------------
(***************************************************************************)
(* The WebSocket hub: the Run loop that owns the set of clients, the       *)
(* handler and the two pumps of each connection, the broadcasts that read  *)
(* the set under RLock, and Close.  A message is a place in the buffer of  *)
(* Send: what it says matters to nobody here.                              *)
(*                                                                         *)
(*   clients : Hub.clients                                                 *)
(*   send    : the state of Client.Send; "panic" when it was closed twice, *)
(*             which ends the process                                      *)
(*   queue   : how many messages are buffered in Send                      *)
(*   conn    : the socket: "up", "broken" (the peer is gone) or "shut"     *)
(*   handler, reader, writer : HandleConnect, ReadPump and WritePump       *)
(*   run     : the Run loop, with the client it has received               *)
(*   cast    : the broadcasts, with the clients they have not come to yet  *)
(*   waits   : who has called mu.Lock and not got it                       *)
(*   closer  : Close, once                                                 *)
(*   done    : the channel Close closes to stop Run                        *)
(*   gauge   : starfire_websocket_connections_active                       *)
(***************************************************************************)
EXTENDS Integers

CONSTANTS
  Clients,  \* connections (bound: each is made at most once)
  Agents,   \* those that sent X-Workspace-ID; the others are canvases
  Casters,  \* goroutines that broadcast, again and again
  Cap,      \* capacity of Client.Send
  NoClient

ASSUME HubAssumption ==
  /\ Agents \subseteq Clients
  /\ NoClient \notin Clients
  /\ Cap \in Nat \ {0}

VARIABLES clients, send, queue, conn, handler, reader, writer, run, cast, waits,
          closer, done, gauge

pumps == <<handler, reader, writer, gauge>>

hub == <<clients, run, waits, closer, done>>

vars == <<clients, send, queue, conn, handler, reader, writer, run, cast, waits,
          closer, done, gauge>>

Free == [pc |-> "select", client |-> NoClient]

Loop == [pc : {"select", "exited"}, client : {NoClient}]
          \cup [pc : {"add", "remove"}, client : Clients]

TypeOK ==
  /\ clients \in SUBSET Clients
  /\ send \in [Clients -> {"none", "open", "closed", "panic"}]
  /\ queue \in [Clients -> 0..Cap]
  /\ conn \in [Clients -> {"none", "up", "broken", "shut"}]
  /\ handler \in [Clients -> {"idle", "register", "registered", "done"}]
  /\ reader \in [Clients -> {"idle", "reading", "unregister", "close", "done"}]
  /\ writer \in [Clients -> {"idle", "writing", "done"}]
  /\ run \in Loop
  /\ cast \in [Casters -> [busy : BOOLEAN, todo : SUBSET Clients]]
  /\ waits \in SUBSET {"run", "close"}
  /\ closer \in {"idle", "lock", "done"}
  /\ done \in BOOLEAN
  /\ gauge \in Int

Resting == [busy |-> FALSE, todo |-> {}]

Init ==
  /\ clients = {}
  /\ send = [c \in Clients |-> "none"]
  /\ queue = [c \in Clients |-> 0]
  /\ conn = [c \in Clients |-> "none"]
  /\ handler = [c \in Clients |-> "idle"]
  /\ reader = [c \in Clients |-> "idle"]
  /\ writer = [c \in Clients |-> "idle"]
  /\ run = Free
  /\ cast = [b \in Casters |-> Resting]
  /\ waits = {}
  /\ closer = "idle"
  /\ done = FALSE
  /\ gauge = 0

Holding == {b \in Casters : cast[b].busy}

\* Closing a channel that is closed panics.
Shut(c) == IF send[c] = "open" THEN "closed" ELSE "panic"

-----------------------------------------------------------------------------
(***************************************************************************)
(* HandleConnect: upgrade, hand the client to Run (for ever, if Run has    *)
(* exited), count it, start the pumps.                                     *)
(***************************************************************************)
Connect(c) ==
  /\ handler[c] = "idle"
  /\ handler' = [handler EXCEPT ![c] = "register"]
  /\ send' = [send EXCEPT ![c] = "open"]
  /\ conn' = [conn EXCEPT ![c] = "up"]
  /\ UNCHANGED <<hub, queue, reader, writer, cast, gauge>>

StartPumps(c) ==
  /\ handler[c] = "registered"
  /\ handler' = [handler EXCEPT ![c] = "done"]
  /\ reader' = [reader EXCEPT ![c] = "reading"]
  /\ writer' = [writer EXCEPT ![c] = "writing"]
  /\ gauge' = gauge + 1
  /\ UNCHANGED <<hub, send, queue, conn, cast>>

\* The peer goes away.
Break(c) ==
  /\ conn[c] = "up"
  /\ conn' = [conn EXCEPT ![c] = "broken"]
  /\ UNCHANGED <<hub, send, queue, pumps, cast>>

-----------------------------------------------------------------------------
(***************************************************************************)
(* WritePump ranges over Send: it drains what is buffered, also of a       *)
(* closed channel.  A write to a peer that reads slowly may take for ever, *)
(* one to a peer that is gone may still succeed.                           *)
(***************************************************************************)
Write(c) ==
  /\ writer[c] = "writing"
  /\ queue[c] > 0
  /\ conn[c] # "shut"
  /\ queue' = [queue EXCEPT ![c] = @ - 1]
  /\ UNCHANGED <<hub, send, conn, pumps, cast>>

\* A write fails, or the channel is closed and drained.
WriterLeaves(c) ==
  /\ writer[c] = "writing"
  /\ \/ queue[c] > 0 /\ conn[c] # "up"
     \/ queue[c] = 0 /\ send[c] = "closed"
  /\ writer' = [writer EXCEPT ![c] = "done"]
  /\ conn' = [conn EXCEPT ![c] = "shut"]
  /\ gauge' = gauge - 1
  /\ UNCHANGED <<hub, send, queue, handler, reader, cast>>

(***************************************************************************)
(* ReadPump leaves when the socket fails: it hands the client to Run or    *)
(* sees that the hub is closed, and closes the socket.                     *)
(***************************************************************************)
ReaderFails(c) ==
  /\ reader[c] = "reading"
  /\ conn[c] # "up"
  /\ reader' = [reader EXCEPT ![c] = "unregister"]
  /\ UNCHANGED <<hub, send, queue, conn, handler, writer, cast, gauge>>

\* Mutant: it gives up when Run is busy.
ReaderGivesUp(c) ==
  /\ reader[c] = "unregister"
  /\ reader' = [reader EXCEPT ![c] = "close"]
  /\ UNCHANGED <<hub, send, queue, conn, handler, writer, cast, gauge>>

ReaderSeesDone(c) ==
  /\ reader[c] = "unregister"
  /\ done
  /\ reader' = [reader EXCEPT ![c] = "close"]
  /\ UNCHANGED <<hub, send, queue, conn, handler, writer, cast, gauge>>

\* Mutant: the gauge is decremented here as well.
ReaderCountsToo(c) ==
  /\ reader[c] = "close"
  /\ reader' = [reader EXCEPT ![c] = "done"]
  /\ conn' = [conn EXCEPT ![c] = "shut"]
  /\ gauge' = gauge - 1
  /\ UNCHANGED <<hub, send, queue, handler, writer, cast>>

ReaderCloses(c) ==
  /\ reader[c] = "close"
  /\ reader' = [reader EXCEPT ![c] = "done"]
  /\ conn' = [conn EXCEPT ![c] = "shut"]
  /\ UNCHANGED <<hub, send, queue, handler, writer, cast, gauge>>

-----------------------------------------------------------------------------
(***************************************************************************)
(* Run: select chooses freely among what is ready, done included.          *)
(***************************************************************************)
Receive(pc, c) ==
  /\ run = Free
  /\ run' = [pc |-> pc, client |-> c]
  /\ UNCHANGED <<clients, waits, closer, done, send, queue, conn, writer, cast, gauge>>

RunRegisters(c) ==
  /\ handler[c] = "register"
  /\ handler' = [handler EXCEPT ![c] = "registered"]
  /\ Receive("add", c)
  /\ UNCHANGED reader

RunUnregisters(c) ==
  /\ reader[c] = "unregister"
  /\ reader' = [reader EXCEPT ![c] = "close"]
  /\ Receive("remove", c)
  /\ UNCHANGED handler

RunLocks ==
  /\ run.pc \in {"add", "remove"}
  /\ "run" \notin waits
  /\ waits' = waits \cup {"run"}
  /\ UNCHANGED <<clients, run, closer, done, send, queue, conn, pumps, cast>>

\* Run has mu: it changes the set in one step and releases mu.
Locked ==
  /\ "run" \in waits
  /\ Holding = {}
  /\ waits' = waits \ {"run"}
  /\ run' = Free
  /\ UNCHANGED <<closer, done, queue, conn, pumps, cast>>

RunAdds ==
  /\ run.pc = "add"
  /\ Locked
  /\ clients' = clients \cup {run.client}
  /\ UNCHANGED send

\* Mutant: without the test that the client is still registered.
RunRemovesAlways ==
  /\ run.pc = "remove"
  /\ Locked
  /\ clients' = clients \ {run.client}
  /\ send' = [send EXCEPT ![run.client] = Shut(run.client)]

RunRemoves ==
  /\ run.pc = "remove"
  /\ Locked
  /\ IF run.client \in clients
     THEN /\ clients' = clients \ {run.client}
          /\ send' = [send EXCEPT ![run.client] = Shut(run.client)]
     ELSE UNCHANGED <<clients, send>>

RunExits ==
  /\ run = Free
  /\ done
  /\ run' = [Free EXCEPT !.pc = "exited"]
  /\ UNCHANGED <<clients, waits, closer, done, send, queue, conn, pumps, cast>>

-----------------------------------------------------------------------------
(***************************************************************************)
(* Broadcast: under RLock, one client after the other.  An agent gets the  *)
(* message when CanCommunicate says so.  A full buffer drops the message;  *)
(* on a closed channel safeSend recovers from the panic.  A goroutine that *)
(* waits for Lock keeps new readers out.                                   *)
(***************************************************************************)
\* Mutant: a lock that lets readers pass a waiting writer.
BroadcastBarges(b) ==
  /\ ~cast[b].busy
  /\ cast' = [cast EXCEPT ![b] = [busy |-> TRUE, todo |-> clients]]
  /\ UNCHANGED <<hub, send, queue, conn, pumps>>

Broadcast(b) ==
  /\ ~cast[b].busy
  /\ waits = {}
  /\ cast' = [cast EXCEPT ![b] = [busy |-> TRUE, todo |-> clients]]
  /\ UNCHANGED <<hub, send, queue, conn, pumps>>

Buffer(c) == queue' = [queue EXCEPT ![c] = @ + 1]

Came(b, c) == cast' = [cast EXCEPT ![b].todo = @ \ {c}]

\* Mutant: a buffer without a limit.
CastGrows(b, c) ==
  /\ c \in cast[b].todo
  /\ Came(b, c)
  /\ \/ (c \in Agents \/ send[c] # "open") /\ UNCHANGED queue
     \/ send[c] = "open" /\ Buffer(c)
  /\ UNCHANGED <<hub, send, conn, pumps>>

CastTo(b, c) ==
  /\ c \in cast[b].todo
  /\ Came(b, c)
  /\ \/ (c \in Agents \/ send[c] # "open" \/ queue[c] = Cap) /\ UNCHANGED queue
     \/ send[c] = "open" /\ queue[c] < Cap /\ Buffer(c)
  /\ UNCHANGED <<hub, send, conn, pumps>>

CastEnds(b) ==
  /\ cast[b].busy
  /\ cast[b].todo = {}
  /\ cast' = [cast EXCEPT ![b] = Resting]
  /\ UNCHANGED <<hub, send, queue, conn, pumps>>

-----------------------------------------------------------------------------
(***************************************************************************)
(* Close: stop Run, then drain the set under Lock.                         *)
(***************************************************************************)
Close ==
  /\ closer = "idle"
  /\ closer' = "lock"
  /\ done' = TRUE
  /\ UNCHANGED <<clients, run, waits, send, queue, conn, pumps, cast>>

CloseLocks ==
  /\ closer = "lock"
  /\ "close" \notin waits
  /\ waits' = waits \cup {"close"}
  /\ UNCHANGED <<clients, run, closer, done, send, queue, conn, pumps, cast>>

Drain ==
  /\ send' = [c \in Clients |-> IF c \in clients THEN Shut(c) ELSE send[c]]
  /\ conn' = [c \in Clients |-> IF c \in clients THEN "shut" ELSE conn[c]]
  /\ clients' = {}
  /\ closer' = "done"
  /\ waits' = waits \ {"close"}
  /\ UNCHANGED <<run, done, queue, pumps, cast>>

\* Mutant: without the lock.
DrainsUnlocked ==
  /\ "close" \in waits
  /\ Drain

CloseDrains ==
  /\ "close" \in waits
  /\ Holding = {}
  /\ Drain

Connection(c) ==
  \/ StartPumps(c) \/ WriterLeaves(c)
  \/ ReaderFails(c) \/ ReaderSeesDone(c) \/ ReaderCloses(c)

Serves(c) == RunRegisters(c) \/ RunUnregisters(c)

Turns == RunLocks \/ RunAdds \/ RunRemoves \/ RunExits

Closes == CloseLocks \/ CloseDrains

Casts(b) == CastEnds(b) \/ \E c \in Clients : CastTo(b, c)

Next ==
  \/ \E c \in Clients : Connect(c) \/ Break(c) \/ Write(c) \/ Connection(c) \/ Serves(c)
  \/ Turns \/ Close \/ Closes
  \/ \E b \in Casters : Broadcast(b) \/ Casts(b)

Spec == Init /\ [][Next]_vars
=============================================================================
