------------------------------ MODULE HubProofs ------------------------------
(***************************************************************************)
(* The hub's types and its two safety invariants, for every number of      *)
(* connections and broadcasting goroutines and every capacity of Send.     *)
(*                                                                         *)
(* NoPanic and SendsFindOpen are not inductive: they follow from where a   *)
(* client is registered.  A registered client's channel is open; one that  *)
(* waits for Run, or that Run is adding, is open and not registered; and   *)
(* what a broadcast has before it is registered, because whoever shrinks   *)
(* the set of clients does so with no reader inside.                       *)
(***************************************************************************)
EXTENDS HubProps, FiniteSetTheorems, TLAPS

Registered == \A c \in clients : send[c] = "open"

Waiting ==
  \A c \in Clients : handler[c] \in {"idle", "register"} => c \notin clients

Fresh == \A c \in Clients : handler[c] = "register" => send[c] = "open"

Adding ==
  run.pc = "add" => /\ send[run.client] = "open"
                    /\ run.client \notin clients
                    /\ handler[run.client] \notin {"idle", "register"}

Casting == \A b \in Casters : /\ cast[b].todo \subseteq clients
                              /\ cast[b].todo # {} => cast[b].busy

IInv == TypeOK /\ NoPanic /\ Registered /\ Waiting /\ Fresh /\ Adding /\ Casting

(***************************************************************************)
(* Nothing is registered, waiting or broadcasting at the start (NewHub).   *)
(***************************************************************************)
LEMMA InitHolds == Init => IInv
<1> SUFFICES ASSUME Init PROVE IInv
  OBVIOUS
<1>1. TypeOK
  <2>1. queue \in [Clients -> 0..Cap]
    BY HubAssumption DEF Init
  <2>2. run \in Loop
    BY DEF Init, Free, Loop
  <2>3. cast \in [Casters -> [busy : BOOLEAN, todo : SUBSET Clients]]
    BY DEF Init, Resting
  <2>4. /\ handler \in [Clients -> {"idle", "register", "registered", "done"}]
        /\ reader \in [Clients -> {"idle", "reading", "unregister", "close", "done"}]
        /\ writer \in [Clients -> {"idle", "writing", "done"}]
    BY DEF Init
  <2>5. /\ send \in [Clients -> {"none", "open", "closed", "panic"}]
        /\ conn \in [Clients -> {"none", "up", "broken", "shut"}]
    BY DEF Init
  <2>6. /\ clients \in SUBSET Clients /\ waits \in SUBSET {"run", "close"}
        /\ closer \in {"idle", "lock", "done"} /\ gauge \in Int
    BY DEF Init
  <2>7. done \in BOOLEAN
    BY DEF Init
  <2> QED
    BY <2>1, <2>2, <2>3, <2>4, <2>5, <2>6, <2>7 DEF TypeOK
<1>2. NoPanic /\ Registered /\ Waiting /\ Fresh /\ Adding /\ Casting
  BY DEF Init, NoPanic, Registered, Waiting, Fresh, Adding, Casting, Free, Resting
<1> QED
  BY <1>1, <1>2 DEF IInv

(***************************************************************************)
(* With no reader inside, no broadcast has a client before it.             *)
(***************************************************************************)
LEMMA NobodyInside ==
  ASSUME Casting, Holding = {}
  PROVE  \A b \in Casters : cast[b].todo = {}
  BY DEF Casting, Holding

(***************************************************************************)
(* Closing a registered client's channel closes it once (close(client.Send)*)
(* in Run and in Close).                                                   *)
(***************************************************************************)
LEMMA ShutsOnce ==
  ASSUME Registered, NEW c \in clients
  PROVE  Shut(c) = "closed"
  BY DEF Registered, Shut

(***************************************************************************)
(* Every step of a handler and of a pump keeps the invariant (socket.go,   *)
(* WritePump, ReadPump).                                                   *)
(***************************************************************************)
LEMMA ConnectionHolds ==
  ASSUME IInv, NEW c \in Clients,
         Connect(c) \/ Break(c) \/ Write(c) \/ Connection(c)
  PROVE  IInv'
<1>1. CASE Connect(c)
  BY <1>1 DEF Connect, IInv, TypeOK, NoPanic, Registered, Waiting, Fresh, Adding,
     Casting, Loop, hub
<1>2. CASE Break(c)
  BY <1>2 DEF Break, IInv, TypeOK, NoPanic, Registered, Waiting, Fresh, Adding,
     Casting, Loop, hub, pumps
<1>3. CASE Write(c)
  <2>1. queue[c] - 1 \in 0..Cap
    BY <1>3, HubAssumption DEF Write, IInv, TypeOK
  <2> QED
    BY <1>3, <2>1 DEF Write, IInv, TypeOK, NoPanic, Registered, Waiting, Fresh,
       Adding, Casting, Loop, hub, pumps
<1>4. CASE StartPumps(c)
  <2>1. TypeOK'
    BY <1>4 DEF StartPumps, IInv, TypeOK, Loop, hub
  <2> QED
    BY <1>4, <2>1 DEF StartPumps, IInv, TypeOK, NoPanic, Registered, Waiting,
       Fresh, Adding, Casting, Loop, hub
<1>5. CASE WriterLeaves(c)
  BY <1>5 DEF WriterLeaves, IInv, TypeOK, NoPanic, Registered, Waiting, Fresh,
     Adding, Casting, Loop, hub
<1>6. CASE ReaderFails(c) \/ ReaderSeesDone(c) \/ ReaderCloses(c)
  <2>1. UNCHANGED <<hub, send, queue, handler, writer, cast, gauge>>
    BY <1>6 DEF ReaderFails, ReaderSeesDone, ReaderCloses
  <2>2. /\ reader' \in [Clients -> {"idle", "reading", "unregister", "close", "done"}]
        /\ conn' \in [Clients -> {"none", "up", "broken", "shut"}]
    BY <1>6 DEF ReaderFails, ReaderSeesDone, ReaderCloses, IInv, TypeOK
  <2> QED
    BY <2>1, <2>2 DEF IInv, TypeOK, NoPanic, Registered, Waiting, Fresh, Adding,
       Casting, Loop, hub
<1> QED
  BY <1>1, <1>2, <1>3, <1>4, <1>5, <1>6 DEF Connection

(***************************************************************************)
(* Every step of Run keeps the invariant.                                  *)
(***************************************************************************)
LEMMA RunHolds ==
  ASSUME IInv, Turns \/ \E c \in Clients : Serves(c)
  PROVE  IInv'
<1>1. CASE \E c \in Clients : RunRegisters(c)
  <2>1. PICK c \in Clients : RunRegisters(c)
    BY <1>1
  <2> QED
    BY <2>1 DEF RunRegisters, Receive, IInv, TypeOK, NoPanic, Registered, Waiting,
       Fresh, Adding, Casting, Loop
<1>2. CASE \E c \in Clients : RunUnregisters(c)
  <2>1. PICK c \in Clients : RunUnregisters(c)
    BY <1>2
  <2> QED
    BY <2>1 DEF RunUnregisters, Receive, IInv, TypeOK, NoPanic, Registered,
       Waiting, Fresh, Adding, Casting, Loop
<1>3. CASE RunLocks
  BY <1>3 DEF RunLocks, IInv, TypeOK, NoPanic, Registered, Waiting, Fresh, Adding,
     Casting, Loop, pumps
<1>4. CASE RunAdds
  <2>1. run.client \in Clients
    BY <1>4 DEF RunAdds, IInv, TypeOK, Loop
  <2>2. TypeOK'
    BY <1>4, <2>1 DEF RunAdds, Locked, IInv, TypeOK, Loop, Free, pumps
  <2> QED
    BY <1>4, <2>1, <2>2 DEF RunAdds, Locked, IInv, NoPanic, Registered, Waiting,
       Fresh, Adding, Casting, Free, pumps
<1>5. CASE RunRemoves
  <2>1. run.client \in Clients
    BY <1>5 DEF RunRemoves, IInv, TypeOK, Loop
  <2>2. \A b \in Casters : cast[b].todo = {}
    BY <1>5, NobodyInside DEF RunRemoves, Locked, IInv
  <2>3. CASE run.client \in clients
    <3>1. /\ clients' = clients \ {run.client}
          /\ send' = [send EXCEPT ![run.client] = "closed"]
      BY <1>5, <2>3, ShutsOnce DEF RunRemoves, IInv
    <3>2. TypeOK'
      BY <1>5, <2>1, <3>1 DEF RunRemoves, Locked, IInv, TypeOK, Loop, Free, pumps
    <3>3. NoPanic' /\ Registered' /\ Waiting' /\ Fresh'
      BY <1>5, <2>1, <2>3, <3>1 DEF RunRemoves, Locked, IInv, TypeOK, NoPanic,
         Registered, Waiting, Fresh, pumps
    <3>4. Adding' /\ Casting'
      BY <1>5, <2>2 DEF RunRemoves, Locked, IInv, Adding, Casting, Free, pumps
    <3> QED
      BY <3>2, <3>3, <3>4 DEF IInv
  <2>4. CASE run.client \notin clients
    BY <1>5, <2>4 DEF RunRemoves, Locked, IInv, TypeOK, NoPanic, Registered,
       Waiting, Fresh, Adding, Casting, Loop, Free, pumps
  <2> QED
    BY <2>3, <2>4
<1>6. CASE RunExits
  BY <1>6 DEF RunExits, IInv, TypeOK, NoPanic, Registered, Waiting, Fresh, Adding,
     Casting, Loop, Free, pumps
<1> QED
  BY <1>1, <1>2, <1>3, <1>4, <1>5, <1>6 DEF Turns, Serves

(***************************************************************************)
(* Every step of a broadcast keeps the invariant.                          *)
(***************************************************************************)
LEMMA CastHolds ==
  ASSUME IInv, NEW b \in Casters, Broadcast(b) \/ Casts(b)
  PROVE  IInv'
<1>1. CASE Broadcast(b)
  <2>1. TypeOK'
    BY <1>1 DEF Broadcast, IInv, TypeOK, Loop, hub, pumps
  <2> QED
    BY <1>1, <2>1 DEF Broadcast, IInv, NoPanic, Registered, Waiting, Fresh, Adding,
       Casting, hub, pumps
<1>2. CASE CastEnds(b)
  BY <1>2 DEF CastEnds, Resting, IInv, TypeOK, NoPanic, Registered, Waiting, Fresh,
     Adding, Casting, Loop, hub, pumps
<1>3. ASSUME NEW c \in Clients, CastTo(b, c)
      PROVE  IInv'
  <2>1. queue' \in [Clients -> 0..Cap]
    BY <1>3, HubAssumption DEF CastTo, Buffer, IInv, TypeOK
  <2> QED
    BY <1>3, <2>1 DEF CastTo, Came, IInv, TypeOK, NoPanic, Registered, Waiting,
       Fresh, Adding, Casting, Loop, hub, pumps
<1> QED
  BY <1>1, <1>2, <1>3 DEF Casts

(***************************************************************************)
(* Close keeps the invariant.                                              *)
(***************************************************************************)
LEMMA CloseHolds ==
  ASSUME IInv, Close \/ Closes
  PROVE  IInv'
<1>1. CASE Close \/ CloseLocks
  <2>1. UNCHANGED <<clients, run, send, queue, conn, pumps, cast>>
    BY <1>1 DEF Close, CloseLocks
  <2>2. waits' \in SUBSET {"run", "close"} /\ done' \in BOOLEAN
    BY <1>1 DEF Close, CloseLocks, IInv, TypeOK
  <2>3. closer' \in {"idle", "lock", "done"}
    BY <1>1 DEF Close, CloseLocks
  <2> QED
    BY <2>1, <2>2, <2>3 DEF IInv, TypeOK, NoPanic, Registered, Waiting, Fresh,
       Adding, Casting, pumps
<1>2. CASE CloseDrains
  <2>1. \A b \in Casters : cast[b].todo = {}
    BY <1>2, NobodyInside DEF CloseDrains, IInv
  <2>2. send' = [c \in Clients |-> IF c \in clients THEN "closed" ELSE send[c]]
    BY <1>2, ShutsOnce DEF CloseDrains, Drain, IInv
  <2>3. TypeOK'
    BY <1>2, <2>2 DEF CloseDrains, Drain, IInv, TypeOK, Loop, pumps
  <2>4. NoPanic' /\ Registered' /\ Waiting' /\ Fresh'
    BY <1>2, <2>2 DEF CloseDrains, Drain, IInv, TypeOK, NoPanic, Registered,
       Waiting, Fresh, pumps
  <2>5. Adding' /\ Casting'
    BY <1>2, <2>1, <2>2 DEF CloseDrains, Drain, IInv, TypeOK, Loop, Adding, Casting,
       pumps
  <2> QED
    BY <2>3, <2>4, <2>5 DEF IInv
<1> QED
  BY <1>1, <1>2 DEF Closes

(***************************************************************************)
(* The invariant holds in every reachable state of the hub.                *)
(***************************************************************************)
THEOREM HubInvariant == Spec => []IInv
<1>1. IInv /\ [Next]_vars => IInv'
  <2> SUFFICES ASSUME IInv, [Next]_vars PROVE IInv'
    OBVIOUS
  <2>1. CASE UNCHANGED vars
    BY <2>1 DEF vars, IInv, TypeOK, NoPanic, Registered, Waiting, Fresh, Adding,
       Casting
  <2>2. CASE Next
    BY <2>2, ConnectionHolds, RunHolds, CastHolds, CloseHolds DEF Next
  <2> QED
    BY <2>1, <2>2
<1> QED
  BY InitHolds, <1>1, PTL DEF Spec

(***************************************************************************)
(* Every variable keeps its type: no buffer grows beyond its capacity.     *)
(***************************************************************************)
THEOREM HubTyped == Spec => []TypeOK
  BY HubInvariant, PTL DEF IInv

(***************************************************************************)
(* No channel is ever closed twice, so neither Run nor Close panics, for   *)
(* any number of clients that connect and leave while the hub is closed.   *)
(***************************************************************************)
THEOREM NothingClosedTwice == Spec => []NoPanic
  BY HubInvariant, PTL DEF IInv

(***************************************************************************)
(* A broadcast never meets a closed channel, for any number of concurrent  *)
(* broadcasts: safeSend never recovers.                                    *)
(***************************************************************************)
THEOREM BroadcastsFindOpen == Spec => []SendsFindOpen
<1>1. IInv => SendsFindOpen
  BY DEF IInv, Casting, Registered, SendsFindOpen
<1> QED
  BY HubInvariant, <1>1, PTL

-----------------------------------------------------------------------------
(***************************************************************************)
(* The gauge.  It counts the writers (StartPumps and WriterLeaves are the  *)
(* only places that touch it), so at rest the writers must be the clients. *)
(* Pumped ties the three goroutines of a connection together.  Kept says   *)
(* that a connection Run has taken stays registered until its channel is   *)
(* closed, and Left that one whose reader has handed it back is not, but   *)
(* for the moment Run holds it.                                            *)
(***************************************************************************)
Writing == {c \in Clients : writer[c] = "writing"}

Counted == IsFiniteSet(Writing) /\ gauge = Cardinality(Writing)

Pumped ==
  \A c \in Clients :
    /\ handler[c] = "done" <=> writer[c] # "idle"
    /\ handler[c] = "done" <=> reader[c] # "idle"
    /\ writer[c] = "done" => conn[c] = "shut"

Kept ==
  \A c \in Clients : handler[c] \in {"registered", "done"} =>
    \/ c \in clients
    \/ send[c] = "closed"
    \/ run = [pc |-> "add", client |-> c]

Left ==
  ~done => \A c \in Clients : reader[c] \in {"close", "done"} =>
    /\ c \notin clients \/ run = [pc |-> "remove", client |-> c]
    /\ run # [pc |-> "add", client |-> c]

GInv == Counted /\ Pumped /\ Kept /\ Left

(***************************************************************************)
(* The count follows one writer that starts or leaves.                     *)
(***************************************************************************)
LEMMA OneWriterMore ==
  ASSUME Counted, NEW c \in Clients, writer[c] # "writing", gauge' = gauge + 1,
         Writing' = Writing \cup {c}
  PROVE  Counted'
<1>1. IsFiniteSet(Writing') /\ Cardinality(Writing') = Cardinality(Writing) + 1
  BY FS_AddElement DEF Counted, Writing
<1> QED
  BY <1>1 DEF Counted

LEMMA OneWriterLess ==
  ASSUME Counted, NEW c \in Clients, writer[c] = "writing", gauge' = gauge - 1,
         Writing' = Writing \ {c}
  PROVE  Counted'
<1>1. IsFiniteSet(Writing') /\ Cardinality(Writing') = Cardinality(Writing) - 1
  BY FS_RemoveElement DEF Counted, Writing
<1> QED
  BY <1>1 DEF Counted

LEMMA NoWriterMoves ==
  ASSUME Counted, UNCHANGED <<writer, gauge>>
  PROVE  Counted'
<1>1. Writing' = Writing
  BY DEF Writing
<1> QED
  BY <1>1 DEF Counted

(***************************************************************************)
(* Every step keeps what the gauge rests on (socket.go 55-63, hub.go).     *)
(***************************************************************************)
LEMMA CountHolds ==
  ASSUME IInv, GInv, Next
  PROVE  Counted'
<1> USE DEF GInv
<1>1. ASSUME NEW c \in Clients, StartPumps(c)
      PROVE  Counted'
  <2>1. writer[c] = "idle"
    BY <1>1 DEF StartPumps, Pumped
  <2>2. Writing' = Writing \cup {c}
    BY <1>1 DEF StartPumps, Writing, IInv, TypeOK
  <2> QED
    BY <1>1, <2>1, <2>2, OneWriterMore DEF StartPumps
<1>2. ASSUME NEW c \in Clients, WriterLeaves(c)
      PROVE  Counted'
  <2>1. Writing' = Writing \ {c}
    BY <1>2 DEF WriterLeaves, Writing, IInv, TypeOK
  <2> QED
    BY <1>2, <2>1, OneWriterLess DEF WriterLeaves
<1>3. ASSUME NEW c \in Clients,
             \/ Connect(c) \/ Break(c) \/ Write(c) \/ Serves(c)
             \/ ReaderFails(c) \/ ReaderSeesDone(c) \/ ReaderCloses(c)
      PROVE  UNCHANGED <<writer, gauge>>
  BY <1>3 DEF Connect, Break, Write, Serves, RunRegisters, RunUnregisters, Receive,
     ReaderFails, ReaderSeesDone, ReaderCloses, pumps
<1>4. ASSUME Turns \/ Close \/ Closes
      PROVE  UNCHANGED <<writer, gauge>>
  BY <1>4 DEF Turns, RunLocks, RunAdds, RunRemoves, Locked, RunExits, Close, Closes,
     CloseLocks, CloseDrains, Drain, pumps
<1>5. ASSUME NEW b \in Casters, Broadcast(b) \/ Casts(b)
      PROVE  UNCHANGED <<writer, gauge>>
  BY <1>5 DEF Broadcast, Casts, CastEnds, CastTo, pumps
<1> QED
  BY <1>1, <1>2, <1>3, <1>4, <1>5, NoWriterMoves DEF Next, Connection

LEMMA PumpedHolds ==
  ASSUME IInv, Pumped, Next
  PROVE  Pumped'
<1>1. ASSUME NEW c \in Clients, Connect(c) \/ Break(c) \/ Write(c) \/ Serves(c)
      PROVE  Pumped'
  BY <1>1 DEF Connect, Break, Write, Serves, RunRegisters, RunUnregisters, Receive,
     IInv, TypeOK, Pumped, pumps
<1>2. ASSUME NEW c \in Clients, Connection(c)
      PROVE  Pumped'
  BY <1>2 DEF Connection, StartPumps, WriterLeaves, ReaderFails, ReaderSeesDone,
     ReaderCloses, IInv, TypeOK, Pumped
<1>3. ASSUME Turns \/ Close \/ Closes
      PROVE  Pumped'
  BY <1>3 DEF Turns, RunLocks, RunAdds, RunRemoves, Locked, RunExits, Close, Closes,
     CloseLocks, CloseDrains, Drain, IInv, TypeOK, Pumped, pumps
<1>4. ASSUME NEW b \in Casters, Broadcast(b) \/ Casts(b)
      PROVE  Pumped'
  BY <1>4 DEF Broadcast, Casts, CastEnds, CastTo, Pumped, pumps
<1> QED
  BY <1>1, <1>2, <1>3, <1>4 DEF Next

LEMMA KeptHolds ==
  ASSUME IInv, Pumped, Kept, Next
  PROVE  Kept'
<1>1. ASSUME NEW c \in Clients, Connect(c)
      PROVE  Kept'
  BY <1>1 DEF Connect, IInv, TypeOK, Kept, hub
<1>2. ASSUME NEW c \in Clients, RunRegisters(c)
      PROVE  Kept'
  BY <1>2 DEF RunRegisters, Receive, Free, IInv, TypeOK, Kept
<1>3. ASSUME NEW c \in Clients, RunUnregisters(c)
      PROVE  Kept'
  BY <1>3 DEF RunUnregisters, Receive, Free, IInv, TypeOK, Kept
<1>4. ASSUME NEW c \in Clients, Connection(c)
      PROVE  Kept'
  BY <1>4 DEF Connection, StartPumps, WriterLeaves, ReaderFails, ReaderSeesDone,
     ReaderCloses, IInv, TypeOK, Kept, hub
<1>5. ASSUME NEW c \in Clients, Break(c) \/ Write(c)
      PROVE  Kept'
  BY <1>5 DEF Break, Write, Kept, hub, pumps
<1>6. CASE RunAdds
  BY <1>6 DEF RunAdds, Locked, IInv, TypeOK, Loop, Kept, pumps
<1>7. CASE RunRemoves
  <2>1. run.client \in clients => send' = [send EXCEPT ![run.client] = "closed"]
    BY <1>7, ShutsOnce DEF RunRemoves, IInv
  <2> QED
    BY <1>7, <2>1 DEF RunRemoves, Locked, IInv, TypeOK, Loop, Kept, pumps
<1>8. CASE RunLocks \/ RunExits \/ Close \/ CloseLocks
  BY <1>8 DEF RunLocks, RunExits, Close, CloseLocks, Free, Kept, pumps
<1>9. CASE CloseDrains
  <2>1. send' = [c \in Clients |-> IF c \in clients THEN "closed" ELSE send[c]]
    BY <1>9, ShutsOnce DEF CloseDrains, Drain, IInv
  <2> QED
    BY <1>9, <2>1 DEF CloseDrains, Drain, Kept, pumps
<1>10. ASSUME NEW b \in Casters, Broadcast(b) \/ Casts(b)
       PROVE  Kept'
  BY <1>10 DEF Broadcast, Casts, CastEnds, CastTo, Kept, hub, pumps
<1> QED
  BY <1>1, <1>2, <1>3, <1>4, <1>5, <1>6, <1>7, <1>8, <1>9, <1>10
     DEF Next, Serves, Turns, Closes

LEMMA LeftHolds ==
  ASSUME IInv, Pumped, Left, Next
  PROVE  Left'
<1>1. ASSUME NEW c \in Clients, RunRegisters(c)
      PROVE  Left'
  <2>1. reader[c] = "idle"
    BY <1>1 DEF RunRegisters, Pumped
  <2> QED
    BY <1>1, <2>1 DEF RunRegisters, Receive, Free, Left
<1>2. ASSUME NEW c \in Clients, RunUnregisters(c)
      PROVE  Left'
  BY <1>2 DEF RunUnregisters, Receive, Free, IInv, TypeOK, Left
<1>3. ASSUME NEW c \in Clients, Connect(c) \/ Break(c) \/ Write(c)
      PROVE  Left'
  BY <1>3 DEF Connect, Break, Write, Left, hub, pumps
<1>4. ASSUME NEW c \in Clients, Connection(c)
      PROVE  Left'
  BY <1>4 DEF Connection, StartPumps, WriterLeaves, ReaderFails, ReaderSeesDone,
     ReaderCloses, IInv, TypeOK, Left, hub
<1>5. CASE RunAdds
  BY <1>5 DEF RunAdds, Locked, Free, IInv, TypeOK, Loop, Left, pumps
<1>6. CASE RunRemoves
  BY <1>6 DEF RunRemoves, Locked, Free, IInv, TypeOK, Loop, Left, pumps
<1>7. CASE RunLocks \/ RunExits \/ Close \/ CloseLocks
  BY <1>7 DEF RunLocks, RunExits, Close, CloseLocks, Free, Left, pumps
<1>8. CASE CloseDrains
  BY <1>8 DEF CloseDrains, Drain, Left, pumps
<1>9. ASSUME NEW b \in Casters, Broadcast(b) \/ Casts(b)
      PROVE  Left'
  BY <1>9 DEF Broadcast, Casts, CastEnds, CastTo, Left, hub, pumps
<1> QED
  BY <1>1, <1>2, <1>3, <1>4, <1>5, <1>6, <1>7, <1>8, <1>9
     DEF Next, Serves, Turns, Closes

(***************************************************************************)
(* At rest the writers are the registered clients: a client that is        *)
(* registered has its pumps and neither has left, and one whose writer     *)
(* writes has an open channel, which Run has registered and not removed.   *)
(***************************************************************************)
LEMMA WritersAreClients ==
  ASSUME IInv, GInv, AtRest
  PROVE  Writing = clients
<1>1. ASSUME NEW c \in Clients, writer[c] = "writing"
      PROVE  c \in clients
  BY <1>1 DEF GInv, Pumped, Kept, AtRest, Free
<1>2. ASSUME NEW c \in clients
      PROVE  c \in Clients /\ writer[c] = "writing"
  <2>1. c \in Clients
    BY <1>2 DEF IInv, TypeOK
  <2>2. handler[c] = "done"
    BY <1>2, <2>1 DEF IInv, TypeOK, Waiting, AtRest
  <2>3. reader[c] = "reading" /\ conn[c] = "up"
    BY <1>2, <2>1, <2>2 DEF GInv, Pumped, Left, AtRest, Free
  <2> QED
    BY <2>1, <2>2, <2>3 DEF IInv, TypeOK, GInv, Pumped
<1> QED
  BY <1>1, <1>2 DEF Writing

(***************************************************************************)
(* Whenever no connection is being made or ended, the gauge is the number  *)
(* of clients (socket.go: "the gauge is decremented exactly once"), for    *)
(* any number of connections, on whichever of its ways each one ended.     *)
(***************************************************************************)
THEOREM GaugeIsRight == Spec => []GaugeAgrees
<1>1. Init => GInv
  <2> SUFFICES ASSUME Init PROVE GInv
    OBVIOUS
  <2>1. Writing = {}
    BY DEF Init, Writing
  <2>2. Counted
    BY <2>1, FS_EmptySet DEF Init, Counted
  <2> QED
    BY <2>2 DEF Init, GInv, Pumped, Kept, Left
<1>2. IInv /\ GInv /\ [Next]_vars => GInv'
  <2> SUFFICES ASSUME IInv, GInv, [Next]_vars PROVE GInv'
    OBVIOUS
  <2>1. CASE UNCHANGED vars
    BY <2>1 DEF vars, GInv, Counted, Writing, Pumped, Kept, Left
  <2>2. CASE Next
    BY <2>2, CountHolds, PumpedHolds, KeptHolds, LeftHolds DEF GInv
  <2> QED
    BY <2>1, <2>2
<1>3. IInv /\ GInv => GaugeAgrees
  BY WritersAreClients DEF GaugeAgrees, GInv, Counted
<1> QED
  BY <1>1, <1>2, <1>3, HubInvariant, PTL DEF Spec
=============================================================================
