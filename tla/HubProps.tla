------------------------------- MODULE HubProps -------------------------------
(***************************************************************************)
(* What the hub promises.                                                  *)
(***************************************************************************)
EXTENDS Hub, FiniteSets

(***************************************************************************)
(* No channel is closed twice, whatever Run, Close and a ReadPump that     *)
(* leaves do at once: the panic would end the platform (Run's Unregister,  *)
(* Close).                                                                 *)
(***************************************************************************)
NoPanic == \A c \in Clients : send[c] # "panic"

(***************************************************************************)
(* What a broadcast has before it is open for as long as it holds RLock:   *)
(* the recover in safeSend is never needed, and no client that is being    *)
(* served misses a message because its channel was closed under the        *)
(* broadcast (Broadcast, safeSend).                                        *)
(***************************************************************************)
SendsFindOpen == \A b \in Casters : \A c \in cast[b].todo : send[c] = "open"

(***************************************************************************)
(* The gauge agrees with the set of clients whenever the hub is at rest:   *)
(* no client is being added or removed and every pump that is to leave has *)
(* left (socket.go: "the gauge is decremented exactly once").              *)
(***************************************************************************)
AtRest ==
  /\ ~done
  /\ run = Free
  /\ \A c \in Clients :
       /\ handler[c] # "registered"
       /\ reader[c] \in {"idle", "done"} \/ (reader[c] = "reading" /\ conn[c] = "up")
       /\ ~(writer[c] = "writing" /\ send[c] = "closed")

GaugeAgrees == AtRest => gauge = Cardinality(clients)

(***************************************************************************)
(* Run, Close, handlers, broadcasts and pumps make progress; peers need    *)
(* not connect, read or leave.                                             *)
(***************************************************************************)
Fairness ==
  /\ \A c \in Clients : /\ WF_vars(StartPumps(c)) /\ WF_vars(WriterLeaves(c))
                        /\ WF_vars(ReaderFails(c)) /\ WF_vars(ReaderCloses(c))
                        /\ WF_vars(RunRegisters(c)) /\ WF_vars(RunUnregisters(c))
  /\ WF_vars(Turns) /\ WF_vars(Closes)
  /\ \A b \in Casters : WF_vars(Casts(b))

FairSpec == Spec /\ Fairness

(***************************************************************************)
(* A client whose peer is gone is forgotten, however slowly the other      *)
(* peers read and however much is broadcast meanwhile (ReadPump, Run).     *)
(***************************************************************************)
Forgotten ==
  \A c \in Clients :
    (c \in clients /\ conn[c] # "up") ~> (c \notin clients \/ done)

(***************************************************************************)
(* A connection is admitted in the end, under the same load, unless the    *)
(* hub is closed (HandleConnect, Run).                                     *)
(***************************************************************************)
Admitted ==
  \A c \in Clients : handler[c] = "register" ~> (c \in clients \/ done)
=============================================================================
