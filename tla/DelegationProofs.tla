--------------------------- MODULE DelegationProofs ---------------------------
(***************************************************************************)
(* Proofs that the delegation handlers keep their promises for any number  *)
(* of requests, keys and process restarts.  The strengthening ties each    *)
(* program point to what the rows of its delegation can be (Stage), and    *)
(* states what the unique index enforces (Unique).                         *)
(***************************************************************************)
EXTENDS DelegationProps, TLAPS

Held == Live \cup Ended

Unique ==
  \A d, e \in Ids :
    key[d] = key[e] /\ key[d] # NoKey /\ row[d] \in Held /\ row[e] \in Held => d = e

Stage(d) ==
  /\ pc[d] = "new" => key[d] = NoKey
  /\ pc[d] \in {"lookup", "release"} => key[d] # NoKey
  /\ pc[d] \in {"new", "lookup", "release", "insert"} => row[d] = "none"
  /\ pc[d] \in {"requery", "reply", "begin"} => row[d] \in {"none", "pending"}
  /\ pc[d] \in (InFlight \ {"begin"}) \cup {"fail", "store", "complete"}
       => row[d] \in {"none", "dispatched"}
  /\ pc[d] = "logfail" => row[d] \in {"none", "failed", "deleted"}
  /\ pc[d] = "report" => row[d] = "dispatched"
  /\ pc[d] = "logreport" => row[d] = "completed"
  /\ pc[d] = "end" => row[d] \notin Live
  /\ pc[d] \in {"new", "report", "logreport", "fail", "logfail", "store"}
               \cup Serving \cup InFlight
       => result[d] = "none"
  /\ pc[d] = "complete" => result[d] \in {"none", "completed"}
  /\ result[d] = "completed" => row[d] \in {"none", "dispatched", "completed"}
  /\ result[d] = "failed" => row[d] \in {"none", "failed", "deleted"}

Stages == \A d \in Ids : Stage(d)

IInv == TypeOK /\ Unique /\ Stages

-----------------------------------------------------------------------------
LEMMA InitInv == Init => IInv
  BY DelegationAssumption
     DEF Init, IInv, TypeOK, Unique, Stages, Stage, Held, Live, Ended, InFlight, Ending, Serving, Reporting

LEMMA NextTyped ==
  ASSUME TypeOK, [Next]_vars
  PROVE  TypeOK'
<1> USE DelegationAssumption DEF TypeOK, Live, Ended, InFlight, Ending, Serving, Reporting
<1>1. ASSUME NEW d \in Ids, Lookup(d) PROVE TypeOK'
  BY <1>1 DEF Lookup, At, Goto
<1>2. ASSUME NEW d \in Ids, Release(d) PROVE TypeOK'
  BY <1>2 DEF Release, At, Goto, Rows
<1>3. ASSUME NEW d \in Ids, Insert(d) PROVE TypeOK'
  BY <1>3 DEF Insert, At, Goto, Rows
<1>4. ASSUME NEW d \in Ids, Requery(d) PROVE TypeOK'
  BY <1>4 DEF Requery, At, Goto
<1>5. ASSUME NEW d \in Ids, Reply(d) PROVE TypeOK'
  BY <1>5 DEF Reply, At, Goto
<1>6. ASSUME NEW d \in Ids, Begin(d) PROVE TypeOK'
  BY <1>6 DEF Begin, At, Goto, SetStatus
<1>7. ASSUME NEW d \in Ids, Send(d) PROVE TypeOK'
  BY <1>7 DEF Send, At, Goto
<1>8. ASSUME NEW d \in Ids, Retry(d) PROVE TypeOK'
  BY <1>8 DEF Retry, At, Goto
<1>9. ASSUME NEW d \in Ids, Fail(d) PROVE TypeOK'
  BY <1>9 DEF Fail, At, Goto, SetStatus
<1>10. ASSUME NEW d \in Ids, LogFailure(d) PROVE TypeOK'
  BY <1>10 DEF LogFailure, At, Goto, LogResult
<1>11. ASSUME NEW d \in Ids, Store(d) PROVE TypeOK'
  BY <1>11 DEF Store, At, Goto, LogResult
<1>12. ASSUME NEW d \in Ids, Complete(d) PROVE TypeOK'
  BY <1>12 DEF Complete, At, Goto, SetStatus
<1>13. ASSUME NEW d \in Ids, Record(d) PROVE TypeOK'
  BY <1>13 DEF Record, At, Goto
<1>14. ASSUME NEW d \in Ids, UpdateStatus(d) PROVE TypeOK'
  BY <1>14 DEF UpdateStatus, At, Goto, SetStatus
<1>15. ASSUME NEW d \in Ids, LogReport(d) PROVE TypeOK'
  BY <1>15 DEF LogReport, At, Goto
<1>16. ASSUME NEW d \in Ids, Answered(d) PROVE TypeOK'
  BY <1>16 DEF Answered, At, Goto
<1>17. ASSUME NEW d \in Ids, Broken(d) PROVE TypeOK'
  BY <1>17 DEF Broken, At, Goto
<1>18. ASSUME NEW d \in Ids, Disconnect(d) PROVE TypeOK'
  BY <1>18 DEF Disconnect
<1>19. ASSUME NEW d \in Ids, ContextEnds(d) PROVE TypeOK'
  BY <1>19 DEF ContextEnds
<1>20. ASSUME NEW d \in Ids, NEW k \in IdemKeys \cup {NoKey}, Delegate(d, k)
      PROVE TypeOK'
  BY <1>20 DEF Delegate, At, Goto
<1>21. CASE Crash
  BY <1>21 DEF Crash
<1>22. CASE UNCHANGED vars
  BY <1>22 DEF vars
<1>23. QED
  BY <1>1, <1>2, <1>3, <1>4, <1>5, <1>6, <1>7, <1>8, <1>9, <1>10, <1>11,
     <1>12, <1>13, <1>14, <1>15, <1>16, <1>17, <1>18, <1>19, <1>20, <1>21,
     <1>22
     DEF Next, Serves, Executes, Environment

-----------------------------------------------------------------------------
(***************************************************************************)
(* A step that records no new row and changes no key of a recorded one     *)
(* keeps the index unique.                                                 *)
(***************************************************************************)
LEMMA RowsKeep ==
  ASSUME Unique,
         \A e \in Ids : row'[e] \in Held => row[e] \in Held /\ key'[e] = key[e]
  PROVE  Unique'
  BY DEF Unique

LEMMA NextUnique ==
  ASSUME IInv, [Next]_vars
  PROVE  Unique'
<1> USE DEF IInv, TypeOK, Held, Live, Ended
<1>1. ASSUME NEW d \in Ids, Lookup(d) PROVE Unique'
  BY <1>1, RowsKeep DEF Lookup, At, Goto
<1>2. ASSUME NEW d \in Ids, Release(d) PROVE Unique'
  BY <1>2, RowsKeep DEF Release, At, Goto, Rows
<1>3. ASSUME NEW d \in Ids, Insert(d) PROVE Unique'
  <2>1. CASE row' = row
    BY <1>3, <2>1, RowsKeep DEF Insert
  <2>2. CASE /\ key[d] = NoKey \/ Rows(key[d]) = {}
             /\ row' = [row EXCEPT ![d] = "pending"]
    BY <1>3, <2>2 DEF Insert, Rows, Unique
  <2>3. QED
    BY <1>3, <2>1, <2>2 DEF Insert
<1>4. ASSUME NEW d \in Ids, Requery(d) PROVE Unique'
  BY <1>4, RowsKeep DEF Requery, At, Goto
<1>5. ASSUME NEW d \in Ids, Reply(d) PROVE Unique'
  BY <1>5, RowsKeep DEF Reply, At, Goto
<1>6. ASSUME NEW d \in Ids, Begin(d) PROVE Unique'
  BY <1>6, RowsKeep DEF Begin, At, Goto, SetStatus
<1>7. ASSUME NEW d \in Ids, Send(d) PROVE Unique'
  BY <1>7, RowsKeep DEF Send, At, Goto
<1>8. ASSUME NEW d \in Ids, Retry(d) PROVE Unique'
  BY <1>8, RowsKeep DEF Retry, At, Goto
<1>9. ASSUME NEW d \in Ids, Fail(d) PROVE Unique'
  BY <1>9, RowsKeep DEF Fail, At, Goto, SetStatus
<1>10. ASSUME NEW d \in Ids, LogFailure(d) PROVE Unique'
  BY <1>10, RowsKeep DEF LogFailure, At, Goto, LogResult
<1>11. ASSUME NEW d \in Ids, Store(d) PROVE Unique'
  BY <1>11, RowsKeep DEF Store, At, Goto, LogResult
<1>12. ASSUME NEW d \in Ids, Complete(d) PROVE Unique'
  BY <1>12, RowsKeep DEF Complete, At, Goto, SetStatus
<1>13. ASSUME NEW d \in Ids, Record(d) PROVE Unique'
  BY <1>13 DEF Record, At, Goto, Unique, Stages, Stage
<1>14. ASSUME NEW d \in Ids, UpdateStatus(d) PROVE Unique'
  BY <1>14, RowsKeep DEF UpdateStatus, At, Goto, SetStatus
<1>15. ASSUME NEW d \in Ids, LogReport(d) PROVE Unique'
  BY <1>15, RowsKeep DEF LogReport, At, Goto
<1>16. ASSUME NEW d \in Ids, Answered(d) PROVE Unique'
  BY <1>16, RowsKeep DEF Answered, At, Goto
<1>17. ASSUME NEW d \in Ids, Broken(d) PROVE Unique'
  BY <1>17, RowsKeep DEF Broken, At, Goto
<1>18. ASSUME NEW d \in Ids, Disconnect(d) PROVE Unique'
  BY <1>18, RowsKeep DEF Disconnect
<1>19. ASSUME NEW d \in Ids, ContextEnds(d) PROVE Unique'
  BY <1>19, RowsKeep DEF ContextEnds
<1>20. ASSUME NEW d \in Ids, NEW k \in IdemKeys \cup {NoKey}, Delegate(d, k)
      PROVE Unique'
  BY <1>20, RowsKeep DEF Delegate, At, Goto, Stages, Stage
<1>21. CASE Crash
  BY <1>21 DEF Crash, Unique
<1>22. CASE UNCHANGED vars
  BY <1>22, RowsKeep DEF vars
<1>23. QED
  BY <1>1, <1>2, <1>3, <1>4, <1>5, <1>6, <1>7, <1>8, <1>9, <1>10, <1>11,
     <1>12, <1>13, <1>14, <1>15, <1>16, <1>17, <1>18, <1>19, <1>20, <1>21,
     <1>22
     DEF Next, Serves, Executes, Environment

-----------------------------------------------------------------------------
(***************************************************************************)
(* A step of one delegation leaves the stage of the others alone.          *)
(***************************************************************************)
LEMMA OthersKeep ==
  ASSUME NEW d \in Ids, Stages, Stage(d)',
         \A e \in Ids \ {d} : /\ pc'[e] = pc[e] /\ key'[e] = key[e]
                              /\ row'[e] = row[e] /\ result'[e] = result[e]
  PROVE  Stages'
  BY DEF Stages, Stage

LEMMA NextStages ==
  ASSUME IInv, [Next]_vars
  PROVE  Stages'
<1> USE DEF IInv, TypeOK
<1>1. ASSUME NEW d \in Ids, Lookup(d) PROVE Stages'
  <2>1. Stage(d)'
    BY <1>1
       DEF Lookup, At, Goto, Stages, Stage, Held, Live, Ended, InFlight,
           Ending, Serving, Reporting
  <2>2. QED
    BY <1>1, <2>1, OthersKeep DEF Lookup, At, Goto
<1>2. ASSUME NEW d \in Ids, Release(d) PROVE Stages'
  <2>1. ASSUME NEW e \in Ids PROVE Stage(e)'
    BY <1>2
       DEF Release, At, Goto, Rows, Stages, Stage, Held, Live, Ended,
           InFlight, Ending, Serving, Reporting
  <2>2. QED
    BY <2>1 DEF Stages
<1>3. ASSUME NEW d \in Ids, Insert(d) PROVE Stages'
  <2>1. Stage(d)'
    BY <1>3
       DEF Insert, At, Goto, Rows, Stages, Stage, Held, Live, Ended, InFlight,
           Ending, Serving, Reporting
  <2>2. QED
    BY <1>3, <2>1, OthersKeep DEF Insert, At, Goto, Rows
<1>4. ASSUME NEW d \in Ids, Requery(d) PROVE Stages'
  <2>1. Stage(d)'
    BY <1>4
       DEF Requery, At, Goto, Stages, Stage, Held, Live, Ended, InFlight,
           Ending, Serving, Reporting
  <2>2. QED
    BY <1>4, <2>1, OthersKeep DEF Requery, At, Goto
<1>5. ASSUME NEW d \in Ids, Reply(d) PROVE Stages'
  <2>1. Stage(d)'
    BY <1>5
       DEF Reply, At, Goto, Stages, Stage, Held, Live, Ended, InFlight,
           Ending, Serving, Reporting
  <2>2. QED
    BY <1>5, <2>1, OthersKeep DEF Reply, At, Goto
<1>6. ASSUME NEW d \in Ids, Begin(d) PROVE Stages'
  <2>1. Stage(d)'
    BY <1>6
       DEF Begin, At, Goto, SetStatus, Stages, Stage, Held, Live, Ended,
           InFlight, Ending, Serving, Reporting
  <2>2. QED
    BY <1>6, <2>1, OthersKeep DEF Begin, At, Goto, SetStatus
<1>7. ASSUME NEW d \in Ids, Send(d) PROVE Stages'
  <2>1. Stage(d)'
    BY <1>7
       DEF Send, At, Goto, Stages, Stage, Held, Live, Ended, InFlight, Ending,
           Serving, Reporting
  <2>2. QED
    BY <1>7, <2>1, OthersKeep DEF Send, At, Goto
<1>8. ASSUME NEW d \in Ids, Retry(d) PROVE Stages'
  <2>1. Stage(d)'
    BY <1>8
       DEF Retry, At, Goto, Stages, Stage, Held, Live, Ended, InFlight,
           Ending, Serving, Reporting
  <2>2. QED
    BY <1>8, <2>1, OthersKeep DEF Retry, At, Goto
<1>9. ASSUME NEW d \in Ids, Fail(d) PROVE Stages'
  <2>1. Stage(d)'
    BY <1>9
       DEF Fail, At, Goto, SetStatus, Stages, Stage, Held, Live, Ended,
           InFlight, Ending, Serving, Reporting
  <2>2. QED
    BY <1>9, <2>1, OthersKeep DEF Fail, At, Goto, SetStatus
<1>10. ASSUME NEW d \in Ids, LogFailure(d) PROVE Stages'
  <2>1. Stage(d)'
    BY <1>10
       DEF LogFailure, At, Goto, LogResult, Stages, Stage, Held, Live, Ended,
           InFlight, Ending, Serving, Reporting
  <2>2. QED
    BY <1>10, <2>1, OthersKeep DEF LogFailure, At, Goto, LogResult
<1>11. ASSUME NEW d \in Ids, Store(d) PROVE Stages'
  <2>1. Stage(d)'
    BY <1>11
       DEF Store, At, Goto, LogResult, Stages, Stage, Held, Live, Ended,
           InFlight, Ending, Serving, Reporting
  <2>2. QED
    BY <1>11, <2>1, OthersKeep DEF Store, At, Goto, LogResult
<1>12. ASSUME NEW d \in Ids, Complete(d) PROVE Stages'
  <2>1. Stage(d)'
    BY <1>12
       DEF Complete, At, Goto, SetStatus, Stages, Stage, Held, Live, Ended,
           InFlight, Ending, Serving, Reporting
  <2>2. QED
    BY <1>12, <2>1, OthersKeep DEF Complete, At, Goto, SetStatus
<1>13. ASSUME NEW d \in Ids, Record(d) PROVE Stages'
  <2>1. Stage(d)'
    BY <1>13
       DEF Record, At, Goto, Stages, Stage, Held, Live, Ended, InFlight,
           Ending, Serving, Reporting
  <2>2. QED
    BY <1>13, <2>1, OthersKeep DEF Record, At, Goto
<1>14. ASSUME NEW d \in Ids, UpdateStatus(d) PROVE Stages'
  <2>1. Stage(d)'
    BY <1>14
       DEF UpdateStatus, At, Goto, SetStatus, Stages, Stage, Held, Live,
           Ended, InFlight, Ending, Serving, Reporting
  <2>2. QED
    BY <1>14, <2>1, OthersKeep DEF UpdateStatus, At, Goto, SetStatus
<1>15. ASSUME NEW d \in Ids, LogReport(d) PROVE Stages'
  <2>1. Stage(d)'
    BY <1>15
       DEF LogReport, At, Goto, Stages, Stage, Held, Live, Ended, InFlight,
           Ending, Serving, Reporting
  <2>2. QED
    BY <1>15, <2>1, OthersKeep DEF LogReport, At, Goto
<1>16. ASSUME NEW d \in Ids, Answered(d) PROVE Stages'
  <2>1. Stage(d)'
    BY <1>16
       DEF Answered, At, Goto, Stages, Stage, Held, Live, Ended, InFlight,
           Ending, Serving, Reporting
  <2>2. QED
    BY <1>16, <2>1, OthersKeep DEF Answered, At, Goto
<1>17. ASSUME NEW d \in Ids, Broken(d) PROVE Stages'
  <2>1. Stage(d)'
    BY <1>17
       DEF Broken, At, Goto, Stages, Stage, Held, Live, Ended, InFlight,
           Ending, Serving, Reporting
  <2>2. QED
    BY <1>17, <2>1, OthersKeep DEF Broken, At, Goto
<1>18. ASSUME NEW d \in Ids, Disconnect(d) PROVE Stages'
  <2>1. Stage(d)'
    BY <1>18
       DEF Disconnect, Stages, Stage, Held, Live, Ended, InFlight, Ending,
           Serving, Reporting
  <2>2. QED
    BY <1>18, <2>1, OthersKeep DEF Disconnect
<1>19. ASSUME NEW d \in Ids, ContextEnds(d) PROVE Stages'
  <2>1. Stage(d)'
    BY <1>19
       DEF ContextEnds, Stages, Stage, Held, Live, Ended, InFlight, Ending,
           Serving, Reporting
  <2>2. QED
    BY <1>19, <2>1, OthersKeep DEF ContextEnds
<1>20. ASSUME NEW d \in Ids, NEW k \in IdemKeys \cup {NoKey}, Delegate(d, k)
      PROVE Stages'
  <2>1. Stage(d)'
    BY <1>20
       DEF Delegate, At, Goto, Stages, Stage, Held, Live, Ended, InFlight,
           Ending, Serving, Reporting
  <2>2. QED
    BY <1>20, <2>1, OthersKeep DEF Delegate, At, Goto
<1>21. CASE Crash
  BY <1>21
     DEF Crash, Stages, Stage, Held, Live, Ended, InFlight, Ending, Serving,
         Reporting
<1>22. CASE UNCHANGED vars
  BY <1>22 DEF vars, Stages, Stage
<1>23. QED
  BY <1>1, <1>2, <1>3, <1>4, <1>5, <1>6, <1>7, <1>8, <1>9, <1>10, <1>11,
     <1>12, <1>13, <1>14, <1>15, <1>16, <1>17, <1>18, <1>19, <1>20, <1>21,
     <1>22
     DEF Next, Serves, Executes, Environment

LEMMA NextInv == IInv /\ [Next]_vars => IInv'
  BY NextTyped, NextUnique, NextStages DEF IInv

LEMMA Inductive == Spec => []IInv
  BY InitInv, NextInv, PTL DEF Spec

-----------------------------------------------------------------------------
(***************************************************************************)
(* Every reachable state of the delegation handlers is well typed.         *)
(***************************************************************************)
THEOREM DelegationTyped == Spec => []TypeOK
<1>1. IInv => TypeOK
  BY DEF IInv
<1>2. QED
  BY <1>1, Inductive, PTL

(***************************************************************************)
(* At most one recorded delegation per key is under way: those under way   *)
(* have live rows, and the index lets one row hold the key.                *)
(***************************************************************************)
THEOREM OneExecutionPerKey == Spec => []OneAtATime
<1>1. IInv => OneAtATime
  BY DEF IInv, TypeOK, Unique, Stages, Stage, OneAtATime, Held, Live, Ended,
     InFlight, Ending, Serving, Reporting
<1>2. QED
  BY <1>1, Inductive, PTL

(***************************************************************************)
(* The delegate row and the delegate_result row never contradict each      *)
(* other.                                                                  *)
(***************************************************************************)
THEOREM ResultsAgree == Spec => []ResultAgrees
<1>1. IInv => ResultAgrees
  BY DEF IInv, Stages, Stage, ResultAgrees
<1>2. QED
  BY <1>1, Inductive, PTL

(***************************************************************************)
(* No execution ends with its row still pending or dispatched.             *)
(***************************************************************************)
THEOREM EndsAreRecorded == Spec => []EndIsRecorded
<1>1. IInv => EndIsRecorded
  BY DEF IInv, Stages, Stage, EndIsRecorded
<1>2. QED
  BY <1>1, Inductive, PTL

-----------------------------------------------------------------------------
(***************************************************************************)
(* The refinement.  A step that changes no status shows no change of the   *)
(* slots; Delegate gives a key only to what is not recorded yet.           *)
(***************************************************************************)
LEMMA SlotsStutter ==
  ASSUME IInv,
         \A e \in Ids : row'[e] = row[e] /\ (row[e] = "none" \/ key'[e] = key[e])
  PROVE  UNCHANGED <<slotPhase, slotKey>>
  BY DEF IInv, TypeOK, slotPhase, slotKey

\* One delegation's row moves on from s to t; its phase with it.
LEMMA PhaseMoves ==
  ASSUME IInv, NEW d \in Ids, NEW s, row' = [row EXCEPT ![d] = s], key' = key
  PROVE  /\ slotPhase' = [slotPhase EXCEPT ![d] = PhaseOf(s)]
         /\ row[d] # "none" /\ s # "none" => slotKey' = slotKey
         /\ row[d] = "none" /\ s # "none" => slotKey' = [slotKey EXCEPT ![d] = key[d]]
  BY DEF IInv, TypeOK, slotPhase, slotKey

LEMMA InsertClaims ==
  ASSUME IInv, NEW d \in Ids, Insert(d)
  PROVE  [Slots!SlotNext]_<<slotPhase, slotKey>>
<1>1. CASE UNCHANGED row
  BY <1>1, SlotsStutter DEF Insert
<1>2. CASE /\ key[d] = NoKey \/ Rows(key[d]) = {}
           /\ row' = [row EXCEPT ![d] = "pending"]
  <2>1. row[d] = "none" /\ key' = key
    BY <1>2 DEF Insert, At, IInv, Stages, Stage
  <2>2. /\ slotPhase' = [slotPhase EXCEPT ![d] = "live"]
        /\ slotKey' = [slotKey EXCEPT ![d] = key[d]]
    BY <1>2, <2>1, PhaseMoves DEF PhaseOf, Live
  <2>3. slotPhase[d] = "none"
    BY <2>1 DEF slotPhase, PhaseOf, Live
  <2>4. ASSUME key[d] # NoKey, NEW e \in Ids PROVE ~Slots!Holds(e, key[d])
    BY <1>2, <2>4
       DEF Slots!Holds, slotKey, slotPhase, PhaseOf, Rows, Live, Ended, IInv,
           TypeOK
  <2>5. Slots!Claim(d, key[d])
    BY <2>2, <2>3, <2>4 DEF Slots!Claim
  <2>6. QED
    BY <2>5 DEF Slots!SlotNext, IInv, TypeOK
<1>3. QED
  BY <1>1, <1>2 DEF Insert

LEMMA RecordClaims ==
  ASSUME IInv, NEW d \in Ids, Record(d)
  PROVE  [Slots!SlotNext]_<<slotPhase, slotKey>>
<1>1. row[d] = "none" /\ key[d] = NoKey /\ key' = key
  BY DEF Record, At, IInv, Stages, Stage
<1>2. /\ slotPhase' = [slotPhase EXCEPT ![d] = "live"]
      /\ slotKey' = [slotKey EXCEPT ![d] = NoKey]
  BY <1>1, PhaseMoves DEF Record, PhaseOf, Live
<1>3. slotPhase[d] = "none"
  BY <1>1 DEF slotPhase, PhaseOf, Live
<1>4. QED
  BY <1>2, <1>3 DEF Slots!SlotNext, Slots!Claim

\* A status written to a live row finishes its delegation; to no row, nothing.
LEMMA StatusFinishes ==
  ASSUME IInv, NEW d \in Ids, NEW s \in Ended, SetStatus(d, s), key' = key,
         row[d] \in {"none", "dispatched"}
  PROVE  [Slots!SlotNext]_<<slotPhase, slotKey>>
<1>1. CASE row[d] = "none"
  BY <1>1, SlotsStutter DEF SetStatus, IInv, TypeOK
<1>2. CASE row[d] = "dispatched"
  <2>1. row' = [row EXCEPT ![d] = s]
    BY <1>2 DEF SetStatus
  <2>2. slotPhase' = [slotPhase EXCEPT ![d] = PhaseOf(s)] /\ slotKey' = slotKey
    BY <1>2, <2>1, PhaseMoves DEF Ended
  <2>3. slotPhase[d] = "live"
    BY <1>2 DEF slotPhase, PhaseOf, Live
  <2>4. PhaseOf(s) \in {"done", "failed"}
    BY DEF PhaseOf, Live, Ended
  <2>5. Slots!Finish(d, PhaseOf(s))
    BY <2>2, <2>3 DEF Slots!Finish
  <2>6. QED
    BY <2>4, <2>5 DEF Slots!SlotNext
<1>3. QED
  BY <1>1, <1>2

LEMMA ReleaseReleases ==
  ASSUME IInv, NEW d \in Ids, Release(d)
  PROVE  [Slots!SlotNext]_<<slotPhase, slotKey>>
<1>1. CASE d \in gone \/ \A e \in Rows(key[d]) : row[e] # "failed"
  BY <1>1, SlotsStutter DEF Release, IInv, TypeOK
<1>2. CASE d \notin gone /\ \E e \in Rows(key[d]) : row[e] = "failed"
  <2>1. PICK e \in Rows(key[d]) : row[e] = "failed"
    BY <1>2
  <2>2. key[d] # NoKey /\ e \in Ids /\ key[e] = key[d] /\ key' = key
    BY DEF Release, At, Rows, IInv, Stages, Stage
  <2>3. \A f \in Rows(key[d]) : f = e
    BY <2>1, <2>2 DEF IInv, Unique, Rows, Held
  <2>4. row' = [row EXCEPT ![e] = "deleted"]
    BY <1>2, <2>1, <2>2, <2>3 DEF Release, IInv, TypeOK
  <2>5. slotPhase' = [slotPhase EXCEPT ![e] = "released"] /\ slotKey' = slotKey
    BY <2>1, <2>2, <2>4, PhaseMoves DEF PhaseOf, Live
  <2>6. slotPhase[e] = "failed" /\ slotKey[e] # NoKey
    BY <2>1, <2>2 DEF slotPhase, slotKey, PhaseOf, Live
  <2>7. QED
    BY <2>2, <2>5, <2>6 DEF Slots!SlotNext, Slots!Release
<1>3. QED
  BY <1>1, <1>2

LEMMA BeginStutters ==
  ASSUME IInv, NEW d \in Ids, Begin(d)
  PROVE  [Slots!SlotNext]_<<slotPhase, slotKey>>
<1>1. row[d] \in {"none", "pending"} /\ key' = key
  BY DEF Begin, At, IInv, Stages, Stage
<1>2. CASE row[d] = "none"
  BY <1>1, <1>2, SlotsStutter DEF Begin, SetStatus, IInv, TypeOK
<1>3. CASE row[d] = "pending"
  <2>1. row' = [row EXCEPT ![d] = "dispatched"]
    BY <1>3 DEF Begin, SetStatus
  <2>2. slotPhase' = [slotPhase EXCEPT ![d] = "live"] /\ slotKey' = slotKey
    BY <1>1, <1>3, <2>1, PhaseMoves DEF PhaseOf, Live
  <2>3. slotPhase[d] = "live"
    BY <1>3 DEF slotPhase, PhaseOf, Live
  <2>4. slotPhase' = slotPhase
    BY <2>2, <2>3 DEF slotPhase
  <2>5. QED
    BY <2>2, <2>4
<1>4. QED
  BY <1>1, <1>2, <1>3

\* A restart forgets every key and leaves the statuses as they are.
LEMMA CrashForgets ==
  ASSUME IInv, Crash
  PROVE  [Slots!SlotNext]_<<slotPhase, slotKey>>
<1>1. slotPhase' = slotPhase /\ slotKey' = [d \in Ids |-> NoKey]
  BY DEF Crash, slotPhase, slotKey
<1>2. QED
  BY <1>1 DEF Slots!SlotNext, Slots!Forget

LEMMA StepRefines ==
  ASSUME IInv, [Next]_vars
  PROVE  [Slots!SlotNext]_<<slotPhase, slotKey>>
<1>1. ASSUME NEW d \in Ids, Lookup(d)
      PROVE [Slots!SlotNext]_<<slotPhase, slotKey>>
  BY <1>1, SlotsStutter DEF Lookup, At, Goto
<1>2. ASSUME NEW d \in Ids, Release(d)
      PROVE [Slots!SlotNext]_<<slotPhase, slotKey>>
  BY <1>2, ReleaseReleases
<1>3. ASSUME NEW d \in Ids, Insert(d)
      PROVE [Slots!SlotNext]_<<slotPhase, slotKey>>
  BY <1>3, InsertClaims
<1>4. ASSUME NEW d \in Ids, Requery(d)
      PROVE [Slots!SlotNext]_<<slotPhase, slotKey>>
  BY <1>4, SlotsStutter DEF Requery, At, Goto
<1>5. ASSUME NEW d \in Ids, Reply(d)
      PROVE [Slots!SlotNext]_<<slotPhase, slotKey>>
  BY <1>5, SlotsStutter DEF Reply, At, Goto
<1>6. ASSUME NEW d \in Ids, Begin(d)
      PROVE [Slots!SlotNext]_<<slotPhase, slotKey>>
  BY <1>6, BeginStutters
<1>7. ASSUME NEW d \in Ids, Send(d)
      PROVE [Slots!SlotNext]_<<slotPhase, slotKey>>
  BY <1>7, SlotsStutter DEF Send, At, Goto
<1>8. ASSUME NEW d \in Ids, Retry(d)
      PROVE [Slots!SlotNext]_<<slotPhase, slotKey>>
  BY <1>8, SlotsStutter DEF Retry, At, Goto
<1>9. ASSUME NEW d \in Ids, Fail(d)
      PROVE [Slots!SlotNext]_<<slotPhase, slotKey>>
  BY <1>9, StatusFinishes DEF Fail, At, IInv, Stages, Stage, Ended
<1>10. ASSUME NEW d \in Ids, LogFailure(d)
      PROVE [Slots!SlotNext]_<<slotPhase, slotKey>>
  BY <1>10, SlotsStutter DEF LogFailure, At, Goto, LogResult
<1>11. ASSUME NEW d \in Ids, Store(d)
      PROVE [Slots!SlotNext]_<<slotPhase, slotKey>>
  BY <1>11, SlotsStutter DEF Store, At, Goto, LogResult
<1>12. ASSUME NEW d \in Ids, Complete(d)
      PROVE [Slots!SlotNext]_<<slotPhase, slotKey>>
  BY <1>12, StatusFinishes DEF Complete, At, IInv, Stages, Stage, Ended
<1>13. ASSUME NEW d \in Ids, Record(d)
      PROVE [Slots!SlotNext]_<<slotPhase, slotKey>>
  BY <1>13, RecordClaims
<1>14. ASSUME NEW d \in Ids, UpdateStatus(d)
      PROVE [Slots!SlotNext]_<<slotPhase, slotKey>>
  BY <1>14, StatusFinishes DEF UpdateStatus, At, IInv, Stages, Stage, Ended
<1>15. ASSUME NEW d \in Ids, LogReport(d)
      PROVE [Slots!SlotNext]_<<slotPhase, slotKey>>
  BY <1>15, SlotsStutter DEF LogReport, At, Goto
<1>16. ASSUME NEW d \in Ids, Answered(d)
      PROVE [Slots!SlotNext]_<<slotPhase, slotKey>>
  BY <1>16, SlotsStutter DEF Answered, At, Goto
<1>17. ASSUME NEW d \in Ids, Broken(d)
      PROVE [Slots!SlotNext]_<<slotPhase, slotKey>>
  BY <1>17, SlotsStutter DEF Broken, At, Goto
<1>18. ASSUME NEW d \in Ids, Disconnect(d)
      PROVE [Slots!SlotNext]_<<slotPhase, slotKey>>
  BY <1>18, SlotsStutter DEF Disconnect
<1>19. ASSUME NEW d \in Ids, ContextEnds(d)
      PROVE [Slots!SlotNext]_<<slotPhase, slotKey>>
  BY <1>19, SlotsStutter DEF ContextEnds
<1>20. ASSUME NEW d \in Ids, NEW k \in IdemKeys \cup {NoKey}, Delegate(d, k)
      PROVE [Slots!SlotNext]_<<slotPhase, slotKey>>
  BY <1>20, SlotsStutter DEF Delegate, At, IInv, TypeOK, Stages, Stage
<1>21. CASE Crash
  BY <1>21, CrashForgets
<1>22. CASE UNCHANGED vars
  BY <1>22, SlotsStutter DEF vars
<1>23. QED
  BY <1>1, <1>2, <1>3, <1>4, <1>5, <1>6, <1>7, <1>8, <1>9, <1>10, <1>11,
     <1>12, <1>13, <1>14, <1>15, <1>16, <1>17, <1>18, <1>19, <1>20, <1>21,
     <1>22
     DEF Next, Serves, Executes, Environment

(***************************************************************************)
(* The handlers implement idempotency slots: a key is given up by a failed *)
(* delegation only, and held by one delegation at a time.                  *)
(***************************************************************************)
THEOREM SlotsAreImplemented == Spec => SlotsHold
<1>1. Init => Slots!SlotInit
  BY DEF Init, Slots!SlotInit, slotPhase, slotKey, PhaseOf, Live
<1>2. IInv /\ [Next]_vars => [Slots!SlotNext]_<<slotPhase, slotKey>>
  BY StepRefines
<1>3. QED
  BY <1>1, <1>2, Inductive, PTL DEF Spec, SlotsHold, Slots!SlotSpec
=============================================================================
