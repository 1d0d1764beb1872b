------------------------------ MODULE Delegation ------------------------------
(***************************************************************************)
(* Delegations: POST /delegate with its idempotency key, the goroutine     *)
(* that forwards the task and records how it ended, and the two endpoints  *)
(* with which an agent records a delegation it sends itself.               *)
(*                                                                         *)
(* A delegation is known by the uuid its request would mint; pc[d] runs    *)
(* through the request handler and on through the goroutine it starts.     *)
(*                                                                         *)
(*   row     : the status of its activity_logs row with method 'delegate'; *)
(*             "none" before the INSERT, "deleted" after the DELETE        *)
(*   key     : the idempotency key the request carries and its row stores  *)
(*   result  : its row with method 'delegate_result'                       *)
(*   gone    : requests in service whose client has disconnected (their    *)
(*             context is cancelled; every further statement in it fails)  *)
(*   expired : executions under way whose 30 minute context has ended      *)
(*   crashes : how often the platform process has restarted                *)
(***************************************************************************)
EXTENDS Naturals, FiniteSets

CONSTANTS
  Ids,         \* delegation ids (bound: one request each)
  IdemKeys,    \* idempotency keys
  NoKey,       \* the request carries no idempotency key
  MaxCrashes   \* restarts of the platform process (bound)

ASSUME DelegationAssumption ==
  /\ NoKey \notin IdemKeys
  /\ MaxCrashes \in Nat

VARIABLES pc, key, row, result, gone, expired, crashes

vars == <<pc, key, row, result, gone, expired, crashes>>

Serving == {"lookup", "release", "insert", "requery", "reply"}

InFlight == {"begin", "send1", "sent1", "pause", "send2", "sent2"}

Ending == {"fail", "logfail", "store", "complete"}

Reporting == {"report", "logreport"}

Live == {"pending", "dispatched"}

Ended == {"completed", "failed"}

TypeOK ==
  /\ pc \in [Ids -> Serving \cup InFlight \cup Ending \cup Reporting
                    \cup {"new", "hit", "end", "dead"}]
  /\ key \in [Ids -> IdemKeys \cup {NoKey}]
  /\ row \in [Ids -> Live \cup Ended \cup {"none", "deleted"}]
  /\ result \in [Ids -> Ended \cup {"none"}]
  /\ gone \subseteq Ids
  /\ expired \subseteq Ids
  /\ crashes \in 0..MaxCrashes

Init ==
  /\ pc = [d \in Ids |-> "new"]
  /\ key = [d \in Ids |-> NoKey]
  /\ row = [d \in Ids |-> "none"]
  /\ result = [d \in Ids |-> "none"]
  /\ gone = {}
  /\ expired = {}
  /\ crashes = 0

At(d, p) == pc[d] = p

Goto(d, p) == pc' = [pc EXCEPT ![d] = p]

\* The rows that carry key k; the partial unique index allows one.
Rows(k) == {e \in Ids : key[e] = k /\ row[e] \in Live \cup Ended}

\* updateDelegationStatus: UPDATE ... WHERE method = 'delegate' AND the id.
SetStatus(d, s) ==
  row' = [row EXCEPT ![d] = IF @ \in {"none", "deleted"} THEN @ ELSE s]

-----------------------------------------------------------------------------
(***************************************************************************)
(* POST /delegate.                                                         *)
(***************************************************************************)
Delegate(d, k) ==
  /\ At(d, "new")
  /\ key' = [key EXCEPT ![d] = k]
  /\ Goto(d, IF k = NoKey THEN "insert" ELSE "lookup")
  /\ UNCHANGED <<row, result, gone, expired, crashes>>

\* SELECT ... WHERE idempotency_key; an error is treated as "no such row".
Lookup(d) ==
  /\ At(d, "lookup")
  /\ \/ d \notin gone /\ \E e \in Rows(key[d]) :
          Goto(d, IF row[e] = "failed" THEN "release" ELSE "hit")
     \/ (d \in gone \/ Rows(key[d]) = {}) /\ Goto(d, "insert")
  /\ UNCHANGED <<key, row, result, gone, expired, crashes>>

\* Mutant: the DELETE is by key alone.
ReleaseAny(d) ==
  /\ At(d, "release")
  /\ row' = IF d \in gone THEN row
            ELSE [e \in Ids |-> IF e \in Rows(key[d]) THEN "deleted" ELSE row[e]]
  /\ Goto(d, "insert")
  /\ UNCHANGED <<key, result, gone, expired, crashes>>

\* DELETE ... WHERE idempotency_key AND status = 'failed'.
Release(d) ==
  /\ At(d, "release")
  /\ row' = IF d \in gone THEN row
            ELSE [e \in Ids |-> IF e \in Rows(key[d]) /\ row[e] = "failed"
                                THEN "deleted" ELSE row[e]]
  /\ Goto(d, "insert")
  /\ UNCHANGED <<key, result, gone, expired, crashes>>

\* Mutant: there is no unique index.
InsertTwice(d) ==
  /\ At(d, "insert")
  /\ row' = [row EXCEPT ![d] = "pending"]
  /\ Goto(d, "reply")
  /\ UNCHANGED <<key, result, gone, expired, crashes>>

(***************************************************************************)
(* The INSERT meets the unique index.  When the client is gone it returns  *)
(* an error whether or not the row went in.                                *)
(***************************************************************************)
Insert(d) ==
  /\ At(d, "insert")
  /\ \/ /\ key[d] = NoKey \/ Rows(key[d]) = {}
        /\ row' = [row EXCEPT ![d] = "pending"]
     \/ /\ d \in gone \/ (key[d] # NoKey /\ Rows(key[d]) # {})
        /\ UNCHANGED row
  /\ Goto(d, IF d \in gone \/ row'[d] = "none" THEN "requery" ELSE "reply")
  /\ UNCHANGED <<key, result, gone, expired, crashes>>

\* Any row with the key is the winner, whatever its status; without one (or
\* with an error) the delegation is sent all the same, "status tracking
\* unavailable".
Requery(d) ==
  /\ At(d, "requery")
  /\ Goto(d, IF key[d] # NoKey /\ d \notin gone /\ Rows(key[d]) # {}
             THEN "hit" ELSE "reply")
  /\ UNCHANGED <<key, row, result, gone, expired, crashes>>

Reply(d) ==
  /\ At(d, "reply")
  /\ Goto(d, "begin")
  /\ gone' = gone \ {d}
  /\ UNCHANGED <<key, row, result, expired, crashes>>

Disconnect(d) ==
  /\ pc[d] \in Serving
  /\ d \notin gone
  /\ gone' = gone \cup {d}
  /\ UNCHANGED <<pc, key, row, result, expired, crashes>>

-----------------------------------------------------------------------------
(***************************************************************************)
(* executeDelegation.  Its context ends after 30 minutes; the forward it   *)
(* makes under that context does not (proxyA2ARequest detaches it and sets *)
(* no deadline of its own, because the context has one).                   *)
(***************************************************************************)
Begin(d) ==
  /\ At(d, "begin")
  /\ SetStatus(d, "dispatched")
  /\ Goto(d, "send1")
  /\ UNCHANGED <<key, result, gone, expired, crashes>>

\* Access check, URL lookup: a static error ends the delegation, a 503 for a
\* workspace without a URL is transient; an ended context fails the lookup.
Send(d) ==
  /\ pc[d] \in {"send1", "send2"}
  /\ \/ d \notin expired /\ Goto(d, IF At(d, "send1") THEN "sent1" ELSE "sent2")
     \/ Goto(d, "fail")
     \/ d \notin expired /\ At(d, "send1") /\ Goto(d, "pause")
  /\ UNCHANGED <<key, row, result, gone, expired, crashes>>

\* The target answers, with any HTTP status.
Answered(d) ==
  /\ pc[d] \in {"sent1", "sent2"}
  /\ Goto(d, "store")
  /\ UNCHANGED <<key, row, result, gone, expired, crashes>>

\* 502 or 503: container dead, agent busy, connection broken.
Broken(d) ==
  /\ pc[d] \in {"sent1", "sent2"}
  /\ Goto(d, IF At(d, "sent1") THEN "pause" ELSE "fail")
  /\ UNCHANGED <<key, row, result, gone, expired, crashes>>

Retry(d) ==
  /\ At(d, "pause")
  /\ Goto(d, IF d \in expired THEN "fail" ELSE "send2")
  /\ UNCHANGED <<key, row, result, gone, expired, crashes>>

ContextEnds(d) ==
  /\ pc[d] \in {"sent1", "pause", "send2", "sent2"}
  /\ d \notin expired
  /\ expired' = expired \cup {d}
  /\ UNCHANGED <<pc, key, row, result, gone, crashes>>

\* Mutant: the error branch forgets its return.
FailGoesOn(d) ==
  /\ At(d, "fail")
  /\ SetStatus(d, "failed")
  /\ Goto(d, "store")
  /\ UNCHANGED <<key, result, gone, expired, crashes>>

Fail(d) ==
  /\ At(d, "fail")
  /\ SetStatus(d, "failed")
  /\ Goto(d, "logfail")
  /\ UNCHANGED <<key, result, gone, expired, crashes>>

\* INSERT of the result row, in the context that may have ended.
LogResult(d, s) ==
  result' = [result EXCEPT ![d] = IF d \in expired THEN @ ELSE s]

LogFailure(d) ==
  /\ At(d, "logfail")
  /\ LogResult(d, "failed")
  /\ Goto(d, "end")
  /\ expired' = expired \ {d}
  /\ UNCHANGED <<key, row, gone, crashes>>

Store(d) ==
  /\ At(d, "store")
  /\ LogResult(d, "completed")
  /\ Goto(d, "complete")
  /\ UNCHANGED <<key, row, gone, expired, crashes>>

\* Mutant: a result that was not stored leaves the status alone.
CompleteIfStored(d) ==
  /\ At(d, "complete")
  /\ IF result[d] = "completed" THEN SetStatus(d, "completed") ELSE UNCHANGED row
  /\ Goto(d, "end")
  /\ expired' = expired \ {d}
  /\ UNCHANGED <<key, result, gone, crashes>>

Complete(d) ==
  /\ At(d, "complete")
  /\ SetStatus(d, "completed")
  /\ Goto(d, "end")
  /\ expired' = expired \ {d}
  /\ UNCHANGED <<key, result, gone, crashes>>

-----------------------------------------------------------------------------
(***************************************************************************)
(* POST /delegations/record and .../update: an agent records what it sent  *)
(* itself and, later or never, reports once how it ended.                  *)
(***************************************************************************)
Record(d) ==
  /\ At(d, "new")
  /\ row' = [row EXCEPT ![d] = "dispatched"]
  /\ Goto(d, "report")
  /\ UNCHANGED <<key, result, gone, expired, crashes>>

UpdateStatus(d) ==
  /\ At(d, "report")
  /\ \/ SetStatus(d, "completed") /\ Goto(d, "logreport")
     \/ SetStatus(d, "failed") /\ Goto(d, "end")
  /\ UNCHANGED <<key, result, gone, expired, crashes>>

\* The result of a reported completion is lost when the agent hangs up.
LogReport(d) ==
  /\ At(d, "logreport")
  /\ \E r \in {"completed", "none"} : result' = [result EXCEPT ![d] = r]
  /\ Goto(d, "end")
  /\ UNCHANGED <<key, row, gone, expired, crashes>>

-----------------------------------------------------------------------------
(***************************************************************************)
(* A restart of the process loses handlers and executions; nothing picks   *)
(* their rows up again.  An agent's own delegation survives it.  Every     *)
(* start runs 021's .down.sql before its .up.sql (RunMigrations globs      *)
(* both), so that no stored row has its key any more.                      *)
(***************************************************************************)
Crash ==
  /\ crashes < MaxCrashes
  /\ crashes' = crashes + 1
  /\ pc' = [d \in Ids |->
              IF pc[d] \in Serving \cup InFlight \cup Ending \cup {"logreport"}
              THEN "dead" ELSE pc[d]]
  /\ key' = [d \in Ids |-> NoKey]
  /\ gone' = {}
  /\ expired' = {}
  /\ UNCHANGED <<row, result>>

Serves(d) == Lookup(d) \/ Release(d) \/ Insert(d) \/ Requery(d) \/ Reply(d)

Executes(d) ==
  \/ Begin(d) \/ Send(d) \/ Retry(d)
  \/ Fail(d) \/ LogFailure(d) \/ Store(d) \/ Complete(d)

Environment(d) ==
  \/ \E k \in IdemKeys \cup {NoKey} : Delegate(d, k)
  \/ Record(d) \/ UpdateStatus(d) \/ LogReport(d)
  \/ Answered(d) \/ Broken(d)
  \/ Disconnect(d) \/ ContextEnds(d)

Next ==
  \/ \E d \in Ids : Serves(d) \/ Executes(d) \/ Environment(d)
  \/ Crash

Spec == Init /\ [][Next]_vars
=============================================================================
