------------------------------ MODULE Approvals ------------------------------
(****************************************************************************)
(* Asking a human (handlers/approvals.go) and the tool that asks            *)
(* (workspace-template/builtin_tools/approval.py).                          *)
(*                                                                          *)
(*   row      approval_requests: one row for each call of the tool          *)
(*   age      ticks since the row's created_at, up to one past Expiry       *)
(*   post     the tool's POST at the platform                               *)
(*   tool     where request_approval is; or what it returned                *)
(*   spent    ticks of the present wait                                     *)
(*   polled   whether the poll of this tick is done                         *)
(*   fails    polls that failed                                             *)
(*   decider  decide requests: the decision that is stored and not answered *)
(*   told     decisions that were answered or broadcast                     *)
(*                                                                          *)
(* A tick stands for Wait-th of the tool's timeout (300 s); its polls, one  *)
(* each 5 s, are taken together, one a tick.  The tool listens for an event *)
(* APPROVAL_DECIDED; the platform sends APPROVAL_APPROVED and _DENIED, so   *)
(* no event ends the wait on the socket and no action has one end it.  Left *)
(* out: the permission check, the escalation event, the limit of 50 rows.   *)
(****************************************************************************)
EXTENDS Integers

CONSTANTS Calls, Deciders,
          Wait,       \* ticks of the wait on the socket, and again of the polls
          Expiry,     \* ticks until a listing expires a row
          MaxFails    \* bound: polls that fail, for each call

VARIABLES row, age, post, tool, spent, polled, fails, decider, told

waitVars == <<tool, spent, polled, fails>>
approvalVars == <<row, age, post, waitVars, decider, told>>

Decisions == {"approved", "denied"}
NoDecision == [of |-> "none", as |-> "none"]
Waiting(c) == tool[c] \in {"socket", "polling"}

Goes(c, at) ==
  /\ tool' = [tool EXCEPT ![c] = at]
  /\ spent' = [spent EXCEPT ![c] = 0] /\ polled' = [polled EXCEPT ![c] = FALSE]
  /\ UNCHANGED fails

-----------------------------------------------------------------------------
(* The platform *)

\* Create.  The client may be gone by now.
Insert(c) ==
  /\ post[c] = "sent"
  /\ row' = [row EXCEPT ![c] = "pending"]
  /\ post' = [post EXCEPT ![c] = "stored"]
  /\ UNCHANGED <<age, waitVars, decider, told>>

\* ListAll: first the rows that are too old are denied, without an event.
ExpireAll ==
  /\ \E c \in Calls : row[c] = "pending" /\ age[c] > Expiry
  /\ row' = [c \in Calls |-> IF row[c] = "pending" /\ age[c] > Expiry THEN "denied" ELSE row[c]]
  /\ UNCHANGED <<age, post, waitVars, decider, told>>

DecideAnyway(d, c, s) ==                       \* without AND status = 'pending'
  /\ decider[d] = NoDecision /\ row[c] # "none"
  /\ row' = [row EXCEPT ![c] = s]
  /\ decider' = [decider EXCEPT ![d] = [of |-> c, as |-> s]]
  /\ UNCHANGED <<age, post, waitVars, told>>

\* On a row that is not pending the answer is 404 and nothing changes.
Decide(d, c, s) ==
  /\ decider[d] = NoDecision /\ row[c] = "pending"
  /\ row' = [row EXCEPT ![c] = s]
  /\ decider' = [decider EXCEPT ![d] = [of |-> c, as |-> s]]
  /\ UNCHANGED <<age, post, waitVars, told>>

\* The event and the answer.
Announce(d) ==
  /\ decider[d] # NoDecision
  /\ told' = told \cup {decider[d]}
  /\ decider' = [decider EXCEPT ![d] = NoDecision]
  /\ UNCHANGED <<row, age, post, waitVars>>

\* The process ends: what is stored is stored, and nobody is told.
PlatformDies ==
  /\ decider' = [d \in Deciders |-> NoDecision]
  /\ post' = [c \in Calls |-> IF post[c] = "sent" THEN "lost" ELSE post[c]]
  /\ UNCHANGED <<row, age, waitVars, told>>

-----------------------------------------------------------------------------
(* The tool *)

Ask(c) ==
  /\ tool[c] = "idle"
  /\ Goes(c, "asking")
  /\ post' = [post EXCEPT ![c] = "sent"]
  /\ UNCHANGED <<row, age, decider, told>>

\* With the websockets package the tool waits there first.
Answered(c) ==
  /\ tool[c] = "asking" /\ post[c] = "stored"
  /\ \E at \in {"socket", "polling"} : Goes(c, at)
  /\ UNCHANGED <<row, age, post, decider, told>>

\* Ten seconds, or no connection: the row may exist, or be stored later.
NotAnswered(c) ==
  /\ tool[c] = "asking"
  /\ Goes(c, "error")
  /\ UNCHANGED <<row, age, post, decider, told>>

\* The connection fails or breaks, or the time is over: all are Exceptions.
LeaveSocket(c) ==
  /\ tool[c] = "socket"
  /\ Goes(c, "polling")
  /\ UNCHANGED <<row, age, post, decider, told>>

Polled(c) ==
  /\ polled' = [polled EXCEPT ![c] = TRUE]
  /\ UNCHANGED <<tool, spent>>

PollForApproval(c) ==                          \* "denied" is not looked for
  /\ tool[c] = "polling" /\ ~polled[c]
  /\ IF row[c] = "approved" THEN Goes(c, row[c]) ELSE Polled(c) /\ UNCHANGED fails
  /\ UNCHANGED <<row, age, post, decider, told>>

Poll(c) ==
  /\ tool[c] = "polling" /\ ~polled[c]
  /\ IF row[c] \in Decisions THEN Goes(c, row[c]) ELSE Polled(c) /\ UNCHANGED fails
  /\ UNCHANGED <<row, age, post, decider, told>>

PollFails(c) ==
  /\ tool[c] = "polling" /\ ~polled[c] /\ fails[c] < MaxFails
  /\ fails' = [fails EXCEPT ![c] = @ + 1]
  /\ Polled(c)
  /\ UNCHANGED <<row, age, post, decider, told>>

TimedOut(c) ==
  /\ tool[c] = "polling" /\ spent[c] = Wait
  /\ Goes(c, "timeout")
  /\ UNCHANGED <<row, age, post, decider, told>>

-----------------------------------------------------------------------------

\* A poll is due in each tick, and a wait is not stretched.
Tick ==
  /\ \A c \in Calls : /\ Waiting(c) => spent[c] < Wait
                      /\ tool[c] = "polling" => polled[c]
  /\ age' = [c \in Calls |-> IF row[c] = "none" \/ age[c] > Expiry THEN age[c] ELSE age[c] + 1]
  /\ spent' = [c \in Calls |-> IF Waiting(c) THEN spent[c] + 1 ELSE spent[c]]
  /\ polled' = [c \in Calls |-> FALSE]
  /\ UNCHANGED <<row, post, tool, fails, decider, told>>

ApprovalsInit ==
  /\ row = [c \in Calls |-> "none"] /\ age = [c \in Calls |-> 0]
  /\ post = [c \in Calls |-> "none"] /\ tool = [c \in Calls |-> "idle"]
  /\ spent = [c \in Calls |-> 0] /\ polled = [c \in Calls |-> FALSE]
  /\ fails = [c \in Calls |-> 0]
  /\ decider = [d \in Deciders |-> NoDecision] /\ told = {}

ToolStep(c) ==
  \/ Ask(c) \/ Answered(c) \/ NotAnswered(c) \/ LeaveSocket(c)
  \/ Poll(c) \/ PollFails(c) \/ TimedOut(c)

ApprovalsNext ==
  \/ \E c \in Calls : Insert(c) \/ ToolStep(c)
  \/ \E d \in Deciders : Announce(d) \/ \E c \in Calls, s \in Decisions : Decide(d, c, s)
  \/ ExpireAll \/ PlatformDies \/ Tick

ApprovalsSpec == ApprovalsInit /\ [][ApprovalsNext]_approvalVars

\* Time passes, and the tool's own steps are taken.
ApprovalsFairness ==
  /\ WF_approvalVars(Tick)
  /\ \A c \in Calls : WF_approvalVars(ToolStep(c))
=============================================================================
