---------------------------- MODULE RecordsProofs ----------------------------
(***************************************************************************)
(* What holds of agents, tokens, approvals and the hierarchy for every     *)
(* number of workspaces, requests, registrations and deciders: each of the *)
(* four has an inductive invariant of its own.                             *)
(***************************************************************************)
EXTENDS RecordsProps, TLAPS

-----------------------------------------------------------------------------
(***************************************************************************)
(* Agents.  Of a workspace that was never raced for: it has at most one    *)
(* active agent and at most one request that is about to give it one, and  *)
(* never both, for a request begins where there is no active agent and     *)
(* ends with its write.                                                    *)
(***************************************************************************)
Statuses == {"active", "replaced", "removed"}

AgentTypes ==
  /\ agents \in [Agents -> [ws : Spaces, status : Statuses] \cup {Unassigned}]
  /\ req \in [Requests -> [op : {"insert", "move"}, from : Spaces, to : Spaces] \cup {NoRequest}]

Single(w) ==
  /\ \A a, b \in Active(w) : a = b
  /\ \A r, s \in Open(w) : r = s
  /\ Open(w) # {} => Active(w) = {}

AgentInv == AgentTypes /\ \A w \in Spaces \ raced : Single(w)

\* A request that opens finds no active agent, or has just deactivated it.
LEMMA OpensSingle ==
  ASSUME AgentInv, NEW r \in Requests, NEW op \in {"insert", "move"},
         NEW from \in Spaces, NEW to \in Spaces, Opens(r, op, from, to),
         agents' \in [Agents -> [ws : Spaces, status : Statuses] \cup {Unassigned}],
         Active(to)' = {}, \A w \in Spaces : Active(w)' \subseteq Active(w)
  PROVE  AgentInv'
<1>1. AgentTypes'
  BY DEF AgentInv, AgentTypes, Opens
<1>2. ASSUME NEW w \in Spaces, w \notin raced' PROVE Single(w)'
  <2>1. w \notin raced /\ Single(w)
    BY <1>2 DEF AgentInv, Opens
  <2>2. Open(w)' \subseteq IF w = to THEN {r} ELSE Open(w)
    BY <1>2 DEF Open, Busy, Opens, AgentInv, AgentTypes
  <2> QED
    BY <2>1, <2>2 DEF Single
<1> QED
  BY <1>1, <1>2 DEF AgentInv

LEMMA AgentStep ==
  ASSUME AgentInv, [AgentsNext]_agentVars
  PROVE  AgentInv'
<1> USE DEF AgentInv
<1>t. \A w \in Spaces, to \in [ws : Spaces, status : Statuses] :
        WithActive(w, to) \in [Agents -> [ws : Spaces, status : Statuses] \cup {Unassigned}]
  BY DEF AgentTypes, WithActive
<1>1. ASSUME NEW r \in Requests, NEW w \in Spaces, Assign(r, w) PROVE AgentInv'
  <2>1. /\ Opens(r, "insert", w, w)
        /\ \A x \in Spaces : Active(x)' = Active(x)
        /\ Active(w) = {} /\ agents' = agents
    BY <1>1 DEF Assign, Active
  <2> QED
    BY <2>1, OpensSingle DEF AgentTypes
<1>2. ASSUME NEW r \in Requests, NEW w \in Spaces, Replace(r, w) PROVE AgentInv'
  <2>1. /\ Opens(r, "insert", w, w)
        /\ agents' = WithActive(w, [ws |-> w, status |-> "replaced"])
    BY <1>2 DEF Replace
  <2>2. Active(w)' = {} /\ \A x \in Spaces : Active(x)' \subseteq Active(x)
    BY <2>1 DEF Active, WithActive
  <2> QED
    BY <1>t, <2>1, <2>2, OpensSingle DEF Statuses
<1>3. ASSUME NEW r \in Requests, NEW w \in Spaces, NEW to \in Spaces, Move(r, w, to)
      PROVE AgentInv'
  <2>1. /\ Opens(r, "move", w, to)
        /\ \A x \in Spaces : Active(x)' = Active(x)
        /\ Active(to) = {} /\ agents' = agents
    BY <1>3 DEF Move, Active
  <2> QED
    BY <2>1, OpensSingle DEF AgentTypes
<1>4. ASSUME NEW r \in Requests, InsertAgent(r) PROVE AgentInv'
  <2>1. PICK a \in Agents :
          /\ agents[a] = Unassigned
          /\ agents' = [agents EXCEPT ![a] = [ws |-> req[r].to, status |-> "active"]]
    BY <1>4 DEF InsertAgent
  <2>2. /\ req[r] \in [op : {"insert", "move"}, from : Spaces, to : Spaces] /\ Busy(r)
        /\ req' = [req EXCEPT ![r] = NoRequest] /\ raced' = raced
    BY <1>4 DEF InsertAgent, Closes, Busy, AgentTypes
  <2>3. AgentTypes'
    BY <2>1, <2>2 DEF AgentTypes, Statuses
  <2>4. ASSUME NEW w \in Spaces, w \notin raced' PROVE Single(w)'
    <3>1. Single(w)
      BY <2>2, <2>4
    <3>2. Open(w)' = Open(w) \ {r}
      BY <2>2 DEF Open, Busy, AgentTypes
    <3>3. Active(w)' \subseteq IF w = req[r].to THEN Active(w) \cup {a} ELSE Active(w)
      BY <2>1, <2>2 DEF Active, AgentTypes
    <3>4. w = req[r].to => Open(w) = {r} /\ Active(w) = {}
      BY <3>1, <2>2 DEF Single, Open
    <3> QED
      BY <3>1, <3>2, <3>3, <3>4 DEF Single
  <2> QED
    BY <2>3, <2>4
<1>5. ASSUME NEW r \in Requests, MoveAgent(r) PROVE AgentInv'
  <2> DEFINE f == req[r].from
             t == req[r].to
  <2>1. /\ f \in Spaces /\ t \in Spaces /\ Busy(r)
        /\ req' = [req EXCEPT ![r] = NoRequest]
        /\ raced' = IF f \in raced THEN raced \cup {t} ELSE raced
        /\ agents' = WithActive(f, [ws |-> t, status |-> "active"])
    BY <1>5 DEF MoveAgent, Closes, Busy, AgentTypes
  <2> HIDE DEF f, t
  <2>2. AgentTypes'
    BY <1>t, <2>1 DEF AgentTypes, Statuses
  <2>3. ASSUME NEW w \in Spaces, w \notin raced' PROVE Single(w)'
    <3>1. Single(w)
      BY <2>1, <2>3
    <3>2. Open(w)' = Open(w) \ {r}
      BY <2>1 DEF Open, Busy, AgentTypes
    <3>3. CASE w = t
      <4>1. Open(w) = {r} /\ Active(w) = {} /\ Open(w)' = {}
        BY <3>1, <3>2, <3>3, <2>1 DEF Single, Open, t
      <4>2. f \notin raced /\ Single(f)
        BY <2>1, <2>3, <3>3
      <4>3. Active(w)' \subseteq Active(w) \cup Active(f)
        BY <2>1, <3>3 DEF Active, WithActive
      <4> QED
        BY <4>1, <4>2, <4>3 DEF Single
    <3>4. CASE w # t
      <4>1. Active(w)' \subseteq Active(w)
        BY <2>1, <3>4 DEF Active, WithActive
      <4> QED
        BY <3>1, <3>2, <4>1 DEF Single
    <3> QED
      BY <3>3, <3>4
  <2> QED
    BY <2>2, <2>3
<1>6. ASSUME NEW r \in Requests, RequestFails(r) PROVE AgentInv'
  <2>1. /\ agents' = agents /\ raced' = raced
        /\ req' = [req EXCEPT ![r] = NoRequest]
    BY <1>6 DEF RequestFails, Closes
  <2>2. \A w \in Spaces : Active(w)' = Active(w) /\ Open(w)' = Open(w) \ {r}
    BY <2>1 DEF Active, Open, Busy, AgentTypes
  <2> QED
    BY <2>1, <2>2 DEF AgentTypes, Single
<1>7. ASSUME NEW w \in Spaces, Remove(w) PROVE AgentInv'
  <2>1. /\ agents' = WithActive(w, [ws |-> w, status |-> "removed"])
        /\ req' = req /\ raced' = raced
    BY <1>7 DEF Remove
  <2>2. \A x \in Spaces : Active(x)' \subseteq Active(x) /\ Open(x)' = Open(x)
    BY <2>1 DEF Active, WithActive, Open, Busy
  <2>3. AgentTypes'
    BY <1>t, <2>1 DEF AgentTypes, Statuses
  <2> QED
    BY <2>1, <2>2, <2>3 DEF Single
<1>8. CASE UNCHANGED agentVars
  BY <1>8 DEF agentVars, AgentTypes, Single, Active, Open, Busy
<1> QED
  BY <1>1, <1>2, <1>3, <1>4, <1>5, <1>6, <1>7, <1>8 DEF AgentsNext

(***************************************************************************)
(* Two active agents come only of two requests that raced (agent.go:50).   *)
(***************************************************************************)
THEOREM AgentsSingle == AgentsSpec => []OneAgentUnlessRaced
<1>1. AgentsInit => AgentInv
  BY AgentsAssumption DEF AgentsInit, AgentInv, Statuses, AgentTypes, Single, Active, Open, Busy
<1>2. AgentInv /\ [AgentsNext]_agentVars => AgentInv'
  BY AgentStep
<1>3. AgentInv => OneAgentUnlessRaced
  BY DEF AgentInv, Single, OneAgentUnlessRaced
<1> QED
  BY <1>1, <1>2, <1>3, PTL DEF AgentsSpec

-----------------------------------------------------------------------------
(***************************************************************************)
(* Tokens.  A live token is lost, is on its way to the agent, or the agent *)
(* holds a live one: a token is heard only of an answer, and the answers   *)
(* that are on their way when the table is dropped are dropped with it.    *)
(***************************************************************************)
TokenTypes ==
  /\ issued \in Nat /\ live \subseteq 1 .. issued
  /\ call \in [Registers -> [at : {"check", "issue", "answer"}, tok : Nat, heard : BOOLEAN]
                            \cup {NoCall}]

OnItsWay(t) == \E k \in Registers : InCall(k, "answer") /\ call[k].tok = t

Carried == \A k \in Registers :
  call[k] # NoCall /\ call[k].tok # NoToken => InCall(k, "answer") /\ call[k].tok \in live

TokenInv ==
  /\ TokenTypes /\ Carried
  /\ \A t \in live : t \in lost \/ OnItsWay(t) \/ held \in live

LEMMA DeafKeeps ==
  ASSUME TokenInv, call' = Deaf, UNCHANGED <<live, held, lost, issued>>
  PROVE  TokenInv'
<1>1. TokenTypes'
  BY DEF TokenInv, TokenTypes, Deaf
<1>2. \A k \in Registers :
        /\ call'[k] = NoCall <=> call[k] = NoCall
        /\ call[k] # NoCall => call'[k].at = call[k].at /\ call'[k].tok = call[k].tok
  BY TokensAssumption DEF TokenInv, TokenTypes, Deaf
<1> QED
  BY <1>1, <1>2 DEF TokenInv, Carried, OnItsWay, InCall

LEMMA TokenStep ==
  ASSUME TokenInv, [TokensNext]_tokenVars
  PROVE  TokenInv'
<1> USE DEF TokenInv
<1>1. ASSUME NEW k \in Registers, Register(k) PROVE TokenInv'
  <2>1. /\ call[k] = NoCall
        /\ call' = [call EXCEPT ![k] = [at |-> "check", tok |-> NoToken, heard |-> TRUE]]
        /\ UNCHANGED <<live, held, lost, issued>>
    BY <1>1 DEF Register
  <2>2. TokenTypes'
    BY <2>1 DEF TokenTypes, NoToken
  <2> QED
    BY <2>1, <2>2 DEF TokenTypes, Carried, OnItsWay, InCall
<1>2. ASSUME NEW k \in Registers, HasAnyLiveToken(k) PROVE TokenInv'
  <2>1. /\ InCall(k, "check") /\ UNCHANGED <<live, held, lost, issued>>
        /\ \E at \in {"issue", "answer"} : call' = [call EXCEPT ![k].at = at]
    BY <1>2 DEF HasAnyLiveToken
  <2>2. call[k].tok = NoToken
    BY <2>1 DEF Carried, InCall
  <2>3. TokenTypes'
    BY <2>1 DEF TokenTypes, InCall
  <2> QED
    BY <2>1, <2>2, <2>3, TokensAssumption DEF TokenTypes, Carried, OnItsWay, InCall
<1>3. ASSUME NEW k \in Registers, IssueToken(k) PROVE TokenInv'
  <2>0. PICK t \in Nat : t = issued + 1
    BY DEF TokenTypes
  <2>1. InCall(k, "issue") /\ issued' = t /\ held' = held
    BY <1>3, <2>0 DEF IssueToken
  <2>2. call[k].tok = NoToken /\ t \notin live /\ t # NoToken
    BY <2>0, <2>1 DEF Carried, InCall, TokenTypes, NoToken
  <2>3. CASE /\ live' = live \cup {t} /\ lost' = lost
             /\ call' = [call EXCEPT ![k].at = "answer", ![k].tok = t]
    <3>1. TokenTypes'
      BY <2>0, <2>1, <2>2, <2>3 DEF TokenTypes, InCall
    <3>2. InCall(k, "answer")' /\ call'[k].tok = t
      BY <2>1, <2>3, TokensAssumption DEF TokenTypes, InCall
    <3>3. \A j \in Registers \ {k} : call'[j] = call[j]
      BY <2>3 DEF TokenTypes
    <3>4. Carried'
      <4>1. InCall(k, "answer")' /\ call'[k].tok \in live'
        BY <2>3, <3>2
      <4>2. ASSUME NEW j \in Registers \ {k}, call'[j] # NoCall, call'[j].tok # NoToken
            PROVE  InCall(j, "answer")' /\ call'[j].tok \in live'
        <5>1. call'[j] = call[j]
          BY <3>3
        <5>2. InCall(j, "answer") /\ call[j].tok \in live
          BY <4>2, <5>1 DEF Carried
        <5> QED
          BY <2>3, <5>1, <5>2 DEF InCall
      <4> QED
        BY <4>1, <4>2 DEF Carried
    <3>5. \A s \in live : OnItsWay(s) => OnItsWay(s)'
      BY <2>1, <3>3 DEF OnItsWay, InCall
    <3>6. OnItsWay(t)'
      BY <3>2 DEF OnItsWay
    <3> QED
      BY <2>1, <2>3, <3>1, <3>4, <3>5, <3>6
  <2>4. CASE /\ live' \in {live, live \cup {t}} /\ lost' = lost \cup {t}
             /\ call' = [call EXCEPT ![k].at = "answer"]
    <3>1. TokenTypes'
      BY <2>0, <2>1, <2>2, <2>4 DEF TokenTypes, InCall
    <3>2. call'[k] # NoCall /\ call'[k].tok = NoToken
      BY <2>1, <2>2, <2>4, TokensAssumption DEF TokenTypes, InCall
    <3>3. \A j \in Registers \ {k} : call'[j] = call[j]
      BY <2>4 DEF TokenTypes
    <3>4. Carried'
      BY <2>4, <3>2, <3>3 DEF Carried, InCall
    <3>5. \A s \in live : OnItsWay(s) => OnItsWay(s)'
      BY <2>1, <3>3 DEF OnItsWay, InCall
    <3> QED
      BY <2>1, <2>4, <3>1, <3>4, <3>5
  <2> QED
    BY <1>3, <2>0, <2>3, <2>4 DEF IssueToken
<1>4. ASSUME NEW k \in Registers, Answer(k) PROVE TokenInv'
  <2> DEFINE t == call[k].tok
  <2>1. /\ InCall(k, "answer") /\ live' = live /\ issued' = issued
        /\ call' = [call EXCEPT ![k] = NoCall]
        /\ \/ held' = Save(t) /\ lost' = lost
           \/ held' = held /\ lost' = lost \cup ({t} \ {NoToken})
    BY <1>4 DEF Answer
  <2>2. t # NoToken => t \in live
    BY <2>1 DEF Carried, InCall
  <2>3. TokenTypes' /\ NoToken \notin live
    BY <2>1 DEF TokenTypes, NoToken
  <2>4. call'[k] = NoCall /\ \A j \in Registers \ {k} : call'[j] = call[j]
    BY <2>1 DEF TokenTypes
  <2>5. \A s \in live : OnItsWay(s) => s = t \/ OnItsWay(s)'
    BY <2>1, <2>4 DEF OnItsWay, InCall
  <2>6. Carried'
    BY <2>1, <2>4 DEF Carried, InCall
  <2> HIDE DEF t
  <2> QED
    BY <2>1, <2>2, <2>3, <2>5, <2>6 DEF Save
<1>5. CASE GiveUp \/ AgentStops
  BY <1>5, DeafKeeps DEF GiveUp, AgentStops
<1>6. CASE PlatformStarts
  <2>1. /\ live' = {} /\ issued' = issued
        /\ call' = [k \in Registers |-> NoCall]
    BY <1>6 DEF PlatformStarts
  <2> QED
    BY <2>1 DEF TokenTypes, Carried
<1>7. CASE UNCHANGED tokenVars
  BY <1>7 DEF tokenVars, TokenTypes, Carried, OnItsWay, InCall
<1> QED
  BY <1>1, <1>2, <1>3, <1>4, <1>5, <1>6, <1>7 DEF TokensNext

(***************************************************************************)
(* The agent is refused only for a token it never heard of                 *)
(* (registry.go:97, 285), whatever restarts and registrations overlap.     *)
(***************************************************************************)
THEOREM TokensHeard == TokensSpec => []LockedOutOnlyIfLost
<1>1. TokensInit => TokenInv
  BY DEF TokensInit, TokenInv, TokenTypes, Carried
<1>2. TokenInv /\ [TokensNext]_tokenVars => TokenInv'
  BY TokenStep
<1>3. TokenInv => LockedOutOnlyIfLost
  BY DEF TokenInv, LockedOutOnlyIfLost, Refused, ValidateToken, OnItsWay
<1> QED
  BY <1>1, <1>2, <1>3, PTL DEF TokensSpec

-----------------------------------------------------------------------------
(***************************************************************************)
(* Approvals.  A decided row is final, because both UPDATEs look for a     *)
(* pending one, and a row is inserted for a call only once.                *)
(***************************************************************************)
Decided == [of : Calls, as : Decisions]

ApprovalTypes ==
  /\ row \in [Calls -> {"none", "pending"} \cup Decisions]
  /\ post \in [Calls -> {"none", "sent", "stored", "lost"}]
  /\ tool \in [Calls -> {"idle", "asking", "socket", "polling", "error", "timeout"} \cup Decisions]
  /\ decider \in [Deciders -> Decided \cup {NoDecision}]
  /\ told \subseteq Decided

InsertedOnce ==
  \A c \in Calls : /\ post[c] # "stored" => row[c] = "none"
                   /\ tool[c] = "idle" => post[c] = "none"

DeciderIsTrue ==
  \A d \in Deciders : decider[d] # NoDecision => row[decider[d].of] = decider[d].as

ApprovalInv == ApprovalTypes /\ InsertedOnce /\ DeciderIsTrue /\ ToldIsTrue

\* What keeps every decided row keeps what was said of it.
LEMMA FinalKeeps ==
  ASSUME ApprovalInv, \A c \in Calls : row[c] \in Decisions => row'[c] = row[c],
         UNCHANGED <<tool, decider, told>>
  PROVE  DeciderIsTrue' /\ ToldIsTrue'
<1>1. DeciderIsTrue'
  BY DEF ApprovalInv, ApprovalTypes, DeciderIsTrue, Decided, Decisions
<1>2. ToldIsTrue'
  BY DEF ApprovalInv, ApprovalTypes, ToldIsTrue, Decided, Decisions
<1> QED
  BY <1>1, <1>2

\* The tool goes on, to a decision only if it is the row's.
LEMMA ToolKeeps ==
  ASSUME ApprovalInv, NEW c \in Calls, tool[c] # "idle",
         NEW at \in {"socket", "polling", "error", "timeout", row[c]}, at \notin {"none", "pending"},
         tool' = [tool EXCEPT ![c] = at], UNCHANGED <<row, post, decider, told>>
  PROVE  ApprovalInv'
<1>1. ApprovalTypes'
  BY DEF ApprovalInv, ApprovalTypes, Decisions
<1>2. InsertedOnce'
  BY DEF ApprovalInv, ApprovalTypes, InsertedOnce, Decisions
<1>3. DeciderIsTrue' /\ ToldIsTrue'
  BY DEF ApprovalInv, ApprovalTypes, DeciderIsTrue, ToldIsTrue, Decisions
<1> QED
  BY <1>1, <1>2, <1>3 DEF ApprovalInv

LEMMA ToolSteps ==
  ASSUME ApprovalInv, NEW c \in Calls, ToolStep(c)
  PROVE  ApprovalInv'
<1>1. CASE Ask(c)
  <2>1. /\ tool[c] = "idle" /\ tool' = [tool EXCEPT ![c] = "asking"]
        /\ post' = [post EXCEPT ![c] = "sent"] /\ UNCHANGED <<row, decider, told>>
    BY <1>1 DEF Ask, Goes
  <2>2. ApprovalTypes' /\ InsertedOnce'
    BY <2>1 DEF ApprovalInv, ApprovalTypes, InsertedOnce
  <2>3. DeciderIsTrue' /\ ToldIsTrue'
    BY <2>1 DEF ApprovalInv, ApprovalTypes, DeciderIsTrue, ToldIsTrue, Decisions
  <2> QED
    BY <2>2, <2>3 DEF ApprovalInv
<1>2. CASE Answered(c) \/ NotAnswered(c) \/ LeaveSocket(c) \/ TimedOut(c)
  BY <1>2, ToolKeeps DEF Answered, NotAnswered, LeaveSocket, TimedOut, Goes
<1>3. CASE Poll(c) /\ row[c] \in Decisions
  BY <1>3, ToolKeeps DEF Poll, Goes, Decisions
<1>4. CASE (Poll(c) /\ row[c] \notin Decisions) \/ PollFails(c)
  <2>1. UNCHANGED <<row, post, tool, decider, told>>
    BY <1>4 DEF Poll, PollFails, Polled
  <2> QED
    BY <2>1 DEF ApprovalInv, ApprovalTypes, InsertedOnce, DeciderIsTrue, ToldIsTrue
<1> QED
  BY <1>1, <1>2, <1>3, <1>4 DEF ToolStep

LEMMA ApprovalStep ==
  ASSUME ApprovalInv, [ApprovalsNext]_approvalVars
  PROVE  ApprovalInv'
<1>1. ASSUME NEW c \in Calls, Insert(c) PROVE ApprovalInv'
  <2>1. /\ post[c] = "sent" /\ row' = [row EXCEPT ![c] = "pending"]
        /\ post' = [post EXCEPT ![c] = "stored"] /\ UNCHANGED <<tool, decider, told>>
    BY <1>1 DEF Insert, waitVars
  <2>2. ApprovalTypes' /\ InsertedOnce'
    BY <2>1 DEF ApprovalInv, ApprovalTypes, InsertedOnce
  <2>3. DeciderIsTrue' /\ ToldIsTrue'
    BY <2>1, FinalKeeps DEF ApprovalInv, ApprovalTypes, InsertedOnce, Decisions
  <2> QED
    BY <2>2, <2>3 DEF ApprovalInv
<1>2. CASE ExpireAll
  <2>1. /\ row' = [c \in Calls |->
                     IF row[c] = "pending" /\ age[c] > Expiry THEN "denied" ELSE row[c]]
        /\ UNCHANGED <<post, tool, decider, told>>
    BY <1>2 DEF ExpireAll, waitVars
  <2>2. ApprovalTypes' /\ InsertedOnce'
    BY <2>1 DEF ApprovalInv, ApprovalTypes, InsertedOnce, Decisions
  <2>3. DeciderIsTrue' /\ ToldIsTrue'
    BY <2>1, FinalKeeps DEF Decisions
  <2> QED
    BY <2>2, <2>3 DEF ApprovalInv
<1>3. ASSUME NEW d \in Deciders, NEW c \in Calls, NEW s \in Decisions, Decide(d, c, s)
      PROVE ApprovalInv'
  <2>1. /\ row[c] = "pending" /\ row' = [row EXCEPT ![c] = s]
        /\ decider' = [decider EXCEPT ![d] = [of |-> c, as |-> s]]
        /\ UNCHANGED <<post, tool, told>>
    BY <1>3 DEF Decide, waitVars
  <2>2. ApprovalTypes' /\ InsertedOnce'
    BY <2>1 DEF ApprovalInv, ApprovalTypes, InsertedOnce, Decided
  <2>3. DeciderIsTrue'
    BY <2>1 DEF ApprovalInv, ApprovalTypes, DeciderIsTrue, Decided, Decisions
  <2>4. ToldIsTrue'
    BY <2>1 DEF ApprovalInv, ApprovalTypes, ToldIsTrue, Decided, Decisions
  <2> QED
    BY <2>2, <2>3, <2>4 DEF ApprovalInv
<1>4. ASSUME NEW d \in Deciders, Announce(d) PROVE ApprovalInv'
  <2>1. /\ decider[d] # NoDecision /\ told' = told \cup {decider[d]}
        /\ decider' = [decider EXCEPT ![d] = NoDecision] /\ UNCHANGED <<row, post, tool>>
    BY <1>4 DEF Announce, waitVars
  <2>2. ApprovalTypes' /\ InsertedOnce'
    BY <2>1 DEF ApprovalInv, ApprovalTypes, InsertedOnce
  <2>3. DeciderIsTrue' /\ ToldIsTrue'
    BY <2>1 DEF ApprovalInv, ApprovalTypes, DeciderIsTrue, ToldIsTrue
  <2> QED
    BY <2>2, <2>3 DEF ApprovalInv
<1>5. CASE PlatformDies
  <2>1. /\ decider' = [d \in Deciders |-> NoDecision]
        /\ post' = [c \in Calls |-> IF post[c] = "sent" THEN "lost" ELSE post[c]]
        /\ UNCHANGED <<row, tool, told>>
    BY <1>5 DEF PlatformDies, waitVars
  <2>2. ApprovalTypes' /\ InsertedOnce'
    BY <2>1 DEF ApprovalInv, ApprovalTypes, InsertedOnce
  <2>3. DeciderIsTrue' /\ ToldIsTrue'
    BY <2>1 DEF ApprovalInv, ApprovalTypes, DeciderIsTrue, ToldIsTrue
  <2> QED
    BY <2>2, <2>3 DEF ApprovalInv
<1>6. CASE Tick \/ UNCHANGED approvalVars
  <2>1. UNCHANGED <<row, post, tool, decider, told>>
    BY <1>6 DEF Tick, approvalVars, waitVars
  <2> QED
    BY <2>1 DEF ApprovalInv, ApprovalTypes, InsertedOnce, DeciderIsTrue, ToldIsTrue
<1> QED
  BY <1>1, <1>2, <1>3, <1>4, <1>5, <1>6, ToolSteps DEF ApprovalsNext

(***************************************************************************)
(* What was said of an approval stays true (approvals.go:187, 83), for any *)
(* number of deciders and calls, and through restarts of the platform.     *)
(***************************************************************************)
THEOREM DecisionsStand == ApprovalsSpec => []ToldIsTrue
<1>1. ApprovalsInit => ApprovalInv
  BY DEF ApprovalsInit, ApprovalInv, ApprovalTypes, InsertedOnce, DeciderIsTrue, ToldIsTrue, Decisions
<1>2. ApprovalInv /\ [ApprovalsNext]_approvalVars => ApprovalInv'
  BY ApprovalStep
<1>3. ApprovalInv => ToldIsTrue
  BY DEF ApprovalInv
<1> QED
  BY <1>1, <1>2, <1>3, PTL DEF ApprovalsSpec

-----------------------------------------------------------------------------
(***************************************************************************)
(* The rule, the peers and the memories, for every forest of workspaces    *)
(* and every interleaving of moves and removals with the statements of any *)
(* number of requests.                                                     *)
(*                                                                         *)
(* A request depends on the tables and on itself alone, so the invariant   *)
(* is one formula on the values of the parents, the removed, a request and *)
(* what was seen of it.  What carries the proofs is what a value that was  *)
(* read still says when one end of the pair has stayed where it was: the   *)
(* relation it shows then held at the instant of the other reading.        *)
(***************************************************************************)

Row == [by : Nodes, scope : Scopes]
Ops == {"check", "discover", "peers", "search", "commit"}
Steps == {"caller", "target", "url", "own", "siblings", "children", "above",
          "insert", "query", "rows", "done"}
Request == [op : Ops, from : Nodes, to : Nodes, scope : Scopes \cup {"none"}, at : Steps,
            own : Nodes \cup {Top}, rest : SUBSET Row, got : SUBSET (Nodes \cup Row),
            failed : BOOLEAN]
Sight == [ever : SUBSET Nodes, always : SUBSET Nodes, moved : SUBSET Nodes, gone : SUBSET Nodes]

StepOK(q) ==
  \/ q.op = "check" /\ q.at \in {"caller", "target", "done"}
  \/ q.op = "discover" /\ q.at \in {"caller", "target", "url", "done"}
  \/ q.op = "peers" /\ q.at \in {"own", "siblings", "children", "above", "done"}
  \/ q.op = "search" /\ q.at \in {"own", "query", "rows", "caller", "target", "done"}
  \/ q.op = "commit" /\ q.at \in {"own", "insert"} /\ q.scope # "none"

Moved(q, s, x) == q.from \in s.moved /\ x \in s.moved

SightOK(p, rem, q, s) ==
  /\ Near(p, q.from) \subseteq s.ever /\ s.always \subseteq Near(p, q.from)
  /\ s.gone \subseteq rem

\* One end is read, the other is not.
PairOK(p, q, s) == q.at = "target" =>
  /\ q.from \notin s.moved => q.own = p[q.from]
  /\ q.to \notin s.moved =>
       /\ Allowed(q.from, q.own, q.to, p[q.to]) => q.to \in s.ever
       /\ q.to \in s.always => Allowed(q.from, q.own, q.to, p[q.to])

AnswerOK(q, s) == q.op \in {"check", "discover"} /\ ~Moved(q, s, q.to) =>
  /\ q.to \in q.got => q.to \in s.ever
  /\ q.op = "check" /\ q.at = "done" /\ q.to \in s.always => q.to \in q.got \/ q.failed
  /\ q.at = "url" => q.to \in s.ever \/ q.got = {}

\* Whom the peers must have, unless a statement failed.
Due(rem, q, s) == s.always \ (rem \cup s.moved \cup {q.from})

PeersOK(p, rem, q, s) == q.op = "peers" =>
  /\ q.got \cap s.gone = {}
  /\ \A x \in q.got : x \in s.ever \/ Moved(q, s, x)
  /\ q.at \in {"siblings", "children", "above"} => q.own \in s.ever \cup {Top}
  /\ q.at = "siblings" =>
       /\ q.from \notin s.moved => q.own = p[q.from]
       /\ \A x \in Nodes \ s.moved : p[x] = q.own => x \in s.ever
       /\ \A x \in Due(rem, q, s) : x = q.own \/ p[x] = q.own \/ p[x] = q.from
  /\ ~q.failed =>
       /\ q.at = "children" => \A x \in Due(rem, q, s) : x \in q.got \/ x = q.own \/ p[x] = q.from
       /\ q.at = "above" => \A x \in Due(rem, q, s) : x \in q.got \/ x = q.own
       /\ q.at = "done" => Due(rem, q, s) \subseteq q.got

SearchOK(q, s) == q.op = "search" =>
  /\ \A r \in q.rest : r.by \notin s.gone
  /\ q.at \in {"caller", "target"} => q.to \notin s.gone
  /\ \A r \in q.got : r.by # q.from /\ r.scope # "GLOBAL" =>
       /\ r.scope = "TEAM" /\ r.by \notin s.gone
       /\ r.by \in s.ever \/ Moved(q, s, r.by)

Good(p, rem, q, s) ==
  /\ StepOK(q) /\ SightOK(p, rem, q, s) /\ PairOK(p, q, s)
  /\ AnswerOK(q, s) /\ PeersOK(p, rem, q, s) /\ SearchOK(q, s)

HierarchyTypes ==
  /\ parent \in [Nodes -> Nodes \cup {Top}] /\ removed \subseteq Nodes
  /\ memory \in [Memories -> Row \cup {Unwritten}]
  /\ ask \in [Asks -> Request \cup {NoAsk}]
  /\ seen \in [Asks -> Sight]

HierarchyInv ==
  HierarchyTypes /\ \A a \in Asks : ask[a] # NoAsk => Good(parent, removed, ask[a], seen[a])

-----------------------------------------------------------------------------
(* The steps of one request *)

\* A request that begins, with an answer only about the asker itself.
LEMMA BeginsGood ==
  ASSUME HierarchyInv, NEW a \in Asks, NEW op \in Ops, NEW x \in Nodes, NEW y \in Nodes,
         NEW scope \in Scopes \cup {"none"}, NEW at \in Steps, NEW got \in SUBSET {x},
         Begins(a, op, x, y, scope, at, got),
         at = "done" \/ at = "url" => x = y /\ got = {x} /\ op \in {"check", "discover"},
         at # "target" /\ at # "siblings", got # {} => at = "done" \/ at = "url",
         op \in {"peers", "search"} => at = "own",
         \A z : z.op = op /\ z.at = at /\ z.scope = scope => StepOK(z)
  PROVE  HierarchyInv'
<1> DEFINE q == [op |-> op, from |-> x, to |-> y, scope |-> scope, at |-> at,
                 own |-> Top, rest |-> {}, got |-> got, failed |-> FALSE]
           s == [ever |-> Near(parent, x), always |-> Near(parent, x), moved |-> {}, gone |-> removed]
<1>1. /\ ask' = [ask EXCEPT ![a] = q] /\ seen' = [seen EXCEPT ![a] = s]
      /\ UNCHANGED <<parent, removed, memory>>
  BY DEF Begins
<1>2. q \in Request /\ s \in Sight
  BY DEF Request, Sight, Near, HierarchyInv, HierarchyTypes
<1>3. Good(parent, removed, q, s)
  <2>1. x \in Near(parent, x)
    BY DEF Near
  <2>2. StepOK(q)
    BY DEF StepOK
  <2>3. SightOK(parent, removed, q, s) /\ PairOK(parent, q, s)
    BY DEF SightOK, PairOK
  <2>4. AnswerOK(q, s) /\ SearchOK(q, s)
    BY <2>1 DEF AnswerOK, SearchOK
  <2>5. PeersOK(parent, removed, q, s)
    BY DEF PeersOK
  <2> QED
    BY <2>2, <2>3, <2>4, <2>5 DEF Good
<1> HIDE DEF q, s
<1> QED
  BY <1>1, <1>2, <1>3 DEF HierarchyInv, HierarchyTypes

\* A request that goes on alone.
LEMMA TurnsGood ==
  ASSUME HierarchyInv, NEW a \in Asks, NEW r \in Request, Turns(a, r),
         Good(parent, removed, r, seen[a])
  PROVE  HierarchyInv'
BY DEF HierarchyInv, HierarchyTypes, Turns

\* What is known of a request that is not over.
LEMMA AskGood ==
  ASSUME HierarchyInv, NEW a \in Asks, ask[a] # NoAsk
  PROVE  /\ ask[a] \in Request /\ seen[a] \in Sight /\ parent \in [Nodes -> Nodes \cup {Top}]
         /\ Good(parent, removed, ask[a], seen[a])
BY DEF HierarchyInv, HierarchyTypes

LEMMA LookUpsGood ==
  ASSUME HierarchyInv, NEW a \in Asks, LookUpCaller(a) \/ LookUpTarget(a) \/ LookUpFails(a)
  PROVE  HierarchyInv'
<1> DEFINE q == ask[a]
           s == seen[a]
<1>1. q # NoAsk /\ q \in Request /\ s \in Sight /\ Good(parent, removed, q, s)
  BY AskGood DEF LookUpCaller, LookUpTarget, LookUpFails, At
<1>t. parent \in [Nodes -> Nodes \cup {Top}] /\ q.from \in Nodes /\ q.to \in Nodes
  BY <1>1, AskGood DEF Request
<1>2. CASE LookUpCaller(a)
  <2> DEFINE r == [q EXCEPT !.at = "target", !.own = parent[q.from]]
  <2>1. Turns(a, r) /\ q.at = "caller"
    BY <1>2 DEF LookUpCaller, At
  <2>2. r \in Request
    BY <1>1, <1>t DEF Request, Steps
  <2>3. /\ r.op = q.op /\ r.from = q.from /\ r.to = q.to /\ r.got = q.got /\ r.rest = q.rest
        /\ r.at = "target" /\ r.own = parent[q.from] /\ r.failed = q.failed
    BY <1>1 DEF Request
  <2> HIDE DEF r
  <2>4. StepOK(r) /\ SightOK(parent, removed, r, s)
    BY <1>1, <2>1, <2>3 DEF Good, StepOK, SightOK
  <2>5. PairOK(parent, r, s)
    BY <1>1, <1>t, <2>1, <2>3 DEF Good, SightOK, PairOK, Near, Allowed
  <2>6. AnswerOK(r, s) /\ PeersOK(parent, removed, r, s) /\ SearchOK(r, s)
    BY <1>1, <2>1, <2>3 DEF Good, AnswerOK, PeersOK, SearchOK, StepOK, Moved
  <2> QED
    BY <2>1, <2>2, <2>4, <2>5, <2>6, TurnsGood DEF Good
<1>3. CASE LookUpTarget(a)
  <2> DEFINE yes == Allowed(q.from, q.own, q.to, parent[q.to])
             more == IF yes THEN {[by |-> q.to, scope |-> "TEAM"]} ELSE {}
             r == IF q.op = "search"
                  THEN [q EXCEPT !.at = "rows", !.own = Top, !.got = @ \cup more]
                  ELSE [q EXCEPT !.at = IF q.op = "discover" THEN "url" ELSE "done",
                          !.own = Top, !.got = IF yes THEN {q.to} ELSE {}]
  <2>1. Turns(a, r) /\ q.at = "target"
    BY <1>3 DEF LookUpTarget, At
  <2>2. r \in Request
    <3>1. more \in SUBSET Row
      BY <1>t DEF Row, Scopes
    <3> HIDE DEF more
    <3>2. CASE q.op = "search"
      BY <1>1, <3>1, <3>2 DEF Request, Steps
    <3>3. CASE q.op # "search"
      BY <1>1, <1>t, <3>3 DEF Request, Steps
    <3> QED
      BY <3>2, <3>3
  <2>3. /\ r.op = q.op /\ r.from = q.from /\ r.to = q.to /\ r.rest = q.rest /\ r.failed = q.failed
        /\ q.op = "search" => /\ r.at = "rows"
                              /\ r.got = q.got \cup IF yes THEN {[by |-> q.to, scope |-> "TEAM"]} ELSE {}
        /\ q.op # "search" => /\ r.at = IF q.op = "discover" THEN "url" ELSE "done"
                              /\ r.got = IF yes THEN {q.to} ELSE {}
    BY <1>1 DEF Request
  <2>4. /\ yes /\ ~Moved(q, s, q.to) => q.to \in s.ever
        /\ q.to \in s.always /\ ~Moved(q, s, q.to) => yes
    BY <1>1, <1>t, <2>1 DEF Good, PairOK, SightOK, Near, Allowed, Moved
  <2> HIDE DEF r, yes
  <2>5. q.op \in {"check", "discover", "search"}
    BY <1>1, <2>1 DEF Good, StepOK
  <2>6. StepOK(r) /\ SightOK(parent, removed, r, s) /\ PairOK(parent, r, s) /\ PeersOK(parent, removed, r, s)
    BY <1>1, <2>3, <2>5 DEF Good, StepOK, SightOK, PairOK, PeersOK
  <2>7. AnswerOK(r, s)
    BY <2>3, <2>4 DEF AnswerOK, Moved
  <2>8. SearchOK(r, s)
    BY <1>1, <2>1, <2>3, <2>4 DEF Good, SearchOK, Moved
  <2> QED
    BY <2>1, <2>2, <2>6, <2>7, <2>8, TurnsGood DEF Good
<1>4. CASE LookUpFails(a)
  <2> DEFINE r == [q EXCEPT !.at = IF q.op = "search" THEN "rows" ELSE "done",
                            !.own = Top, !.failed = TRUE]
  <2>1. Turns(a, r) /\ q.at \in {"caller", "target"}
    BY <1>4 DEF LookUpFails, At
  <2>2. r \in Request
    BY <1>1 DEF Request, Steps
  <2>3. /\ r.op = q.op /\ r.from = q.from /\ r.to = q.to /\ r.got = q.got /\ r.rest = q.rest
        /\ r.at = (IF q.op = "search" THEN "rows" ELSE "done") /\ r.failed
    BY <1>1 DEF Request
  <2> HIDE DEF r
  <2>4. StepOK(r) /\ SightOK(parent, removed, r, s) /\ PairOK(parent, r, s)
    BY <1>1, <2>1, <2>3 DEF Good, StepOK, SightOK, PairOK
  <2>5. AnswerOK(r, s) /\ PeersOK(parent, removed, r, s) /\ SearchOK(r, s)
    BY <1>1, <2>1, <2>3 DEF Good, AnswerOK, PeersOK, SearchOK, StepOK, Moved
  <2> QED
    BY <2>1, <2>2, <2>4, <2>5, TurnsGood DEF Good
<1> QED
  BY <1>2, <1>3, <1>4

LEMMA FindURLGood ==
  ASSUME HierarchyInv, NEW a \in Asks, FindURL(a)
  PROVE  HierarchyInv'
<1> DEFINE q == ask[a]
           s == seen[a]
<1>1. q # NoAsk /\ q.at = "url" /\ q \in Request /\ Good(parent, removed, q, s)
  BY AskGood DEF FindURL, At
<1>2. PICK got \in {{}, q.got} : Turns(a, [q EXCEPT !.at = "done", !.got = got])
  BY DEF FindURL
<1> DEFINE r == [q EXCEPT !.at = "done", !.got = got]
<1>3. r \in Request
  BY <1>1 DEF Request, Steps
<1>4. /\ r.op = q.op /\ r.from = q.from /\ r.to = q.to /\ r.got = got
      /\ r.at = "done" /\ q.op = "discover"
  BY <1>1 DEF Request, Good, StepOK
<1>5. Turns(a, r)
  BY <1>2
<1> HIDE DEF r
<1>6. Good(parent, removed, r, s)
  BY <1>1, <1>4 DEF Good, StepOK, SightOK, PairOK, AnswerOK, PeersOK, SearchOK, Moved
<1> QED
  BY <1>3, <1>5, <1>6, TurnsGood

\* The asker's own parent; Commit and Search do not mind when it is not found.
LEMMA LookUpOwnGood ==
  ASSUME HierarchyInv, NEW a \in Asks, LookUpOwn(a)
  PROVE  HierarchyInv'
<1> DEFINE q == ask[a]
           s == seen[a]
           r1 == [q EXCEPT !.at = After(q.op), !.own = parent[q.from]]
           r2 == [q EXCEPT !.at = After(q.op), !.failed = TRUE]
<1>1. q # NoAsk /\ q.at = "own" /\ q \in Request /\ s \in Sight /\ Good(parent, removed, q, s)
  BY AskGood DEF LookUpOwn, At
<1>t. parent \in [Nodes -> Nodes \cup {Top}] /\ q.from \in Nodes /\ q.to \in Nodes
  BY <1>1, AskGood DEF Request
<1>2. q.op \in {"peers", "search", "commit"}
  BY <1>1 DEF Good, StepOK
<1>3. /\ q.op = "peers" => After(q.op) = "siblings"
      /\ q.op = "search" => After(q.op) = "query"
      /\ q.op = "commit" => After(q.op) = "insert"
  BY DEF After
<1>4. CASE Turns(a, r1)
  <2>1. r1 \in Request
    BY <1>1, <1>t, <1>2, <1>3 DEF Request, Steps
  <2>2. /\ r1.op = q.op /\ r1.from = q.from /\ r1.to = q.to /\ r1.got = q.got /\ r1.rest = q.rest
        /\ r1.at = After(q.op) /\ r1.own = parent[q.from] /\ r1.failed = q.failed
        /\ r1.scope = q.scope
    BY <1>1 DEF Request
  <2> HIDE DEF r1
  <2>3. /\ StepOK(r1) /\ SightOK(parent, removed, r1, s) /\ PairOK(parent, r1, s)
        /\ AnswerOK(r1, s) /\ SearchOK(r1, s)
    BY <1>1, <1>2, <1>3, <2>2 DEF Good, StepOK, SightOK, PairOK, AnswerOK, SearchOK, Moved
  <2>4. PeersOK(parent, removed, r1, s)
    BY <1>1, <1>t, <1>2, <1>3, <2>2 DEF Good, SightOK, PeersOK, Near, Due, Moved
  <2> QED
    BY <1>4, <2>1, <2>3, <2>4, TurnsGood DEF Good
<1>5. CASE q.op # "peers" /\ Turns(a, r2)
  <2>1. r2 \in Request
    BY <1>1, <1>2, <1>3 DEF Request, Steps
  <2>2. /\ r2.op = q.op /\ r2.from = q.from /\ r2.to = q.to /\ r2.got = q.got /\ r2.rest = q.rest
        /\ r2.at = After(q.op) /\ r2.scope = q.scope
    BY <1>1 DEF Request
  <2> HIDE DEF r2
  <2>3. Good(parent, removed, r2, s)
    BY <1>1, <1>2, <1>3, <1>5, <2>2
       DEF Good, StepOK, SightOK, PairOK, AnswerOK, PeersOK, SearchOK, Moved
  <2> QED
    BY <1>5, <2>1, <2>3, TurnsGood
<1> QED
  BY <1>4, <1>5 DEF LookUpOwn

\* One of the three queries of Peers, which finds some peers or fails.
LEMMA FindsAsks ==
  ASSUME HierarchyInv, NEW a \in Asks, ask[a] # NoAsk, NEW next \in Steps,
         NEW found \in SUBSET Nodes, Finds(a, next, found)
  PROVE  \E r \in Request :
           /\ Turns(a, r) /\ r.at = next
           /\ r.op = ask[a].op /\ r.from = ask[a].from /\ r.to = ask[a].to /\ r.own = ask[a].own
           /\ \/ r.got = ask[a].got \cup found /\ r.failed = ask[a].failed
              \/ r.got = ask[a].got /\ r.failed
<1> DEFINE q == ask[a]
           r1 == [q EXCEPT !.at = next, !.got = @ \cup found]
           r2 == [q EXCEPT !.at = next, !.failed = TRUE]
<1>1. q \in Request
  BY AskGood
<1>2. r1 \in Request /\ r2 \in Request
  BY <1>1 DEF Request
<1>3. /\ r1.at = next /\ r1.op = q.op /\ r1.from = q.from /\ r1.to = q.to /\ r1.own = q.own
      /\ r1.got = q.got \cup found /\ r1.failed = q.failed
      /\ r2.at = next /\ r2.op = q.op /\ r2.from = q.from /\ r2.to = q.to /\ r2.own = q.own
      /\ r2.got = q.got /\ r2.failed
  BY <1>1 DEF Request
<1>4. Turns(a, r1) \/ Turns(a, r2)
  BY DEF Finds
<1> HIDE DEF r1, r2
<1> QED
  BY <1>2, <1>3, <1>4

LEMMA PeersGood ==
  ASSUME HierarchyInv, NEW a \in Asks, Siblings(a) \/ Children(a) \/ Above(a)
  PROVE  HierarchyInv'
<1> DEFINE q == ask[a]
           s == seen[a]
<1>1. q # NoAsk /\ q \in Request /\ s \in Sight /\ Good(parent, removed, q, s)
  BY AskGood DEF Siblings, Children, Above, At
<1>t. /\ parent \in [Nodes -> Nodes \cup {Top}] /\ q.from \in Nodes /\ q.own \in Nodes \cup {Top}
      /\ s.always \subseteq Nodes
  BY <1>1, AskGood DEF Request, Sight
<1>2. q.op = "peers"
  BY <1>1 DEF Siblings, Children, Above, At, Good, StepOK
<1>3. ASSUME NEW r \in Request, r.op = q.op, r.from = q.from, r.at \in {"children", "above", "done"},
             PeersOK(parent, removed, r, s)
      PROVE  Good(parent, removed, r, s)
  BY <1>1, <1>2, <1>3 DEF Good, StepOK, SightOK, PairOK, AnswerOK, SearchOK
<1>4. CASE Siblings(a)
  <2> DEFINE found == {y \in Nodes \ removed : parent[y] = q.own /\ y # q.from}
  <2>1. Finds(a, "children", found) /\ q.at = "siblings"
    BY <1>4 DEF Siblings, At
  <2>2. PICK r \in Request :
          /\ Turns(a, r) /\ r.at = "children"
          /\ r.op = q.op /\ r.from = q.from /\ r.own = q.own
          /\ \/ r.got = q.got \cup found /\ r.failed = q.failed
             \/ r.got = q.got /\ r.failed
    BY <1>1, <2>1, FindsAsks DEF Steps
  <2>3. \A x \in found : x \notin s.gone /\ (x \in s.ever \/ Moved(q, s, x))
    BY <1>1, <1>t, <1>2, <2>1 DEF Good, PeersOK, SightOK, Near, Moved
  <2>4. PeersOK(parent, removed, r, s)
    BY <1>1, <1>t, <1>2, <2>1, <2>2, <2>3 DEF Good, PeersOK, Moved, Due
  <2> QED
    BY <1>2, <1>3, <2>2, <2>4, TurnsGood
<1>5. CASE Children(a)
  <2> DEFINE found == {y \in Nodes \ removed : parent[y] = q.from}
  <2>1. Finds(a, "above", found) /\ q.at = "children"
    BY <1>5 DEF Children, At
  <2>2. PICK r \in Request :
          /\ Turns(a, r) /\ r.at = "above"
          /\ r.op = q.op /\ r.from = q.from /\ r.own = q.own
          /\ \/ r.got = q.got \cup found /\ r.failed = q.failed
             \/ r.got = q.got /\ r.failed
    BY <1>1, <2>1, FindsAsks DEF Steps
  <2>3. \A x \in found : x \notin s.gone /\ x \in s.ever
    BY <1>1, <1>t DEF Good, SightOK, Near
  <2>4. PeersOK(parent, removed, r, s)
    BY <1>1, <1>t, <1>2, <2>1, <2>2, <2>3 DEF Good, PeersOK, Moved, Due
  <2> QED
    BY <1>2, <1>3, <2>2, <2>4, TurnsGood
<1>6. CASE Above(a)
  <2> DEFINE found == {q.own} \ (removed \cup {Top})
  <2>1. Finds(a, "done", found) /\ q.at = "above"
    BY <1>6 DEF Above, At
  <2>2. PICK r \in Request :
          /\ Turns(a, r) /\ r.at = "done"
          /\ r.op = q.op /\ r.from = q.from /\ r.own = q.own
          /\ \/ r.got = q.got \cup found /\ r.failed = q.failed
             \/ r.got = q.got /\ r.failed
    BY <1>1, <1>t, <2>1, FindsAsks DEF Steps
  <2>3. \A x \in found : x \notin s.gone /\ x \in s.ever
    BY <1>1, <1>2, <2>1 DEF Good, SightOK, PeersOK
  <2>4. PeersOK(parent, removed, r, s)
    BY <1>1, <1>t, <1>2, <2>1, <2>2, <2>3, TopAssumption DEF Good, PeersOK, Moved, Due
  <2> QED
    BY <1>2, <1>3, <2>2, <2>4, TurnsGood
<1> QED
  BY <1>4, <1>5, <1>6

LEMMA QueryGood ==
  ASSUME HierarchyInv, NEW a \in Asks, Query(a) \/ NextRow(a)
  PROVE  HierarchyInv'
<1> DEFINE q == ask[a]
           s == seen[a]
<1>1. q # NoAsk /\ q \in Request /\ s \in Sight /\ Good(parent, removed, q, s)
  BY AskGood DEF Query, NextRow, At
<1>2. q.op = "search"
  BY <1>1 DEF Query, NextRow, At, Good, StepOK
<1>3. ASSUME NEW r \in Request, r.op = q.op, r.from = q.from,
             r.at \in {"rows", "caller", "done"}, SearchOK(r, s)
      PROVE  Good(parent, removed, r, s)
  BY <1>1, <1>2, <1>3 DEF Good, StepOK, SightOK, PairOK, AnswerOK, PeersOK
<1>4. CASE Query(a)
  <2> DEFINE doubt == {x \in Rows(q) : x.scope = "TEAM" /\ x.by # q.from}
             r == [q EXCEPT !.at = "rows", !.own = Top, !.rest = doubt, !.got = Rows(q) \ doubt]
  <2>1. Turns(a, r)
    BY <1>4 DEF Query
  <2>2. Rows(q) \subseteq Row
    BY DEF Rows, Stored, HierarchyInv, HierarchyTypes
  <2>3. \A x \in Rows(q) :
          /\ x.scope = "TEAM" /\ x.by # q.from => x.by \notin removed
          /\ x.scope = "LOCAL" => x.by = q.from
    BY DEF Rows
  <2>4. /\ \A x \in doubt : x.by \notin s.gone
        /\ \A x \in Rows(q) \ doubt : x.by # q.from => x.scope = "GLOBAL"
    BY <1>1, <2>2, <2>3 DEF Good, SightOK, Row, Scopes
  <2>5. doubt \subseteq Row
    BY <2>2
  <2> HIDE DEF doubt
  <2>6. r \in Request
    BY <1>1, <2>2, <2>5 DEF Request, Steps
  <2>7. /\ r.op = q.op /\ r.from = q.from /\ r.at = "rows" /\ r.rest = doubt
        /\ r.got = Rows(q) \ doubt
    BY <1>1 DEF Request
  <2> HIDE DEF r
  <2>8. SearchOK(r, s)
    BY <2>4, <2>7 DEF SearchOK
  <2> QED
    BY <1>3, <2>1, <2>6, <2>7, <2>8, TurnsGood
<1>5. ASSUME NextRow(a), q.rest = {} PROVE HierarchyInv'
  <2> DEFINE r == [q EXCEPT !.at = "done"]
  <2>1. Turns(a, r)
    BY <1>5 DEF NextRow
  <2>2. r \in Request
    BY <1>1 DEF Request, Steps
  <2>3. r.op = q.op /\ r.from = q.from /\ r.at = "done" /\ r.rest = q.rest /\ r.got = q.got
    BY <1>1 DEF Request
  <2> HIDE DEF r
  <2>4. SearchOK(r, s)
    BY <1>1, <2>3 DEF Good, SearchOK, Moved
  <2> QED
    BY <1>3, <2>1, <2>2, <2>3, <2>4, TurnsGood
<1>6. ASSUME NextRow(a), q.rest # {} PROVE HierarchyInv'
  <2>1. PICK x \in q.rest : Turns(a, [q EXCEPT !.at = "caller", !.to = x.by, !.rest = @ \ {x}])
    BY <1>6 DEF NextRow
  <2> DEFINE r == [q EXCEPT !.at = "caller", !.to = x.by, !.rest = @ \ {x}]
  <2>2. x \in Row /\ x.by \in Nodes
    BY <1>1 DEF Request, Row
  <2>3. r \in Request
    BY <1>1, <2>2 DEF Request, Steps
  <2>4. /\ r.op = q.op /\ r.from = q.from /\ r.at = "caller" /\ r.to = x.by
        /\ r.rest = q.rest \ {x} /\ r.got = q.got
    BY <1>1 DEF Request
  <2>5. Turns(a, r)
    BY <2>1
  <2> HIDE DEF r
  <2>6. SearchOK(r, s)
    BY <1>1, <1>2, <2>4 DEF Good, SearchOK, Moved
  <2> QED
    BY <1>3, <2>3, <2>4, <2>5, <2>6, TurnsGood
<1> QED
  BY <1>4, <1>5, <1>6

-----------------------------------------------------------------------------
(* The ends of requests, the memories, moves and removals *)

LEMMA EndsGood ==
  ASSUME HierarchyInv, NEW a \in Asks, Ends(a), UNCHANGED <<parent, removed>>,
         memory' \in [Memories -> Row \cup {Unwritten}]
  PROVE  HierarchyInv'
<1>1. Unseen \in Sight
  BY DEF Unseen, Sight
<1> QED
  BY <1>1 DEF HierarchyInv, HierarchyTypes, Ends

LEMMA CommitRowGood ==
  ASSUME HierarchyInv, NEW a \in Asks, CommitRow(a)
  PROVE  HierarchyInv'
<1>1. ask[a] \in Request /\ ask[a].op = "commit" /\ ask[a].scope # "none"
  BY AskGood DEF CommitRow, At, Good, StepOK
<1>2. [by |-> ask[a].from, scope |-> ask[a].scope] \in Row
  BY <1>1 DEF Request, Row
<1>3. memory' \in [Memories -> Row \cup {Unwritten}]
  BY <1>2 DEF CommitRow, HierarchyInv, HierarchyTypes
<1> QED
  BY <1>3, EndsGood DEF CommitRow

\* What was seen of a request after one workspace was moved.
Sees(p, x, w, s) ==
  [s EXCEPT !.ever = @ \cup Near(p, x), !.always = @ \cap Near(p, x), !.moved = @ \cup {w}]

LEMMA MoveKeeps ==
  ASSUME NEW p \in [Nodes -> Nodes \cup {Top}], NEW w \in Nodes, NEW to \in Nodes \cup {Top},
         NEW rem, NEW q \in Request, NEW s \in Sight, Good(p, rem, q, s)
  PROVE  LET new == [p EXCEPT ![w] = to]
             t   == Sees(new, q.from, w, s)
         IN  t \in Sight /\ Good(new, rem, q, t)
<1> DEFINE new == [p EXCEPT ![w] = to]
           t   == Sees(new, q.from, w, s)
<1>1. /\ t.ever = s.ever \cup Near(new, q.from) /\ t.always = s.always \cap Near(new, q.from)
      /\ t.moved = s.moved \cup {w} /\ t.gone = s.gone
  BY DEF Sees, Sight
<1>2. t \in Sight
  BY DEF Sees, Sight, Near
<1>3. \A x \in Nodes \ t.moved : x \notin s.moved /\ new[x] = p[x]
  BY <1>1
<1>4. /\ s.ever \subseteq t.ever /\ t.always \subseteq s.always
      /\ \A x : Moved(q, s, x) => Moved(q, t, x)
      /\ Due(rem, q, t) \subseteq Due(rem, q, s)
      /\ Due(rem, q, t) \subseteq Nodes \ t.moved
  BY <1>1, <1>2 DEF Moved, Due, Sight
<1>5. q.from \in Nodes /\ q.to \in Nodes
  BY DEF Request
<1>6. SightOK(new, rem, q, t)
  BY <1>1 DEF Good, SightOK
<1> HIDE DEF t, new
<1>7. PairOK(new, q, t)
  BY <1>3, <1>4, <1>5 DEF Good, PairOK, Allowed
<1>8. AnswerOK(q, t) /\ SearchOK(q, t)
  BY <1>1, <1>4 DEF Good, AnswerOK, SearchOK
<1>9. PeersOK(new, rem, q, t)
  <2>1. ASSUME q.op = "peers"
        PROVE  /\ q.got \cap t.gone = {}
               /\ \A x \in q.got : x \in t.ever \/ Moved(q, t, x)
               /\ q.at \in {"siblings", "children", "above"} => q.own \in t.ever \cup {Top}
    BY <1>1, <1>4, <2>1 DEF Good, PeersOK
  <2>2. ASSUME q.op = "peers", q.at = "siblings"
        PROVE  /\ q.from \notin t.moved => q.own = new[q.from]
               /\ \A x \in Nodes \ t.moved : new[x] = q.own => x \in t.ever
               /\ \A x \in Due(rem, q, t) : x = q.own \/ new[x] = q.own \/ new[x] = q.from
    BY <1>3, <1>4, <1>5, <2>2 DEF Good, PeersOK
  <2>3. ASSUME q.op = "peers", ~q.failed
        PROVE  /\ q.at = "children" =>
                    \A x \in Due(rem, q, t) : x \in q.got \/ x = q.own \/ new[x] = q.from
               /\ q.at = "above" => \A x \in Due(rem, q, t) : x \in q.got \/ x = q.own
               /\ q.at = "done" => Due(rem, q, t) \subseteq q.got
    BY <1>3, <1>4, <2>3 DEF Good, PeersOK
  <2> QED
    BY <2>1, <2>2, <2>3 DEF PeersOK
<1>10. Good(new, rem, q, t)
  BY <1>6, <1>7, <1>8, <1>9 DEF Good
<1> USE DEF t, new
<1> QED
  BY <1>2, <1>10

LEMMA PatchGood ==
  ASSUME HierarchyInv, NEW w \in Nodes, NEW to \in Nodes \cup {Top}, Patch(w, to)
  PROVE  HierarchyInv'
<1>1. /\ parent' = [parent EXCEPT ![w] = to] /\ UNCHANGED <<removed, memory, ask>>
      /\ seen' = [a \in Asks |-> IF ask[a] = NoAsk THEN seen[a]
                                 ELSE Sees(parent', ask[a].from, w, seen[a])]
  BY DEF Patch, Sees
<1>2. ASSUME NEW a \in Asks, ask[a] # NoAsk
      PROVE  seen'[a] \in Sight /\ Good(parent', removed, ask[a], seen'[a])
  <2>1. seen'[a] = Sees(parent', ask[a].from, w, seen[a])
    BY <1>1, <1>2
  <2> QED
    BY <1>1, <1>2, <2>1, AskGood, MoveKeeps
<1>3. \A a \in Asks : seen'[a] \in Sight
  BY <1>1, <1>2 DEF HierarchyInv, HierarchyTypes
<1>4. HierarchyTypes'
  BY <1>1, <1>3 DEF HierarchyInv, HierarchyTypes
<1> QED
  BY <1>1, <1>2, <1>4 DEF HierarchyInv

LEMMA RemoveNodeGood ==
  ASSUME HierarchyInv, NEW w \in Nodes, RemoveNode(w)
  PROVE  HierarchyInv'
<1>1. removed' = removed \cup {w} /\ UNCHANGED <<parent, memory, ask, seen>>
  BY DEF RemoveNode
<1>2. ASSUME NEW a \in Asks, ask[a] # NoAsk
      PROVE  Good(parent, removed', ask[a], seen[a])
  <2>1. Good(parent, removed, ask[a], seen[a])
    BY <1>2, AskGood
  <2>2. Due(removed', ask[a], seen[a]) \subseteq Due(removed, ask[a], seen[a])
    BY <1>1 DEF Due
  <2>3. SightOK(parent, removed', ask[a], seen[a])
    BY <1>1, <2>1 DEF Good, SightOK
  <2>4. PeersOK(parent, removed', ask[a], seen[a])
    BY <2>1, <2>2 DEF Good, PeersOK
  <2> QED
    BY <2>1, <2>3, <2>4 DEF Good
<1> QED
  BY <1>1, <1>2 DEF HierarchyInv, HierarchyTypes

-----------------------------------------------------------------------------

LEMMA HierarchyStep ==
  ASSUME HierarchyInv, [HierarchyNext]_hierarchyVars
  PROVE  HierarchyInv'
<1>1. ASSUME NEW a \in Asks, NEW x \in Nodes, NEW y \in Nodes, CheckAccess(a, x, y) \/ Discover(a, x, y)
      PROVE  HierarchyInv'
  <2>1. \/ x = y /\ Begins(a, "check", x, y, "TEAM", "done", {y})
        \/ x = y /\ Begins(a, "discover", x, y, "TEAM", "url", {y})
        \/ Begins(a, "check", x, y, "TEAM", "caller", {})
        \/ Begins(a, "discover", x, y, "TEAM", "caller", {})
    BY <1>1 DEF CheckAccess, Discover, Check
  <2> QED
    BY <2>1, BeginsGood DEF Ops, Steps, Scopes, StepOK
<1>2. ASSUME NEW a \in Asks, NEW x \in Nodes, Peers(a, x)
      PROVE  HierarchyInv'
  BY <1>2, BeginsGood DEF Peers, Ops, Steps, Scopes, StepOK
<1>3. ASSUME NEW a \in Asks, NEW x \in Nodes, NEW s \in Scopes, Commit(a, x, s)
      PROVE  HierarchyInv'
  <2>1. s # "none" /\ s \in Scopes \cup {"none"}
    BY DEF Scopes
  <2>2. \/ Begins(a, "commit", x, x, s, "own", {})
        \/ Begins(a, "commit", x, x, s, "insert", {})
    BY <1>3 DEF Commit
  <2> QED
    BY <2>1, <2>2, BeginsGood DEF Ops, Steps, StepOK
<1>4. ASSUME NEW a \in Asks, NEW x \in Nodes, NEW s \in Scopes \cup {"none"}, Search(a, x, s)
      PROVE  HierarchyInv'
  BY <1>4, BeginsGood DEF Search, Ops, Steps, StepOK
<1>5. ASSUME NEW a \in Asks, Close(a)
      PROVE  HierarchyInv'
  BY <1>5, EndsGood DEF Close, HierarchyInv, HierarchyTypes
<1>6. ASSUME NEW m \in Memories, Delete(m)
      PROVE  HierarchyInv'
  BY <1>6 DEF Delete, HierarchyInv, HierarchyTypes
<1>7. CASE UNCHANGED hierarchyVars
  BY <1>7 DEF hierarchyVars, HierarchyInv, HierarchyTypes
<1> QED
  BY <1>1, <1>2, <1>3, <1>4, <1>5, <1>6, <1>7, LookUpsGood, FindURLGood, LookUpOwnGood,
     PeersGood, QueryGood, CommitRowGood, PatchGood, RemoveNodeGood
     DEF HierarchyNext

LEMMA HierarchyInvariant == HierarchySpec => []HierarchyInv
<1>1. HierarchyInit => HierarchyInv
  <2>1. Unseen \in Sight
    BY DEF Unseen, Sight
  <2> QED
    BY <2>1 DEF HierarchyInit, HierarchyInv, HierarchyTypes
<1>2. HierarchyInv /\ [HierarchyNext]_hierarchyVars => HierarchyInv'
  BY HierarchyStep
<1> QED
  BY <1>1, <1>2, PTL DEF HierarchySpec

(* Whoever was let through, was near at some instant of the request, and    *)
(* whoever was near all the time is let through, unless a look-up failed or *)
(* both ends were moved between the two look-ups (access.go:36, 41).        *)
THEOREM AnswersRight == HierarchySpec => []AnswerWasRight
<1>1. HierarchyInv => AnswerWasRight
  <2> SUFFICES ASSUME HierarchyInv, NEW a \in Asks,
                      Finished(a, "check") \/ Finished(a, "discover"), ~BothMoved(a, ask[a].to)
               PROVE  /\ ask[a].to \in ask[a].got => ask[a].to \in seen[a].ever
                      /\ ask[a].op = "check" /\ ask[a].to \in seen[a].always =>
                           ask[a].to \in ask[a].got \/ ask[a].failed
    BY DEF AnswerWasRight
  <2>1. AnswerOK(ask[a], seen[a]) /\ ~Moved(ask[a], seen[a], ask[a].to)
    BY AskGood DEF Finished, At, Good, BothMoved, Moved
  <2> QED
    BY <2>1 DEF AnswerOK, Finished, At
<1> QED
  BY <1>1, HierarchyInvariant, PTL

(* The four statements of Peers agree with the rule (discovery.go:167).     *)
THEOREM PeersAreNear == HierarchySpec => []PeersAgree
<1>1. HierarchyInv => PeersAgree
  <2> SUFFICES ASSUME HierarchyInv, NEW a \in Asks, Finished(a, "peers")
               PROVE  /\ ask[a].got \cap seen[a].gone = {}
                      /\ \A x \in ask[a].got \ seen[a].ever : BothMoved(a, x)
                      /\ ~ask[a].failed =>
                           seen[a].always \ (removed \cup seen[a].moved \cup {ask[a].from})
                             \subseteq ask[a].got
    BY DEF PeersAgree
  <2>1. PeersOK(parent, removed, ask[a], seen[a])
    BY AskGood DEF Finished, At, Good
  <2> QED
    BY <2>1 DEF PeersOK, Due, Finished, At, BothMoved, Moved
<1> QED
  BY <1>1, HierarchyInvariant, PTL

(* No search finds what another workspace keeps for itself, or a team that  *)
(* the asker was never near keeps for the team (memories.go:104).           *)
THEOREM FoundWasShared == HierarchySpec => []FoundIsShared
<1>1. HierarchyInv => FoundIsShared
  <2> SUFFICES ASSUME HierarchyInv, NEW a \in Asks, Finished(a, "search"), NEW r \in ask[a].got,
                      r.by # ask[a].from, r.scope # "GLOBAL"
               PROVE  /\ r.scope = "TEAM" /\ r.by \notin seen[a].gone
                      /\ r.by \in seen[a].ever \/ BothMoved(a, r.by)
    BY DEF FoundIsShared
  <2>1. SearchOK(ask[a], seen[a])
    BY AskGood DEF Finished, At, Good
  <2> QED
    BY <2>1 DEF SearchOK, Finished, At, BothMoved, Moved
<1> QED
  BY <1>1, HierarchyInvariant, PTL
=============================================================================
