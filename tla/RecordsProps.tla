---------------------------- MODULE RecordsProps -----------------------------
(* What holds of approvals, agents, tokens, the hierarchy and the files:    *)
(* they share nothing and are put into one module for their properties.     *)
EXTENDS Approvals, AgentRows, Tokens, Hierarchy, Files

(* A decision that a decider was answered, that was broadcast, or that the  *)
(* tool acted on is the one the row has: two deciders and the expiry race   *)
(* for it, and what was said is never taken back (approvals.go:187, 83).    *)
ToldIsTrue ==
  /\ \A t \in told : row[t.of] = t.as
  /\ \A c \in Calls : tool[c] \in Decisions => tool[c] = row[c]

PollsLeft(c) == Wait - spent[c] - IF polled[c] THEN 1 ELSE 0

(* A decision that is made while the tool has more polls before it than may *)
(* still fail is what the tool returns: the time of the socket is not taken *)
(* off the polls', and a poll that failed is tried again (approval.py).     *)
HeardInTime ==
  \A c \in Calls :
    (/\ row[c] \in Decisions /\ tool[c] = "polling"
     /\ PollsLeft(c) > MaxFails - fails[c]) ~> tool[c] \in Decisions

(* A workspace has two active agents only if two requests were about to     *)
(* give it one at the same time, or if it took them from such a workspace:  *)
(* no index forbids it, only the requests' own tests (agent.go:50, 189).    *)
OneAgentUnlessRaced ==
  \A w \in Spaces \ raced : \A a, b \in Active(w) : a = b

(* The agent's heartbeats are refused only when it heard of none of the     *)
(* live tokens: through registrations that overlap, restarts of the agent   *)
(* and of the platform, which forgets all tokens (registry.go:97, 285).     *)
LockedOutOnlyIfLost ==
  Refused => \A t \in live : t \in lost \/ \E k \in Registers : InCall(k, "answer") /\ call[k].tok = t

(* approval.py:10: the platform pushes the decision "as soon as a human     *)
(* clicks Approve / Deny on the canvas", so a tool on the socket is gone    *)
(* from there by the next tick.  The events have other names: it is not.    *)
PushedAtOnce == [][Tick => \A t \in told : tool[t.of] # "socket"]_approvalVars

Finished(a, op) == At(a, "done") /\ ask[a].op = op
BothMoved(a, x) == {ask[a].from, x} \subseteq seen[a].moved

(* An answer of the rule was right at some instant of the request, though   *)
(* it reads the two ends one after the other (access.go:36, 41): unless     *)
(* both ends were moved meanwhile.  A look-up that fails only ever refuses. *)
AnswerWasRight ==
  \A a \in Asks :
    /\ Finished(a, "check") \/ Finished(a, "discover")
    /\ ~BothMoved(a, ask[a].to)
    => /\ ask[a].to \in ask[a].got => ask[a].to \in seen[a].ever
       /\ ask[a].op = "check" /\ ask[a].to \in seen[a].always =>
            ask[a].to \in ask[a].got \/ ask[a].failed

(* Peers spells the rule a second time, in four statements                  *)
(* (discovery.go:167), and agrees with it: nobody is listed who was removed *)
(* before, or who was never near, and nobody is left out who stayed in his  *)
(* place and was near all the time, wherever the asker itself was moved.    *)
PeersAgree ==
  \A a \in Asks : Finished(a, "peers") =>
    /\ ask[a].got \cap seen[a].gone = {}
    /\ \A x \in ask[a].got \ seen[a].ever : BothMoved(a, x)
    /\ ~ask[a].failed =>
         seen[a].always \ (removed \cup seen[a].moved \cup {ask[a].from}) \subseteq ask[a].got

(* What a search finds of another workspace is GLOBAL, or is a TEAM memory  *)
(* of one that was not removed before and was near at some time, also when  *)
(* the look-up of the asker's own parent failed (memories.go:104).          *)
FoundIsShared ==
  \A a \in Asks : Finished(a, "search") =>
    \A r \in ask[a].got : r.by # ask[a].from /\ r.scope # "GLOBAL" =>
      /\ r.scope = "TEAM" /\ r.by \notin seen[a].gone
      /\ r.by \in seen[a].ever \/ BothMoved(a, r.by)

(* A skill that is edited while the agent watches is in the end the one     *)
(* that it uses, whichever steps of the API, of a template's copy and of    *)
(* the watcher's scans, pause and reload are between (watcher.py:152).      *)
(* Blind: the skill was not there when the agent started, or was edited     *)
(* before the watcher took its baseline (main.py:262); gone: it is kept.    *)
SkillArrives ==
  <>[](\/ agent = NoAgent \/ agent.at \in {"boot", "load", "register", "serve"}
       \/ agent.blind
       \/ volume[Skill] \in {Missing, agent.skill})

(* canvas.ts:112: the canvas lets nobody nest a workspace below itself.     *)
(* Its own view may be old, and the platform does not look: with a cycle    *)
(* isParentPaused (workspace_restart.go:40) and the recursive queries of    *)
(* Delete, Pause and Resume never end.                                      *)
NoCycle == \A S \in SUBSET Nodes \ {{}} : \E x \in S : parent[x] \notin S
=============================================================================
