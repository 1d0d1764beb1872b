------------------------------ MODULE MCRecords ------------------------------
(* Each table on its own: a behaviour moves one of them, for their product  *)
(* would show no more.  The hierarchy is taken twice, for the rule and the  *)
(* peers, who read no memory, and for the memories.                         *)
EXTENDS RecordsProps

CONSTANTS c1, c2, d1, d2, w1, w2, a1, a2, a3, a4, r1, r2, k1, k2,
          n1, n2, n3, m1, q1, f1, p1

VARIABLE table

Init ==
  /\ ApprovalsInit /\ AgentsInit /\ TokensInit /\ HierarchyInit /\ FilesInit
  /\ table \in {"approvals", "agents", "tokens", "access", "memories", "files"}
  /\ table # "files" => template = NoTemplate
  /\ table \notin {"access", "memories"} => parent = [x \in Nodes |-> Top]
  /\ parent[n1] = Top /\ parent[n2] \in {Top, n1}    \* up to a renaming of Nodes
  /\ table = "memories" => parent[n2] = n1 /\ parent[n3] = n1

Asked(ops) == {ask'[a].op : a \in {b \in Asks : ask'[b] # NoAsk}} \subseteq ops
noHierarchy == <<approvalVars, agentVars, tokenVars, fileVars, table>>
noAgents == <<approvalVars, tokenVars, hierarchyVars, fileVars, table>>
noTokens == <<approvalVars, agentVars, hierarchyVars, fileVars, table>>
noApprovals == <<agentVars, tokenVars, hierarchyVars, fileVars, table>>
noFiles == <<approvalVars, agentVars, tokenVars, hierarchyVars, table>>

Next ==
  \/ table = "approvals" /\ ApprovalsNext /\ UNCHANGED noApprovals
  \/ table = "agents" /\ AgentsNext /\ UNCHANGED noAgents
  \/ table = "tokens" /\ TokensNext /\ UNCHANGED noTokens
  \/ table = "files" /\ FilesNext /\ UNCHANGED noFiles
  \/ table = "access" /\ HierarchyNext /\ Asked({"check", "discover", "peers"}) /\ UNCHANGED noHierarchy
  \/ table = "memories" /\ HierarchyNext /\ Asked({"commit", "search"}) /\ UNCHANGED noHierarchy

Fairness ==
  /\ WF_approvalVars(table = "approvals" /\ Tick /\ UNCHANGED noApprovals)
  /\ \A c \in Calls : WF_approvalVars(table = "approvals" /\ ToolStep(c) /\ UNCHANGED noApprovals)
  /\ WF_fileVars(table = "files" /\ AgentWorks /\ UNCHANGED noFiles)

Spec == Init /\ [][Next]_<<approvalVars, agentVars, tokenVars, hierarchyVars, fileVars, table>> /\ Fairness
=============================================================================
