------------------------------- MODULE Tokens --------------------------------
(****************************************************************************)
(* The token of one workspace: issued on registration (handlers/registry.go,*)
(* wsauth/tokens.go), kept in a file by the agent (main.py,                 *)
(* platform_auth.py), asked for with each heartbeat.                        *)
(*                                                                          *)
(*   live     workspace_auth_tokens; no row is ever revoked                 *)
(*   held     the agent's token file, which outlives the agent's process    *)
(*   process  the agent: "down", "registering", "beating"                   *)
(*   call     Register requests at the platform, with the token of the      *)
(*            answer and whether the agent still waits for it               *)
(*   lost     issued tokens of which the agent never heard                  *)
(*   issued, starts   counters, for the bounds                              *)
(****************************************************************************)
EXTENDS Integers

CONSTANTS Registers, NoCall,
          MaxTokens, MaxStarts   \* bounds: tokens issued, starts of the platform

ASSUME TokensAssumption ==
  NoCall \notin [at : {"check", "issue", "answer"}, tok : Nat, heard : BOOLEAN]

VARIABLES live, held, process, call, lost, issued, starts

tokenVars == <<live, held, process, call, lost, issued, starts>>

NoToken == 0

InCall(k, at) == call[k] # NoCall /\ call[k].at = at
Heard(k) == call[k] # NoCall /\ call[k].heard

ValidateToken == held \in live

\* requireWorkspaceToken: a workspace without a live token is let through.
Refused == process = "beating" /\ live # {} /\ ~ValidateToken

-----------------------------------------------------------------------------

Register(k) ==
  /\ process = "down" /\ call[k] = NoCall
  /\ process' = "registering"
  /\ call' = [call EXCEPT ![k] = [at |-> "check", tok |-> NoToken, heard |-> TRUE]]
  /\ UNCHANGED <<live, held, lost, issued, starts>>

\* HasAnyLiveToken; when it fails no token is issued.
HasAnyLiveToken(k) ==
  /\ InCall(k, "check")
  /\ \/ live = {} /\ call' = [call EXCEPT ![k].at = "issue"]
     \/ call' = [call EXCEPT ![k].at = "answer"]
  /\ UNCHANGED <<live, held, process, lost, issued, starts>>

\* The insert may report an error and be done all the same.
IssueToken(k) ==
  LET t == issued + 1
  IN /\ InCall(k, "issue") /\ issued < MaxTokens
     /\ issued' = t
     /\ \/ /\ live' = live \cup {t}
           /\ call' = [call EXCEPT ![k].at = "answer", ![k].tok = t]
           /\ UNCHANGED lost
        \/ /\ live' \in {live, live \cup {t}}
           /\ call' = [call EXCEPT ![k].at = "answer"]
           /\ lost' = lost \cup {t}
     /\ UNCHANGED <<held, process, starts>>

SaveFirst(t) == IF held = NoToken THEN t ELSE held   \* a file is not overwritten

\* save_token, when the answer has a token.
Save(t) == IF t = NoToken THEN held ELSE t

\* The agent's process may be gone, or the write to the file may fail.
Answer(k) ==
  LET t == call[k].tok
  IN /\ InCall(k, "answer")
     /\ call' = [call EXCEPT ![k] = NoCall]
     /\ \/ /\ Heard(k) /\ held' = Save(t)
           /\ UNCHANGED lost
        \/ /\ lost' = lost \cup ({t} \ {NoToken})
           /\ UNCHANGED held
     /\ process' = IF Heard(k) THEN "beating" ELSE process
     /\ UNCHANGED <<live, issued, starts>>

Deaf == [k \in Registers |-> IF call[k] = NoCall THEN NoCall ELSE [call[k] EXCEPT !.heard = FALSE]]

\* Registration is tried once; the heartbeat starts whatever comes of it.
GiveUp ==
  /\ process = "registering"
  /\ process' = "beating" /\ call' = Deaf
  /\ UNCHANGED <<live, held, lost, issued, starts>>

AgentStops ==
  /\ process # "down"
  /\ process' = "down" /\ call' = Deaf
  /\ UNCHANGED <<live, held, lost, issued, starts>>

\* RunMigrations drops the table (020, .down.sql) and creates it again.
PlatformStarts ==
  /\ starts < MaxStarts
  /\ starts' = starts + 1
  /\ live' = {}
  /\ call' = [k \in Registers |-> NoCall]
  /\ process' = IF process = "registering" THEN "beating" ELSE process
  /\ UNCHANGED <<held, lost, issued>>

TokensInit ==
  /\ live = {} /\ held = NoToken /\ process = "down"
  /\ call = [k \in Registers |-> NoCall]
  /\ lost = {} /\ issued = 0 /\ starts = 1

TokensNext ==
  \/ \E k \in Registers : Register(k) \/ HasAnyLiveToken(k) \/ IssueToken(k) \/ Answer(k)
  \/ GiveUp \/ AgentStops \/ PlatformStarts

TokensSpec == TokensInit /\ [][TokensNext]_tokenVars
=============================================================================
