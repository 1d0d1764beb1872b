------------------------------ MODULE Channels ------------------------------
(****************************************************************************)
(* Channels to Telegram (channels/manager.go and telegram.go,               *)
(* handlers/channels.go, the channels of handlers/org.go): rows of          *)
(* workspace_channels, one polling goroutine for each enabled row, and the  *)
(* requests that change rows and reload the manager.                        *)
(*                                                                          *)
(*   row      the table; ids are never used again                           *)
(*   pollers  Manager.pollers: the loop whose cancel function it holds      *)
(*   loop     StartPolling goroutines, those cancelled included: whether    *)
(*            the context is live, the config they were started with, the   *)
(*            next id they want, the last id of the batch in hand           *)
(*   proc     requests, and the goroutine of Start                          *)
(*   sent, confirmed   Telegram's side of a bot: its updates, and the last  *)
(*            id that some poll has confirmed by asking for a later one     *)
(*   judged   updates a loop with a live context has dealt with, be it by   *)
(*            skipping them                                                 *)
(*   asked, again   updates given to a channel's agent, and to it twice     *)
(*   cut      given to the agent but not confirmed when the poller went     *)
(*   writes, scans, run   counters, for the bounds                          *)
(*   applied  the newest table that a Reload of this run has applied        *)
(*   marks    of this run: "unread", a Reload could not query; "overtaken", *)
(*            a Reload applied rows older than those applied before;        *)
(*            "ended", a poller gave up                                     *)
(*                                                                          *)
(* Left out: what is said (history, replies, typing), outbound messages and *)
(* webhooks, which touch neither rows nor pollers; Stop, which nothing      *)
(* calls; adapters other than Telegram, of which there are none.            *)
(****************************************************************************)
EXTENDS Integers, Sequences, FiniteSets, FiniteSetsExt

CONSTANTS Channels,
          Confs, Bots, Chats,
          BotOf, ChatsOf,        \* bot_token and chat_id of a config
          Kinds,                 \* of updates: "text", "command", "kicked"
          Procs, Boot,           \* Boot: the goroutine of Start, at first
          Unborn, Deleted, Gone, NoLoop,
          Loops,                 \* loops a channel may have, cancelled included
          MaxWrites, MaxScans, MaxSent, MaxRuns   \* bounds

ASSUME ChannelsAssumption ==
  /\ BotOf \in [Confs -> Bots] /\ ChatsOf \in [Confs -> SUBSET Chats]
  /\ Boot \in Procs /\ NoLoop \notin Loops
  /\ {MaxWrites, MaxScans, MaxSent, MaxRuns} \subseteq Nat

VARIABLES row, pollers, loop, proc, sent, confirmed,
          judged, asked, again, cut, writes, scans, run, applied, marks

tableVars  == <<row, writes>>
loopVars   == <<pollers, loop>>
botVars    == <<sent, confirmed>>
doneVars   == <<judged, asked, again>>
vars == <<tableVars, loopVars, botVars, doneVars, proc, cut, scans, run, applied, marks>>

Idle == [at |-> "idle"]

Rows == [on : BOOLEAN, conf : Confs]

There(c) == row[c] \notin {Unborn, Deleted}

\* The rows that Reload and PausePollersForToken select, with their configs.
Enabled == LET on == {c \in Channels : There(c) /\ row[c].on}
           IN [c \in on |-> row[c].conf]

Unconfirmed(c) == {a \in asked : a.ch = c /\ a.id > confirmed[a.bot]}

Become(p, s) == proc' = [proc EXCEPT ![p] = s]

-----------------------------------------------------------------------------
(* Requests.  Each write is followed by a Reload of its own. *)

Write(c, r) ==
  /\ writes < MaxWrites
  /\ writes' = writes + 1
  /\ row' = [row EXCEPT ![c] = r]

Request(p) == proc[p] = Idle

Create(p, c) ==
  /\ Request(p) /\ row[c] = Unborn
  /\ \E r \in Rows : Write(c, r)
  /\ Become(p, [at |-> "reload"])

Update(p, c) ==
  /\ Request(p) /\ There(c)
  /\ \E r \in Rows \ {row[c]} : Write(c, r)
  /\ Become(p, [at |-> "reload"])

Delete(p, c) ==
  /\ Request(p) /\ There(c)
  /\ Write(c, Deleted)
  /\ Become(p, [at |-> "reload"])

\* An import writes one row after the other and reloads once, also after an
\* error; an import that wrote none has no effect.
ImportRow(p, c) ==
  /\ Request(p) \/ proc[p].at = "import"
  /\ row[c] = Unborn
  /\ \E r \in Rows : Write(c, r)
  /\ Become(p, [at |-> "import"])

ImportEnds(p) ==
  /\ proc[p].at = "import"
  /\ Become(p, [at |-> "reload"])
  /\ UNCHANGED tableVars

TablesFrame == UNCHANGED <<loopVars, botVars, doneVars, cut, scans, run, applied, marks>>

Tables ==
  \E p \in Procs :
    /\ \/ \E c \in Channels : Create(p, c) \/ Update(p, c) \/ Delete(p, c) \/ ImportRow(p, c)
       \/ ImportEnds(p)
    /\ TablesFrame

-----------------------------------------------------------------------------
(* The manager *)

\* Reload reads the table before it takes the lock.
Query(p) ==
  /\ proc[p].at = "reload"
  /\ Become(p, [at |-> "lock", rows |-> Enabled, of |-> writes])
  /\ UNCHANGED <<loopVars, cut, scans, applied, marks>>

\* The client hung up, or the database failed.
QueryFails(p) ==
  /\ proc[p].at = "reload"
  /\ Become(p, Idle)
  /\ marks' = marks \cup {"unread"}
  /\ UNCHANGED <<loopVars, cut, scans, applied>>

Running == {c \in Channels : pollers[c] # NoLoop}

\* The mistake a comment in Reload warns of: the poller's context would end
\* with the request.
FreshOfRequest(conf) == [live |-> FALSE, conf |-> conf, at |-> "top", next |-> 1, upto |-> 0]

Fresh(conf) == [live |-> TRUE, conf |-> conf, at |-> "top", next |-> 1, upto |-> 0]

CancelledNot(c) == loop[c]                     \* only taken from the map

\* The pollers of S are cancelled and taken from the map, those of T started
\* with the configs of rows; a poller that is in the map is left as it is.
Cancelled(c) == IF pollers[c] # NoLoop /\ loop[c][pollers[c]] # Gone
                THEN [loop[c] EXCEPT ![pollers[c]].live = FALSE] ELSE loop[c]

Free(c) == {l \in Loops : loop[c][l] = Gone}

StopAndStart(S, T, rows) ==
  LET slot == [c \in T |-> CHOOSE l \in Free(c) : TRUE]
  IN /\ \A c \in T : Free(c) # {}
     /\ pollers' = [c \in Channels |-> IF c \in T THEN slot[c]
                                       ELSE IF c \in S THEN NoLoop ELSE pollers[c]]
     /\ loop' = [c \in Channels |-> IF c \in T THEN [loop[c] EXCEPT ![slot[c]] = Fresh(rows[c])]
                                    ELSE IF c \in S THEN Cancelled(c) ELSE loop[c]]
     /\ cut' = cut \cup UNION {Unconfirmed(c) : c \in S}

Apply(p) ==
  /\ proc[p].at = "lock"
  /\ LET wanted == DOMAIN proc[p].rows
     IN StopAndStart(Running \ wanted, wanted \ Running, proc[p].rows)
  /\ applied' = Max({applied, proc[p].of})
  /\ marks' = IF proc[p].of < applied THEN marks \cup {"overtaken"} ELSE marks
  /\ Become(p, Idle)
  /\ UNCHANGED scans

\* Discover: PausePollersForToken selects the channels of the bot, then takes
\* the lock; the deferred resume reloads, if a poller was paused.
Discover(p, b) ==
  /\ Request(p) /\ scans < MaxScans
  /\ scans' = scans + 1
  /\ Become(p, [at |-> "pause", ids |-> {c \in DOMAIN Enabled : BotOf[Enabled[c]] = b}])
  /\ UNCHANGED <<loopVars, cut, applied, marks>>

Pause(p) ==
  /\ proc[p].at = "pause"
  /\ LET paused == proc[p].ids \cap Running
     IN /\ StopAndStart(paused, {}, <<>>)
        /\ Become(p, [at |-> "discover", resume |-> paused # {}])
  /\ UNCHANGED <<scans, applied, marks>>

ResumeForgets(p) ==                            \* the resume function not called
  /\ proc[p].at = "discover"
  /\ Become(p, Idle)
  /\ UNCHANGED <<loopVars, cut, scans, applied, marks>>

Resume(p) ==
  /\ proc[p].at = "discover"
  /\ Become(p, IF proc[p].resume THEN [at |-> "reload"] ELSE Idle)
  /\ UNCHANGED <<loopVars, cut, scans, applied, marks>>

ManagerFrame == UNCHANGED <<tableVars, botVars, doneVars, run>>

Manager ==
  \E p \in Procs :
    /\ \/ Query(p) \/ QueryFails(p) \/ Apply(p)
       \/ Pause(p) \/ Resume(p) \/ \E b \in Bots : Discover(p, b)
    /\ ManagerFrame

-----------------------------------------------------------------------------
(* The loop of StartPolling *)

Goes(c, l, s) == loop' = [loop EXCEPT ![c][l] = s]

BotOfLoop(c, l) == BotOf[loop[c][l].conf]

At(c, l, at) == loop[c][l] # Gone /\ loop[c][l].at = at

PollUnchecked(c, l) ==                         \* <-ctx.Done() not looked at
  LET b == BotOfLoop(c, l)
  IN /\ At(c, l, "top")
     /\ Goes(c, l, [loop[c][l] EXCEPT !.at = "wait"])
     /\ confirmed' = [confirmed EXCEPT ![b] = Max({@, loop[c][l].next - 1})]
     /\ UNCHANGED <<doneVars, marks>>

\* The context is looked at only here; the poll confirms what lies before next.
Poll(c, l) ==
  LET b == BotOfLoop(c, l)
  IN /\ At(c, l, "top") /\ loop[c][l].live
     /\ Goes(c, l, [loop[c][l] EXCEPT !.at = "wait"])
     /\ confirmed' = [confirmed EXCEPT ![b] = Max({@, loop[c][l].next - 1})]
     /\ UNCHANGED <<doneVars, marks>>

Stops(c, l) ==
  /\ At(c, l, "top") /\ ~loop[c][l].live
  /\ Goes(c, l, Gone)
  /\ UNCHANGED <<confirmed, doneVars, marks>>

\* getBot failed at the start, or a poll was answered with 401: the loop ends,
\* and the manager is not told.
GivesUp(c, l) ==
  /\ \/ At(c, l, "wait")
     \/ At(c, l, "top") /\ loop[c][l].next = 1
  /\ Goes(c, l, Gone)
  /\ marks' = marks \cup {"ended"}
  /\ UNCHANGED <<confirmed, doneVars>>

\* The poll ran into its timeout or failed: 409, 429 or the network.
NoAnswer(c, l) ==
  /\ At(c, l, "wait")
  /\ Goes(c, l, [loop[c][l] EXCEPT !.at = "top"])
  /\ UNCHANGED <<confirmed, doneVars, marks>>

Answer(c, l) ==
  LET b == BotOfLoop(c, l)
      first == Max({loop[c][l].next, confirmed[b] + 1})
  IN /\ At(c, l, "wait") /\ first <= Len(sent[b])
     /\ Goes(c, l, [loop[c][l] EXCEPT !.at = "batch", !.next = first, !.upto = Len(sent[b])])
     /\ UNCHANGED <<confirmed, doneVars, marks>>

OffsetSame(id) == id                           \* u.Offset without the + 1

Offset(id) == id + 1

\* A text from a configured chat goes to the agent if the channel's row can be
\* loaded, in the loop's context; the allowlist may still block it.
MayAsk(c, l, u) ==
  /\ u.kind = "text" /\ u.chat \in ChatsOf[loop[c][l].conf]
  /\ loop[c][l].live /\ There(c)

\* One update of the batch.  A command is answered in place.  For "kicked",
\* disableChannelByChatID updates by a column that the table does not have
\* (config, for channel_config): the statement fails and no row changes.
Handle(c, l) ==
  LET b == BotOfLoop(c, l)
      i == loop[c][l].next
      a == [ch |-> c, bot |-> b, id |-> i]
  IN /\ At(c, l, "batch")
     /\ Goes(c, l, IF i < loop[c][l].upto
                   THEN [loop[c][l] EXCEPT !.next = Offset(i)]
                   ELSE [loop[c][l] EXCEPT !.next = Offset(i), !.at = "top", !.upto = 0])
     /\ judged' = IF loop[c][l].live THEN judged \cup {<<b, i>>} ELSE judged
     /\ \/ /\ MayAsk(c, l, sent[b][i])
           /\ asked' = asked \cup {a}
           /\ again' = IF a \in asked THEN again \cup {a} ELSE again
        \/ UNCHANGED <<asked, again>>
     /\ UNCHANGED <<confirmed, marks>>

PollingFrame == UNCHANGED <<tableVars, pollers, proc, sent, cut, scans, run, applied>>

Polling ==
  \E c \in Channels, l \in Loops :
    /\ \/ Poll(c, l) \/ Stops(c, l) \/ GivesUp(c, l)
       \/ NoAnswer(c, l) \/ Answer(c, l) \/ Handle(c, l)
    /\ PollingFrame

-----------------------------------------------------------------------------

\* An update reaches Telegram.
Arrives ==
  /\ \E b \in Bots, k \in Kinds, x \in Chats :
       /\ Len(sent[b]) < MaxSent
       /\ sent' = [sent EXCEPT ![b] = Append(@, [kind |-> k, chat |-> x])]
  /\ UNCHANGED <<tableVars, loopVars, confirmed, doneVars, proc, cut, scans, run, applied, marks>>

\* The process ends and starts: offsets were in memory only.
Crash ==
  /\ run < MaxRuns
  /\ run' = run + 1
  /\ pollers' = [c \in Channels |-> NoLoop]
  /\ loop' = [c \in Channels |-> [l \in Loops |-> Gone]]
  /\ proc' = [p \in Procs |-> IF p = Boot THEN [at |-> "reload"] ELSE Idle]
  /\ cut' = cut \cup UNION {Unconfirmed(c) : c \in Channels}
  /\ applied' = 0 /\ marks' = {}
  /\ UNCHANGED <<tableVars, botVars, doneVars, scans>>

Init ==
  /\ row \in [Channels -> {Unborn} \cup Rows]
  /\ pollers = [c \in Channels |-> NoLoop]
  /\ loop = [c \in Channels |-> [l \in Loops |-> Gone]]
  /\ proc = [p \in Procs |-> IF p = Boot THEN [at |-> "reload"] ELSE Idle]
  /\ sent = [b \in Bots |-> <<>>] /\ confirmed = [b \in Bots |-> 0]
  /\ judged = {} /\ asked = {} /\ again = {} /\ cut = {}
  /\ writes = 0 /\ scans = 0 /\ run = 1 /\ applied = 0 /\ marks = {}

Next == Tables \/ Manager \/ Polling \/ Arrives \/ Crash

Spec == Init /\ [][Next]_vars

\* Requests go on to their end, loops go on, and Telegram, asked for ever,
\* answers one day.
Proceeds(p) ==
  \/ (Query(p) \/ Apply(p) \/ Pause(p) \/ Resume(p)) /\ ManagerFrame
  \/ ImportEnds(p) /\ TablesFrame

FairSpec ==
  /\ Spec
  /\ WF_vars(\E p \in Procs : Proceeds(p))
  /\ \A c \in Channels, l \in Loops :
       /\ WF_vars((Poll(c, l) \/ Stops(c, l) \/ NoAnswer(c, l) \/ Handle(c, l)) /\ PollingFrame)
       /\ SF_vars(Answer(c, l) /\ PollingFrame)
=============================================================================
