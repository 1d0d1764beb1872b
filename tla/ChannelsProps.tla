---------------------------- MODULE ChannelsProps ----------------------------
(* What a channel promises to the people who write to it. *)
EXTENDS Channels

Asks == [ch : Channels, bot : Bots, id : 1..MaxSent]

Updates == [kind : Kinds, chat : Chats]

LoopStates == [live : BOOLEAN, conf : Confs, at : {"top", "wait", "batch"},
               next : 1..(MaxSent + 1), upto : 0..MaxSent]

Selections == UNION {[S -> Confs] : S \in SUBSET Channels}

ProcStates ==
  {Idle} \cup [at : {"import", "reload"}]
         \cup [at : {"lock"}, rows : Selections, of : 0..MaxWrites]
         \cup [at : {"pause"}, ids : SUBSET Channels]
         \cup [at : {"discover"}, resume : BOOLEAN]

TypeOK ==
  /\ row \in [Channels -> {Unborn, Deleted} \cup Rows]
  /\ pollers \in [Channels -> Loops \cup {NoLoop}]
  /\ loop \in [Channels -> [Loops -> {Gone} \cup LoopStates]]
  /\ proc \in [Procs -> ProcStates]
  /\ sent \in [Bots -> Seq(Updates)] /\ \A b \in Bots : Len(sent[b]) <= MaxSent
  /\ confirmed \in [Bots -> 0..MaxSent]
  /\ judged \in SUBSET (Bots \X (1..MaxSent))
  /\ asked \in SUBSET Asks /\ again \in SUBSET asked /\ cut \in SUBSET asked
  /\ writes \in 0..MaxWrites /\ scans \in 0..MaxScans /\ run \in Nat
  /\ applied \in 0..MaxWrites /\ marks \in SUBSET {"unread", "overtaken", "ended"}

\* A channel has at most one loop whose context is live, and it is the one the
\* manager can cancel: whatever reloads, pauses and resumes overlap, none is
\* started beside another or lost from the map (manager.go 119-132, 190-222).
OneLivePoller ==
  \A c \in Channels, l \in Loops :
    loop[c][l] # Gone /\ loop[c][l].live => pollers[c] = l

\* Telegram forgets an update once it is confirmed: by then a loop that had
\* not been cancelled has dealt with it.  What a cancelled loop could only
\* drop comes again to its successor, because the loop looks at its context
\* before it polls (telegram.go 446-452, 491).
ConfirmedIsJudged ==
  \A b \in Bots : \A i \in 1..confirmed[b] : <<b, i>> \in judged

\* An agent is given the same update twice only when the first time was not
\* confirmed when its poller was cancelled or the process died.
TwiceOnlyIfCut == again \subseteq cut

\* When nothing is under way the manager polls for the enabled rows and no
\* others, unless a Reload could not read them or came to the lock behind one
\* that had read newer rows (manager.go 163-234).
QuietIsInSync ==
  (\A p \in Procs : proc[p] = Idle) /\ marks \cap {"unread", "overtaken"} = {}
    => Running = DOMAIN Enabled

Wanted(b) == \E c \in DOMAIN Enabled : BotOf[Enabled[c]] = b

\* An update to a bot of an enabled channel is dealt with, through pauses for
\* discovery, reloads and restarts, unless the bot is given up or a Reload
\* went wrong.
GetsThrough ==
  \A b \in Bots, i \in 1..MaxSent :
    i <= Len(sent[b]) /\ Wanted(b) ~> <<b, i>> \in judged \/ ~Wanted(b) \/ marks # {}

\* Manager.NewManager says that a channel whose bot was removed from the chat
\* is disabled (manager.go 66-69).
KickedIsDisabled ==
  \A b \in Bots : \A i \in DOMAIN sent[b] :
    sent[b][i].kind = "kicked" /\ <<b, i>> \in judged =>
      \A c \in DOMAIN Enabled : sent[b][i].chat \notin ChatsOf[Enabled[c]]
=============================================================================
