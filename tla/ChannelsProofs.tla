--------------------------- MODULE ChannelsProofs ---------------------------
(***************************************************************************)
(* The safety of the channel manager and its polling loops, for any        *)
(* channels, bots, requests, loops and restarts.                           *)
(*                                                                         *)
(* OneLivePoller is inductive beside the types.  The others are not:       *)
(* - ConfirmedIsJudged needs to know that a live loop has dealt with all   *)
(*   that lies before its offset (Passed);                                 *)
(* - TwiceOnlyIfCut needs, for every update an agent was given, where it   *)
(*   is accounted for: confirmed, cut, or behind the offset of the poller  *)
(*   in the map (Accounted); and that a batch in hand brings nothing that  *)
(*   was given before, unless it was cut (Ahead);                          *)
(* - QuietIsInSync needs who is going to put the pollers in step: a        *)
(*   request whose Reload is to come, or one at the lock with the newest   *)
(*   rows (Due).                                                           *)
(***************************************************************************)
EXTENDS ChannelsProps, TLAPS

\* Offsets and batches lie within what Telegram has.
Batches ==
  /\ \A b \in Bots : confirmed[b] <= Len(sent[b])
  /\ \A c \in Channels, l \in Loops :
       loop[c][l] # Gone =>
         /\ loop[c][l].next <= Len(sent[BotOfLoop(c, l)]) + 1
         /\ loop[c][l].at = "batch" =>
              /\ loop[c][l].next <= loop[c][l].upto
              /\ loop[c][l].upto <= Len(sent[BotOfLoop(c, l)])

Passed ==
  \A c \in Channels, l \in Loops :
    loop[c][l] # Gone /\ loop[c][l].live =>
      \A i \in 1 .. loop[c][l].next - 1 : <<BotOfLoop(c, l), i>> \in judged

Poller(c) == loop[c][pollers[c]]

Accounted ==
  \A a \in asked :
    \/ a \in cut
    \/ a.id <= confirmed[a.bot]
    \/ /\ pollers[a.ch] # NoLoop
       /\ \/ Poller(a.ch) = Gone
          \/ BotOf[Poller(a.ch).conf] = a.bot /\ a.id < Poller(a.ch).next

Ahead ==
  \A c \in Channels, l \in Loops :
    At(c, l, "batch") /\ loop[c][l].live =>
      \A a \in asked :
        a.ch = c /\ a.bot = BotOfLoop(c, l) /\ a.id >= loop[c][l].next => a \in cut

\* What a Reload holds at the lock; the newest rows it may hold are the table.
Fetched ==
  /\ applied <= writes
  /\ \A p \in Procs :
       proc[p].at = "lock" =>
         /\ proc[p].of <= writes
         /\ proc[p].of = writes => proc[p].rows = Enabled

Due(p) == \/ proc[p].at \in {"import", "reload"}
          \/ proc[p].at = "discover" /\ proc[p].resume
          \/ proc[p].at = "lock" /\ proc[p].of = writes

InSync ==
  marks \cap {"unread", "overtaken"} = {} =>
    \/ Running = DOMAIN Enabled /\ applied = writes
    \/ \E p \in Procs : Due(p)

IInv == /\ TypeOK /\ Batches /\ OneLivePoller /\ Passed /\ ConfirmedIsJudged
        /\ Accounted /\ Ahead /\ TwiceOnlyIfCut /\ Fetched /\ InSync

LEMMA Bounds == MaxSent \in Nat /\ MaxWrites \in Nat /\ MaxScans \in Nat
  BY ChannelsAssumption

(***************************************************************************)
(* Max of two numbers.                                                     *)
(***************************************************************************)
LEMMA MaxOfTwo ==
  ASSUME NEW a \in Int, NEW b \in Int
  PROVE  Max({a, b}) = IF a >= b THEN a ELSE b
<1> DEFINE m == IF a >= b THEN a ELSE b
<1>1. m \in {a, b} /\ \A y \in {a, b} : m >= y
  OBVIOUS
<1>2. \A x \in {a, b} : (\A y \in {a, b} : x >= y) => x = m
  OBVIOUS
<1> QED
  BY <1>1, <1>2 DEF Max

(***************************************************************************)
(* What Reload and PausePollersForToken select.                            *)
(***************************************************************************)
LEMMA EnabledIs ==
  ASSUME TypeOK
  PROVE  /\ DOMAIN Enabled \in SUBSET Channels
         /\ Enabled \in Selections
<1> DEFINE on == {c \in Channels : There(c) /\ row[c].on}
<1>1. \A c \in on : row[c].conf \in Confs
  BY DEF There, TypeOK, Rows
<1>2. Enabled \in [on -> Confs]
  BY <1>1 DEF Enabled
<1>3. on \in SUBSET Channels
  OBVIOUS
<1> QED
  BY <1>2, <1>3 DEF Selections

(***************************************************************************)
(* What StopAndStart leaves of each channel's loops.                       *)
(***************************************************************************)
Swapped(S, T, rows) ==
  /\ \A c \in T : /\ pollers'[c] \in Loops /\ loop[c][pollers'[c]] = Gone
                  /\ loop'[c] = [loop[c] EXCEPT ![pollers'[c]] = Fresh(rows[c])]
  /\ \A c \in S : pollers'[c] = NoLoop /\ loop'[c] = Cancelled(c)
  /\ \A c \in Channels \ (S \cup T) : pollers'[c] = pollers[c] /\ loop'[c] = loop[c]

LEMMA StopAndStartIs ==
  ASSUME TypeOK, NEW S \in SUBSET Channels, NEW T \in SUBSET Channels,
         NEW rows, \A c \in T : rows[c] \in Confs,
         S \cap T = {}, StopAndStart(S, T, rows)
  PROVE  /\ pollers' \in [Channels -> Loops \cup {NoLoop}]
         /\ loop' \in [Channels -> [Loops -> {Gone} \cup LoopStates]]
         /\ Swapped(S, T, rows)
<1> DEFINE slot == [c \in T |-> CHOOSE l \in Free(c) : TRUE]
<1>1. \A c \in T : slot[c] \in Loops /\ loop[c][slot[c]] = Gone
  <2>1. \A c \in T : Free(c) # {}
    BY DEF StopAndStart
  <2>2. \A c \in T : slot[c] \in Free(c)
    BY <2>1
  <2> QED
    BY <2>2 DEF Free
<1>2. /\ pollers' = [c \in Channels |-> IF c \in T THEN slot[c]
                                        ELSE IF c \in S THEN NoLoop ELSE pollers[c]]
      /\ loop' = [c \in Channels |-> IF c \in T THEN [loop[c] EXCEPT ![slot[c]] = Fresh(rows[c])]
                                     ELSE IF c \in S THEN Cancelled(c) ELSE loop[c]]
  BY DEF StopAndStart
<1> HIDE DEF slot
<1>3. \A c \in T : /\ pollers'[c] = slot[c]
                   /\ loop'[c] = [loop[c] EXCEPT ![slot[c]] = Fresh(rows[c])]
  BY <1>2
<1>4. \A c \in S : pollers'[c] = NoLoop /\ loop'[c] = Cancelled(c)
  BY <1>2
<1>5. \A c \in Channels \ (S \cup T) : pollers'[c] = pollers[c] /\ loop'[c] = loop[c]
  BY <1>2
<1>6. pollers' \in [Channels -> Loops \cup {NoLoop}]
  BY <1>1, <1>2 DEF TypeOK
<1>7. \A c \in T : Fresh(rows[c]) \in LoopStates
  BY ChannelsAssumption DEF Fresh, LoopStates
<1>8. \A c \in T : [loop[c] EXCEPT ![slot[c]] = Fresh(rows[c])] \in [Loops -> {Gone} \cup LoopStates]
  BY <1>7 DEF TypeOK
<1>9. \A c \in S : Cancelled(c) \in [Loops -> {Gone} \cup LoopStates]
  <2> SUFFICES ASSUME NEW c \in S, pollers[c] # NoLoop, loop[c][pollers[c]] # Gone
               PROVE  [loop[c] EXCEPT ![pollers[c]].live = FALSE]
                        \in [Loops -> {Gone} \cup LoopStates]
    BY DEF Cancelled, TypeOK
  <2>1. loop[c][pollers[c]] \in LoopStates /\ pollers[c] \in Loops
    BY DEF TypeOK
  <2>2. [loop[c][pollers[c]] EXCEPT !.live = FALSE] \in LoopStates
    BY <2>1 DEF LoopStates
  <2> QED
    BY <2>1, <2>2 DEF TypeOK
<1>10. \A c \in Channels : loop'[c] \in [Loops -> {Gone} \cup LoopStates]
  <2> SUFFICES ASSUME NEW c \in Channels
               PROVE  loop'[c] \in [Loops -> {Gone} \cup LoopStates]
    OBVIOUS
  <2>1. CASE c \in T
    BY <1>3, <1>8, <2>1
  <2>2. CASE c \in S
    BY <1>4, <1>9, <2>2
  <2>3. CASE c \notin S \cup T
    BY <1>5, <2>3 DEF TypeOK
  <2> QED
    BY <2>1, <2>2, <2>3
<1>11. loop' \in [Channels -> [Loops -> {Gone} \cup LoopStates]]
  BY <1>2, <1>10
<1> QED
  BY <1>1, <1>3, <1>4, <1>5, <1>6, <1>11 DEF Swapped

\* A cancelled poller's context is dead; nothing else is touched.
LEMMA CancelledIs ==
  ASSUME TypeOK, NEW c \in Channels, NEW l \in Loops
  PROVE  /\ Cancelled(c)[l] # Gone => loop[c][l] # Gone
         /\ l # pollers[c] => Cancelled(c)[l] = loop[c][l]
         /\ l = pollers[c] /\ loop[c][l] # Gone =>
              Cancelled(c)[l] = [loop[c][l] EXCEPT !.live = FALSE]
<1>1. loop[c] \in [Loops -> {Gone} \cup LoopStates] /\ NoLoop \notin Loops
  BY ChannelsAssumption DEF TypeOK
<1> QED
  BY <1>1 DEF Cancelled

(***************************************************************************)
(* One polling goroutine's step: what becomes of its loop.  The others     *)
(* stay as they are.                                                       *)
(***************************************************************************)
PollingStep(c, l) ==
  /\ \/ Poll(c, l) \/ Stops(c, l) \/ GivesUp(c, l)
     \/ NoAnswer(c, l) \/ Answer(c, l) \/ Handle(c, l)
  /\ PollingFrame

LEMMA GoesIs ==
  ASSUME TypeOK, NEW c \in Channels, NEW l \in Loops, NEW s, Goes(c, l, s)
  PROVE  /\ loop'[c][l] = s
         /\ \A d \in Channels, k \in Loops : <<d, k>> # <<c, l>> => loop'[d][k] = loop[d][k]
         /\ s \in {Gone} \cup LoopStates => loop' \in [Channels -> [Loops -> {Gone} \cup LoopStates]]
  BY DEF Goes, TypeOK

\* The first update that an answer brings is one that Telegram has.
LEMMA AnswerIs ==
  ASSUME TypeOK, Batches, NEW c \in Channels, NEW l \in Loops, Answer(c, l)
  PROVE  LET s == loop[c][l]
             t == loop'[c][l]
         IN /\ s \in LoopStates /\ t \in LoopStates
            /\ t.live = s.live /\ t.conf = s.conf /\ t.at = "batch"
            /\ t.upto = Len(sent[BotOfLoop(c, l)])
            /\ t.next >= s.next /\ t.next > confirmed[BotOfLoop(c, l)] /\ t.next <= t.upto
            /\ t.next = s.next \/ t.next = confirmed[BotOfLoop(c, l)] + 1
            /\ UNCHANGED <<confirmed, doneVars, marks>>
<1> DEFINE s == loop[c][l]
           b == BotOfLoop(c, l)
           first == Max({s.next, confirmed[b] + 1})
<1>1. s \in LoopStates /\ s # Gone
  BY DEF Answer, At, TypeOK
<1>2. b \in Bots /\ sent[b] \in Seq(Updates) /\ confirmed[b] \in Nat /\ Len(sent[b]) <= MaxSent
  BY <1>1, ChannelsAssumption DEF BotOfLoop, LoopStates, TypeOK
<1>3. s.next \in 1..(MaxSent + 1) /\ Len(sent[b]) \in 0..MaxSent
  BY <1>1, <1>2, ChannelsAssumption DEF LoopStates
<1>4. first = IF s.next >= confirmed[b] + 1 THEN s.next ELSE confirmed[b] + 1
  BY <1>2, <1>3, ChannelsAssumption, MaxOfTwo
<1>5. first <= Len(sent[b])
  BY DEF Answer
<1>6. loop'[c][l] = [s EXCEPT !.at = "batch", !.next = first, !.upto = Len(sent[b])]
  BY GoesIs DEF Answer
<1> HIDE DEF first, b
<1>7. first \in 1..(MaxSent + 1) /\ first >= s.next /\ first > confirmed[b]
      /\ (first = s.next \/ first = confirmed[b] + 1)
  BY <1>2, <1>3, <1>4, <1>5, ChannelsAssumption
<1>8. /\ loop'[c][l] \in LoopStates
      /\ loop'[c][l].live = s.live /\ loop'[c][l].conf = s.conf /\ loop'[c][l].at = "batch"
      /\ loop'[c][l].upto = Len(sent[b]) /\ loop'[c][l].next = first
  BY <1>1, <1>3, <1>6, <1>7 DEF LoopStates
<1>9. UNCHANGED <<confirmed, doneVars, marks>>
  BY DEF Answer
<1> QED
  BY <1>1, <1>5, <1>7, <1>8, <1>9 DEF b

\* The poll confirms what lies before the loop's offset.
LEMMA PollIs ==
  ASSUME TypeOK, Batches, NEW c \in Channels, NEW l \in Loops, Poll(c, l)
  PROVE  LET s == loop[c][l]
             t == loop'[c][l]
             b == BotOfLoop(c, l)
         IN /\ s \in LoopStates /\ t \in LoopStates /\ b \in Bots
            /\ s.live /\ t.live = s.live /\ t.conf = s.conf /\ t.at = "wait" /\ t.next = s.next
            /\ confirmed'[b] = IF confirmed[b] >= s.next - 1 THEN confirmed[b] ELSE s.next - 1
            /\ confirmed'[b] <= Len(sent[b])
            /\ \A d \in Bots : d # b => confirmed'[d] = confirmed[d]
            /\ confirmed' \in [Bots -> 0..MaxSent]
            /\ UNCHANGED <<doneVars, marks>>
<1> DEFINE s == loop[c][l]
           b == BotOfLoop(c, l)
<1>1. s \in LoopStates /\ s # Gone /\ s.live
  BY DEF Poll, At, TypeOK
<1>2. b \in Bots /\ sent[b] \in Seq(Updates) /\ confirmed[b] \in 0..MaxSent /\ Len(sent[b]) <= MaxSent
  BY <1>1, ChannelsAssumption DEF BotOfLoop, LoopStates, TypeOK
<1>3. s.next \in 1..(MaxSent + 1) /\ s.next <= Len(sent[b]) + 1 /\ confirmed[b] <= Len(sent[b])
  BY <1>1, <1>2 DEF LoopStates, Batches
<1>4. Max({confirmed[b], s.next - 1}) = IF confirmed[b] >= s.next - 1 THEN confirmed[b] ELSE s.next - 1
  BY <1>2, <1>3, ChannelsAssumption, MaxOfTwo
<1>5. loop'[c][l] = [s EXCEPT !.at = "wait"]
  BY GoesIs DEF Poll
<1>6. confirmed' = [confirmed EXCEPT ![b] = Max({confirmed[b], s.next - 1})]
  BY DEF Poll
<1>7. /\ confirmed'[b] = IF confirmed[b] >= s.next - 1 THEN confirmed[b] ELSE s.next - 1
      /\ \A d \in Bots : d # b => confirmed'[d] = confirmed[d]
  BY <1>2, <1>4, <1>6 DEF TypeOK
<1> HIDE DEF b
<1>8. Len(sent[b]) \in Nat
  BY <1>2
<1>9. confirmed'[b] <= Len(sent[b]) /\ confirmed'[b] \in 0..MaxSent
  <2>1. s.next - 1 \in Int /\ s.next - 1 >= 0 /\ s.next - 1 <= Len(sent[b]) /\ s.next - 1 <= MaxSent
    BY <1>2, <1>3, <1>8, Bounds
  <2> HIDE DEF s
  <2> QED
    BY <1>2, <1>3, <1>7, <1>8, <2>1, Bounds
<1>10. confirmed' \in [Bots -> 0..MaxSent]
  BY <1>6, <1>7, <1>9 DEF TypeOK
<1>11. /\ loop'[c][l] \in LoopStates /\ loop'[c][l].live = s.live
       /\ loop'[c][l].conf = s.conf /\ loop'[c][l].at = "wait" /\ loop'[c][l].next = s.next
  BY <1>1, <1>5 DEF LoopStates
<1>12. UNCHANGED <<doneVars, marks>>
  BY DEF Poll
<1> QED
  BY <1>1, <1>2, <1>7, <1>9, <1>10, <1>11, <1>12 DEF b

\* One update of the batch in hand; the agent may be given it.
LEMMA HandleIs ==
  ASSUME TypeOK, Batches, NEW c \in Channels, NEW l \in Loops, Handle(c, l)
  PROVE  LET s == loop[c][l]
             t == loop'[c][l]
             b == BotOfLoop(c, l)
             a == [ch |-> c, bot |-> b, id |-> s.next]
         IN /\ s \in LoopStates /\ s.at = "batch" /\ t \in LoopStates /\ b \in Bots
            /\ s.next \in 1..MaxSent /\ s.next <= Len(sent[b]) /\ a \in Asks
            /\ t.live = s.live /\ t.conf = s.conf /\ t.next = s.next + 1
            /\ t.at = "batch" => t.next <= s.upto /\ t.upto = s.upto
            /\ t.at \in {"batch", "top"}
            /\ judged' = IF s.live THEN judged \cup {<<b, s.next>>} ELSE judged
            /\ \/ /\ s.live
                  /\ asked' = asked \cup {a}
                  /\ again' = IF a \in asked THEN again \cup {a} ELSE again
               \/ UNCHANGED <<asked, again>>
            /\ UNCHANGED <<confirmed, marks>>
<1> DEFINE s == loop[c][l]
           b == BotOfLoop(c, l)
           a == [ch |-> c, bot |-> b, id |-> s.next]
<1>1. s \in LoopStates /\ s # Gone /\ s.at = "batch"
  BY DEF Handle, At, TypeOK
<1>2. b \in Bots /\ sent[b] \in Seq(Updates) /\ Len(sent[b]) <= MaxSent
  BY <1>1, ChannelsAssumption DEF BotOfLoop, LoopStates, TypeOK
<1>3. s.next \in 1..(MaxSent + 1) /\ s.next <= s.upto /\ s.upto <= Len(sent[b]) /\ s.upto \in 0..MaxSent
  BY <1>1 DEF LoopStates, Batches
<1>4. Len(sent[b]) \in Nat
  BY <1>2
<1>5. s.next \in 1..MaxSent /\ s.next <= Len(sent[b])
  BY <1>2, <1>3, <1>4, ChannelsAssumption
<1>6. a \in Asks
  BY <1>2, <1>5 DEF Asks
<1>7. loop'[c][l] = IF s.next < s.upto
                    THEN [s EXCEPT !.next = s.next + 1]
                    ELSE [s EXCEPT !.next = s.next + 1, !.at = "top", !.upto = 0]
  BY GoesIs DEF Handle, Offset
<1>8. s.next + 1 \in 1..(MaxSent + 1) /\ (s.next < s.upto => s.next + 1 <= s.upto)
  BY <1>3, <1>5, ChannelsAssumption
<1>9. /\ loop'[c][l] \in LoopStates
      /\ loop'[c][l].live = s.live /\ loop'[c][l].conf = s.conf
      /\ loop'[c][l].next = s.next + 1
      /\ loop'[c][l].at = "batch" => s.next + 1 <= s.upto /\ loop'[c][l].upto = s.upto
      /\ loop'[c][l].at \in {"batch", "top"}
  <2>1. CASE s.next < s.upto
    BY <1>1, <1>7, <1>8, <2>1 DEF LoopStates
  <2>2. CASE ~(s.next < s.upto)
    <3>1. loop'[c][l] = [s EXCEPT !.next = s.next + 1, !.at = "top", !.upto = 0]
      BY <1>7, <2>2
    <3>2. 0 \in 0..MaxSent
      BY Bounds
    <3> QED
      BY <1>1, <1>8, <3>1, <3>2 DEF LoopStates
  <2> QED
    BY <2>1, <2>2
<1>10. /\ judged' = IF s.live THEN judged \cup {<<b, s.next>>} ELSE judged
       /\ \/ /\ s.live
             /\ asked' = asked \cup {a}
             /\ again' = IF a \in asked THEN again \cup {a} ELSE again
          \/ UNCHANGED <<asked, again>>
       /\ UNCHANGED <<confirmed, marks>>
  BY DEF Handle, MayAsk
<1> QED
  BY <1>1, <1>2, <1>5, <1>6, <1>9, <1>10

\* The steps that end the loop or send it back to the top.
LEMMA RestIs ==
  ASSUME TypeOK, NEW c \in Channels, NEW l \in Loops,
         Stops(c, l) \/ GivesUp(c, l) \/ NoAnswer(c, l)
  PROVE  /\ UNCHANGED <<confirmed, doneVars>>
         /\ marks' \in {marks, marks \cup {"ended"}}
         /\ loop[c][l] \in LoopStates
         /\ \/ loop'[c][l] = Gone
            \/ /\ loop'[c][l] \in LoopStates /\ loop'[c][l].at = "top"
               /\ loop'[c][l].live = loop[c][l].live /\ loop'[c][l].conf = loop[c][l].conf
               /\ loop'[c][l].next = loop[c][l].next
<1>1. loop[c][l] \in LoopStates
  BY DEF Stops, GivesUp, NoAnswer, At, TypeOK
<1>2. CASE Stops(c, l) \/ GivesUp(c, l)
  <2>1. loop'[c][l] = Gone
    BY <1>2, GoesIs DEF Stops, GivesUp
  <2> QED
    BY <1>1, <1>2, <2>1 DEF Stops, GivesUp
<1>3. CASE NoAnswer(c, l)
  <2>1. loop'[c][l] = [loop[c][l] EXCEPT !.at = "top"]
    BY <1>3, GoesIs DEF NoAnswer
  <2>2. /\ loop'[c][l] \in LoopStates /\ loop'[c][l].at = "top"
        /\ loop'[c][l].live = loop[c][l].live /\ loop'[c][l].conf = loop[c][l].conf
        /\ loop'[c][l].next = loop[c][l].next
    BY <1>1, <2>1 DEF LoopStates
  <2> QED
    BY <1>1, <1>3, <2>2 DEF NoAnswer
<1> QED
  BY <1>2, <1>3

LEMMA MovesOne ==
  ASSUME TypeOK, NEW c \in Channels, NEW l \in Loops, PollingStep(c, l)
  PROVE  \A d \in Channels, k \in Loops : <<d, k>> # <<c, l>> => loop'[d][k] = loop[d][k]
<1>1. PICK s : Goes(c, l, s)
  BY DEF PollingStep, Poll, Stops, GivesUp, NoAnswer, Answer, Handle
<1> QED
  BY <1>1, GoesIs

\* What every step of a goroutine has in common.
LEMMA MovesOn ==
  ASSUME TypeOK, Batches, NEW c \in Channels, NEW l \in Loops, PollingStep(c, l)
  PROVE  /\ loop[c][l] # Gone /\ loop[c][l] \in LoopStates
         /\ loop'[c][l] # Gone => /\ loop'[c][l].live = loop[c][l].live
                                  /\ loop'[c][l].conf = loop[c][l].conf
                                  /\ loop'[c][l].next >= loop[c][l].next
         /\ loop'[c][l] # Gone /\ ~Answer(c, l) /\ ~Handle(c, l)
              => loop'[c][l].next = loop[c][l].next /\ loop'[c][l].at # "batch"
         /\ judged \subseteq judged' /\ asked \subseteq asked'
         /\ ~Handle(c, l) => UNCHANGED doneVars
         /\ ~Poll(c, l) => UNCHANGED confirmed
         /\ \A b \in Bots : confirmed'[b] >= confirmed[b]
<1>1. loop[c][l] # Gone /\ loop[c][l] \in LoopStates
  BY DEF PollingStep, Poll, Stops, GivesUp, NoAnswer, Answer, Handle, At, TypeOK
<1>2. loop[c][l].next \in Nat /\ \A b \in Bots : confirmed[b] \in Nat
  BY <1>1, Bounds DEF LoopStates, TypeOK
<1>3. ~Handle(c, l) => UNCHANGED doneVars
  BY DEF PollingStep, Poll, Stops, GivesUp, NoAnswer, Answer
<1>4. ~Poll(c, l) => UNCHANGED confirmed
  BY DEF PollingStep, Stops, GivesUp, NoAnswer, Answer, Handle
<1>5. CASE Poll(c, l)
  <2>1. /\ loop'[c][l].live = loop[c][l].live /\ loop'[c][l].conf = loop[c][l].conf
        /\ loop'[c][l].next = loop[c][l].next /\ loop'[c][l].at = "wait"
    BY <1>5, PollIs
  <2>2. ASSUME NEW b \in Bots PROVE confirmed'[b] >= confirmed[b]
    <3>1. CASE b = BotOfLoop(c, l)
      <4>1. confirmed'[b] = IF confirmed[b] >= loop[c][l].next - 1 THEN confirmed[b]
                            ELSE loop[c][l].next - 1
        BY <1>5, <3>1, PollIs
      <4> QED
        BY <1>2, <4>1
    <3>2. CASE b # BotOfLoop(c, l)
      <4>1. confirmed'[b] = confirmed[b] /\ confirmed[b] \in Nat
        BY <1>2, <1>5, <3>2, PollIs
      <4> QED
        BY <4>1
    <3> QED
      BY <3>1, <3>2
  <2>3. UNCHANGED doneVars
    BY <1>5 DEF Poll
  <2> QED
    BY <1>1, <1>2, <1>5, <2>1, <2>2, <2>3 DEF doneVars
<1>6. CASE Stops(c, l) \/ GivesUp(c, l) \/ NoAnswer(c, l)
  <2>1. loop'[c][l] # Gone =>
          /\ loop'[c][l].live = loop[c][l].live /\ loop'[c][l].conf = loop[c][l].conf
          /\ loop'[c][l].next = loop[c][l].next /\ loop'[c][l].at = "top"
    BY <1>6, RestIs
  <2>2. UNCHANGED <<confirmed, doneVars>>
    BY <1>6, RestIs
  <2> QED
    BY <1>1, <1>2, <1>4, <2>1, <2>2 DEF doneVars
<1>7. CASE Answer(c, l)
  <2>1. /\ loop'[c][l].live = loop[c][l].live /\ loop'[c][l].conf = loop[c][l].conf
        /\ loop'[c][l].next >= loop[c][l].next
    BY <1>7, AnswerIs
  <2>2. UNCHANGED <<confirmed, doneVars>>
    BY <1>7 DEF Answer
  <2> QED
    BY <1>1, <1>2, <1>4, <1>7, <2>1, <2>2 DEF doneVars
<1>8. CASE Handle(c, l)
  <2>1. /\ loop'[c][l].live = loop[c][l].live /\ loop'[c][l].conf = loop[c][l].conf
        /\ loop'[c][l].next = loop[c][l].next + 1
    BY <1>8, HandleIs
  <2>2. judged \subseteq judged' /\ asked \subseteq asked' /\ UNCHANGED confirmed
    BY <1>8 DEF Handle
  <2> QED
    BY <1>1, <1>2, <1>8, <2>1, <2>2
<1> QED
  BY <1>5, <1>6, <1>7, <1>8 DEF PollingStep

(***************************************************************************)
(* A request's steps are of these kinds.                                   *)
(***************************************************************************)
TableStep(p, c) == Create(p, c) \/ Update(p, c) \/ Delete(p, c) \/ ImportRow(p, c)

LEMMA ProcIs ==
  ASSUME TypeOK, NEW p \in Procs
  PROVE  /\ proc[p] \in ProcStates
         /\ proc[p].at = "lock" => /\ proc[p].rows \in Selections
                                   /\ proc[p].of \in 0..MaxWrites
         /\ proc[p].at = "pause" => proc[p].ids \in SUBSET Channels
         /\ proc[p].at = "discover" => proc[p].resume \in BOOLEAN
<1>1. proc[p] \in ProcStates
  BY DEF TypeOK
<1>2. Idle.at = "idle"
  BY DEF Idle
<1> QED
  BY <1>1, <1>2 DEF ProcStates

LEMMA StatesAre ==
  /\ Idle \in ProcStates /\ [at |-> "reload"] \in ProcStates /\ [at |-> "import"] \in ProcStates
  /\ \A r \in Selections, n \in 0..MaxWrites : [at |-> "lock", rows |-> r, of |-> n] \in ProcStates
  /\ \A S \in SUBSET Channels : [at |-> "pause", ids |-> S] \in ProcStates
  /\ \A b \in BOOLEAN : [at |-> "discover", resume |-> b] \in ProcStates
  BY DEF ProcStates

LEMMA BecomeIs ==
  ASSUME TypeOK, NEW p \in Procs, NEW s, Become(p, s)
  PROVE  /\ proc'[p] = s /\ \A q \in Procs : q # p => proc'[q] = proc[q]
         /\ s \in ProcStates => proc' \in [Procs -> ProcStates]
  BY DEF Become, TypeOK

\* A Reload at the lock and a pause stop and start channels of the table only.
LEMMA ApplyIs ==
  ASSUME TypeOK, NEW p \in Procs, Apply(p)
  PROVE  LET wanted == DOMAIN proc[p].rows
         IN /\ wanted \in SUBSET Channels
            /\ \A c \in wanted : proc[p].rows[c] \in Confs
            /\ StopAndStart(Running \ wanted, wanted \ Running, proc[p].rows)
            /\ applied' = IF applied >= proc[p].of THEN applied ELSE proc[p].of
            /\ applied' \in 0..MaxWrites
<1>1. proc[p].rows \in Selections /\ proc[p].of \in 0..MaxWrites
  BY ProcIs DEF Apply
<1>2. PICK S \in SUBSET Channels : proc[p].rows \in [S -> Confs]
  BY <1>1 DEF Selections
<1>3. StopAndStart(Running \ DOMAIN proc[p].rows, DOMAIN proc[p].rows \ Running, proc[p].rows)
  BY DEF Apply
<1>4. Max({applied, proc[p].of}) = IF applied >= proc[p].of THEN applied ELSE proc[p].of
  <2>1. applied \in Int /\ proc[p].of \in Int
    BY <1>1, Bounds DEF TypeOK
  <2> QED
    BY <2>1, MaxOfTwo
<1>5. applied' = IF applied >= proc[p].of THEN applied ELSE proc[p].of
  BY <1>4 DEF Apply
<1> QED
  BY <1>1, <1>2, <1>3, <1>5 DEF TypeOK

LEMMA StopAndStartCuts ==
  ASSUME TypeOK, NEW S \in SUBSET Channels, NEW T, NEW rows, StopAndStart(S, T, rows)
  PROVE  /\ cut' \in SUBSET asked /\ cut \subseteq cut'
         /\ \A c \in S : Unconfirmed(c) \subseteq cut'
  BY DEF StopAndStart, Unconfirmed, TypeOK

(***************************************************************************)
(* Types                                                                   *)
(***************************************************************************)
LEMMA InitTyped == Init => TypeOK
<1> SUFFICES ASSUME Init PROVE TypeOK
  OBVIOUS
<1>1. proc \in [Procs -> ProcStates]
  BY StatesAre DEF Init
<1>2. sent \in [Bots -> Seq(Updates)] /\ \A b \in Bots : Len(sent[b]) <= MaxSent
  BY Bounds DEF Init
<1>3. confirmed \in [Bots -> 0..MaxSent] /\ writes \in 0..MaxWrites /\ scans \in 0..MaxScans
      /\ applied \in 0..MaxWrites /\ run \in Nat
  BY Bounds DEF Init
<1> QED
  BY <1>1, <1>2, <1>3 DEF Init, TypeOK

LEMMA TablesTyped ==
  ASSUME TypeOK, Tables
  PROVE  TypeOK'
<1>1. PICK p \in Procs :
        /\ (\E c \in Channels : TableStep(p, c)) \/ ImportEnds(p)
        /\ TablesFrame
  BY DEF Tables, TableStep
<1>2. CASE ImportEnds(p)
  <2>1. proc' \in [Procs -> ProcStates]
    BY <1>2, BecomeIs, StatesAre DEF ImportEnds
  <2> QED
    BY <1>1, <1>2, <2>1
    DEF ImportEnds, TypeOK, TablesFrame, tableVars, loopVars, botVars, doneVars
<1>3. ASSUME NEW c \in Channels, TableStep(p, c) PROVE TypeOK'
  <2>1. proc' \in [Procs -> ProcStates]
    BY <1>3, BecomeIs, StatesAre DEF TableStep, Create, Update, Delete, ImportRow
  <2>2. PICK r \in {Deleted} \cup Rows : Write(c, r)
    BY <1>3 DEF TableStep, Create, Update, Delete, ImportRow
  <2>3. row' \in [Channels -> {Unborn, Deleted} \cup Rows] /\ writes' \in 0..MaxWrites
    BY <2>2, Bounds DEF Write, TypeOK
  <2> QED
    BY <1>1, <2>1, <2>3 DEF TypeOK, TablesFrame, loopVars, botVars, doneVars
<1> QED
  BY <1>1, <1>2, <1>3

LEMMA ManagerTyped ==
  ASSUME TypeOK, Manager
  PROVE  TypeOK'
<1>1. PICK p \in Procs :
        /\ \/ Query(p) \/ QueryFails(p) \/ Apply(p)
           \/ Pause(p) \/ Resume(p) \/ \E b \in Bots : Discover(p, b)
        /\ ManagerFrame
  BY DEF Manager
<1>2. CASE Query(p)
  <2>1. proc' \in [Procs -> ProcStates]
    BY <1>2, BecomeIs, StatesAre, EnabledIs DEF Query, TypeOK
  <2> QED
    BY <1>1, <1>2, <2>1 DEF Query, TypeOK, ManagerFrame, tableVars, loopVars, botVars, doneVars
<1>3. CASE QueryFails(p)
  <2>1. proc' \in [Procs -> ProcStates]
    BY <1>3, BecomeIs, StatesAre DEF QueryFails
  <2> QED
    BY <1>1, <1>3, <2>1 DEF QueryFails, TypeOK, ManagerFrame, tableVars, loopVars, botVars, doneVars
<1>4. CASE Apply(p)
  <2> DEFINE wanted == DOMAIN proc[p].rows
  <2>1. /\ wanted \ Running \in SUBSET Channels /\ Running \ wanted \in SUBSET Channels
        /\ \A c \in wanted \ Running : proc[p].rows[c] \in Confs
        /\ StopAndStart(Running \ wanted, wanted \ Running, proc[p].rows)
        /\ applied' \in 0..MaxWrites
    BY <1>4, ApplyIs DEF Running
  <2> HIDE DEF wanted
  <2>2. /\ pollers' \in [Channels -> Loops \cup {NoLoop}]
        /\ loop' \in [Channels -> [Loops -> {Gone} \cup LoopStates]]
    BY <2>1, StopAndStartIs
  <2>3. cut' \in SUBSET asked
    BY <2>1, StopAndStartCuts
  <2>4. proc' \in [Procs -> ProcStates]
    BY <1>4, BecomeIs, StatesAre DEF Apply
  <2> QED
    BY <1>1, <1>4, <2>1, <2>2, <2>3, <2>4 DEF Apply, TypeOK, ManagerFrame, tableVars, botVars, doneVars
<1>5. CASE Pause(p)
  <2> DEFINE paused == proc[p].ids \cap Running
  <2>1. paused \in SUBSET Channels /\ StopAndStart(paused, {}, <<>>)
    BY <1>5 DEF Pause, Running
  <2>2. proc' \in [Procs -> ProcStates]
    BY <1>5, BecomeIs, StatesAre DEF Pause
  <2> HIDE DEF paused
  <2>3. /\ pollers' \in [Channels -> Loops \cup {NoLoop}]
        /\ loop' \in [Channels -> [Loops -> {Gone} \cup LoopStates]]
    <3>1. /\ {} \in SUBSET Channels /\ paused \cap {} = {}
          /\ \A c \in {} : <<>>[c] \in Confs
      OBVIOUS
    <3> QED
      BY <2>1, <3>1, StopAndStartIs
  <2>4. cut' \in SUBSET asked
    BY <2>1, StopAndStartCuts
  <2> QED
    BY <1>1, <1>5, <2>2, <2>3, <2>4 DEF Pause, TypeOK, ManagerFrame, tableVars, botVars, doneVars
<1>6. CASE Resume(p)
  <2>1. proc' \in [Procs -> ProcStates]
    BY <1>6, BecomeIs, StatesAre DEF Resume
  <2> QED
    BY <1>1, <1>6, <2>1 DEF Resume, TypeOK, ManagerFrame, tableVars, loopVars, botVars, doneVars
<1>7. ASSUME NEW b \in Bots, Discover(p, b) PROVE TypeOK'
  <2>1. {c \in DOMAIN Enabled : BotOf[Enabled[c]] = b} \in SUBSET Channels
    BY EnabledIs
  <2>2. proc' \in [Procs -> ProcStates]
    BY <1>7, <2>1, BecomeIs, StatesAre DEF Discover
  <2>3. scans' \in 0..MaxScans
    BY <1>7, Bounds DEF Discover, TypeOK
  <2> QED
    BY <1>1, <1>7, <2>2, <2>3 DEF Discover, TypeOK, ManagerFrame, tableVars, loopVars, botVars, doneVars
<1> QED
  BY <1>1, <1>2, <1>3, <1>4, <1>5, <1>6, <1>7

LEMMA PollingTyped ==
  ASSUME TypeOK, Batches, NEW c \in Channels, NEW l \in Loops, PollingStep(c, l)
  PROVE  TypeOK'
<1>1. loop' \in [Channels -> [Loops -> {Gone} \cup LoopStates]]
  <2>1. loop'[c][l] \in {Gone} \cup LoopStates
    BY PollIs, AnswerIs, HandleIs, RestIs DEF PollingStep
  <2>2. PICK s : Goes(c, l, s)
    BY DEF PollingStep, Poll, Stops, GivesUp, NoAnswer, Answer, Handle
  <2> QED
    BY <2>1, <2>2, GoesIs
<1>2. confirmed' \in [Bots -> 0..MaxSent]
  <2>1. Poll(c, l) => confirmed' \in [Bots -> 0..MaxSent]
    BY PollIs
  <2>2. ~Poll(c, l) => UNCHANGED confirmed
    BY DEF PollingStep, Stops, GivesUp, NoAnswer, Answer, Handle
  <2> QED
    BY <2>1, <2>2 DEF TypeOK
<1>3. /\ judged' \in SUBSET (Bots \X (1..MaxSent))
      /\ asked' \in SUBSET Asks /\ again' \in SUBSET asked' /\ asked \subseteq asked'
      /\ marks' \in SUBSET {"unread", "overtaken", "ended"}
  <2>1. CASE Handle(c, l)
    <3>1. BotOfLoop(c, l) \in Bots /\ loop[c][l].next \in 1..MaxSent
          /\ [ch |-> c, bot |-> BotOfLoop(c, l), id |-> loop[c][l].next] \in Asks
      BY <2>1, HandleIs
    <3>2. judged' \in SUBSET (Bots \X (1..MaxSent))
      BY <2>1, <3>1, HandleIs DEF TypeOK
    <3>3. asked' \in SUBSET Asks /\ again' \in SUBSET asked' /\ asked \subseteq asked'
      BY <2>1, <3>1, HandleIs DEF TypeOK
    <3> QED
      BY <2>1, <3>2, <3>3, HandleIs DEF TypeOK
  <2>2. CASE ~Handle(c, l)
    BY <2>2 DEF PollingStep, Poll, Stops, GivesUp, NoAnswer, Answer, TypeOK, doneVars
  <2> QED
    BY <2>1, <2>2
<1>4. cut' \in SUBSET asked'
  BY <1>3 DEF PollingStep, PollingFrame, TypeOK
<1> QED
  BY <1>1, <1>2, <1>3, <1>4 DEF PollingStep, PollingFrame, TypeOK, tableVars

LEMMA ArrivesTyped ==
  ASSUME TypeOK, Arrives
  PROVE  /\ TypeOK'
         /\ \A b \in Bots : Len(sent'[b]) >= Len(sent[b])
<1>1. PICK b \in Bots, k \in Kinds, x \in Chats :
        /\ Len(sent[b]) < MaxSent
        /\ sent' = [sent EXCEPT ![b] = Append(sent[b], [kind |-> k, chat |-> x])]
  BY DEF Arrives
<1>2. [kind |-> k, chat |-> x] \in Updates /\ sent[b] \in Seq(Updates) /\ Len(sent[b]) \in Nat
  <2>1. sent[b] \in Seq(Updates)
    BY DEF TypeOK
  <2> QED
    BY <2>1 DEF Updates
<1>3. /\ Append(sent[b], [kind |-> k, chat |-> x]) \in Seq(Updates)
      /\ Len(Append(sent[b], [kind |-> k, chat |-> x])) = Len(sent[b]) + 1
  BY <1>2
<1>4. sent' \in [Bots -> Seq(Updates)]
  BY <1>1, <1>3 DEF TypeOK
<1>5. \A d \in Bots : Len(sent'[d]) <= MaxSent /\ Len(sent'[d]) >= Len(sent[d])
  <2> SUFFICES ASSUME NEW d \in Bots
               PROVE  Len(sent'[d]) <= MaxSent /\ Len(sent'[d]) >= Len(sent[d])
    OBVIOUS
  <2>1. CASE d = b
    BY <1>1, <1>2, <1>3, <2>1, Bounds DEF TypeOK
  <2>2. CASE d # b
    <3>1. sent'[d] = sent[d] /\ Len(sent[d]) \in Nat /\ Len(sent[d]) <= MaxSent
      BY <1>1, <2>2 DEF TypeOK
    <3> QED
      BY <3>1
  <2> QED
    BY <2>1, <2>2
<1> QED
  BY <1>4, <1>5 DEF Arrives, TypeOK, tableVars, loopVars, doneVars

LEMMA CrashTyped ==
  ASSUME TypeOK, Crash
  PROVE  TypeOK'
<1>1. proc' \in [Procs -> ProcStates]
  BY StatesAre DEF Crash
<1>2. cut' \in SUBSET asked
  BY DEF Crash, Unconfirmed, TypeOK
<1>3. run' \in Nat /\ applied' \in 0..MaxWrites
  BY Bounds DEF Crash, TypeOK
<1> QED
  BY <1>1, <1>2, <1>3 DEF Crash, TypeOK, tableVars, botVars, doneVars

LEMMA StepTyped ==
  ASSUME TypeOK, Batches, [Next]_vars
  PROVE  TypeOK'
<1>1. CASE UNCHANGED vars
  BY <1>1 DEF TypeOK, vars, tableVars, loopVars, botVars, doneVars
<1>2. CASE Polling
  <2>1. PICK c \in Channels, l \in Loops : PollingStep(c, l)
    BY <1>2 DEF Polling, PollingStep
  <2> QED
    BY <2>1, PollingTyped
<1> QED
  BY <1>1, <1>2, TablesTyped, ManagerTyped, ArrivesTyped, CrashTyped DEF Next

(***************************************************************************)
(* What the manager does to the loops: it stops pollers that are in the    *)
(* map and starts pollers for channels that have none.                     *)
(***************************************************************************)
Swap(S, T, rows) ==
  /\ S \in SUBSET Running /\ T \in SUBSET (Channels \ Running)
  /\ \A c \in T : rows[c] \in Confs
  /\ StopAndStart(S, T, rows)

LEMMA ManagerSwaps ==
  ASSUME TypeOK, Manager
  PROVE  /\ UNCHANGED <<tableVars, sent, confirmed, judged, asked, again>>
         /\ UNCHANGED <<pollers, loop, cut>> \/ \E S, T, rows : Swap(S, T, rows)
<1>1. PICK p \in Procs :
        /\ \/ Query(p) \/ QueryFails(p) \/ Apply(p)
           \/ Pause(p) \/ Resume(p) \/ \E b \in Bots : Discover(p, b)
        /\ ManagerFrame
  BY DEF Manager
<1>2. UNCHANGED <<tableVars, sent, confirmed, judged, asked, again>>
  BY <1>1 DEF ManagerFrame, botVars, doneVars
<1>3. CASE Apply(p)
  <2> DEFINE wanted == DOMAIN proc[p].rows
  <2>1. Swap(Running \ wanted, wanted \ Running, proc[p].rows)
    BY <1>3, ApplyIs DEF Swap
  <2> QED
    BY <1>2, <2>1
<1>4. CASE Pause(p)
  <2>1. /\ proc[p].ids \cap Running \in SUBSET Running /\ {} \in SUBSET (Channels \ Running)
        /\ \A c \in {} : <<>>[c] \in Confs
    OBVIOUS
  <2>2. Swap(proc[p].ids \cap Running, {}, <<>>)
    BY <1>4, <2>1 DEF Pause, Swap
  <2> QED
    BY <1>2, <2>2
<1> QED
  BY <1>1, <1>2, <1>3, <1>4 DEF Query, QueryFails, Resume, Discover, loopVars

LEMMA SwapIs ==
  ASSUME TypeOK, NEW S, NEW T, NEW rows, Swap(S, T, rows)
  PROVE  /\ S \in SUBSET Channels /\ T \in SUBSET Channels
         /\ Swapped(S, T, rows)
         /\ cut \subseteq cut' /\ \A c \in S : Unconfirmed(c) \subseteq cut'
<1>1. S \in SUBSET Channels /\ T \in SUBSET Channels /\ S \cap T = {}
  BY DEF Swap, Running
<1>2. (\A c \in T : rows[c] \in Confs) /\ StopAndStart(S, T, rows)
  BY DEF Swap
<1>3. Swapped(S, T, rows)
  BY <1>1, <1>2, StopAndStartIs
<1>4. cut \subseteq cut' /\ \A c \in S : Unconfirmed(c) \subseteq cut'
  BY <1>1, <1>2, StopAndStartCuts
<1> QED
  BY <1>1, <1>3, <1>4

\* A loop is then the same but for its context, which may end, or new.
Kept(c, l) ==
  /\ loop[c][l] # Gone
  /\ loop'[c][l].conf = loop[c][l].conf /\ loop'[c][l].at = loop[c][l].at
  /\ loop'[c][l].next = loop[c][l].next /\ loop'[c][l].upto = loop[c][l].upto
  /\ loop'[c][l].live => loop[c][l].live

Started(c, l) == \E conf \in Confs : loop'[c][l] = Fresh(conf)

LEMMA LoopsAfter ==
  ASSUME TypeOK, NEW S, NEW T, NEW rows, Swap(S, T, rows),
         NEW c \in Channels, NEW l \in Loops, loop'[c][l] # Gone
  PROVE  Kept(c, l) \/ Started(c, l)
<1>1. CASE loop'[c][l] = loop[c][l]
  BY <1>1 DEF Kept
<1>2. CASE c \in T
  <2>1. rows[c] \in Confs
    BY <1>2 DEF Swap
  <2>2. loop'[c][l] = IF l = pollers'[c] THEN Fresh(rows[c]) ELSE loop[c][l]
    <3>1. loop'[c] = [loop[c] EXCEPT ![pollers'[c]] = Fresh(rows[c])]
      BY <1>2, SwapIs DEF Swapped
    <3>2. loop[c] \in [Loops -> {Gone} \cup LoopStates]
      BY DEF TypeOK
    <3> QED
      BY <3>1, <3>2
  <2> QED
    BY <1>1, <2>1, <2>2 DEF Started
<1>3. CASE c \in S
  <2>1. loop'[c][l] = Cancelled(c)[l]
    BY <1>3, SwapIs DEF Swapped
  <2>2. loop[c][l] # Gone
    BY <2>1, CancelledIs
  <2>3. loop[c][l] \in LoopStates
    BY <2>2 DEF TypeOK
  <2>4. CASE loop'[c][l] = [loop[c][l] EXCEPT !.live = FALSE]
    BY <2>2, <2>3, <2>4 DEF Kept, LoopStates
  <2> QED
    BY <1>1, <2>1, <2>2, <2>4, CancelledIs
<1>4. CASE c \notin S \cup T
  BY <1>1, <1>4, SwapIs DEF Swapped
<1> QED
  BY <1>2, <1>3, <1>4

(***************************************************************************)
(* Offsets and batches                                                     *)
(***************************************************************************)
LEMMA SentOf ==
  ASSUME TypeOK, NEW c \in Channels, NEW l \in Loops, loop[c][l] # Gone
  PROVE  /\ loop[c][l] \in LoopStates /\ BotOfLoop(c, l) \in Bots
         /\ Len(sent[BotOfLoop(c, l)]) \in 0..MaxSent
         /\ loop[c][l].next \in Nat /\ loop[c][l].upto \in Nat
<1>1. loop[c][l] \in LoopStates
  BY DEF TypeOK
<1>2. BotOfLoop(c, l) \in Bots /\ loop[c][l].next \in Nat /\ loop[c][l].upto \in Nat
  BY <1>1, ChannelsAssumption, Bounds DEF BotOfLoop, LoopStates
<1>3. sent[BotOfLoop(c, l)] \in Seq(Updates) /\ Len(sent[BotOfLoop(c, l)]) <= MaxSent
  BY <1>2 DEF TypeOK
<1> QED
  BY <1>1, <1>2, <1>3, Bounds

LEMMA StepBatches ==
  ASSUME TypeOK, Batches, [Next]_vars
  PROVE  Batches'
<1>1. CASE UNCHANGED <<loop, confirmed, sent>>
  BY <1>1 DEF Batches, BotOfLoop
<1>2. CASE Manager
  <2>1. CASE UNCHANGED loop
    BY <1>1, <1>2, <2>1, ManagerSwaps
  <2>2. ASSUME NEW S, NEW T, NEW rows, Swap(S, T, rows) PROVE Batches'
    <3>1. UNCHANGED <<sent, confirmed>>
      BY <1>2, ManagerSwaps
    <3>2. SUFFICES ASSUME NEW c \in Channels, NEW l \in Loops, loop'[c][l] # Gone
                   PROVE  /\ loop'[c][l].next <= Len(sent[BotOfLoop(c, l)']) + 1
                          /\ loop'[c][l].at = "batch" =>
                               /\ loop'[c][l].next <= loop'[c][l].upto
                               /\ loop'[c][l].upto <= Len(sent[BotOfLoop(c, l)'])
      BY <3>1 DEF Batches
    <3>3. CASE Kept(c, l)
      BY <3>1, <3>3 DEF Batches, BotOfLoop, Kept
    <3>4. ASSUME NEW conf \in Confs, loop'[c][l] = Fresh(conf)
          PROVE  loop'[c][l].next <= Len(sent[BotOfLoop(c, l)']) + 1 /\ loop'[c][l].at # "batch"
      <4>1. BotOf[conf] \in Bots /\ sent[BotOf[conf]] \in Seq(Updates)
        BY ChannelsAssumption DEF TypeOK
      <4>2. BotOfLoop(c, l)' = BotOf[conf] /\ loop'[c][l].next = 1 /\ loop'[c][l].at = "top"
        BY <3>4 DEF BotOfLoop, Fresh
      <4> QED
        BY <4>1, <4>2
    <3> QED
      BY <2>2, <3>2, <3>3, <3>4, LoopsAfter DEF Started
  <2> QED
    BY <1>2, <2>1, <2>2, ManagerSwaps
<1>3. CASE Polling
  <2>1. PICK c \in Channels, l \in Loops : PollingStep(c, l)
    BY <1>3 DEF Polling, PollingStep
  <2>2. UNCHANGED sent
    BY <2>1 DEF PollingStep, PollingFrame
  <2>3. \A d \in Channels, k \in Loops : <<d, k>> # <<c, l>> => loop'[d][k] = loop[d][k]
    BY <2>1, MovesOne
  <2>4. \A b \in Bots : confirmed'[b] <= Len(sent[b])
    <3>1. CASE Poll(c, l)
      BY <3>1, PollIs DEF Batches
    <3>2. CASE ~Poll(c, l)
      BY <2>1, <3>2 DEF PollingStep, Stops, GivesUp, NoAnswer, Answer, Handle, Batches
    <3> QED
      BY <3>1, <3>2
  <2>5. loop'[c][l] # Gone =>
          /\ loop'[c][l].next <= Len(sent[BotOfLoop(c, l)']) + 1
          /\ loop'[c][l].at = "batch" =>
               /\ loop'[c][l].next <= loop'[c][l].upto
               /\ loop'[c][l].upto <= Len(sent[BotOfLoop(c, l)'])
    <3>1. CASE Poll(c, l)
      BY <3>1, PollIs, SentOf DEF Batches, BotOfLoop, Poll, At
    <3>2. CASE Stops(c, l) \/ GivesUp(c, l) \/ NoAnswer(c, l)
      BY <3>2, RestIs, SentOf DEF Batches, BotOfLoop, Stops, GivesUp, NoAnswer, At
    <3>3. CASE Answer(c, l)
      <4>1. BotOfLoop(c, l)' = BotOfLoop(c, l)
        BY <3>3, AnswerIs DEF BotOfLoop
      <4>2. Len(sent[BotOfLoop(c, l)]) \in Nat
        BY <3>3, SentOf DEF Answer, At
      <4>3. loop'[c][l].next \in Int
        BY <3>3, AnswerIs DEF LoopStates
      <4> QED
        BY <3>3, <4>1, <4>2, <4>3, AnswerIs
    <3>4. CASE Handle(c, l)
      <4>1. BotOfLoop(c, l)' = BotOfLoop(c, l)
        BY <3>4, HandleIs DEF BotOfLoop
      <4>2. loop[c][l] # Gone
        BY <3>4 DEF Handle, At
      <4>3. Len(sent[BotOfLoop(c, l)]) \in Nat /\ loop[c][l].next \in Nat
        BY <4>2, SentOf
      <4>4. loop[c][l].next <= Len(sent[BotOfLoop(c, l)]) /\ loop'[c][l].next = loop[c][l].next + 1
        BY <3>4, HandleIs
      <4>5. loop[c][l].upto <= Len(sent[BotOfLoop(c, l)])
        BY <3>4, <4>2, HandleIs DEF Batches
      <4>6. loop'[c][l].at = "batch" =>
              loop'[c][l].next <= loop[c][l].upto /\ loop'[c][l].upto = loop[c][l].upto
        BY <3>4, HandleIs
      <4>7. loop'[c][l].next <= Len(sent[BotOfLoop(c, l)]) + 1
        BY <4>3, <4>4
      <4> QED
        BY <4>1, <4>5, <4>6, <4>7
    <3> QED
      BY <2>1, <3>1, <3>2, <3>3, <3>4 DEF PollingStep
  <2>6. ASSUME NEW d \in Channels, NEW k \in Loops, <<d, k>> # <<c, l>>, loop'[d][k] # Gone
        PROVE  /\ loop'[d][k].next <= Len(sent[BotOfLoop(d, k)']) + 1
               /\ loop'[d][k].at = "batch" =>
                    /\ loop'[d][k].next <= loop'[d][k].upto
                    /\ loop'[d][k].upto <= Len(sent[BotOfLoop(d, k)'])
    <3>1. loop'[d][k] = loop[d][k] /\ BotOfLoop(d, k)' = BotOfLoop(d, k)
      BY <2>3, <2>6 DEF BotOfLoop
    <3> QED
      BY <2>6, <3>1 DEF Batches
  <2>7. \A d \in Channels, k \in Loops :
          loop'[d][k] # Gone =>
            /\ loop'[d][k].next <= Len(sent[BotOfLoop(d, k)']) + 1
            /\ loop'[d][k].at = "batch" =>
                 /\ loop'[d][k].next <= loop'[d][k].upto
                 /\ loop'[d][k].upto <= Len(sent[BotOfLoop(d, k)'])
    BY <2>5, <2>6
  <2> QED
    BY <2>2, <2>4, <2>7 DEF Batches, BotOfLoop
<1>4. CASE Arrives
  <2>1. \A b \in Bots : Len(sent'[b]) >= Len(sent[b])
    BY <1>4, ArrivesTyped
  <2>2. UNCHANGED <<loop, confirmed>>
    BY <1>4 DEF Arrives, loopVars
  <2>3. \A b \in Bots : Len(sent'[b]) \in Nat /\ Len(sent[b]) \in Nat /\ confirmed[b] \in Nat
    BY <1>4, ArrivesTyped, Bounds DEF TypeOK
  <2>4. \A b \in Bots : confirmed[b] <= Len(sent'[b])
    BY <2>1, <2>3 DEF Batches
  <2>5. ASSUME NEW c \in Channels, NEW l \in Loops, loop[c][l] # Gone
        PROVE  /\ loop[c][l].next <= Len(sent'[BotOfLoop(c, l)]) + 1
               /\ loop[c][l].at = "batch" => loop[c][l].upto <= Len(sent'[BotOfLoop(c, l)])
    BY <2>1, <2>3, <2>5, SentOf DEF Batches
  <2> QED
    BY <2>2, <2>4, <2>5 DEF Batches, BotOfLoop
<1>5. CASE Crash
  BY <1>5 DEF Crash, Batches, botVars
<1>6. CASE Tables
  BY <1>1, <1>6 DEF Tables, TablesFrame, loopVars, botVars
<1>7. CASE UNCHANGED vars
  BY <1>1, <1>7 DEF vars, loopVars, botVars
<1> QED
  BY <1>2, <1>3, <1>4, <1>5, <1>6, <1>7 DEF Next

(***************************************************************************)
(* One live poller: the manager starts only where there is none, and       *)
(* cancels what it takes from the map.                                     *)
(***************************************************************************)
LEMMA StepOneLive ==
  ASSUME TypeOK, Batches, OneLivePoller, [Next]_vars
  PROVE  OneLivePoller'
<1>1. CASE UNCHANGED <<pollers, loop>>
  BY <1>1 DEF OneLivePoller
<1>2. ASSUME NEW S, NEW T, NEW rows, Swap(S, T, rows) PROVE OneLivePoller'
  <2> SUFFICES ASSUME NEW c \in Channels, NEW l \in Loops, loop'[c][l] # Gone, loop'[c][l].live
               PROVE  pollers'[c] = l
    BY DEF OneLivePoller
  <2>1. Swapped(S, T, rows) /\ S \in SUBSET Running /\ T \in SUBSET (Channels \ Running)
    BY <1>2, SwapIs DEF Swap
  <2>2. CASE c \in T
    <3>1. pollers[c] = NoLoop
      BY <2>1, <2>2 DEF Running
    <3>2. loop[c][l] = Gone \/ ~loop[c][l].live
      BY <3>1, ChannelsAssumption DEF OneLivePoller
    <3>3. l # pollers'[c] => loop'[c][l] = loop[c][l]
      <4>1. loop'[c] = [loop[c] EXCEPT ![pollers'[c]] = Fresh(rows[c])]
        BY <2>1, <2>2 DEF Swapped
      <4>2. loop[c] \in [Loops -> {Gone} \cup LoopStates]
        BY DEF TypeOK
      <4> QED
        BY <4>1, <4>2
    <3> QED
      BY <3>2, <3>3
  <2>3. CASE c \in S
    <3>1. loop'[c][l] = Cancelled(c)[l]
      BY <2>1, <2>3 DEF Swapped
    <3>2. loop[c][l] # Gone
      BY <3>1, CancelledIs
    <3>3. l # pollers[c]
      <4>1. loop[c][l] \in LoopStates
        BY <3>2 DEF TypeOK
      <4>2. l = pollers[c] => loop'[c][l] = [loop[c][l] EXCEPT !.live = FALSE]
        BY <3>1, <3>2, CancelledIs
      <4>3. l = pollers[c] => ~loop'[c][l].live
        BY <4>1, <4>2 DEF LoopStates
      <4> QED
        BY <4>3
    <3>4. loop'[c][l] = loop[c][l]
      BY <3>1, <3>3, CancelledIs
    <3> QED
      BY <3>2, <3>3, <3>4 DEF OneLivePoller
  <2>4. CASE c \notin S \cup T
    BY <2>1, <2>4 DEF Swapped, OneLivePoller
  <2> QED
    BY <2>2, <2>3, <2>4
<1>3. CASE Manager
  BY <1>1, <1>2, <1>3, ManagerSwaps
<1>4. CASE Polling
  <2>1. PICK c \in Channels, l \in Loops : PollingStep(c, l)
    BY <1>4 DEF Polling, PollingStep
  <2>2. loop'[c][l] # Gone => loop[c][l] # Gone /\ loop'[c][l].live = loop[c][l].live
    BY <2>1, MovesOn
  <2>3. \A d \in Channels, k \in Loops : <<d, k>> # <<c, l>> => loop'[d][k] = loop[d][k]
    BY <2>1, MovesOne
  <2>4. UNCHANGED pollers
    BY <2>1 DEF PollingStep, PollingFrame
  <2>5. ASSUME NEW d \in Channels, NEW k \in Loops, loop'[d][k] # Gone, loop'[d][k].live
        PROVE  loop[d][k] # Gone /\ loop[d][k].live
    <3>1. CASE d = c /\ k = l
      BY <2>2, <2>5, <3>1
    <3>2. CASE ~(d = c /\ k = l)
      BY <2>3, <2>5, <3>2
    <3> QED
      BY <3>1, <3>2
  <2> QED
    BY <2>4, <2>5 DEF OneLivePoller
<1>5. CASE Crash
  BY <1>5 DEF Crash, OneLivePoller
<1>6. CASE Tables \/ Arrives
  BY <1>1, <1>6 DEF Tables, TablesFrame, Arrives, loopVars
<1>7. CASE UNCHANGED vars
  BY <1>1, <1>7 DEF vars, loopVars
<1> QED
  BY <1>3, <1>4, <1>5, <1>6, <1>7 DEF Next

(***************************************************************************)
(* A live loop has dealt with what it left behind, and only a live loop    *)
(* confirms.                                                               *)
(***************************************************************************)
LEMMA StepPassed ==
  ASSUME TypeOK, Batches, Passed, ConfirmedIsJudged, [Next]_vars
  PROVE  Passed'
<1>1. CASE UNCHANGED <<loop, judged>>
  BY <1>1 DEF Passed, BotOfLoop
<1>2. ASSUME NEW S, NEW T, NEW rows, Swap(S, T, rows), UNCHANGED judged PROVE Passed'
  <2> SUFFICES ASSUME NEW c \in Channels, NEW l \in Loops, loop'[c][l] # Gone, loop'[c][l].live,
                      NEW i \in 1 .. loop'[c][l].next - 1
               PROVE  <<BotOfLoop(c, l)', i>> \in judged
    BY <1>2 DEF Passed
  <2>1. CASE Kept(c, l)
    BY <2>1 DEF Kept, Passed, BotOfLoop
  <2>2. CASE Started(c, l)
    BY <2>2 DEF Started, Fresh
  <2> QED
    BY <1>2, <2>1, <2>2, LoopsAfter
<1>3. CASE Manager
  BY <1>1, <1>2, <1>3, ManagerSwaps
<1>4. CASE Polling
  <2>1. PICK c \in Channels, l \in Loops : PollingStep(c, l)
    BY <1>4 DEF Polling, PollingStep
  <2>2. \A d \in Channels, k \in Loops : <<d, k>> # <<c, l>> => loop'[d][k] = loop[d][k]
    BY <2>1, MovesOne
  <2>3. judged \subseteq judged'
    BY <2>1, MovesOn
  <2>4. loop[c][l] # Gone /\ loop[c][l] \in LoopStates
    BY <2>1, MovesOn
  <2>5. loop[c][l].live => \A i \in 1 .. loop[c][l].next - 1 : <<BotOfLoop(c, l), i>> \in judged
    BY <2>4 DEF Passed
  <2>6. ASSUME loop'[c][l] # Gone, loop'[c][l].live, NEW i \in 1 .. loop'[c][l].next - 1
        PROVE  <<BotOfLoop(c, l)', i>> \in judged'
    <3>1. loop[c][l].live /\ BotOfLoop(c, l)' = BotOfLoop(c, l)
      BY <2>1, <2>6, MovesOn DEF BotOfLoop
    <3>2. CASE i \in 1 .. loop[c][l].next - 1
      BY <2>3, <2>5, <3>1, <3>2
    <3>3. CASE Answer(c, l) /\ i \notin 1 .. loop[c][l].next - 1
      <4>1. loop'[c][l].next = confirmed[BotOfLoop(c, l)] + 1
        BY <2>6, <3>3, AnswerIs
      <4>2. i \in 1 .. confirmed[BotOfLoop(c, l)] /\ BotOfLoop(c, l) \in Bots
        BY <2>4, <2>6, <4>1, SentOf, Bounds DEF TypeOK
      <4> QED
        BY <2>3, <3>1, <4>2 DEF ConfirmedIsJudged
    <3>4. CASE Handle(c, l) /\ i \notin 1 .. loop[c][l].next - 1
      <4>1. loop'[c][l].next = loop[c][l].next + 1 /\ loop[c][l].next \in Nat
        BY <2>4, <3>4, HandleIs, SentOf
      <4>2. i = loop[c][l].next
        BY <2>6, <3>4, <4>1
      <4>3. judged' = judged \cup {<<BotOfLoop(c, l), loop[c][l].next>>}
        BY <3>1, <3>4, HandleIs
      <4> QED
        BY <3>1, <4>2, <4>3
    <3>5. CASE ~Answer(c, l) /\ ~Handle(c, l)
      <4>1. loop'[c][l].next = loop[c][l].next
        BY <2>1, <2>6, <3>5, MovesOn
      <4> QED
        BY <2>6, <3>2, <4>1
    <3> QED
      BY <3>2, <3>3, <3>4, <3>5
  <2>7. ASSUME NEW d \in Channels, NEW k \in Loops, ~(d = c /\ k = l),
               loop'[d][k] # Gone, loop'[d][k].live, NEW i \in 1 .. loop'[d][k].next - 1
        PROVE  <<BotOfLoop(d, k)', i>> \in judged'
    <3>1. loop'[d][k] = loop[d][k]
      BY <2>2, <2>7
    <3> QED
      BY <2>3, <2>7, <3>1 DEF Passed, BotOfLoop
  <2> QED
    BY <2>6, <2>7 DEF Passed
<1>5. CASE Crash
  BY <1>5 DEF Crash, Passed
<1>6. CASE Tables \/ Arrives
  BY <1>1, <1>6 DEF Tables, TablesFrame, Arrives, loopVars, doneVars
<1>7. CASE UNCHANGED vars
  BY <1>1, <1>7 DEF vars, loopVars, doneVars
<1> QED
  BY <1>3, <1>4, <1>5, <1>6, <1>7 DEF Next

LEMMA StepConfirmed ==
  ASSUME TypeOK, Batches, Passed, ConfirmedIsJudged, [Next]_vars
  PROVE  ConfirmedIsJudged'
<1>1. CASE UNCHANGED <<confirmed, judged>>
  BY <1>1 DEF ConfirmedIsJudged
<1>2. CASE Polling
  <2>1. PICK c \in Channels, l \in Loops : PollingStep(c, l)
    BY <1>2 DEF Polling, PollingStep
  <2>2. CASE Poll(c, l)
    <3>1. UNCHANGED judged
      BY <2>2 DEF Poll, doneVars
    <3>2. /\ BotOfLoop(c, l) \in Bots /\ loop[c][l] # Gone /\ loop[c][l].live
          /\ loop[c][l].next \in Nat
      BY <2>2, SentOf DEF Poll, At
    <3>3. ASSUME NEW b \in Bots, NEW i \in 1 .. confirmed'[b] PROVE <<b, i>> \in judged
      <4>1. CASE i \in 1 .. confirmed[b]
        BY <4>1 DEF ConfirmedIsJudged
      <4>2. CASE i \notin 1 .. confirmed[b]
        <5>1. b = BotOfLoop(c, l) /\ i \in 1 .. loop[c][l].next - 1
          BY <2>2, <3>2, <3>3, <4>2, PollIs
        <5> QED
          BY <3>2, <5>1 DEF Passed
      <4> QED
        BY <4>1, <4>2
    <3> QED
      BY <3>1, <3>3 DEF ConfirmedIsJudged
  <2>3. CASE Handle(c, l)
    <3>1. judged \subseteq judged' /\ UNCHANGED confirmed
      BY <2>3 DEF Handle
    <3> QED
      BY <3>1 DEF ConfirmedIsJudged
  <2> QED
    BY <1>1, <2>1, <2>2, <2>3 DEF PollingStep, Stops, GivesUp, NoAnswer, Answer, doneVars
<1>3. CASE Manager
  BY <1>1, <1>3, ManagerSwaps
<1>4. CASE Tables \/ Arrives \/ Crash
  BY <1>1, <1>4 DEF Tables, TablesFrame, Arrives, Crash, botVars, doneVars
<1>5. CASE UNCHANGED vars
  BY <1>1, <1>5 DEF vars, botVars, doneVars
<1> QED
  BY <1>2, <1>3, <1>4, <1>5 DEF Next

(***************************************************************************)
(* Where an update that an agent was given is accounted for.               *)
(***************************************************************************)
Holds(a) == /\ pollers[a.ch] # NoLoop
            /\ \/ Poller(a.ch) = Gone
               \/ BotOf[Poller(a.ch).conf] = a.bot /\ a.id < Poller(a.ch).next

LEMMA StepAccounted ==
  ASSUME TypeOK, Batches, OneLivePoller, Accounted, [Next]_vars
  PROVE  Accounted'
<1>0. \A a \in asked : /\ a \in Asks /\ a.ch \in Channels /\ a.bot \in Bots /\ a.id \in Nat
                       /\ a \in cut \/ a.id <= confirmed[a.bot] \/ Holds(a)
  BY DEF Accounted, Holds, TypeOK, Asks
<1>1. CASE UNCHANGED <<pollers, loop, asked, cut, confirmed>>
  BY <1>1 DEF Accounted, Poller
<1>2. ASSUME NEW S, NEW T, NEW rows, Swap(S, T, rows), UNCHANGED <<asked, confirmed>>
      PROVE  Accounted'
  <2>1. Swapped(S, T, rows) /\ cut \subseteq cut' /\ \A c \in S : Unconfirmed(c) \subseteq cut'
    BY <1>2, SwapIs
  <2> SUFFICES ASSUME NEW a \in asked, a \notin cut', ~(a.id <= confirmed[a.bot])
               PROVE  Holds(a)'
    BY <1>2 DEF Accounted, Holds
  <2>2. Holds(a)
    BY <1>0, <2>1
  <2>3. a.ch \notin S
    <3>1. a.id > confirmed[a.bot]
      BY <1>0, Bounds DEF TypeOK
    <3>2. a.ch \in S => a \in Unconfirmed(a.ch)
      BY <3>1 DEF Unconfirmed
    <3> QED
      BY <2>1, <3>2
  <2>4. a.ch \notin T
    BY <1>2, <2>2 DEF Swap, Running, Holds
  <2>5. pollers'[a.ch] = pollers[a.ch] /\ loop'[a.ch] = loop[a.ch]
    BY <1>0, <2>1, <2>3, <2>4 DEF Swapped
  <2> QED
    BY <2>2, <2>5 DEF Holds, Poller
<1>3. CASE Manager
  BY <1>1, <1>2, <1>3, ManagerSwaps
<1>4. CASE Polling
  <2>1. PICK c \in Channels, l \in Loops : PollingStep(c, l)
    BY <1>4 DEF Polling, PollingStep
  <2>2. \A d \in Channels, k \in Loops : <<d, k>> # <<c, l>> => loop'[d][k] = loop[d][k]
    BY <2>1, MovesOne
  <2>3. UNCHANGED <<pollers, cut>>
    BY <2>1 DEF PollingStep, PollingFrame
  <2>4. ASSUME NEW a \in asked, a \notin cut', ~(a.id <= confirmed'[a.bot])
        PROVE  Holds(a)'
    <3>1. Holds(a)
      <4>1. a.bot \in Bots /\ confirmed[a.bot] \in Nat /\ confirmed'[a.bot] \in Nat
        BY <1>0, <2>1, PollingTyped, Bounds DEF TypeOK
      <4>2. confirmed'[a.bot] >= confirmed[a.bot]
        BY <2>1, <4>1, MovesOn
      <4>3. ~(a.id <= confirmed[a.bot])
        BY <1>0, <2>4, <4>1, <4>2
      <4> QED
        BY <1>0, <2>3, <2>4, <4>3
    <3>2. a.ch \in Channels /\ pollers[a.ch] \in Loops
      BY <1>0, <3>1 DEF Holds, TypeOK
    <3>3. CASE a.ch = c /\ pollers[a.ch] = l
      <4>1. loop[c][l] # Gone /\ loop[c][l] \in LoopStates
            /\ (loop'[c][l] # Gone => /\ loop'[c][l].conf = loop[c][l].conf
                                      /\ loop'[c][l].next >= loop[c][l].next)
        BY <2>1, MovesOn
      <4>2. BotOf[loop[c][l].conf] = a.bot /\ a.id < loop[c][l].next
        BY <3>1, <3>3, <4>1 DEF Holds, Poller
      <4>3. loop'[c][l] # Gone => loop'[c][l].next \in Int
        BY <2>1, PollingTyped, Bounds DEF TypeOK, LoopStates
      <4>4. a.id \in Int /\ loop[c][l].next \in Int
        BY <1>0, <4>1, Bounds DEF LoopStates
      <4>5. loop'[c][l] # Gone => a.id < loop'[c][l].next
        BY <4>1, <4>2, <4>3, <4>4
      <4> QED
        BY <2>3, <3>1, <3>3, <4>1, <4>2, <4>5 DEF Holds, Poller
    <3>4. CASE ~(a.ch = c /\ pollers[a.ch] = l)
      <4>1. loop'[a.ch][pollers[a.ch]] = loop[a.ch][pollers[a.ch]]
        BY <2>2, <3>2, <3>4
      <4> QED
        BY <2>3, <3>1, <4>1 DEF Holds, Poller
    <3> QED
      BY <3>3, <3>4
  <2>5. ASSUME NEW a \in asked', a \notin asked
        PROVE  Holds(a)'
    <3>1. Handle(c, l) /\ loop[c][l].live /\ loop[c][l] # Gone
          /\ a = [ch |-> c, bot |-> BotOfLoop(c, l), id |-> loop[c][l].next]
      <4>1. Handle(c, l)
        BY <2>1, <2>5, MovesOn DEF doneVars
      <4>2. loop[c][l].live /\ asked' = asked \cup {[ch |-> c, bot |-> BotOfLoop(c, l), id |-> loop[c][l].next]}
        BY <2>5, <4>1, HandleIs
      <4> QED
        BY <2>1, <2>5, <4>1, <4>2, MovesOn
    <3>2. pollers[c] = l
      BY <3>1 DEF OneLivePoller
    <3>3. loop'[c][l].next = loop[c][l].next + 1 /\ loop'[c][l].conf = loop[c][l].conf
      BY <3>1, HandleIs
    <3>4. loop[c][l].next \in Nat
      BY <3>1, SentOf
    <3>5. l # NoLoop
      BY ChannelsAssumption
    <3>6. BotOf[loop'[c][l].conf] = BotOfLoop(c, l) /\ loop[c][l].next < loop'[c][l].next
      BY <3>3, <3>4 DEF BotOfLoop
    <3>7. a.ch = c /\ a.bot = BotOfLoop(c, l) /\ a.id = loop[c][l].next
      BY <3>1
    <3> QED
      BY <2>3, <3>2, <3>5, <3>6, <3>7 DEF Holds, Poller
  <2> QED
    BY <2>4, <2>5 DEF Accounted, Holds
<1>5. CASE Crash
  <2> SUFFICES ASSUME NEW a \in asked PROVE a \in cut' \/ a.id <= confirmed[a.bot]
    BY <1>5 DEF Crash, botVars, doneVars, Accounted
  <2>1. a.id \in Nat /\ a.ch \in Channels /\ confirmed[a.bot] \in Nat
    BY <1>0, Bounds DEF TypeOK
  <2>2. a.id > confirmed[a.bot] => a \in Unconfirmed(a.ch)
    BY DEF Unconfirmed
  <2> QED
    BY <1>5, <2>1, <2>2 DEF Crash
<1>6. CASE Tables \/ Arrives
  BY <1>1, <1>6 DEF Tables, TablesFrame, Arrives, loopVars, botVars, doneVars
<1>7. CASE UNCHANGED vars
  BY <1>1, <1>7 DEF vars, loopVars, botVars, doneVars
<1> QED
  BY <1>3, <1>4, <1>5, <1>6, <1>7 DEF Next

(***************************************************************************)
(* A batch brings what lies behind Telegram's confirmation and the offset: *)
(* what the agent was given of it before was cut.                          *)
(***************************************************************************)
LEMMA StepAhead ==
  ASSUME TypeOK, Batches, OneLivePoller, Accounted, Ahead, [Next]_vars
  PROVE  Ahead'
<1>1. CASE UNCHANGED <<loop, asked, cut>>
  BY <1>1 DEF Ahead, At, BotOfLoop
<1>2. ASSUME NEW S, NEW T, NEW rows, Swap(S, T, rows), UNCHANGED asked PROVE Ahead'
  <2> SUFFICES ASSUME NEW c \in Channels, NEW l \in Loops, At(c, l, "batch")', loop'[c][l].live,
                      NEW a \in asked,
                      a.ch = c, a.bot = BotOfLoop(c, l)', a.id >= loop'[c][l].next
               PROVE  a \in cut'
    BY <1>2 DEF Ahead
  <2>1. cut \subseteq cut' /\ loop'[c][l] # Gone /\ loop'[c][l].at = "batch"
    BY <1>2, SwapIs DEF At
  <2>2. CASE Kept(c, l)
    BY <2>1, <2>2 DEF Kept, Ahead, At, BotOfLoop
  <2>3. CASE Started(c, l)
    BY <2>1, <2>3 DEF Started, Fresh
  <2> QED
    BY <1>2, <2>1, <2>2, <2>3, LoopsAfter
<1>3. CASE Manager
  BY <1>1, <1>2, <1>3, ManagerSwaps
<1>4. CASE Polling
  <2>1. PICK c \in Channels, l \in Loops : PollingStep(c, l)
    BY <1>4 DEF Polling, PollingStep
  <2>2. \A d \in Channels, k \in Loops : <<d, k>> # <<c, l>> => loop'[d][k] = loop[d][k]
    BY <2>1, MovesOne
  <2>3. UNCHANGED <<pollers, cut>>
    BY <2>1 DEF PollingStep, PollingFrame
  <2> SUFFICES ASSUME NEW d \in Channels, NEW k \in Loops, At(d, k, "batch")', loop'[d][k].live,
                      NEW a \in asked',
                      a.ch = d, a.bot = BotOfLoop(d, k)', a.id >= loop'[d][k].next
               PROVE  a \in cut
    BY <2>3 DEF Ahead
  <2>4. loop'[d][k] # Gone /\ loop'[d][k].at = "batch"
    BY DEF At
  <2>5. CASE ~(d = c /\ k = l)
    <3>1. loop'[d][k] = loop[d][k]
      BY <2>2, <2>5
    <3>2. At(d, k, "batch") /\ loop[d][k].live /\ BotOfLoop(d, k)' = BotOfLoop(d, k)
      BY <2>4, <3>1 DEF At, BotOfLoop
    <3>3. a \in asked
      <4>1. CASE a \notin asked
        <5>1. Handle(c, l)
          BY <2>1, <4>1, MovesOn DEF doneVars
        <5>2. /\ loop[c][l].live /\ loop[c][l] # Gone
              /\ asked' = asked \cup {[ch |-> c, bot |-> BotOfLoop(c, l), id |-> loop[c][l].next]}
          <6>1. loop[c][l] # Gone
            BY <2>1, MovesOn
          <6>2. asked' # asked
            BY <4>1
          <6> QED
            BY <5>1, <6>1, <6>2, HandleIs
        <5>3. a.ch = c
          BY <4>1, <5>2
        <5>4. pollers[c] = l /\ pollers[c] = k
          BY <3>2, <5>2, <5>3 DEF OneLivePoller, At
        <5> QED
          BY <2>5, <5>3, <5>4
      <4> QED
        BY <4>1
    <3> QED
      BY <3>1, <3>2, <3>3 DEF Ahead
  <2>6. CASE d = c /\ k = l /\ Answer(c, l)
    <3>1. a \in asked
      BY <2>1, <2>6, MovesOn, AnswerIs DEF doneVars
    <3>2. /\ loop[c][l].live /\ loop[c][l] # Gone /\ loop[c][l] \in LoopStates
          /\ loop'[c][l].conf = loop[c][l].conf
      BY <2>1, <2>4, <2>6, MovesOn
    <3>3. pollers[c] = l
      BY <3>2 DEF OneLivePoller
    <3>4. a.bot = BotOfLoop(c, l)
      BY <2>6, <3>2 DEF BotOfLoop
    <3>5. loop'[c][l].next > confirmed[a.bot] /\ loop'[c][l].next >= loop[c][l].next
          /\ loop'[c][l] \in LoopStates
      BY <2>6, <3>4, AnswerIs
    <3>6. /\ loop'[c][l].next \in Int /\ loop[c][l].next \in Int /\ confirmed[a.bot] \in Int
          /\ a.id \in Int /\ a.id >= loop'[c][l].next
      BY <2>6, <3>1, <3>2, <3>4, <3>5, SentOf, Bounds DEF LoopStates, TypeOK, Asks
    <3>7. ~(a.id <= confirmed[a.bot]) /\ ~(a.id < loop[c][l].next)
      BY <3>5, <3>6
    <3> QED
      BY <2>6, <3>1, <3>2, <3>3, <3>7 DEF Accounted, Poller
  <2>7. CASE d = c /\ k = l /\ Handle(c, l)
    <3>1. /\ loop[c][l].live /\ loop[c][l] # Gone /\ loop'[c][l].conf = loop[c][l].conf
      BY <2>1, <2>4, <2>7, MovesOn
    <3>2. loop'[c][l].next = loop[c][l].next + 1 /\ loop[c][l].next \in Nat /\ loop[c][l].at = "batch"
      BY <2>7, <3>1, HandleIs, SentOf
    <3>3. a.bot = BotOfLoop(c, l)
      BY <2>7, <3>1 DEF BotOfLoop
    <3>4. a \in asked
      <4>1. a.id # loop[c][l].next
        BY <2>7, <3>2
      <4>2. a # [ch |-> c, bot |-> BotOfLoop(c, l), id |-> loop[c][l].next]
        BY <4>1
      <4>3. asked' \subseteq asked \cup {[ch |-> c, bot |-> BotOfLoop(c, l), id |-> loop[c][l].next]}
        BY <2>7, HandleIs
      <4> QED
        BY <4>2, <4>3
    <3>5. a.id \in Int
      BY <3>4, Bounds DEF TypeOK, Asks
    <3>6. a.id >= loop[c][l].next
      BY <2>7, <3>2, <3>5
    <3> QED
      BY <2>7, <3>1, <3>2, <3>3, <3>4, <3>6 DEF Ahead, At
  <2>8. CASE d = c /\ k = l /\ ~Answer(c, l) /\ ~Handle(c, l)
    BY <2>1, <2>4, <2>8, MovesOn
  <2> QED
    BY <2>5, <2>6, <2>7, <2>8
<1>5. CASE Crash
  BY <1>5 DEF Crash, Ahead, At
<1>6. CASE Tables \/ Arrives
  BY <1>1, <1>6 DEF Tables, TablesFrame, Arrives, loopVars, doneVars
<1>7. CASE UNCHANGED vars
  BY <1>1, <1>7 DEF vars, loopVars, doneVars
<1> QED
  BY <1>3, <1>4, <1>5, <1>6, <1>7 DEF Next

LEMMA StepTwice ==
  ASSUME TypeOK, Batches, Ahead, TwiceOnlyIfCut, [Next]_vars
  PROVE  TwiceOnlyIfCut'
<1>1. CASE again' = again /\ cut \subseteq cut'
  BY <1>1 DEF TwiceOnlyIfCut
<1>2. CASE Manager
  <2>1. again' = again
    BY <1>2, ManagerSwaps
  <2>2. cut \subseteq cut'
    BY <1>2, ManagerSwaps, SwapIs
  <2> QED
    BY <1>1, <2>1, <2>2
<1>3. CASE Polling
  <2>1. PICK c \in Channels, l \in Loops : PollingStep(c, l)
    BY <1>3 DEF Polling, PollingStep
  <2>2. UNCHANGED cut
    BY <2>1 DEF PollingStep, PollingFrame
  <2>3. CASE ~Handle(c, l)
    BY <1>1, <2>1, <2>2, <2>3, MovesOn DEF doneVars
  <2>4. CASE Handle(c, l) /\ again' # again
    <3> DEFINE a == [ch |-> c, bot |-> BotOfLoop(c, l), id |-> loop[c][l].next]
    <3>1. loop[c][l].live /\ a \in asked /\ again' = again \cup {a} /\ loop[c][l].at = "batch"
      BY <2>4, HandleIs
    <3>2. loop[c][l] # Gone /\ loop[c][l].next \in Nat
      BY <2>1, MovesOn, SentOf
    <3>3. a.ch = c /\ a.bot = BotOfLoop(c, l) /\ a.id >= loop[c][l].next
      BY <3>2
    <3> HIDE DEF a
    <3>4. a \in cut
      BY <3>1, <3>2, <3>3 DEF Ahead, At
    <3> QED
      BY <2>2, <3>1, <3>4 DEF TwiceOnlyIfCut
  <2>5. CASE again' = again
    BY <1>1, <2>2, <2>5
  <2> QED
    BY <2>3, <2>4, <2>5
<1>4. CASE Tables \/ Arrives \/ Crash
  BY <1>1, <1>4 DEF Tables, TablesFrame, Arrives, Crash, doneVars
<1>5. CASE UNCHANGED vars
  BY <1>1, <1>5 DEF vars, doneVars
<1> QED
  BY <1>2, <1>3, <1>4, <1>5 DEF Next

(***************************************************************************)
(* What is held at the lock, and who is going to put the pollers in step.  *)
(***************************************************************************)
LEMMA StepFetched ==
  ASSUME TypeOK, Fetched, [Next]_vars
  PROVE  Fetched'
<1>1. CASE UNCHANGED <<proc, applied, tableVars>>
  BY <1>1 DEF Fetched, tableVars, Enabled, There
<1>2. CASE Tables
  <2>1. PICK p \in Procs :
          /\ (\E c \in Channels : TableStep(p, c)) \/ ImportEnds(p)
          /\ TablesFrame
    BY <1>2 DEF Tables, TableStep
  <2>2. UNCHANGED applied
    BY <2>1 DEF TablesFrame
  <2>3. CASE ImportEnds(p)
    BY <2>2, <2>3, BecomeIs DEF ImportEnds, Fetched, tableVars, Enabled, There
  <2>4. ASSUME NEW c \in Channels, TableStep(p, c) PROVE Fetched'
    <3>1. writes' = writes + 1 /\ writes \in Nat /\ applied \in Nat
      BY <2>4, Bounds DEF TableStep, Create, Update, Delete, ImportRow, Write, TypeOK
    <3>2. proc'[p].at \in {"reload", "import"} /\ \A q \in Procs : q # p => proc'[q] = proc[q]
      BY <2>4, BecomeIs DEF TableStep, Create, Update, Delete, ImportRow
    <3>3. ASSUME NEW q \in Procs, proc'[q].at = "lock"
          PROVE  proc'[q].of <= writes' /\ proc'[q].of # writes'
      <4>1. proc'[q] = proc[q]
        BY <3>2, <3>3
      <4>2. proc[q].of <= writes /\ proc[q].of \in Nat
        BY <3>3, <4>1, ProcIs, Bounds DEF Fetched
      <4> QED
        BY <3>1, <4>1, <4>2
    <3>4. applied' <= writes'
      BY <2>2, <3>1 DEF Fetched
    <3> QED
      BY <3>3, <3>4 DEF Fetched
  <2> QED
    BY <2>1, <2>3, <2>4
<1>3. CASE Manager
  <2>1. PICK p \in Procs :
          /\ \/ Query(p) \/ QueryFails(p) \/ Apply(p)
             \/ Pause(p) \/ Resume(p) \/ \E b \in Bots : Discover(p, b)
          /\ ManagerFrame
    BY <1>3 DEF Manager
  <2>2. UNCHANGED <<row, writes>> /\ Enabled' = Enabled
    BY <2>1 DEF ManagerFrame, tableVars, Enabled, There
  <2>3. \A q \in Procs : q # p => proc'[q] = proc[q]
    BY <2>1, BecomeIs DEF Query, QueryFails, Apply, Pause, Resume, Discover
  <2>4. writes \in Int
    BY DEF TypeOK
  <2>5. proc'[p].at = "lock" => proc'[p].of <= writes /\ proc'[p].rows = Enabled
    <3>1. CASE Query(p)
      <4>1. proc'[p] = [at |-> "lock", rows |-> Enabled, of |-> writes]
        BY <3>1, BecomeIs DEF Query
      <4> QED
        BY <2>4, <4>1
    <3>2. CASE ~Query(p)
      <4>1. CASE QueryFails(p) \/ Apply(p)
        BY <4>1, BecomeIs DEF QueryFails, Apply, Idle
      <4>2. CASE Pause(p)
        BY <4>2, BecomeIs DEF Pause
      <4>3. CASE Resume(p)
        BY <4>3, BecomeIs DEF Resume, Idle
      <4>4. CASE \E b \in Bots : Discover(p, b)
        BY <4>4, BecomeIs DEF Discover
      <4> QED
        BY <2>1, <3>2, <4>1, <4>2, <4>3, <4>4
    <3> QED
      BY <3>1, <3>2
  <2>6. applied' <= writes
    <3>1. CASE Apply(p)
      <4>1. proc[p].of <= writes
        BY <3>1 DEF Apply, Fetched
      <4>2. applied' = applied \/ applied' = proc[p].of
        BY <3>1, ApplyIs
      <4> QED
        BY <4>1, <4>2 DEF Fetched
    <3>2. CASE ~Apply(p)
      BY <2>1, <3>2 DEF Query, QueryFails, Pause, Resume, Discover, Fetched
    <3> QED
      BY <3>1, <3>2
  <2> QED
    BY <2>2, <2>3, <2>5, <2>6 DEF Fetched
<1>4. CASE Crash
  BY <1>4 DEF Crash, Fetched, tableVars, Idle, TypeOK
<1>5. CASE Polling \/ Arrives
  BY <1>1, <1>5 DEF Polling, PollingFrame, Arrives
<1>6. CASE UNCHANGED vars
  BY <1>1, <1>6 DEF vars
<1> QED
  BY <1>2, <1>3, <1>4, <1>5, <1>6 DEF Next

LEMMA ApplySyncs ==
  ASSUME TypeOK, Fetched, NEW p \in Procs, Apply(p), proc[p].of = writes
  PROVE  Running' = DOMAIN Enabled /\ applied' = writes
<1> DEFINE wanted == DOMAIN proc[p].rows
<1>1. wanted = DOMAIN Enabled
  BY DEF Fetched, Apply
<1>2. /\ wanted \in SUBSET Channels
      /\ Swap(Running \ wanted, wanted \ Running, proc[p].rows)
  BY ApplyIs DEF Swap, Running
<1>3. applied' = writes
  <2>1. applied' = IF applied >= proc[p].of THEN applied ELSE proc[p].of
    BY ApplyIs
  <2>2. applied <= writes /\ applied \in Int /\ writes \in Int
    BY Bounds DEF Fetched, TypeOK
  <2> QED
    BY <2>1, <2>2
<1> HIDE DEF wanted
<1>4. Swapped(Running \ wanted, wanted \ Running, proc[p].rows)
  BY <1>2, SwapIs
<1>5. NoLoop \notin Loops
  BY ChannelsAssumption
<1>6. \A c \in Channels : pollers'[c] # NoLoop <=> c \in wanted
  BY <1>4, <1>5 DEF Swapped, Running
<1>7. Running' = wanted
  BY <1>2, <1>6 DEF Running
<1> QED
  BY <1>1, <1>3, <1>7

LEMMA StepInSync ==
  ASSUME TypeOK, Fetched, InSync, [Next]_vars
  PROVE  InSync'
<1> SUFFICES ASSUME marks' \cap {"unread", "overtaken"} = {},
                    ~(Running' = DOMAIN Enabled' /\ applied' = writes')
             PROVE  \E q \in Procs : Due(q)'
  BY DEF InSync
<1>1. CASE /\ UNCHANGED <<pollers, row, proc, writes, applied>>
           /\ marks \subseteq marks'
  <2>1. Running' = Running /\ Enabled' = Enabled /\ \A q \in Procs : Due(q)' <=> Due(q)
    BY <1>1 DEF Running, Enabled, There, Due
  <2> QED
    BY <1>1, <2>1 DEF InSync
<1>2. CASE Tables
  <2>1. PICK p \in Procs : (\E c \in Channels : TableStep(p, c)) \/ ImportEnds(p)
    BY <1>2 DEF Tables, TableStep
  <2>2. proc'[p].at \in {"reload", "import"}
    BY <2>1, BecomeIs DEF TableStep, Create, Update, Delete, ImportRow, ImportEnds
  <2> QED
    BY <2>2 DEF Due
<1>3. CASE Manager
  <2>1. PICK p \in Procs :
          /\ \/ Query(p) \/ QueryFails(p) \/ Apply(p)
             \/ Pause(p) \/ Resume(p) \/ \E b \in Bots : Discover(p, b)
          /\ ManagerFrame
    BY <1>3 DEF Manager
  <2>2. UNCHANGED <<row, writes>> /\ Enabled' = Enabled
    BY <2>1 DEF ManagerFrame, tableVars, Enabled, There
  <2>3. \A q \in Procs : q # p => proc'[q] = proc[q]
    BY <2>1, BecomeIs DEF Query, QueryFails, Apply, Pause, Resume, Discover
  <2>4. \A q \in Procs : q # p /\ Due(q) => Due(q)'
    BY <2>2, <2>3 DEF Due
  <2>5. CASE Query(p)
    <3>1. proc'[p] = [at |-> "lock", rows |-> Enabled, of |-> writes]
      BY <2>5, BecomeIs DEF Query
    <3> QED
      BY <2>2, <3>1 DEF Due
  <2>6. CASE QueryFails(p)
    BY <2>6 DEF QueryFails
  <2>7. CASE Apply(p)
    <3>1. proc[p].of # writes
      BY <2>2, <2>7, ApplySyncs
    <3>2. ~Due(p)
      BY <2>7, <3>1 DEF Apply, Due
    <3>3. marks' = marks /\ ~(proc[p].of < applied)
      BY <2>7 DEF Apply
    <3>4. ~(Running = DOMAIN Enabled /\ applied = writes)
      <4>1. proc[p].of <= writes /\ proc[p].of \in Int /\ writes \in Int
        BY <2>7, ProcIs DEF Apply, Fetched, TypeOK
      <4> QED
        BY <3>1, <3>3, <4>1
    <3> QED
      BY <2>4, <3>2, <3>3, <3>4 DEF InSync
  <2>8. CASE Pause(p)
    <3>1. proc'[p] = [at |-> "discover", resume |-> proc[p].ids \cap Running # {}]
      BY <2>8, BecomeIs DEF Pause
    <3>2. CASE proc[p].ids \cap Running # {}
      <4>1. proc'[p] = [at |-> "discover", resume |-> TRUE]
        BY <3>1, <3>2
      <4>2. proc'[p].at = "discover" /\ proc'[p].resume
        BY <4>1
      <4> QED
        BY <4>2 DEF Due
    <3>3. CASE proc[p].ids \cap Running = {}
      <4>1. pollers' = pollers
        BY <2>8, <3>3 DEF Pause, StopAndStart, TypeOK
      <4>2. Running' = Running /\ applied' = applied /\ marks' = marks /\ ~Due(p)
        BY <2>8, <4>1 DEF Pause, Running, Due
      <4> QED
        BY <2>2, <2>4, <4>2 DEF InSync
    <3> QED
      BY <3>2, <3>3
  <2>9. CASE Resume(p)
    <3>1. proc[p].resume => Due(p)'
      <4>1. proc[p].resume => proc'[p] = [at |-> "reload"]
        BY <2>9, BecomeIs DEF Resume
      <4> QED
        BY <4>1 DEF Due
    <3>2. ~proc[p].resume => ~Due(p)
      BY <2>9 DEF Resume, Due
    <3>3. Running' = Running /\ applied' = applied /\ marks' = marks
      BY <2>9 DEF Resume, Running, loopVars
    <3> QED
      BY <2>2, <2>4, <3>1, <3>2, <3>3 DEF InSync
  <2>10. CASE \E b \in Bots : Discover(p, b)
    <3>1. ~Due(p)
      BY <2>10 DEF Discover, Request, Due, Idle
    <3>2. Running' = Running /\ applied' = applied /\ marks' = marks
      BY <2>10 DEF Discover, Running, loopVars
    <3> QED
      BY <2>2, <2>4, <3>1, <3>2 DEF InSync
  <2> QED
    BY <2>1, <2>5, <2>6, <2>7, <2>8, <2>9, <2>10
<1>4. CASE Crash
  <2>1. proc'[Boot].at = "reload" /\ Boot \in Procs
    BY <1>4, ChannelsAssumption DEF Crash
  <2> QED
    BY <2>1 DEF Due
<1>5. CASE Polling
  <2>1. marks \subseteq marks'
    BY <1>5 DEF Polling, Poll, Stops, GivesUp, NoAnswer, Answer, Handle
  <2> QED
    BY <1>1, <1>5, <2>1 DEF Polling, PollingFrame, tableVars
<1>6. CASE Arrives
  BY <1>1, <1>6 DEF Arrives, tableVars, loopVars
<1>7. CASE UNCHANGED vars
  BY <1>1, <1>7 DEF vars, tableVars, loopVars
<1> QED
  BY <1>2, <1>3, <1>4, <1>5, <1>6, <1>7 DEF Next

(***************************************************************************)
(* The invariant, at the start and from step to step.                      *)
(***************************************************************************)
LEMMA InitHolds == Init => IInv
<1> SUFFICES ASSUME Init PROVE IInv
  OBVIOUS
<1>1. TypeOK
  BY InitTyped
<1>2. Batches
  BY DEF Init, Batches
<1>3. OneLivePoller /\ Passed /\ Ahead
  BY DEF Init, OneLivePoller, Passed, Ahead, At
<1>4. ConfirmedIsJudged /\ Accounted /\ TwiceOnlyIfCut
  BY DEF Init, ConfirmedIsJudged, Accounted, TwiceOnlyIfCut
<1>5. Fetched
  BY DEF Init, Fetched, Idle
<1>6. InSync
  BY ChannelsAssumption DEF Init, InSync, Due
<1> QED
  BY <1>1, <1>2, <1>3, <1>4, <1>5, <1>6 DEF IInv

LEMMA StepHolds == IInv /\ [Next]_vars => IInv'
<1> SUFFICES ASSUME IInv, [Next]_vars PROVE IInv'
  OBVIOUS
<1>1. TypeOK' /\ Batches' /\ OneLivePoller'
  BY StepTyped, StepBatches, StepOneLive DEF IInv
<1>2. Passed' /\ ConfirmedIsJudged'
  BY StepPassed, StepConfirmed DEF IInv
<1>3. Accounted' /\ Ahead' /\ TwiceOnlyIfCut'
  BY StepAccounted, StepAhead, StepTwice DEF IInv
<1>4. Fetched' /\ InSync'
  BY StepFetched, StepInSync DEF IInv
<1> QED
  BY <1>1, <1>2, <1>3, <1>4 DEF IInv

LEMMA Invariant == Spec => []IInv
  BY InitHolds, StepHolds, PTL DEF Spec

(***************************************************************************)
(* Every variable has its type, in every run.                              *)
(***************************************************************************)
THEOREM ChannelsTyped == Spec => []TypeOK
<1>1. IInv => TypeOK
  BY DEF IInv
<1> QED
  BY <1>1, Invariant, PTL

(***************************************************************************)
(* A channel's live loop is the one the manager can cancel (Reload,        *)
(* PausePollersForToken).                                                  *)
(***************************************************************************)
THEOREM OnePollerEach == Spec => []OneLivePoller
<1>1. IInv => OneLivePoller
  BY DEF IInv
<1> QED
  BY <1>1, Invariant, PTL

(***************************************************************************)
(* Nothing that Telegram has been told to forget was dropped unseen        *)
(* (StartPolling looks at its context before it polls).                    *)
(***************************************************************************)
THEOREM NothingLostUnseen == Spec => []ConfirmedIsJudged
<1>1. IInv => ConfirmedIsJudged
  BY DEF IInv
<1> QED
  BY <1>1, Invariant, PTL

(***************************************************************************)
(* An agent gets an update twice only if it was not confirmed when its     *)
(* poller, or the process, went (StartPolling's offset is in memory).      *)
(***************************************************************************)
THEOREM TwiceForCause == Spec => []TwiceOnlyIfCut
<1>1. IInv => TwiceOnlyIfCut
  BY DEF IInv
<1> QED
  BY <1>1, Invariant, PTL

(***************************************************************************)
(* With nothing under way, the pollers are those of the enabled rows,      *)
(* unless a Reload could not read or was overtaken.                        *)
(***************************************************************************)
THEOREM PollersFollowTheTable == Spec => []QuietIsInSync
<1>1. IInv => QuietIsInSync
  <2> SUFFICES ASSUME IInv, \A p \in Procs : proc[p] = Idle,
                      marks \cap {"unread", "overtaken"} = {}
               PROVE  Running = DOMAIN Enabled
    BY DEF QuietIsInSync
  <2>1. \A p \in Procs : ~Due(p)
    BY DEF Due, Idle
  <2> QED
    BY <2>1 DEF IInv, InSync
<1> QED
  BY <1>1, Invariant, PTL
=============================================================================
