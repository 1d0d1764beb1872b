SPECIFICATION FairSpec
CONSTANTS
  c1 = c1
  c2 = c2
  k1 = k1
  k2 = k2
  b1 = b1
  x = x
  y = y
  Channels = {c1}
  Confs = {k1}
  Bots = {b1}
  Chats = {x}
  BotOf <- OneBot
  ChatsOf <- ChatEach
  Kinds = {"text", "command"}
  p1 = p1
  p2 = p2
  Boot = Boot
  Procs = {Boot, p1}
  Unborn = Unborn
  Deleted = Deleted
  Gone = Gone
  NoLoop = NoLoop
  Loops = {1, 2}
  MaxWrites = 1
  MaxScans = 1
  MaxSent = 2
  MaxRuns = 2
INVARIANTS OneLivePoller ConfirmedIsJudged TwiceOnlyIfCut QuietIsInSync
CHECK_DEADLOCK FALSE
 
