SPECIFICATION HSpec
CONSTANTS
  p = p
  c = c
  g = g
  t1 = t1
  t2 = t2
  Ws = {p}
  NoWs = NoWs
  Parent <- Alone
  External = {}
  Remote = {}
  Workers = {t1, t2}
  Sweeper = Sweeper
  Requests = {"create", "register", "heartbeat", "a2a", "restart", "pause", "resume", "delete", "secret", "sweep", "expire", "die"}
  Serial = FALSE
  MaxCrashes = 1
SYMMETRY Sym
INVARIANTS TypeOK RestartExclusive
PROPERTIES LateArrivalsBailOut
