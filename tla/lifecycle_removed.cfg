SPECIFICATION Spec
CONSTANTS
  p = p
  c = c
  g = g
  t1 = t1
  t2 = t2
  Ws = {p}
  NoWs = NoWs
  Parent <- Alone
  External = {}
  Remote = {}
  Workers = {t1, t2}
  Sweeper = Sweeper
  Requests = {"create", "register", "heartbeat", "expire", "delete"}
  Serial = FALSE
  MaxCrashes = 0
SYMMETRY Sym
PROPERTIES RemovedStaysRemoved
