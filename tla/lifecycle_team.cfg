SPECIFICATION Spec
CONSTANTS
  p = p
  c = c
  g = g
  t1 = t1
  t2 = t2
  Ws = {p, c, g}
  NoWs = NoWs
  Parent <- Team
  External = {p}
  Remote = {p}
  Workers = {t1, t2}
  Sweeper = Sweeper
  Requests = {"create", "register", "a2a", "restart", "pause", "resume", "delete", "secret", "sweep", "expand", "collapse"}
  Serial = TRUE
  MaxCrashes = 0
SYMMETRY Sym
 
PROPERTIES NoRestartBelowPause
