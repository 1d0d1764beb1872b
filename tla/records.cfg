SPECIFICATION Spec
CONSTANTS
  c1 = c1
  c2 = c2
  d1 = d1
  d2 = d2
  w1 = w1
  w2 = w2
  a1 = a1
  a2 = a2
  a3 = a3
  a4 = a4
  r1 = r1
  r2 = r2
  k1 = k1
  k2 = k2
  Calls = {c1}
  Deciders = {d1, d2}
  Wait = 2
  Expiry = 4
  MaxFails = 1
  Spaces = {w1, w2}
  Agents = {a1, a2, a3, a4}
  Requests = {r1, r2}
  Unassigned = Unassigned
  NoRequest = NoRequest
  Registers = {k1, k2}
  NoCall = NoCall
  MaxTokens = 4
  MaxStarts = 3
  n1 = n1
  n2 = n2
  n3 = n3
  m1 = m1
  q1 = q1
  Nodes = {n1, n2, n3}
  Top = Top
  Memories = {m1}
  Unwritten = Unwritten
  Asks = {q1}
  NoAsk = NoAsk
  MaxChanges = 2
  f1 = f1
  p1 = p1
  Edits = {f1}
  Supplies = {p1}
  NoTemplate = NoTemplate
  NoAgent = NoAgent
  NoSupply = NoSupply
  MaxEdits = 3
INVARIANTS AnswerWasRight PeersAgree FoundIsShared ToldIsTrue OneAgentUnlessRaced LockedOutOnlyIfLost
PROPERTIES HeardInTime 
CHECK_DEADLOCK FALSE
