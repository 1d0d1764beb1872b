SPECIFICATION FairSpec
CONSTANTS
  canvas = canvas
  agent = agent
  b1 = b1
  b2 = b2
  NoClient = NoClient
  Clients = {canvas, agent}
  Agents = {agent}
  Casters = {b1, b2}
  Cap = 1
INVARIANTS NoPanic SendsFindOpen GaugeAgrees
PROPERTIES Forgotten Admitted
