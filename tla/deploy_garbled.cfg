SPECIFICATION Spec
CONSTANTS
  k1 = k1
  k2 = k2
  lint = lint
  review = review
  style = style
  j1 = j1
  p1 = p1
  p2 = p2
  p3 = p3
  Keys = {k1}
  NoKey = NoKey
  Plugins = {lint, review}
  Skills = {style}
  SkillsOf <- Shared
  OrgPlugins = {lint}
  Jobs = {j1}
  Provs = {p1, p2, p3}
  NoRow = NoRow
  NoBox = NoBox
  MaxOps = 4
  MaxRuns = 2
INVARIANTS ReadsBack

CHECK_DEADLOCK FALSE
