SPECIFICATION Spec
CONSTANTS
  Challenges = {c1, c2}
  Sources = {own, lookalike}
  OwnSources = {own}
  Requests = {r1, r2}
  Workers = {w1}
  None = None
SYMMETRY RequestSymmetry
PROPERTIES
  ExpiryIsFinal
