SPECIFICATION Spec
CONSTANTS
  c1 = c1
  c2 = c2
  c3 = c3
  p1 = p1
  NoId = NoId
  None = None
  Requests = {r1, r2, r3}
  Jobs = {}
  Executors = {e1}
  Keys = {k1, k2}
  Contents = {c1, c2, c3}
  ProviderIds = {p1}
  ProviderRequest <- OneProviderRequest
  BatchLimit = 1
SYMMETRY Symmetry
INVARIANT
  KeyNamesOneContent
