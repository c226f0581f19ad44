SPECIFICATION FairSpec
CONSTANTS
  c1 = c1
  c2 = c2
  c3 = c3
  p1 = p1
  NoId = NoId
  None = None
  Requests = {r1, r2}
  Jobs = {j1}
  Executors = {e1, e2}
  Keys = {k1, k2}
  Contents = {c1, c3}
  ProviderIds = {p1}
  ProviderRequest <- TwoContents
  BatchLimit = 1
INVARIANTS
  TypeOK
  ObservedOnce
  ReceiptsReconcile
PROPERTIES
  ImplementsStore
  EveryRequestEnds
  ExpiredIsDeleted
