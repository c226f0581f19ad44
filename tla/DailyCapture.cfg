SPECIFICATION Spec
CONSTANTS
  s1 = s1
  s2 = s2
  s3 = s3
  t1 = t1
  t2 = t2
  Sources = {s1, s2}
  Tenants = {t1}
  Tenant <- TwoSources
  Age <- TwoAges
  Replicas = {r1, r2}
  Quota = 1
  Batch = 2
  LastDay = 2
SYMMETRY ReplicaSymmetry
INVARIANTS
  TypeOK
  QuotaPerDay
PROPERTIES
  ImplementsSchedule
