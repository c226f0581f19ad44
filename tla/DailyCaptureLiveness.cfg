SPECIFICATION FairSpec
CONSTANTS
  s1 = s1
  s2 = s2
  s3 = s3
  t1 = t1
  t2 = t2
  Sources = {s1, s2, s3}
  Tenants = {t1, t2}
  Tenant <- ThreeSources
  Age <- ThreeAges
  Replicas = {r1, r2}
  Quota = 1
  Batch = 1
  LastDay = 1
PROPERTIES
  EveryDailySourceIsServed
