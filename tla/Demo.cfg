SPECIFICATION FairSpec
CONSTANTS
  None = None
  InitialBrand = "Psychs"
  Brands = {"Psychs", "Stripe"}
  Ids = {1, 2}
  Tabs <- AllTabs
INVARIANTS
  TypeOK
  FlagsArePending
  SubmittedOnce
  QuietPageIsCurrent
  PageIsUp
PROPERTIES
  AuditEnds
