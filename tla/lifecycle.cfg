SPECIFICATION FairSpec
INVARIANTS TypeOK OneManager DeletedIsForgotten
PROPERTIES  ManagedIsPolled
CONSTANTS
  Net = {n1, n2}
  Id = {i1, i2}
  Caller = {c1}
  NoManager = NoManager
