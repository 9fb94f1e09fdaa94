SPECIFICATION FairSpec
INVARIANTS OneChecker DiesStoppingOnly
PROPERTIES CallsReturn
CONSTANTS
  Id = {i1, i2, i3}
  Nil = Nil
