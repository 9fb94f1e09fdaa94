SPECIFICATION FairSpec
INVARIANTS TypeOK PresentIsTrue
PROPERTIES OnlyTheBit WishesArrive
CONSTANTS
  one = one
  two = two
  NoPoll = NoPoll
  NoValue = NoValue
  Point = {one, two}
  Base = 4
  LastCell = 5
  Faults = {"refused", "lost", "garbled"}
  MaxEvents = 2
  Configs <- MCConfigs
  FieldWords <- MCFieldWords
  Wishes <- MCWishes
