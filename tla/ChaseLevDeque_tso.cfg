SPECIFICATION Spec
CONSTANTS
  s1 = s1
  s2 = s2
  Stealer = {s1, s2}
  initial_capacity = 1
  MaxItems = 4
  MaxBuffers = 3
  StoreOrder = "tso"
SYMMETRY Thieves
INVARIANTS TypeOK NeverDuplicateOrDropItems ThiefHoldsFront
PROPERTIES EmptyMeansEmpty Linearizes
