SPECIFICATION Spec
CONSTANTS
  s1 = s1
  s2 = s2
  Stealer = {s1}
  initial_capacity = 2
  MaxItems = 2
  MaxBuffers = 1
  StoreOrder = "weak"
INVARIANT NeverDuplicateOrDropItems
