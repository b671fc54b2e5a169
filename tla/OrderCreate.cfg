SPECIFICATION Spec
CONSTANTS
  PartIds = {p1, p2, p3, p4}
  Foreign = foreign
  Seeds = {"engine", "fuel"}
  MaxEdits = 1
  Requests = {r1}
  MaxParts = 2
SYMMETRY PartSymmetry
INVARIANTS TypeOK OrdersAreComplete MissingIsHonest CreatedIsStored OrderedPartsExist FoundByWhatIsShown FiltersInPasses
CHECK_DEADLOCK FALSE
