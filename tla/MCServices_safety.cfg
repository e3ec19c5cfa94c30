CONSTANTS
  Desc <- MCDesc
  Answer <- MCAnswer
  Inst = {i1, i2}
  MaxDesc = 3
SPECIFICATION Spec
INVARIANT CollectFaithful
CHECK_DEADLOCK FALSE
