SPECIFICATION Spec
CONSTANTS
  Menus = {a, b}
  Items = {x, y}
  Strays = FALSE
  MaxLen = 3
  None = None
SYMMETRY Symmetry
INVARIANTS ListsAgree PointersAreLive
CHECK_DEADLOCK FALSE
