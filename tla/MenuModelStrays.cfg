SPECIFICATION Spec
CONSTANTS
  Menus = {a, b}
  Items = {x, y}
  Strays = TRUE
  MaxLen = 2
  None = None
SYMMETRY Symmetry
INVARIANT ListsAgree
CHECK_DEADLOCK FALSE
