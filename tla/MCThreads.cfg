CONSTANTS
  None = None
  a = a  b = b  c = c  x = x  y = y
  Names = {a, b, c}
  Written = {a}
  Texts = {x, y}
  Asked = {"doing", "done"}
  MaxItems = 2
  MaxLog = 1
SYMMETRY Interchangeable
SPECIFICATION Spec
INVARIANTS
  TypeOK
  ChainsEnd
PROPERTIES
  RewriteKeepsTicks
