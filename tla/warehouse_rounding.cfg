\* A price with three decimals is loaded twice.
SPECIFICATION Spec
CONSTANTS
  e1 = e1
  e2 = e2
  x1 = x1
  x2 = x2
  red = red
  blue = blue
  hat = hat
  l1 = l1
  l2 = l2
  Row <- MCFineRow
  Event = {e1, e2}
  Listing = {x1, x2}
  Product = {red, blue, hat}
  NameOf <- MCNameOf
  NoProduct = NoProduct
  Loader = {l1}
  LakeSize = 2
  BatchSize = 2
  MaxMills = 5000
  MayFail = FALSE
INVARIANTS
  ConflictsAreReal
