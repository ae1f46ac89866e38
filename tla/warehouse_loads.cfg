\* Two loaders over lakes of three objects, in batches of two, with failures.
SPECIFICATION FairSpec
CONSTANTS
  e1 = e1
  e2 = e2
  x1 = x1
  x2 = x2
  red = red
  blue = blue
  hat = hat
  l1 = l1
  l2 = l2
  Row <- MCRow
  Event = {e1, e2}
  Listing = {x1, x2}
  Product = {red, blue, hat}
  NameOf <- MCNameOf
  NoProduct = NoProduct
  Loader = {l1, l2}
  LakeSize = 3
  BatchSize = 2
  MaxMills = 5000
  MayFail = TRUE
INVARIANTS
  TypeOK
  LoadedIsStored
  ObservationsLinked
PROPERTIES
  EverythingLoaded
  ConflictSurfaces
