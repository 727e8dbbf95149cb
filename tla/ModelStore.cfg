SPECIFICATION Spec
CONSTANTS
  Models = {m1, m2}
  ModelNames = {n1}
  Images = {i1, i2}
  Cards = {c1}
  Handlers = {h1, h2}
  Blank = Blank
  Malformed = Malformed
INVARIANT ImagesPresent
PROPERTIES ReferredWhole EditKeepsRest NoLinkBroken CleanSparesInUse
SYMMETRY StoreSymmetry
