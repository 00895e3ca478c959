SPECIFICATION CollectionsSpec
CONSTANTS
  k0 = k0
  c0 = c0
  k16 = k16
  k1 = k1
  k2 = k2
  k3 = k3
  x = x
  y = y
  None = None
  Key = {k0, c0, k16, k1, k2, k3}
  Value = {x, y}
  HashBits = 5
  Bits = 2
  HashOf <- Hashes
  Exact = {0, 2}
  Get <- GetIn
  Put <- PutIn
  Without <- WithoutIn
  Size <- SizeOf
  Elements <- ElementsOf
  Depth <- DepthOf
  WellFormed <- WellFormedIn
  MaxDepth = 5
  MaxLength = 11
  MaxViewed = 5
  MaxViews = 2
INVARIANTS
  ShapesOK
  ElementsAreFound
  OneKeyChanges
  OneElementChanges
  PopUndoesPlus
