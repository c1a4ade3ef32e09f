SPECIFICATION Spec
CONSTANTS
  Key = {"top", "topX", "folderX", "folderY", "deepX", "deepFlat"}
  top = top
  folder = folder
  deep = deep
  Resource <- MCResource
  At <- MCAt
  Recursive <- MCRecursive
  Within <- MCWithin
  Pattern = {"x", "y"}
  Excludes <- MCExcludes
  Matches <- MCMatches
  Consumer = {c1, c2, c3, c4}
  None = None
INVARIANTS
  TypeOK
  Covered
  LinksAgree
  IndexedIsReal
  NothingLeaks
SYMMETRY ConsumerSymmetry
