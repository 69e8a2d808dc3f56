SPECIFICATION Spec
CONSTANTS
  Names = {n1, n2, n3}
  Ids = {i1, i2, i3, i4, i5}
  Reqs = {r1, r2, r3}
  NoId = NoId
  NoName = NoName
  Serial = {n1, n2}
  Sticky = {n3}
  MayFail = TRUE
  MayCrash = TRUE
SYMMETRY Symmetry
INVARIANTS TypeOK NamesUnique OwnStorage NoOrphanStorage
