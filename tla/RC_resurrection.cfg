SPECIFICATION Spec
CONSTANTS
  Sids = {s1}
  Names = {}
  Ids = {1, 2}
  Configs = {c1}
  PortStart = 1
  PortEnd = 2
  Reqs = {r1, r2}
  Ops = {"ensure", "get", "delete"}
  Inputs <- Plain
  Patches <- NoPatch
  NoRow = NoRow
  NoId = NoId
  NoName = NoName
  NoSpec = NoSpec
  Keep = Keep
  Exclusive = FALSE
  MayFail = TRUE
  MayMiss = FALSE
  MayCrash = FALSE
PROPERTY OnlyInsertAddsRows
