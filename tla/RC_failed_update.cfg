SPECIFICATION Spec
CONSTANTS
  Sids = {s1}
  Names = {}
  Ids = {1, 2}
  Configs = {c1, c2}
  PortStart = 1
  PortEnd = 4
  Reqs = {r1}
  Ops = {"ensure", "update"}
  Inputs <- WithSsh
  Patches <- Restated
  NoRow = NoRow
  NoId = NoId
  NoName = NoName
  NoSpec = NoSpec
  Keep = Keep
  Exclusive = TRUE
  MayFail = TRUE
  MayMiss = FALSE
  MayCrash = FALSE
PROPERTY AnsweredAsAsked
