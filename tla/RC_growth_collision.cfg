SPECIFICATION Spec
CONSTANTS
  Sids = {s1, s2}
  Names = {}
  Ids = {1, 2}
  Configs = {c1}
  PortStart = 1
  PortEnd = 3
  Reqs = {r1}
  Ops = {"ensure"}
  Inputs <- Growing
  Patches <- NoPatch
  NoRow = NoRow
  NoId = NoId
  NoName = NoName
  NoSpec = NoSpec
  Keep = Keep
  Exclusive = TRUE
  MayFail = TRUE
  MayMiss = FALSE
  MayCrash = FALSE
INVARIANT NoSharedHostPort
