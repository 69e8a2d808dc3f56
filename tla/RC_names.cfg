SPECIFICATION Spec
CONSTANTS
  Sids = {s1, s2}
  Names = {s1}
  Ids = {1, 2}
  Configs = {c1, c2}
  PortStart = 1
  PortEnd = 4
  Reqs = {r1, r2}
  Ops = {"create", "ensure", "delete"}
  Inputs <- Named
  Patches <- NoPatch
  NoRow = NoRow
  NoId = NoId
  NoName = NoName
  NoSpec = NoSpec
  Keep = Keep
  Exclusive = TRUE
  MayFail = FALSE
  MayMiss = FALSE
  MayCrash = FALSE
SYMMETRY Symmetry
INVARIANTS NoSharedHostPort CreateNeverAdopts RunningAsConfigured BindingsFollowVm
PROPERTY AnsweredAsAsked
