SPECIFICATION Spec
CONSTANTS
  Sids = {s1}
  Names = {}
  Ids = {1, 2}
  Configs = {c1}
  PortStart = 1
  PortEnd = 4
  Reqs = {r1}
  Ops = {"ensure", "update", "get", "start", "stop", "delete", "exec", "refresh"}
  Inputs <- Varied
  Patches <- Reconfigure
  NoRow = NoRow
  NoId = NoId
  NoName = NoName
  NoSpec = NoSpec
  Keep = Keep
  Exclusive = TRUE
  MayFail = TRUE
  MayMiss = TRUE
  MayCrash = TRUE
INVARIANT NoOrphanLease
PROPERTIES HostPortsStable ReplacementRepairs
