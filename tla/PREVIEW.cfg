SPECIFICATION PSpec
CONSTANTS
  Sids = {s1, s2}
  Names = {s1, s2}
  Ids = {1, 2}
  Configs = {c1}
  PortStart = 1
  PortEnd = 2
  Reqs = {r1, r2}
  Ops = {"create", "delete", "sign", "expire"}
  Inputs <- Named
  Patches <- NoPatch
  NoRow = NoRow
  NoId = NoId
  NoName = NoName
  NoSpec = NoSpec
  Keep = Keep
  Exclusive = TRUE
  MayFail = FALSE
  MayMiss = FALSE
  MayCrash = TRUE
  Tokens = {t1, t2}
  CPorts = {8080}
  Proxied = {x1}
  NoToken = NoToken
SYMMETRY Symmetry
INVARIANTS PTypeOK OneTokenPerPort TokensGoWithRuntime
PROPERTY ProxyReachesSandbox
