SPECIFICATION Spec
CONSTANTS
  Sandboxes = {s1, s2}
  HostPorts = {p1, p2}
  Tokens = {t1}
  Conns = {k1}
  Ttls = {4}
  IdleTimeout = 0
  Poll = 5
  MinSleep = 2
  MaxTime = 8
  NoPort = NoPort
  NoToken = NoToken
  NoEntry = NoEntry
  NoPeer = NoPeer
INVARIANT ReachesOwnSandbox
