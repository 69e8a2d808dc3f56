SPECIFICATION FairSpec
CONSTANTS
  Sandboxes = {s1}
  HostPorts = {p1}
  Tokens = {t1, t2}
  Conns = {k1}
  Ttls = {2, 6}
  IdleTimeout = 3
  Poll = 4
  MinSleep = 2
  MaxTime = 9
  NoPort = NoPort
  NoToken = NoToken
  NoEntry = NoEntry
  NoPeer = NoPeer
INVARIANTS TypeOK LiveSessionsKept
PROPERTIES DeadNeverAnswered ClosedInTime EveryConnectionCloses ImplementsRegistry
