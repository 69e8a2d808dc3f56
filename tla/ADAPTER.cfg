SPECIFICATION FairSpec
CONSTANTS
  Calls = {k1, k2}
  Ops = {"create", "start", "stop", "remove", "exec", "pull"}
  Attempts = 2
  MaxLaunches = 2
INVARIANTS TypeOK CopiesBounded ResolvedMeansLaunched NoCredentialsLeft
PROPERTIES StopSettles EveryCallSettles
