\* the runner, from its arguments to its exit code
SPECIFICATION FairRunnerSpec
CONSTANTS
  k1 = k1
  k2 = k2
  k3 = k3
  h1 = h1
  h2 = h2
  d1 = d1
  p1 = p1
  m1 = m1
  t1 = t1
  t2 = t2
  main = main
  enclave = enclave
  restarted = restarted
  upgraded = upgraded
  outdated = outdated
  version2 = version2
  relay = relay
  recorded = recorded
  gateway = gateway
  broken = broken
  bare = bare
  Key = {k1, k2, k3}
  ComposeHash = {h1, h2}
  ImageDigest = {d1}
  Platform = {p1}
  Measured = {m1}
  MinSvn <- MCMinSvn
  Validity = 1
  NoKey = NoKey
  NotConnected = NotConnected
  Unreadable = Unreadable
  NoReference = NoReference
  Absent = Absent
  Missing = Missing
  None = None
  Main = main
  Get = t1
  Facts <- MCFacts
  Licensed <- MCLicensed
  Served <- MCServed
  Boot = NoReference
  Peer = {enclave, restarted, version2, recorded, gateway}
  Dribblers = {restarted}
  Thread = {t1}
  MaxTime = 1
  MaxConns = 2
  MaxRequests = 1
  MaxRetries = 1
INVARIANT CodesAreTrue
PROPERTY RunnerEnds
CHECK_DEADLOCK FALSE
