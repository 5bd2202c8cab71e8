\* two clients over one cache of capacity 1 and a chain of two sources
SPECIFICATION Spec
CONSTANTS
  c1 = c1
  c2 = c2
  ipfs1 = ipfs1
  ipfs2 = ipfs2
  http = http
  doc1 = doc1
  doc2 = doc2
  wrong = wrong
  None = None
  Client = {c1, c2}
  Uri = {ipfs1, ipfs2, http}
  Bytes = {doc1, doc2, wrong}
  Licensed <- MCLicensed
  Supports <- MCSupports
  Chain = 2
  Honest = {2}
  Capacity = 0
  MaxFetches = 2
INVARIANTS
  TypeOK
  AcceptedIsLicensed
  CapacityHolds
  SourcesAreToBlame
PROPERTY
  FetchReturns
CHECK_DEADLOCK FALSE
