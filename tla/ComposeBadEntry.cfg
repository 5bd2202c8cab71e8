\* one bad entry against the documentation of Fallback
SPECIFICATION Spec
CONSTANTS
  c1 = c1
  c2 = c2
  ipfs1 = ipfs1
  ipfs2 = ipfs2
  http = http
  doc1 = doc1
  doc2 = doc2
  wrong = wrong
  None = None
  Client = {c1}
  Uri = {ipfs1, ipfs2, http}
  Bytes = {doc1, doc2, wrong}
  Licensed <- MCLicensed
  Supports <- MCSupports
  Chain = 2
  Honest = {2}
  Capacity = 1
  MaxFetches = 1
INVARIANT RefusedOnlyIfEveryEntryIsBad
CHECK_DEADLOCK FALSE
