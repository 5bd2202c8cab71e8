\* the two callers of the judgement, the bindings, the runner on recorded evidence, and
\* what reads one input each
SPECIFICATION MCSpec
CONSTANTS
  k1 = k1
  k2 = k2
  h1 = h1
  h2 = h2
  d1 = d1
  d2 = d2
  p1 = p1
  p2 = p2
  m1 = m1
  m2 = m2
  Key = {k1, k2}
  ComposeHash = {h1, h2}
  ImageDigest = {d1, d2}
  Platform = {p1, p2}
  Measured = {m1, m2}
  MinSvn <- MCMinSvn
  Validity = 1
  MaxTime = 3
  NoKey = NoKey
  NotConnected = NotConnected
  Unreadable = Unreadable
  NoReference = NoReference
  Absent = Absent
  NotAHash = NotAHash
  NoLeaf = NoLeaf
  Hashes = {h1, h2, NotAHash}
  Image = d1
  Quotes <- MCQuotes
  Documents <- MCDocuments
  Collaterals <- MCCollaterals
  References <- MCReferences
  RunnerQuotes <- MCRunnerQuotes
  RunnerDocuments <- MCRunnerDocuments
  RunnerReferences <- MCRunnerReferences
  Omitted = Omitted
  BadFile = BadFile
  BadHash = BadHash
  None = None
  HeaderLen = 2
  OffMrtd = 1
  MeasurementLen = 1
  ReportDataLen = 2
  SigLenWidth = 1
  SigLens = {0, 1, 4, 16, 17, 18, 31}
  NarrowMax = 31
  WideMax = 63
  MaxDigits = 62
  Port = {0, 1, 443, 65535, 65536}
  MaxPort = 65535
  Scheme = {"https", "http", "none"}
  AppId = {"Hex40", "Short", "Letters40"}
  AppPort = {443, 8080}
  MaxMajor = 1
  MaxMinor = 6
  MaxPatch = 8
  MaxParts = 4
  MaxServices = 3
  Unnamed = Unnamed
  Hash = h1
  StartingResults <- StartingTranscripts
  MaxRecords = 9
  CallerQuotes <- JudgedQuotes
  CallerDocuments <- MCDocuments
  CallerCollaterals <- Statements
  CallerReferences <- BootReferences
  Licensed <- MCLicensed
INVARIANTS
  WrapperIsHonest
  AdviceNeverProceeds
  OutageNamesRemedies
  TrustIsEstablished
  OutageOnlyWithoutJudge
  TcbStatementAgrees
  AgreesWithCore
  OnlyIntelIsMissing
  SinglesAgree
  NothingIsLost
  ExitCodesAreTrue
  WholeQuotesOnly
  ScanAgreesWithVerify
PROPERTIES
  RefusalIsPermanent
  RemedyConcludes
  TwoJudgesNothing
  AnswerStands
  OperatorReachesTheApp
  VersionsAreOrdered
  NamesAreSound
CHECK_DEADLOCK FALSE
