----------------------------- MODULE MCSurfaces -----------------------------
(***************************************************************************)
(* Surfaces for TLC, side by side with the two callers of the judgement    *)
(* itself: the embedder of VerdictRecorder and the caller of Judgement. No *)
(* two of the nine share state, so a behaviour is one of one of them, and  *)
(* a part that does not act is given one input only.                       *)
(***************************************************************************)
EXTENDS Surfaces, VerdictRecorder, Judgement

CONSTANTS k1, k2, h1, h2, d1, d2, p1, p2, m1, m2

MCMinSvn == [t \in 0 .. MaxTime |-> IF t < 1 THEN 1 ELSE 2]

MCBoot(m) == [r \in Register |-> m]

Good == [parses |-> TRUE, genuine |-> TRUE, platform |-> p1, svn |-> 1,
         version |-> "V1", config |-> h1, boot |-> MCBoot(m1), commits |-> k1]

Defects(q) ==
  {[q EXCEPT !.parses = FALSE], [q EXCEPT !.genuine = FALSE], [q EXCEPT !.svn = 0],
   [q EXCEPT !.version = "V2"], [q EXCEPT !.version = "Unknown"], [q EXCEPT !.config = h2],
   [q EXCEPT !.boot = MCBoot(m2)], [q EXCEPT !.commits = k2], [q EXCEPT !.commits = NoKey]}

\* A quote of the licensed enclave, and each that differs in at most two respects.
MCQuotes == {Good} \cup UNION {Defects(q) : q \in {Good} \cup Defects(Good)}

MCDocuments == [hash : {h1, h2}, pinned : {TRUE}, digests : {{d1, d2}}]
                 \cup [hash : {h1}, pinned : BOOLEAN, digests : {{d2}, {d1}}]

MCCollaterals == [platform : {p1, p2}, issued : {0}]

MCReferences == {MCBoot(m1)}

\* The runner: fewer quotes, more references.
LicensedDoc == [hash |-> h1, pinned |-> TRUE, digests |-> {d1}]

MCRunnerQuotes == {Good, [Good EXCEPT !.genuine = FALSE], [Good EXCEPT !.config = h2],
                   [Good EXCEPT !.commits = NoKey]}

MCRunnerDocuments == {LicensedDoc, [LicensedDoc EXCEPT !.hash = h2],
                      [LicensedDoc EXCEPT !.pinned = FALSE]}

MCRunnerReferences == {MCBoot(m1), MCBoot(m2), MCBoot(Absent)}

-----------------------------------------------------------------------------
(***************************************************************************)
(* The embedder who assembles a verdict.  He starts from transcripts that  *)
(* are one or two records short of complete, complete, or complete with a  *)
(* refusal in them, so that every way of finishing, repeating and          *)
(* contradicting a transcript is at most three records away.               *)
(***************************************************************************)
Order == <<"ComposeHash", "ImagesPinned", "LicensedImagePresent", "QuoteSignature",
           "TcbStatus", "MrConfigId", "BootMeasurements", "ChannelBound">>

AllPassed == [i \in 1 .. 8 |-> [check |-> Order[i], outcome |-> "Passed"]]

StartingTranscripts ==
  {SubSeq(AllPassed, 1, 6), SubSeq(AllPassed, 2, 8), AllPassed,
   [AllPassed EXCEPT ![4].outcome = "Failed", ![5].outcome = "Skipped"],
   [AllPassed EXCEPT ![6].outcome = "VerifierCannotJudge"]}

(***************************************************************************)
(* The caller who asks verify again, with statements of Intel's issued     *)
(* before and after the TCB level was raised, and a clock that runs past   *)
(* the windows of both.                                                    *)
(***************************************************************************)
JudgedBoot(m) == [r \in Register |-> IF r = "RTMR1" THEN m ELSE m1]

Attested == [parses |-> TRUE, genuine |-> TRUE, platform |-> p1, svn |-> 2,
             version |-> "V1", config |-> h1, boot |-> JudgedBoot(m1), commits |-> k1]

Spoiled(q) ==
  {[q EXCEPT !.parses = FALSE], [q EXCEPT !.genuine = FALSE], [q EXCEPT !.platform = p2],
   [q EXCEPT !.svn = 1], [q EXCEPT !.version = "V2"], [q EXCEPT !.version = "Unknown"],
   [q EXCEPT !.config = h2], [q EXCEPT !.boot = JudgedBoot(m2)],
   [q EXCEPT !.commits = k2], [q EXCEPT !.commits = NoKey]}

\* A quote of the licensed enclave, and each that differs in at most two respects.
JudgedQuotes == {Attested} \cup UNION {Spoiled(q) : q \in {Attested} \cup Spoiled(Attested)}

Statements == [platform : {p1}, issued : {0, 1}] \cup [platform : {p2}, issued : {0}]

\* A full reference, one that names a single register, and one that names none.
BootReferences == {JudgedBoot(m1), [r \in Register |-> IF r = "RTMR1" THEN m1 ELSE Absent],
                   [r \in Register |-> Absent]}

MCLicensed == [compose |-> h1, image |-> d1]

-----------------------------------------------------------------------------
\* What a part that does not act has been given.
AtRest ==
  /\ part # "Bindings" => document = LicensedDoc /\ quote = Good /\ hash = h1 /\ leaf = k1
  /\ part # "Runner" =>
       given = [attestation |-> Good, compose |-> LicensedDoc, hash |-> h1, leaf |-> k1,
                endpoint |-> Omitted, osImage |-> "Unnamed", boot |-> Omitted]
  /\ part # "Parser" => file = [version |-> "V4", tee |-> "Tdx", sigLen |-> 0] /\ stray = TRUE
  /\ part # "Address" => scheme = "https" /\ authority = Address!Literal
  /\ part # "Release" => prefixed = FALSE
  /\ part # "Names" => text = [lead |-> FALSE, trail |-> FALSE, scheme |-> "ipfs", rest |-> "Safe"]
  /\ part # "Scan" => shape = "NotJson" /\ services = <<>> /\ licensed = d1
  /\ part # "Recorder" => transcript = AllPassed
  /\ part # "Caller" =>
       evidence = [quote |-> Attested, document |-> LicensedDoc, now |-> 0,
                   collateral |-> [platform |-> p1, issued |-> 0], peer |-> NotConnected]

mcVars == <<surfacesVars, recorderVars, callerVars>>

\* Of the answers the runner treats alike, about an image that is not revoked and a form that
\* is not terminating, one each is enough.
RunnerStarts ==
  /\ given.osImage \in {"Unnamed", "Revoked"}
  /\ given.endpoint \in {Omitted, "Unparseable", "Terminating"}

MCInit ==
  /\ part \in Part \cup {"Recorder", "Caller"}
  /\ AtRest
  /\ clock = 0  \* the runner's, which runs until it has fetched
  /\ PartsInit
  /\ RunnerStarts
  /\ RecorderInit /\ CallerInit

MCNext ==
  \/ SurfacesNext /\ UNCHANGED <<recorderVars, callerVars>>
  \/ part = "Recorder" /\ RecorderNext /\ UNCHANGED <<surfacesVars, callerVars>>
  \/ part = "Caller" /\ CallerNext /\ UNCHANGED <<surfacesVars, recorderVars>>

MCSpec == MCInit /\ [][MCNext]_mcVars
=============================================================================
