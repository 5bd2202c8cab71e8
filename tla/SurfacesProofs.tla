--------------------------- MODULE SurfacesProofs ---------------------------
(***************************************************************************)
(* What the bindings answer, for all documents, quotes, hashes and leaves, *)
(* and that it is what the core answers about the same evidence; then what *)
(* the runner on recorded evidence exits with, and what is read of a quote,*)
(* an endpoint, a version, a name and a document, for all of them.         *)
(***************************************************************************)
EXTENDS Surfaces, VerifyProofs, SequenceTheorems

\* What was answered was answered about these arguments.
JsAnswers == js # <<>> => js = ComposeOnlyVerdict(document, quote, hash, leaf)

Licensed == [compose |-> hash, image |-> Image]

EvidenceWith(col, now) == [quote |-> quote, document |-> document, collateral |-> col,
                           now |-> now, peer |-> PeerOf(leaf)]

RustAnswers ==
  rust # <<>> =>
    /\ hash # NotAHash
    /\ \E col \in Collaterals, now \in Time, ref \in References \cup {NoReference} :
         rust = VerifyEvidence(Licensed, EvidenceWith(col, now), ref)

IInv == TypeOK /\ JsAnswers /\ RustAnswers

-----------------------------------------------------------------------------
\* Every check of the bindings has an outcome (lib.rs 306-408).
LEMMA ComposeOnlyOutcomes ==
  ASSUME NEW d \in Document, NEW q \in Quote, NEW h, NEW l, NEW c \in Essential
  PROVE  ComposeOnlyOutcome(c, d, q, h, l) \in Outcome
<1>1. {"Passed", "Failed", "Skipped", "VerifierCannotJudge"} \subseteq Outcome
  BY DEF Outcome, Unestablished
<1>2. \A p : Judge(p) \in Outcome
  BY <1>1, JudgeOutcome
<1>3. ConfigOutcome(q, h) \in Outcome /\ BindingOutcome(q, l) \in Outcome
  BY <1>1, <1>2, MrConfigIdOutcome DEF ConfigOutcome, BindingOutcome
<1>4. ContentsOf(c, d, h) \in Outcome
  BY <1>1, <1>2 DEF ContentsOf, ContentOutcome
<1> QED BY <1>1, <1>2, <1>3, <1>4 DEF ComposeOnlyOutcome, Essential, NeedsCollateral

\* verifyComposeOnly answers with a transcript, and always with some record.
LEMMA ComposeOnlyIsTyped ==
  ASSUME NEW d \in Document, NEW q \in Quote, NEW h, NEW l
  PROVE  ComposeOnlyVerdict(d, q, h, l) \in Seq(Result) /\ ComposeOnlyVerdict(d, q, h, l) # <<>>
<1>1. CASE h = NotAHash
  <2>1. [check |-> "ComposeHash", outcome |-> "Failed"] \in Result
    BY DEF Result, Check, Essential, Outcome
  <2> QED BY <1>1, <2>1 DEF ComposeOnlyVerdict, Record
<1>2. CASE h # NotAHash
  <2>1. \A c \in Essential :
          [check |-> c, outcome |-> ComposeOnlyOutcome(c, d, q, h, l)] \in Result
    BY ComposeOnlyOutcomes DEF Result, Check
  <2> QED BY <1>2, <2>1 DEF ComposeOnlyVerdict, Essential
<1> QED BY <1>1, <1>2

\* It records each essential check once, when it was handed a hash.
LEMMA BindingsAnswer ==
  ASSUME NEW d \in Document, NEW q \in Quote, NEW h, h # NotAHash, NEW l, NEW c \in Essential
  PROVE  OutcomeOf(ComposeOnlyVerdict(d, q, h, l), c) = ComposeOnlyOutcome(c, d, q, h, l)
<1> DEFINE r == ComposeOnlyVerdict(d, q, h, l)
<1>1. r \in Seq(Result)
  BY ComposeOnlyIsTyped
<1>2. \E i \in DOMAIN r :
        /\ r[i].check = c /\ r[i].outcome = ComposeOnlyOutcome(c, d, q, h, l)
        /\ \A j \in DOMAIN r : r[j].check = c => j = i
  BY DEF ComposeOnlyVerdict, Essential
<1> HIDE DEF r
<1>3. OutcomeOf(r, c) = ComposeOnlyOutcome(c, d, q, h, l)
  BY <1>1, <1>2, SingleRecord
<1> QED BY <1>3 DEF r

\* Text that is not a hash leaves the configuration unjudged, and Intel's word.
LEMMA NotAHashAnswer ==
  ASSUME NEW d \in Document, NEW q \in Quote, NEW l, NEW c \in Essential, c # "ComposeHash"
  PROVE  OutcomeOf(ComposeOnlyVerdict(d, q, NotAHash, l), c) = NotRun
<1> DEFINE r == ComposeOnlyVerdict(d, q, NotAHash, l)
<1>1. r = <<[check |-> "ComposeHash", outcome |-> "Failed"]>>
  BY DEF ComposeOnlyVerdict, Record
<1>2. r \in Seq(Result)
  BY ComposeOnlyIsTyped
<1> HIDE DEF r
<1>3. RecordsOf(r, c) = {}
  BY <1>1 DEF RecordsOf
<1>4. OutcomeOf(r, c) = NotRun
  BY <1>2, <1>3, NotRunWhenNotRecorded
<1> QED BY <1>4 DEF r

-----------------------------------------------------------------------------
(***************************************************************************)
(* The inductive invariant.                                                *)
(***************************************************************************)
LEMMA InitIInv == Init => IInv
  BY BindingsAssumption DEF Init, IInv, TypeOK, JsAnswers, RustAnswers

\* The evidence of the Rust agent is evidence, so its answer is a transcript.
LEMMA EvidenceIsTyped ==
  ASSUME TypeOK, NEW col \in Collaterals, NEW now \in Time
  PROVE  EvidenceWith(col, now) \in Evidence
<1>1. PeerOf(leaf) \in PeerCertificate
  BY DEF TypeOK, PeerOf, PeerCertificate, Leaf
<1> QED BY <1>1, BindingsAssumption DEF TypeOK, EvidenceWith, Evidence

LEMMA NextKeepsIInv == IInv /\ [Next]_vars => IInv'
<1> SUFFICES ASSUME IInv, [Next]_vars PROVE IInv'
  OBVIOUS
<1> USE DEF IInv
<1>1. CASE VerifyComposeOnly
  <2>1. js' \in Seq(Result)
    BY <1>1, ComposeOnlyIsTyped DEF VerifyComposeOnly, TypeOK
  <2>2. TypeOK'
    BY <1>1, <2>1 DEF VerifyComposeOnly, TypeOK
  <2>3. JsAnswers'
    BY <1>1 DEF VerifyComposeOnly, JsAnswers
  <2>4. RustAnswers'
    BY <1>1 DEF VerifyComposeOnly, RustAnswers, Licensed, EvidenceWith
  <2> QED BY <2>2, <2>3, <2>4
<1>2. CASE VerifyWithCollateral
  <2>1. PICK col \in Collaterals, now \in Time, ref \in References \cup {NoReference} :
          rust' = VerifyEvidence(Licensed, EvidenceWith(col, now), ref)
    BY <1>2 DEF VerifyWithCollateral, Licensed, EvidenceWith
  <2>2. rust' \in Seq(Result)
    BY <2>1, EvidenceIsTyped, TranscriptIsTyped
  <2>3. TypeOK'
    BY <1>2, <2>2 DEF VerifyWithCollateral, TypeOK
  <2>4. JsAnswers'
    BY <1>2 DEF VerifyWithCollateral, JsAnswers
  <2>5. RustAnswers'
    BY <1>2, <2>1 DEF VerifyWithCollateral, RustAnswers, Licensed, EvidenceWith
  <2> QED BY <2>3, <2>4, <2>5
<1>3. CASE Reconnect
  BY <1>3 DEF Reconnect, TypeOK, JsAnswers, RustAnswers
<1>4. CASE UNCHANGED vars
  BY <1>4 DEF vars, TypeOK, JsAnswers, RustAnswers, Licensed, EvidenceWith
<1> QED BY <1>1, <1>2, <1>3, <1>4 DEF Next

LEMMA Invariance == Spec => []IInv
<1> QED BY InitIInv, NextKeepsIInv, PTL DEF Spec

-----------------------------------------------------------------------------
(***************************************************************************)
(* Types: the arguments stay what they are and each verdict is a           *)
(* transcript (lib.rs 290-408).                                            *)
(***************************************************************************)
THEOREM TypeCorrect == Spec => []TypeOK
<1>1. IInv => TypeOK
  BY DEF IInv
<1> QED BY <1>1, Invariance, PTL

(***************************************************************************)
(* The bindings never call anything trustworthy: what needs collateral is  *)
(* a skip or is absent, whatever they are handed (lib.rs 385-408).         *)
(***************************************************************************)
THEOREM NeverTrusts == Spec => []NeverTrustworthy
<1>1. IInv => NeverTrustworthy
  <2> SUFFICES ASSUME IInv PROVE OutcomeOf(js, "QuoteSignature") # "Passed"
    BY DEF NeverTrustworthy, IsTrustworthy, MissingEssentials, Essential
  <2>1. "QuoteSignature" \in Essential /\ "QuoteSignature" # "ComposeHash"
    BY DEF Essential
  <2>2. CASE js = <<>>
    <3>1. js \in Seq(Result) /\ RecordsOf(js, "QuoteSignature") = {}
      BY <2>2 DEF RecordsOf, IInv, TypeOK
    <3> QED BY <3>1, NotRunWhenNotRecorded DEF NotRun
  <2>3. CASE js # <<>> /\ hash = NotAHash
    BY <2>1, <2>3, NotAHashAnswer DEF IInv, TypeOK, JsAnswers, NotRun
  <2>4. CASE js # <<>> /\ hash # NotAHash
    <3>1. OutcomeOf(js, "QuoteSignature")
            = ComposeOnlyOutcome("QuoteSignature", document, quote, hash, leaf)
      BY <2>1, <2>4, BindingsAnswer DEF IInv, TypeOK, JsAnswers
    <3> QED BY <3>1 DEF ComposeOnlyOutcome, NeedsCollateral
  <2> QED BY <2>2, <2>3, <2>4
<1> QED BY <1>1, Invariance, PTL

(***************************************************************************)
(* On the same evidence the bindings and the core answer alike wherever    *)
(* the bindings can answer, whatever statement of Intel's, clock and boot  *)
(* reference the core was handed (lib.rs 3-6, verify.rs 99-287).           *)
(***************************************************************************)
THEOREM SurfacesAgree == Spec => []AgreesWithCore
<1>1. IInv => AgreesWithCore
  <2> SUFFICES ASSUME IInv, js # <<>>, rust # <<>>, NEW c \in CheckableHere
               PROVE  OutcomeOf(js, c) = OutcomeOf(rust, c)
    BY DEF AgreesWithCore
  <2>1. PICK col \in Collaterals, now \in Time, ref \in References \cup {NoReference} :
          rust = VerifyEvidence(Licensed, EvidenceWith(col, now), ref)
    BY DEF IInv, RustAnswers
  <2> DEFINE e == EvidenceWith(col, now)
  <2>2. c \in Essential /\ c \in Check
    BY DEF CheckableHere, Check
  <2>3. e \in Evidence
    BY EvidenceIsTyped DEF IInv
  <2>4. OutcomeOf(rust, c) = CheckOutcome(c, Licensed, e, ref)
    BY <2>1, <2>2, <2>3, AnswerIsOutcome
  <2>5. OutcomeOf(js, c) = ComposeOnlyOutcome(c, document, quote, hash, leaf)
    BY <2>2, BindingsAnswer DEF IInv, TypeOK, JsAnswers, RustAnswers
  <2>6. CheckOutcome(c, Licensed, e, ref) = ComposeOnlyOutcome(c, document, quote, hash, leaf)
    <3>1. e.document = document /\ e.quote = quote /\ e.peer = PeerOf(leaf)
          /\ Licensed.compose = hash /\ Licensed.image = Image
      BY DEF EvidenceWith, Licensed
    <3>2. CASE c = "ComposeHash"
      BY <3>1, <3>2 DEF CheckOutcome, ComposeOnlyOutcome
    <3>3. CASE c \in {"ImagesPinned", "LicensedImagePresent"}
      BY <3>1, <3>3 DEF CheckOutcome, ComposeOnlyOutcome, ContentsOf, ContentsExamined,
                        ContentOutcome
    <3>4. CASE c = "MrConfigId"
      BY <3>1, <3>4 DEF CheckOutcome, ComposeOnlyOutcome, ConfigOutcome
    <3>5. CASE c = "ChannelBound"
      <4>1. leaf = NoLeaf <=> PeerOf(leaf) = NotConnected
        BY BindingsAssumption, SpecialsAssumption DEF PeerOf, IInv, TypeOK, Leaf
      <4>2. leaf # NoLeaf => PeerOf(leaf) = leaf
        BY DEF PeerOf
      <4> QED BY <3>1, <3>5, <4>1, <4>2
              DEF CheckOutcome, ComposeOnlyOutcome, BindingOutcome, ChannelBound
    <3> QED BY <3>2, <3>3, <3>4, <3>5 DEF CheckableHere, Essential
  <2> QED BY <2>4, <2>5, <2>6
<1> QED BY <1>1, Invariance, PTL

(***************************************************************************)
(* An agent that puts the single answers together reaches the verdict of   *)
(* verifyComposeOnly about the document, the configuration and the channel *)
(* (lib.rs 141-201).                                                       *)
(***************************************************************************)
THEOREM SinglesAddUp == Spec => []SinglesAgree
<1>1. IInv => SinglesAgree
  <2> SUFFICES ASSUME IInv, js # <<>>, hash # NotAHash PROVE SinglesAgree
    BY DEF SinglesAgree
  <2>1. {"LicensedImagePresent", "MrConfigId", "ChannelBound"} \subseteq Essential
    BY DEF Essential
  <2>2. \A c \in Essential :
          OutcomeOf(js, c) = ComposeOnlyOutcome(c, document, quote, hash, leaf)
    BY BindingsAnswer DEF IInv, TypeOK, JsAnswers
  <2>3. ComposeOnlyOutcome("LicensedImagePresent", document, quote, hash, leaf) = "Passed"
          <=> document.hash = hash /\ CheckImages(document)
    BY DEF ComposeOnlyOutcome, ContentsOf, ContentsExamined, ContentOutcome, CheckImages, Judge
  <2>4. ComposeOnlyOutcome("MrConfigId", document, quote, hash, leaf) = "Passed"
          <=> CheckMrConfigIdText(quote, hash)
    BY DEF ComposeOnlyOutcome, ConfigOutcome, CheckMrConfigIdText
  <2>5. ComposeOnlyOutcome("ChannelBound", document, quote, hash, leaf) = "Passed"
          <=> leaf # NoLeaf /\ CheckChannelBinding(quote, leaf)
    BY DEF ComposeOnlyOutcome, BindingOutcome, CheckChannelBinding, Judge
  <2> QED BY <2>1, <2>2, <2>3, <2>4, <2>5 DEF SinglesAgree
<1> QED BY <1>1, Invariance, PTL

(***************************************************************************)
(* What the verdict of the bindings lacks of trust is Intel's word about   *)
(* the quote and nothing else (lib.rs 385-397).                            *)
(***************************************************************************)
THEOREM IntelIsMissing == Spec => []OnlyIntelIsMissing
<1>1. IInv => OnlyIntelIsMissing
  <2> SUFFICES ASSUME IInv, js # <<>> PROVE OnlyIntelIsMissing
    BY DEF OnlyIntelIsMissing
  <2>1. {"QuoteSignature", "TcbStatus", "MrConfigId", "ChannelBound"} \subseteq Essential
    BY DEF Essential
  <2>2. CASE hash = NotAHash
    <3>1. OutcomeOf(js, "MrConfigId") # "Passed"
      BY <2>1, <2>2, NotAHashAnswer DEF IInv, TypeOK, JsAnswers, NotRun
    <3>2. "MrConfigId" \in MissingEssentials(js)
      BY <2>1, <3>1 DEF MissingEssentials
    <3> QED BY <2>2, <3>2 DEF OnlyIntelIsMissing
  <2>3. CASE hash # NotAHash
    <3> DEFINE O(c) == ComposeOnlyOutcome(c, document, quote, hash, leaf)
    <3>1. \A c \in Essential : OutcomeOf(js, c) = O(c)
      BY <2>3, BindingsAnswer DEF IInv, TypeOK, JsAnswers
    <3>2. O("QuoteSignature") # "Passed" /\ O("TcbStatus") # "Passed"
      BY DEF ComposeOnlyOutcome, NeedsCollateral
    <3>3. O("ComposeHash") = "Passed" /\ O("ImagesPinned") = "Passed"
            /\ O("LicensedImagePresent") = "Passed"
          <=> LicensedDocument(Licensed, document)
      BY DEF ComposeOnlyOutcome, ContentsOf, ContentsExamined, ContentOutcome, Judge,
             LicensedDocument, Licensed
    <3>4. O("MrConfigId") = "Passed" /\ O("ChannelBound") = "Passed"
          <=> AttestsKey([quote EXCEPT !.genuine = TRUE], Licensed, leaf)
      <4>1. quote \in Quote /\ quote.version \in {"V1", "V2", "Unknown"}
              /\ leaf \in Key \cup {Unreadable, NoLeaf} /\ quote.commits \in Key \cup {NoKey}
        BY DEF IInv, TypeOK, Quote, Leaf
      <4>2. O("MrConfigId") = "Passed"
              <=> quote.parses /\ quote.version = "V1" /\ quote.config = hash
        BY <4>1 DEF ComposeOnlyOutcome, ConfigOutcome, CheckMrConfigId
      <4>3. O("ChannelBound") = "Passed"
              <=> quote.parses /\ leaf \in Key /\ quote.commits = leaf
        BY <4>1, BindingsAssumption, SpecialsAssumption
           DEF ComposeOnlyOutcome, BindingOutcome, ChannelBinding, Judge
      <4>4. LET q == [quote EXCEPT !.genuine = TRUE]
            IN  q.genuine /\ q.parses = quote.parses /\ q.version = quote.version
                  /\ q.config = quote.config /\ q.commits = quote.commits
        BY <4>1 DEF Quote
      <4> HIDE DEF O
      <4> QED BY <4>2, <4>3, <4>4 DEF AttestsKey, Licensed
    <3> HIDE DEF O
    <3>5. MissingEssentials(js) = {c \in Essential : O(c) # "Passed"}
      BY <3>1 DEF MissingEssentials
    <3>6. MissingEssentials(js) = {"QuoteSignature", "TcbStatus"}
          <=> /\ LicensedDocument(Licensed, document)
              /\ AttestsKey([quote EXCEPT !.genuine = TRUE], Licensed, leaf)
      <4>1. MissingEssentials(js) = {"QuoteSignature", "TcbStatus"}
            <=> \A c \in Essential \ {"QuoteSignature", "TcbStatus"} : O(c) = "Passed"
        BY <2>1, <3>2, <3>5
      <4>2. Essential \ {"QuoteSignature", "TcbStatus"} =
              {"ComposeHash", "ImagesPinned", "LicensedImagePresent", "MrConfigId", "ChannelBound"}
        BY DEF Essential
      <4> QED BY <3>3, <3>4, <4>1, <4>2
    <3> QED BY <2>3, <3>6 DEF OnlyIntelIsMissing, Licensed
  <2> QED BY <2>2, <2>3
<1> QED BY <1>1, Invariance, PTL

(***************************************************************************)
(* The name of an outcome and what to do about it tell each outcome of a   *)
(* check from every other (verdict.rs 196-223, lib.rs 64-119).             *)
(***************************************************************************)
LEMMA OutcomesAreTold ==
  ASSUME NEW c \in Check, NEW o \in Outcome, NEW p \in Outcome,
         JsOutcome(o) = JsOutcome(p), Disposition(c, o) = Disposition(c, p)
  PROVE  o = p
<1>1. \A x \in Outcome : JsOutcome(x) =
        IF x = "Passed" THEN "passed" ELSE IF x = "Failed" THEN "failed"
        ELSE IF x = "Skipped" THEN "skipped" ELSE "indeterminate"
  BY DEF JsOutcome, Outcome, Unestablished
<1>2. \A x \in Unestablished : Disposition(c, x) =
        IF x = "RetrievalFailed" THEN "RetryRetrieval"
        ELSE IF x = "ReferenceUnavailable" THEN "UpdateReference" ELSE "UpdateVerifier"
  BY DEF Disposition, Unestablished, Remedy
<1>3. \A x \in Unestablished : JsOutcome(x) = "indeterminate"
  BY DEF JsOutcome, Unestablished
<1>4. CASE o \in Unestablished /\ p \in Unestablished
  BY <1>2, <1>4 DEF Unestablished
<1>5. CASE o \notin Unestablished \/ p \notin Unestablished
  BY <1>1, <1>5 DEF Outcome, Unestablished
<1> QED BY <1>4, <1>5

(***************************************************************************)
(* Nothing a caller branches on is lost on the way to JavaScript, of any   *)
(* record of any verdict (lib.rs 64-119).                                  *)
(***************************************************************************)
THEOREM NothingLost == Spec => []NothingIsLost
<1>1. IInv => NothingIsLost
  <2> SUFFICES ASSUME IInv, NEW i \in DOMAIN rust, NEW o \in Outcome,
                      ToJs([rust[i] EXCEPT !.outcome = o]) = ToJs(rust[i])
               PROVE  o = rust[i].outcome
    BY DEF NothingIsLost
  <2>1. rust[i] \in Result
    BY DEF IInv, TypeOK
  <2> DEFINE c == rust[i].check
             r == [rust[i] EXCEPT !.outcome = o]
  <2>2. c \in Check /\ rust[i].outcome \in Outcome /\ r.check = c /\ r.outcome = o
    BY <2>1 DEF Result
  <2>3. ToJs(r).outcome = JsOutcome(r.outcome) /\ ToJs(r).disposition = Disposition(r.check, r.outcome)
    BY DEF ToJs
  <2>4. /\ ToJs(rust[i]).outcome = JsOutcome(rust[i].outcome)
        /\ ToJs(rust[i]).disposition = Disposition(rust[i].check, rust[i].outcome)
    BY DEF ToJs
  <2> HIDE DEF c, r
  <2>5. JsOutcome(o) = JsOutcome(rust[i].outcome) /\ Disposition(c, o) = Disposition(c, rust[i].outcome)
    BY <2>2, <2>3, <2>4 DEF r, c
  <2> QED BY <2>2, <2>5, OutcomesAreTold
<1> QED BY <1>1, Invariance, PTL

-----------------------------------------------------------------------------
(***************************************************************************)
(* The runner on recorded evidence.  It judges with verify itself.         *)
(***************************************************************************)
LEMMA SameAnswer ==
  ASSUME NEW r, NEW c
  PROVE  Runner!OutcomeOf(r, c) = OutcomeOf(r, c)
  BY DEF Runner!OutcomeOf, OutcomeOf, Runner!NonPasses, NonPasses, Runner!RecordsOf, RecordsOf,
         Runner!NotRun, NotRun

LEMMA SameMissing ==
  ASSUME NEW r
  PROVE  Runner!MissingEssentials(r) = MissingEssentials(r)
  BY SameAnswer DEF Runner!MissingEssentials, MissingEssentials, Runner!Essential, Essential

LEMMA SameVerdict ==
  ASSUME NEW l, NEW e, NEW ref
  PROVE  Runner!VerifyEvidence(l, e, ref) = VerifyEvidence(l, e, ref)
<1>1. ASSUME NEW c PROVE Runner!CheckOutcome(c, l, e, ref) = CheckOutcome(c, l, e, ref)
  BY DEF Runner!CheckOutcome, CheckOutcome, Runner!Judge, Judge, Runner!VerifyQuote, VerifyQuote,
         Runner!QvlVerifies, QvlVerifies, Runner!InWindow, InWindow, Runner!TcbLevel, TcbLevel,
         Runner!IsTcbAcceptable, IsTcbAcceptable, Runner!CheckMrConfigId, CheckMrConfigId,
         Runner!BootOutcome, BootOutcome, Runner!BootMatches, BootMatches, Runner!Register, Register,
         Runner!ChannelBound, ChannelBound, Runner!ChannelBinding, ChannelBinding
<1> QED BY <1>1 DEF Runner!VerifyEvidence, VerifyEvidence

LEMMA SameFacts ==
  ASSUME NEW l, NEW e
  PROVE  Runner!Established(l, e) <=> Established(l, e)
  BY DEF Runner!Established, Established, Runner!LicensedDocument, LicensedDocument,
         Runner!AttestsKey, AttestsKey, Runner!FreshTcb, FreshTcb

(***************************************************************************)
(* The inductive invariant: what has been read stays usable, and what is   *)
(* said at the exit was said of it.                                        *)
(***************************************************************************)
Readable == Runner!FilesExit(given) = None

Judgeable == Readable /\ given.osImage # "Revoked" /\ given.boot # BadFile

RunnerVerdict ==
  VerifyEvidence(Runner!LicensedBy(given), Runner!EvidenceOf(given), Runner!BootOf(given))

RunnerIInv ==
  /\ given \in Runner!Given /\ clock \in Time
  /\ stage \in {"Files", "Fetch", "Images", "Verify", "Exited"}
  /\ stage # "Exited" => exit = None /\ results = <<>>
  /\ stage \in {"Fetch", "Images", "Verify"} => Readable
  /\ stage \in {"Images", "Verify"} => collateral \in Collateral
  /\ stage = "Verify" => Judgeable
  /\ stage = "Exited" =>
       \/ /\ results = <<>> /\ exit # 0
          /\ exit = 1 => given.osImage = "Revoked"
       \/ /\ Judgeable /\ collateral \in Collateral
          /\ results = RunnerVerdict
          /\ exit = IF IsTrustworthy(results) THEN 0 ELSE 1

\* The run goes on past the files only with a quote, a document, a hash and no bad leaf.
LEMMA ReadableMeans ==
  ASSUME Readable
  PROVE  /\ given.attestation # BadFile /\ given.compose # BadFile
         /\ given.hash # BadHash /\ given.leaf # BadFile
<1> DEFINE codes == <<IF given.hash = BadHash THEN 2 ELSE None, Runner!LeafExit(given),
                      Runner!EndpointExit(given)>>
<1>1. None # 2 /\ None # 101
  BY RunnerAssumption
<1>2. given.attestation # BadFile /\ given.compose # BadFile
  BY <1>1 DEF Readable, Runner!FilesExit, Runner!PanicExit
<1>3. Runner!FirstOf(codes) = None
  BY <1>2 DEF Readable, Runner!FilesExit
<1>4. \A i \in DOMAIN codes : codes[i] \in {2, None}
  BY DEF Runner!LeafExit, Runner!EndpointExit
<1>5. codes[1] = None /\ codes[2] = None
  BY <1>1, <1>3 DEF Runner!FirstOf, Runner!LeafExit, Runner!EndpointExit
<1> QED BY <1>1, <1>2, <1>5 DEF Runner!LeafExit

\* What is judged is evidence, so what verify says of it means what it should.
LEMMA JudgedIsEvidence ==
  ASSUME given \in Runner!Given, clock \in Time, Readable, collateral \in Collateral
  PROVE  Runner!EvidenceOf(given) \in Evidence
<1>1. given.attestation \in Quote /\ given.compose \in Document
  BY ReadableMeans, RunnerAssumption DEF Runner!Given
<1>2. Runner!PresentedBy(given) \in PeerCertificate
  BY ReadableMeans DEF Runner!Given, Runner!PresentedBy, PeerCertificate
<1> QED BY <1>1, <1>2 DEF Runner!EvidenceOf, Evidence

LEMMA RunnerInitIInv == Runner!Init => RunnerIInv
  BY DEF Runner!Init, RunnerIInv, Runner!Time, Time

LEMMA RunnerNextIInv == RunnerIInv /\ [Runner!Next]_runnerVars => RunnerIInv'
<1> SUFFICES ASSUME RunnerIInv, [Runner!Next]_runnerVars PROVE RunnerIInv'
  OBVIOUS
<1>0. None \notin {0, 1, 2, 101}
  BY RunnerAssumption
<1>1. CASE Runner!ReadFiles
  <2>1. Runner!FilesExit(given) \in {None, 2, 101}
    <3> DEFINE codes == <<IF given.hash = BadHash THEN 2 ELSE None, Runner!LeafExit(given),
                          Runner!EndpointExit(given)>>
    <3>1. \A i \in DOMAIN codes : codes[i] \in {2, None}
      BY DEF Runner!LeafExit, Runner!EndpointExit
    <3>2. Runner!FirstOf(codes) \in {2, None}
      BY <3>1 DEF Runner!FirstOf
    <3> QED BY <3>2 DEF Runner!FilesExit, Runner!PanicExit
  <2>2. CASE Readable
    BY <1>1, <2>2 DEF Runner!ReadFiles, Runner!GoOn, RunnerIInv, Readable
  <2>3. CASE ~Readable
    BY <1>0, <1>1, <2>1, <2>3 DEF Runner!ReadFiles, Runner!Exit, RunnerIInv, Readable
  <2> QED BY <2>2, <2>3
<1>2. CASE Runner!FetchSucceeds
  BY <1>2 DEF Runner!FetchSucceeds, Runner!GoOn, RunnerIInv, Readable, Runner!Collateral, Collateral,
              Runner!Time, Time
<1>3. CASE Runner!FetchFails
  BY <1>0, <1>3 DEF Runner!FetchFails, Runner!Exit, RunnerIInv
<1>4. CASE Runner!JudgeImages
  BY <1>0, <1>4 DEF Runner!JudgeImages, Runner!Exit, Runner!GoOn, Runner!ReportOsImage,
                    Runner!PanicExit, RunnerIInv, Readable, Judgeable
<1>5. CASE Runner!VerifyFiles
  <2>1. results' = RunnerVerdict
    BY <1>5, SameVerdict DEF Runner!VerifyFiles, RunnerVerdict
  <2>2. exit' = IF IsTrustworthy(results') THEN 0 ELSE 1
    BY <1>5, SameMissing DEF Runner!VerifyFiles, Runner!Exit, Runner!VerdictExit,
                             Runner!IsTrustworthy, IsTrustworthy
  <2>3. RunnerVerdict' = RunnerVerdict /\ (Judgeable => Judgeable')
    BY <1>5 DEF Runner!VerifyFiles, RunnerVerdict, Runner!LicensedBy, Runner!EvidenceOf,
                Runner!BootOf, Runner!LicensedHash, Runner!PresentedBy, Judgeable, Readable
  <2>4. stage = "Verify" /\ stage' = "Exited" /\ UNCHANGED <<given, clock, collateral>>
    BY <1>5 DEF Runner!VerifyFiles, Runner!Exit
  <2> QED BY <2>1, <2>2, <2>3, <2>4 DEF RunnerIInv
<1>6. CASE Runner!Tick
  <2>1. clock' \in Time
    BY <1>6, IntelAssumption DEF Runner!Tick, RunnerIInv, Time
  <2> QED BY <1>6, <2>1 DEF Runner!Tick, RunnerIInv, Readable
<1>7. CASE UNCHANGED runnerVars
  BY <1>7 DEF runnerVars, RunnerIInv, Readable, Judgeable, RunnerVerdict, Runner!LicensedBy,
              Runner!EvidenceOf, Runner!BootOf, Runner!LicensedHash, Runner!PresentedBy
<1> QED BY <1>1, <1>2, <1>3, <1>4, <1>5, <1>6, <1>7 DEF Runner!Next

LEMMA RunnerInvariance == Runner!Spec => []RunnerIInv
<1> QED BY RunnerInitIInv, RunnerNextIInv, PTL DEF Runner!Spec, Runner!vars, runnerVars

(***************************************************************************)
(* The exit code of verify-attestation is true of the evidence, whatever   *)
(* the files hold, the PCCS answers and the clock reads                    *)
(* (verify-attestation.rs 15-27, 86-237).                                  *)
(***************************************************************************)
THEOREM RunnerExitsTruly == Runner!Spec => []ExitCodesAreTrue
<1>1. RunnerIInv => ExitCodesAreTrue
  <2> SUFFICES ASSUME RunnerIInv PROVE ExitCodesAreTrue
    OBVIOUS
  <2> DEFINE l == Runner!LicensedBy(given)
             e == Runner!EvidenceOf(given)
             Judged == /\ Judgeable /\ collateral \in Collateral
                       /\ results = RunnerVerdict
                       /\ exit = IF IsTrustworthy(results) THEN 0 ELSE 1
  <2>1. stage # "Exited" => exit = None /\ results = <<>>
    BY DEF RunnerIInv
  <2>2. exit # None => Judged \/ (results = <<>> /\ exit # 0 /\ (exit = 1 => given.osImage = "Revoked"))
    BY DEF RunnerIInv
  <2>3. None \notin {0, 1}
    BY RunnerAssumption
  <2>4. Judged => Readable
    BY DEF Judgeable
  <2>5. Judged /\ IsTrustworthy(results) => Established(l, e)
    BY <2>4, JudgedIsEvidence, TrustMeansEstablished DEF RunnerIInv, RunnerVerdict
  <2>6. Established(l, e) => e.quote.config = l.compose /\ e.document.hash = l.compose
    BY DEF Established, LicensedDocument, AttestsKey
  <2>7. /\ e.quote = given.attestation /\ e.document = given.compose
        /\ l.compose = IF given.hash = Omitted THEN given.compose.hash ELSE given.hash
    BY DEF Runner!EvidenceOf, Runner!LicensedBy, Runner!LicensedHash
  <2>8. Runner!AcceptedIsEstablished
    <3>1. exit = 0 => Judged /\ IsTrustworthy(results)
      BY <2>2, <2>3
    <3> QED BY <3>1, <2>5, <2>6, <2>7, SameFacts DEF Runner!AcceptedIsEstablished
  <2>9. Runner!OneIsARefusal
    <3>1. Judged => results # <<>>
      BY DEF RunnerVerdict, VerifyEvidence
    <3>2. exit = 1 => given.osImage = "Revoked" \/ (results # <<>> /\ ~IsTrustworthy(results))
      BY <2>2, <2>3, <3>1
    <3> QED BY <3>2, SameMissing DEF Runner!OneIsARefusal, IsTrustworthy
  <2>10. Runner!NotForJudgement
    <3>1. Judged => given.leaf # BadFile /\ given.osImage # "Revoked"
      BY <2>4, ReadableMeans DEF Judgeable
    <3>2. exit = None => results = <<>> /\ exit # 0
      BY <2>3, RunnerAssumption DEF RunnerIInv
    <3> HIDE DEF Judged
    <3> QED BY <2>2, <3>1, <3>2 DEF Runner!NotForJudgement
  <2> QED BY <2>8, <2>9, <2>10 DEF ExitCodesAreTrue, Runner!ExitCodesAreTrue
<1> QED BY <1>1, RunnerInvariance, PTL

(***************************************************************************)
(* Exit 2 of verify-attestation is a run that judged nothing, and never    *)
(* because of the endpoint (verify-attestation.rs 26-27, 359-366).         *)
(***************************************************************************)
THEOREM RunnerTwoJudgesNothing == Runner!Spec => TwoJudgesNothing
<1> DEFINE Two == exit' = 2 => /\ results' = <<>>
                               /\ stage = "Fetch" \/ given.hash = BadHash \/ given.leaf = BadFile
<1>1. ASSUME RunnerIInv, Runner!Next PROVE Two
  <2>0. None # 2 /\ (stage # "Exited" => exit = None /\ results = <<>>)
    BY <1>1, RunnerAssumption DEF RunnerIInv
  <2>1. CASE Runner!ReadFiles
    <3>1. Runner!FilesExit(given) = 2 => given.hash = BadHash \/ given.leaf = BadFile
      <4> SUFFICES ASSUME given.hash # BadHash, given.leaf # BadFile
                   PROVE  Runner!FilesExit(given) # 2
        OBVIOUS
      <4> DEFINE codes == <<IF given.hash = BadHash THEN 2 ELSE None, Runner!LeafExit(given),
                            Runner!EndpointExit(given)>>
      <4>1. \A i \in DOMAIN codes : codes[i] = None
        BY DEF Runner!LeafExit, Runner!EndpointExit
      <4>2. Runner!FirstOf(codes) = None
        BY <4>1 DEF Runner!FirstOf
      <4> QED BY <2>0, <4>2 DEF Runner!FilesExit, Runner!PanicExit
    <3> QED BY <2>0, <2>1, <3>1 DEF Runner!ReadFiles, Runner!GoOn, Runner!Exit
  <2>2. CASE Runner!FetchSucceeds \/ Runner!FetchFails \/ Runner!Tick
    BY <2>0, <2>2 DEF Runner!FetchSucceeds, Runner!FetchFails, Runner!Tick, Runner!GoOn, Runner!Exit
  <2>3. CASE Runner!JudgeImages
    BY <2>0, <2>3 DEF Runner!JudgeImages, Runner!GoOn, Runner!Exit, Runner!PanicExit
  <2>4. CASE Runner!VerifyFiles
    BY <2>4 DEF Runner!VerifyFiles, Runner!Exit, Runner!VerdictExit
  <2> QED BY <1>1, <2>1, <2>2, <2>3, <2>4 DEF Runner!Next
<1>2. RunnerIInv /\ [Runner!Next]_runnerVars => [Two]_runnerVars
  BY <1>1
<1> HIDE DEF Two
<1>3. Runner!Spec => [][Two]_runnerVars
  BY <1>2, RunnerInvariance, PTL DEF Runner!Spec, Runner!vars, runnerVars
<1> QED BY <1>3 DEF TwoJudgesNothing, Runner!TwoJudgesNothing, Runner!vars, runnerVars, Two

-----------------------------------------------------------------------------
(***************************************************************************)
(* The quote parser.  The last field read ends before the quote's least    *)
(* length, so a text that long is read to the end.                         *)
(***************************************************************************)
LEMMA FieldsFit ==
  ASSUME NEW got \in Nat, got >= Parser!MinQuoteLen
  PROVE  Parser!Unread(got) = {}
<1>1. {HeaderLen, OffMrtd, MeasurementLen, ReportDataLen, SigLenWidth} \subseteq Nat
  BY ParserAssumption
<1>2. Parser!MinQuoteLen = HeaderLen + OffMrtd + 8 * MeasurementLen + ReportDataLen + SigLenWidth
  BY <1>1 DEF Parser!MinQuoteLen, Parser!OffSigLen, Parser!OffReportData
<1>3. ASSUME NEW i \in 0 .. 7
      PROVE  HeaderLen + OffMrtd + (i + 1) * MeasurementLen <= Parser!MinQuoteLen
  <2>1. (i + 1) * MeasurementLen <= 8 * MeasurementLen
    <3>1. i \in {0, 1, 2, 3, 4, 5, 6, 7}
      OBVIOUS
    <3> QED BY <1>1, <3>1
  <2> QED BY <1>1, <1>2, <2>1
<1>4. HeaderLen + Parser!OffReportData + ReportDataLen <= Parser!MinQuoteLen
  BY <1>1, <1>2 DEF Parser!OffReportData
<1>5. Parser!MinQuoteLen \in Nat
  BY <1>1, <1>2
<1>6. \A end \in Parser!FieldEnds : end \in Nat /\ end <= Parser!MinQuoteLen
  BY <1>1, <1>3, <1>4 DEF Parser!FieldEnds, Parser!OffReportData
<1> QED BY <1>5, <1>6 DEF Parser!Unread

ParserIInv == file \in Parser!Quote /\ stray \in BOOLEAN /\ digits \in 0 .. MaxDigits

LEMMA ParserInvariance == Parser!Spec => []ParserIInv
<1>1. Parser!Init => ParserIInv
  BY ParserAssumption DEF Parser!Init, ParserIInv
<1>2. ParserIInv /\ [Parser!Next]_parserVars => ParserIInv'
  BY ParserAssumption DEF ParserIInv, Parser!Next, Parser!Arrive, parserVars
<1> QED BY <1>1, <1>2, PTL DEF Parser!Spec, Parser!vars, parserVars

\* What Quote::parse says of so many bytes of the file (quote.rs 364-428).
LEMMA ParseAnswers ==
  ASSUME ParserIInv, NEW got \in Nat, NEW w \in Parser!Usize
  PROVE  LET min == Parser!MinQuoteLen
             all == min + file.sigLen
         IN  /\ min \in Nat /\ all \in Nat
             /\ Parser!Parse(got, w) =
                  IF got < min THEN Parser!TooShort(got, min)
                  ELSE IF file.version # "V4" THEN Parser!Refused("UnsupportedVersion")
                  ELSE IF file.tee # "Tdx" THEN Parser!Refused("NotTdx")
                  ELSE IF all > w THEN Parser!Refused("SignatureLengthImplausible")
                  ELSE IF got < all THEN Parser!Truncated(got, all)
                  ELSE Parser!Parsed
<1> DEFINE min == Parser!MinQuoteLen
           all == min + file.sigLen
<1>1. min \in Nat
  <2>1. min = HeaderLen + OffMrtd + 8 * MeasurementLen + ReportDataLen + SigLenWidth
    BY ParserAssumption DEF Parser!MinQuoteLen, Parser!OffSigLen, Parser!OffReportData
  <2> QED BY <2>1, ParserAssumption
<1>2. file.sigLen \in Nat /\ w \in Nat
  BY ParserAssumption DEF ParserIInv, Parser!Quote, Parser!Usize
<1>3. Parser!Declared(file.sigLen, w) = IF all > w THEN -1 ELSE all
  BY <1>1, <1>2 DEF Parser!Declared, Parser!Overflow
<1>4. got >= min => Parser!Unread(got) = {}
  BY FieldsFit
<1>5. Parser!LongEnough(got) <=> ~(got < min)
  BY <1>1 DEF Parser!LongEnough
<1>6. all \in Nat /\ (all <= w => (Parser!Complete(got, all) <=> ~(got < all)))
  BY <1>1, <1>2 DEF Parser!Complete
<1> HIDE DEF min
<1> QED BY <1>1, <1>2, <1>3, <1>4, <1>5, <1>6 DEF Parser!Parse, Parser!Overflow, min

(***************************************************************************)
(* At either width, and for any limit that is a width's, a text is taken   *)
(* exactly when it spells a whole quote (quote.rs 322-339, 364-428).       *)
(***************************************************************************)
THEOREM TakesWholeQuotes == Parser!Spec => []WholeQuotesOnly
<1>1. ParserIInv => WholeQuotesOnly
  <2> SUFFICES ASSUME ParserIInv, NEW w \in Parser!Usize
               PROVE  Parser!ParseHex(w).kind = "Parsed" <=>
                        /\ file.version = "V4" /\ file.tee = "Tdx" /\ ~stray
                        /\ \E bytes \in 0 .. MaxDigits : /\ bytes - Parser!MinQuoteLen >= file.sigLen
                                                         /\ digits = 2 * bytes
    BY DEF WholeQuotesOnly, Parser!WholeQuotesOnly
  <2> DEFINE got == digits \div 2
             min == Parser!MinQuoteLen
  <2>1. digits \in Nat /\ MaxDigits \in Nat /\ digits <= MaxDigits /\ w \in Nat /\ MaxDigits <= 2 * w
        /\ file.sigLen \in Nat
    <3>1. file.sigLen \in SigLens
      BY DEF ParserIInv, Parser!Quote
    <3>2. w \in Nat /\ MaxDigits <= 2 * w
      BY ParserAssumption DEF Parser!Usize
    <3>3. file.sigLen \in Nat /\ MaxDigits \in Nat
      BY <3>1, ParserAssumption
    <3>4. digits \in Nat /\ digits <= MaxDigits
      BY <3>3 DEF ParserIInv
    <3> QED BY <3>2, <3>3, <3>4
  <2>2. got \in Nat /\ got <= w
    BY <2>1
  <2>3. min \in Nat
    BY <2>2, ParseAnswers
  <2>4. Parser!Parse(got, w).kind = "Parsed" <=>
          file.version = "V4" /\ file.tee = "Tdx" /\ got - min >= file.sigLen
    BY <2>1, <2>2, <2>3, ParseAnswers
       DEF Parser!Parsed, Parser!Refused, Parser!TooShort, Parser!Truncated
  <2>5. Parser!WholeBytes <=> ~stray /\ digits = 2 * got
    BY <2>1 DEF Parser!WholeBytes
  <2>6. \A bytes \in Nat : digits = 2 * bytes => bytes = got
    BY <2>1
  <2>7. got \in 0 .. MaxDigits
    BY <2>1, <2>2
  <2> HIDE DEF got
  <2>8. Parser!ParseHex(w).kind = "Parsed" <=> Parser!WholeBytes /\ Parser!Parse(got, w).kind = "Parsed"
    BY DEF Parser!ParseHex, Parser!Refused, got
  <2> QED BY <2>4, <2>5, <2>6, <2>7, <2>8
<1> QED BY <1>1, ParserInvariance, PTL

(***************************************************************************)
(* Of a text that was cut the parser says that bytes are missing, and      *)
(* anything else it says stands when more arrive (quote.rs 259-274).       *)
(***************************************************************************)
THEOREM ParserAnswerStands == Parser!Spec => AnswerStands
<1> DEFINE Stands == \A w \in Parser!Usize :
                       LET before == Parser!Parse(digits \div 2, w)
                       IN  Parser!AsksForMore(before) \/ Parser!Parse(digits' \div 2, w) = before
<1>1. ASSUME ParserIInv, Parser!Next PROVE Stands
  <2> SUFFICES ASSUME NEW w \in Parser!Usize
               PROVE  \/ Parser!AsksForMore(Parser!Parse(digits \div 2, w))
                      \/ Parser!Parse(digits' \div 2, w) = Parser!Parse(digits \div 2, w)
    OBVIOUS
  <2> DEFINE got == digits \div 2
             more == digits' \div 2
  <2>1. got \in Nat /\ more \in Nat /\ got <= more
    BY <1>1, ParserAssumption DEF ParserIInv, Parser!Next, Parser!Arrive
  <2> HIDE DEF got, more
  <2>2. Parser!AsksForMore(Parser!Parse(got, w)) \/ Parser!Parse(more, w) = Parser!Parse(got, w)
    BY <1>1, <2>1, ParseAnswers DEF Parser!AsksForMore, Parser!TooShort, Parser!Truncated
  <2> QED BY <2>2 DEF got, more
<1>2. ParserIInv /\ [Parser!Next]_parserVars => [Stands]_parserVars
  BY <1>1
<1> HIDE DEF Stands
<1>3. Parser!Spec => [][Stands]_parserVars
  BY <1>2, ParserInvariance, PTL DEF Parser!Spec, Parser!vars, parserVars
<1> QED BY <1>3 DEF AnswerStands, Parser!AnswerStands, Parser!vars, parserVars, Stands

-----------------------------------------------------------------------------
(***************************************************************************)
(* Endpoints.  An authority is a host name, an address literal or nothing, *)
(* or one of these and one piece after a colon.                            *)
(***************************************************************************)
LEMMA FrontOfPair == ASSUME NEW x, NEW y PROVE SubSeq(<<x, y>>, 1, 1) = <<x>>
<1> DEFINE front == SubSeq(<<x, y>>, 1, 1)
           one == <<x>>
<1>1. <<x, y>> \in Seq({x, y}) /\ one \in Seq({x, y}) /\ Len(one) = 1 /\ one[1] = x
  OBVIOUS
<1>2. front \in Seq({x, y}) /\ Len(front) = 1 /\ front[1] = x
  BY SubSeqProperties
<1> HIDE DEF front, one
<1>3. front = one
  BY <1>1, <1>2, SeqEqual
<1> QED BY <1>3 DEF front, one

LEMMA AppendToOne == ASSUME NEW x, NEW y PROVE Append(<<x>>, y) = <<x, y>>
<1> DEFINE longer == Append(<<x>>, y)
           pair == <<x, y>>
           S == {x, y}
<1>1. <<x>> \in Seq(S) /\ pair \in Seq(S) /\ Len(pair) = 2 /\ pair[1] = x /\ pair[2] = y
  OBVIOUS
<1>2. longer \in Seq(S) /\ Len(longer) = 2 /\ longer[1] = x /\ longer[2] = y
  BY <1>1, AppendProperties
<1> HIDE DEF longer, pair, S
<1>3. longer = pair
  BY <1>1, <1>2, SeqEqual
<1> QED BY <1>3 DEF longer, pair

LEMMA FrontOfTriple == ASSUME NEW x, NEW y, NEW z PROVE SubSeq(<<x, y, z>>, 1, 2) = <<x, y>>
<1> DEFINE front == SubSeq(<<x, y, z>>, 1, 2)
           two == <<x, y>>
           S == {x, y, z}
<1>1. <<x, y, z>> \in Seq(S) /\ two \in Seq(S) /\ Len(two) = 2 /\ two[1] = x /\ two[2] = y
  OBVIOUS
<1>2. front \in Seq(S) /\ Len(front) = 2 /\ front[1] = x /\ front[2] = y
  BY SubSeqProperties
<1> HIDE DEF front, two, S
<1>3. front = two
  BY <1>1, <1>2, SeqEqual
<1> QED BY <1>3 DEF front, two

HostName ==
  [is : {"Name"}, app : AppId \cup {"None"}, port : Address!PortLabel, dotted : BOOLEAN, num : {0}]

NamedAuthority == \E p \in HostName : authority = <<p>> \/ \E piece : authority = <<p, piece>>

UnnamedAuthority ==
  \E host \in {Address!Literal, <<Address!Text("Empty")>>} :
    authority = host \/ \E piece : authority = Append(host, piece)

AddressIInv == NamedAuthority \/ UnnamedAuthority

\* A host name is dialled as it stands, on the port after the colon if there is one
\* (endpoint.rs 147-163).
LEMMA TakenAsNamed ==
  ASSUME NEW p \in HostName, NEW n
  PROVE  LET e == Address!Taken(<<p>>, n)
         IN  e.ok /\ e.host = <<p>> /\ e.port = n /\ e.form = Address!Classify(<<p>>)
<1>1. <<p>> # <<Address!Text("Empty")>>
  BY DEF HostName, Address!Text
<1> QED BY <1>1 DEF Address!Taken

LEMMA BareParse ==
  ASSUME NEW s, NEW p \in HostName
  PROVE  LET e == Address!Parse(s, <<p>>)
         IN  /\ e.ok <=> s = "https"
             /\ e.ok => e.host = <<p>> /\ e.form = Address!Classify(<<p>>)
             /\ ~e.ok => e.form = "None"
<1>1. ~Address!NamesPort(<<p>>)
  BY DEF Address!NamesPort
<1>2. ~Address!Refused("NotHttps").ok /\ Address!Refused("NotHttps").form = "None"
  BY DEF Address!Refused
<1>3. CASE s = "https"
  <2>1. Address!Parse(s, <<p>>) = Address!Taken(<<p>>, Address!Default)
    BY <1>1, <1>3 DEF Address!Parse
  <2> QED BY <1>3, <2>1, TakenAsNamed
<1>4. CASE s # "https"
  BY <1>2, <1>4 DEF Address!Parse
<1> QED BY <1>3, <1>4

LEMMA PortParse ==
  ASSUME NEW s, NEW p \in HostName, NEW piece
  PROVE  LET e == Address!Parse(s, <<p, piece>>)
         IN  /\ e.ok <=> s = "https" /\ Address!Usable(piece)
             /\ e.ok => e.host = <<p>> /\ e.form = Address!Classify(<<p>>) /\ e.port = piece.num
             /\ ~e.ok => e.form = "None"
<1>1. \A why : ~Address!Refused(why).ok /\ Address!Refused(why).form = "None"
  BY DEF Address!Refused
<1>2. Address!HostOf(<<p, piece>>) = <<p>>
  BY FrontOfPair DEF Address!HostOf, Address!Front
<1>3. Address!Last(<<p, piece>>) = piece
  BY DEF Address!Last
<1>4. Address!NamesPort(<<p, piece>>)
  BY DEF HostName, Address!NamesPort
<1>5. CASE s = "https" /\ Address!Usable(piece)
  <2>1. Address!Parse(s, <<p, piece>>) = Address!Taken(<<p>>, piece.num)
    BY <1>2, <1>3, <1>4, <1>5 DEF Address!Parse
  <2> QED BY <1>5, <2>1, TakenAsNamed
<1>6. CASE ~(s = "https" /\ Address!Usable(piece))
  <2>1. \E why : Address!Parse(s, <<p, piece>>) = Address!Refused(why)
    BY <1>3, <1>4, <1>6 DEF Address!Parse
  <2> QED BY <1>1, <1>6, <2>1
<1> QED BY <1>5, <1>6

\* What has no host name is never taken for dStack's terminating form.
LEMMA UnnamedParse ==
  ASSUME UnnamedAuthority
  PROVE  Address!endpoint.form # "DstackTerminating"
<1>1. \A h \in {Address!Literal, <<Address!Text("Empty")>>} : Head(h).is # "Name"
  BY DEF Address!Literal, Address!Text
<1>2. \A why : Address!Refused(why).form = "None"
  BY DEF Address!Refused
<1>3. \A h, n : h # <<>> /\ Head(h).is # "Name" => Address!Taken(h, n).form \in {"None", "Unrecognised"}
  BY <1>2 DEF Address!Taken, Address!Classify
<1>4. PICK host \in {Address!Literal, <<Address!Text("Empty")>>} :
        authority = host \/ \E piece : authority = Append(host, piece)
  BY DEF UnnamedAuthority
<1>5. authority # <<>> /\ Head(authority).is # "Name"
  BY <1>1, <1>4 DEF Address!Literal, Address!Text
<1>6. Address!NamesPort(authority) =>
        Address!HostOf(authority) # <<>> /\ Head(Address!HostOf(authority)).is # "Name"
  <2>1. CASE authority = <<Address!Text("Empty")>>
    BY <2>1 DEF Address!NamesPort
  <2>2. CASE authority = Address!Literal
    <3>1. SubSeq(authority, 1, 2) = <<Address!Text("Open"), Address!Text("Empty")>>
      BY <2>2, FrontOfTriple DEF Address!Literal
    <3> QED BY <2>2, <3>1 DEF Address!HostOf, Address!Front, Address!Literal, Address!Text
  <2>3. ASSUME NEW piece, authority = <<Address!Text("Empty"), piece>>
        PROVE  Head(Address!HostOf(authority)).is # "Name" /\ Address!HostOf(authority) # <<>>
    <3>1. SubSeq(authority, 1, 1) = <<Address!Text("Empty")>>
      BY <2>3, FrontOfPair
    <3> QED BY <2>3, <3>1 DEF Address!HostOf, Address!Front, Address!Text
  <2>4. ASSUME NEW piece, authority = Append(Address!Literal, piece)
        PROVE  ~Address!NamesPort(authority)
    BY <2>4 DEF Address!NamesPort, Address!Literal, Address!Text
  <2>5. \A piece : Append(<<Address!Text("Empty")>>, piece) = <<Address!Text("Empty"), piece>>
    BY AppendToOne
  <2> QED BY <1>4, <2>1, <2>2, <2>3, <2>4, <2>5
<1> QED BY <1>2, <1>3, <1>5, <1>6 DEF Address!endpoint, Address!Parse

\* The advice keeps the label's app and gives the port side its "s" (endpoint.rs 203-213).
LEMMA AdviceIsPassthrough ==
  ASSUME NEW p \in HostName
  PROVE  Address!PassthroughForm(<<p>>) = <<[p EXCEPT !.port = Address!AddS(p.port)]>>
<1>1. Head(<<p>>) = p /\ Tail(<<p>>) = <<>>
  OBVIOUS
<1>2. \A x : <<x>> \o <<>> = <<x>>
  <2> TAKE x
  <2>1. <<x>> \in Seq({x})
    OBVIOUS
  <2> QED BY <2>1, ConcatEmptySeq
<1> QED BY <1>1, <1>2 DEF Address!PassthroughForm

\* With its "s", the port side of a terminating label passes through, with the same digits.
LEMMA AddSPasses ==
  ASSUME NEW port \in Address!PortLabel, Address!Terminates(port)
  PROVE  /\ Address!AddS(port) \in Address!PortLabel
         /\ Address!Passes(Address!AddS(port))
         /\ Address!AddS(port).digits = port.digits
  BY DEF Address!PortLabel, Address!Terminates, Address!Passes, Address!AddS

\* Only a host name with a port is refused for its form, and it is refused as it stands.
LEMMA TerminatingIsNamed ==
  ASSUME AddressIInv, Address!endpoint.form = "DstackTerminating"
  PROVE  \E p \in HostName : /\ authority = <<p>> \/ \E piece : authority = <<p, piece>>
                             /\ Address!endpoint.host = <<p>>
                             /\ scheme = "https"
                             /\ p.dotted /\ p.app = "Hex40" /\ Address!Terminates(p.port)
<1>1. PICK p \in HostName : authority = <<p>> \/ \E piece : authority = <<p, piece>>
  BY UnnamedParse DEF AddressIInv, NamedAuthority
<1>2. Address!endpoint = Address!Parse(scheme, authority)
  BY DEF Address!endpoint
<1>3. /\ scheme = "https" /\ Address!endpoint.host = <<p>>
      /\ Address!Classify(<<p>>) = "DstackTerminating"
  <2>1. CASE authority = <<p>>
    BY <1>1, <1>2, <2>1, BareParse
  <2>2. ASSUME NEW piece, authority = <<p, piece>>
        PROVE  /\ scheme = "https" /\ Address!endpoint.host = <<p>>
               /\ Address!Classify(<<p>>) = "DstackTerminating"
    BY <1>1, <1>2, <2>2, PortParse
  <2> QED BY <1>1, <2>1, <2>2
<1>4. p.dotted /\ p.app = "Hex40" /\ Address!Terminates(p.port)
  BY <1>3 DEF Address!Classify
<1> QED BY <1>1, <1>3, <1>4

LEMMA AddressInitIInv == Address!Init => AddressIInv
<1> SUFFICES ASSUME Address!Init PROVE AddressIInv
  OBVIOUS
<1>1. Address!Names \subseteq HostName
  <2>1. Address!NoPort \in Address!PortLabel
    BY DEF Address!NoPort, Address!PortLabel
  <2>2. \A app \in AppId \cup {"None"}, port \in Address!PortLabel, dotted \in BOOLEAN :
          Address!Name(app, port, dotted) \in HostName
    BY DEF Address!Name, HostName
  <2> QED BY <2>1, <2>2 DEF Address!Names
<1> QED BY <1>1 DEF Address!Init, AddressIInv, NamedAuthority, UnnamedAuthority

LEMMA AddressNextIInv == AddressIInv /\ [Address!Next]_addressVars => AddressIInv'
<1> SUFFICES ASSUME AddressIInv, [Address!Next]_addressVars PROVE AddressIInv'
  OBVIOUS
<1>1. CASE Address!NamePort
  <2>1. Len(authority) = 1 \/ Len(authority) = 3
    BY <1>1 DEF Address!NamePort, Address!Literal
  <2>2. PICK piece : authority' = Append(authority, piece)
    BY <1>1 DEF Address!NamePort
  <2>3. ASSUME NEW p \in HostName, authority = <<p>> PROVE NamedAuthority'
    BY <2>2, <2>3, AppendToOne DEF NamedAuthority
  <2>4. ASSUME NEW p, NEW q, authority = <<p, q>> PROVE FALSE
    BY <2>1, <2>4 DEF Address!Literal
  <2>5. ASSUME NEW host \in {Address!Literal, <<Address!Text("Empty")>>}, authority = host
        PROVE  UnnamedAuthority'
    BY <2>2, <2>5 DEF UnnamedAuthority
  <2>6. ASSUME NEW host \in {Address!Literal, <<Address!Text("Empty")>>}, NEW q,
               authority = Append(host, q)
        PROVE  FALSE
    <3>1. Len(Address!Literal) = 3 /\ Len(Append(Address!Literal, q)) = 4
      BY DEF Address!Literal
    <3>2. Append(<<Address!Text("Empty")>>, q) = <<Address!Text("Empty"), q>>
      BY AppendToOne
    <3>3. \A x, y : Len(<<x, y>>) = 2
      OBVIOUS
    <3>4. Len(authority) = 2 \/ Len(authority) = 4
      BY <2>6, <3>1, <3>2, <3>3
    <3> QED BY <2>1, <3>4
  <2> QED BY <2>3, <2>4, <2>5, <2>6 DEF AddressIInv, NamedAuthority, UnnamedAuthority
<1>2. CASE Address!TakeAdvice
  <2>1. PICK p \in HostName : Address!endpoint.host = <<p>> /\ Address!Terminates(p.port)
    BY <1>2, TerminatingIsNamed DEF Address!TakeAdvice
  <2>2. authority' = <<[p EXCEPT !.port = Address!AddS(p.port)]>>
    BY <1>2, <2>1, AdviceIsPassthrough DEF Address!TakeAdvice
  <2>3. [p EXCEPT !.port = Address!AddS(p.port)] \in HostName
    BY <2>1, AddSPasses DEF HostName
  <2> QED BY <2>2, <2>3 DEF AddressIInv, NamedAuthority
<1>3. CASE UNCHANGED addressVars
  BY <1>3 DEF addressVars, AddressIInv, NamedAuthority, UnnamedAuthority
<1> QED BY <1>1, <1>2, <1>3 DEF Address!Next

LEMMA AddressInvariance == Address!Spec => []AddressIInv
<1> QED BY AddressInitIInv, AddressNextIInv, PTL DEF Address!Spec, Address!vars, addressVars

(***************************************************************************)
(* Whatever the hosts and ports are, the host that a refusal quotes is the *)
(* passthrough form of the same application and of the same port of it, and*)
(* a port of the gateway that is named after a host changes nothing else   *)
(* (endpoint.rs 112-213).                                                  *)
(***************************************************************************)
THEOREM OperatorReaches == Address!Spec => OperatorReachesTheApp
<1> DEFINE Kept == Address!AdviceReaches /\ Address!PortIsApart
<1>1. ASSUME AddressIInv, Address!Next PROVE Kept
  <2>1. Address!AdviceReaches
    <3> SUFFICES ASSUME Address!TakeAdvice
                 PROVE  /\ Address!endpoint'.ok /\ Address!endpoint'.form = "DstackPassthrough"
                        /\ Head(authority').app = Head(authority).app
                        /\ Head(authority').port.digits = Head(authority).port.digits
      BY DEF Address!AdviceReaches
    <3>1. PICK p \in HostName : /\ authority = <<p>> \/ \E piece : authority = <<p, piece>>
                                /\ Address!endpoint.host = <<p>> /\ scheme = "https"
                                /\ p.dotted /\ p.app = "Hex40" /\ Address!Terminates(p.port)
      BY <1>1, TerminatingIsNamed DEF Address!TakeAdvice
    <3> DEFINE q == [p EXCEPT !.port = Address!AddS(p.port)]
    <3>2. /\ q \in HostName /\ q.is = "Name" /\ q.dotted /\ q.app = "Hex40"
          /\ Address!Passes(q.port) /\ q.port.digits = p.port.digits
      BY <3>1, AddSPasses DEF HostName
    <3>3. authority' = <<q>> /\ scheme' = "https"
      BY <3>1, AdviceIsPassthrough DEF Address!TakeAdvice
    <3> HIDE DEF q
    <3>4. Address!Classify(<<q>>) = "DstackPassthrough"
      BY <3>2 DEF Address!Classify
    <3>5. Address!endpoint'.ok /\ Address!endpoint'.form = "DstackPassthrough"
      <4>1. Address!endpoint' = Address!Parse("https", <<q>>)
        BY <3>3 DEF Address!endpoint
      <4> QED BY <3>2, <3>4, <4>1, BareParse
    <3>6. /\ Head(authority').app = Head(authority).app
          /\ Head(authority').port.digits = Head(authority).port.digits
      BY <3>1, <3>2, <3>3
    <3> QED BY <3>5, <3>6
  <2>2. Address!PortIsApart
    <3> SUFFICES ASSUME Address!NamePort, Address!NamedHost, Address!endpoint.ok, Address!endpoint'.ok
                 PROVE  /\ Address!endpoint'.host = Address!endpoint.host
                        /\ Address!endpoint'.form = Address!endpoint.form
                        /\ Address!endpoint'.port = Address!Last(authority').num
                        /\ Address!endpoint'.port \in 1 .. MaxPort
      BY DEF Address!PortIsApart
    <3>1. PICK p \in HostName : authority = <<p>>
      <4>1. authority = Address!Literal \/ Len(authority) = 1
        BY DEF Address!NamePort
      <4>2. authority # Address!Literal
        BY DEF Address!NamedHost, Address!Literal, Address!Text
      <4>3. ~UnnamedAuthority
        <5> SUFFICES ASSUME UnnamedAuthority PROVE Head(authority).is # "Name"
          BY DEF Address!NamedHost
        <5> QED BY DEF UnnamedAuthority, Address!Literal, Address!Text
      <4>4. \A p, q : Len(<<p, q>>) = 2
        OBVIOUS
      <4> QED BY <1>1, <4>1, <4>2, <4>3, <4>4 DEF AddressIInv, NamedAuthority
    <3>2. PICK piece : authority' = <<p, piece>> /\ scheme' = scheme
      BY <3>1, AppendToOne DEF Address!NamePort
    <3>3. <<p, piece>> # <<p>> /\ Address!Last(<<p, piece>>) = piece
      BY DEF Address!Last
    <3>4. Address!endpoint = Address!Parse(scheme, <<p>>)
      BY <3>1 DEF Address!endpoint
    <3>5. Address!endpoint' = Address!Parse(scheme, <<p, piece>>)
      BY <3>2 DEF Address!endpoint
    <3>7. Address!endpoint.host = <<p>> /\ Address!endpoint.form = Address!Classify(<<p>>)
      BY <3>1, <3>4, BareParse
    <3>8. /\ Address!endpoint'.host = <<p>> /\ Address!endpoint'.form = Address!Classify(<<p>>)
          /\ Address!endpoint'.port = piece.num /\ Address!Usable(piece)
      <4> DEFINE e == Address!Parse(scheme, <<p, piece>>)
      <4>1. e.ok
        BY <3>5
      <4>2. /\ e.ok <=> scheme = "https" /\ Address!Usable(piece)
            /\ e.ok => e.host = <<p>> /\ e.form = Address!Classify(<<p>>) /\ e.port = piece.num
        <5>1. p \in HostName
          BY <3>1
        <5> QED BY ONLY <5>1, PortParse
      <4> HIDE DEF e
      <4>3. e.host = <<p>> /\ e.form = Address!Classify(<<p>>) /\ e.port = piece.num
              /\ Address!Usable(piece)
        BY <4>1, <4>2
      <4> QED BY <3>5, <4>3 DEF e
    <3> QED BY <3>2, <3>3, <3>7, <3>8 DEF Address!Usable
  <2> QED BY <2>1, <2>2
<1>2. AddressIInv /\ [Address!Next]_addressVars => [Kept]_addressVars
  BY <1>1
<1> HIDE DEF Kept
<1>3. Address!Spec => [][Kept]_addressVars
  BY <1>2, AddressInvariance, PTL DEF Address!Spec, Address!vars, addressVars
<1> QED BY <1>3 DEF OperatorReachesTheApp, Address!OperatorReachesTheApp, Address!vars, addressVars, Kept

-----------------------------------------------------------------------------
(***************************************************************************)
(* Names of documents.                                                     *)
(***************************************************************************)
NamesIInv ==
  /\ text \in Names!Text
  /\ uri # None =>
       /\ uri.of \in Names!Text
       /\ Names!OnlyRetrievable
       /\ made = "ComposeUri" => Names!Parse(uri.of) = uri

\* Trimming a trimmed text changes nothing, and it leaves the scheme and the rest alone.
LEMMA Trimmed ==
  ASSUME NEW t \in Names!Text
  PROVE  /\ Names!Trim(t) \in Names!Text /\ ~Names!Trim(t).lead
         /\ Names!Trim(t).scheme = t.scheme /\ Names!Trim(t).rest = t.rest
         /\ Names!Trim(Names!Trim(t)) = Names!Trim(t)
  BY DEF Names!Text, Names!Trim

\* What ComposeUri::parse makes of a text is retrievable, and named by the trimmed text
\* (compose.rs 111-152, 219-229).
LEMMA ParsedIsNamed ==
  ASSUME NEW t \in Names!Text, Names!Parse(t).kind # "Refused"
  PROVE  /\ Names!Parse(t).of = Names!Trim(t)
         /\ Names!Parse(Names!Trim(t)) = Names!Parse(t)
         /\ \/ Names!Parse(t).kind = "Http" /\ t.scheme \in {"http", "https"}
            \/ Names!Parse(t).kind = "Ipfs" /\ t.scheme = "ipfs" /\ t.rest = "Safe"
<1>1. t.rest \in {"Empty", "Safe", "Unsafe"}
  BY DEF Names!Text
<1> QED BY <1>1, Trimmed DEF Names!Parse, Names!CidParse, Names!UrlParse, Names!Ok, Names!Refused

LEMMA NamesInitIInv == Names!Init => NamesIInv
  BY DEF Names!Init, NamesIInv

LEMMA NamesNextIInv == NamesIInv /\ [Names!Next]_nameVars => NamesIInv'
<1> SUFFICES ASSUME NamesIInv, [Names!Next]_nameVars PROVE NamesIInv'
  OBVIOUS
<1>1. CASE Names!ReadManifest
  <2>1. /\ Names!Parse(text).kind # "Refused" /\ uri' = Names!Parse(text)
        /\ made' = "ComposeUri" /\ text' = text
    BY <1>1 DEF Names!ReadManifest, Names!Make
  <2>2. text \in Names!Text
    BY DEF NamesIInv
  <2>3. /\ uri'.of = Names!Trim(text)
        /\ Names!Parse(Names!Trim(text)) = uri'
        /\ \/ uri'.kind = "Http" /\ text.scheme \in {"http", "https"}
           \/ uri'.kind = "Ipfs" /\ text.scheme = "ipfs" /\ text.rest = "Safe"
    BY <2>1, <2>2, ParsedIsNamed
  <2>4. Names!OnlyRetrievable'
    BY <2>2, <2>3, Trimmed DEF Names!OnlyRetrievable
  <2> QED BY <2>1, <2>2, <2>3, <2>4, Trimmed DEF NamesIInv
<1>2. CASE Names!WrapUrl
  <2>1. /\ text.scheme \in {"http", "https"} /\ ~text.lead /\ uri' = Names!Ok("Http", text)
        /\ made' = "ComposeUrl" /\ text' = text
    BY <1>2 DEF Names!WrapUrl, Names!Make, Names!UrlParse, Names!Refused
  <2> QED BY <2>1 DEF NamesIInv, Names!OnlyRetrievable, Names!Ok
<1>3. CASE Names!Write
  BY <1>3 DEF Names!Write, Names!Printed, NamesIInv, Names!OnlyRetrievable
<1>4. CASE Names!Pad
  <2>1. text' \in Names!Text
    BY <1>4 DEF Names!Pad, NamesIInv, Names!Text
  <2> QED BY <1>4, <2>1 DEF Names!Pad, NamesIInv, Names!OnlyRetrievable
<1>5. CASE UNCHANGED nameVars
  BY <1>5 DEF nameVars, NamesIInv, Names!OnlyRetrievable
<1> QED BY <1>1, <1>2, <1>3, <1>4, <1>5 DEF Names!Next

LEMMA NamesInvariance == Names!Spec => []NamesIInv
<1> QED BY NamesInitIInv, NamesNextIInv, PTL DEF Names!Spec, Names!vars, nameVars

(***************************************************************************)
(* A compose name that is made can be retrieved, and neither padding nor   *)
(* printing changes what it names (compose.rs 40-55, 219-229).             *)
(***************************************************************************)
THEOREM NamesSound == Names!Spec => NamesAreSound
<1> DEFINE Sound == Names!OnlyRetrievable' /\ Names!PaddingIsNothing /\ Names!RoundTrips
<1>1. ASSUME NamesIInv, NamesIInv', Names!Next PROVE Sound
  <2>1. Names!OnlyRetrievable'
    BY <1>1 DEF NamesIInv, Names!OnlyRetrievable
  <2>2. Names!PaddingIsNothing
    <3>1. Names!Pad => Names!Trim(text') = Names!Trim(text) /\ text'.scheme = text.scheme
      BY <1>1 DEF Names!Pad, Names!Trim, NamesIInv, Names!Text
    <3> QED BY <3>1 DEF Names!PaddingIsNothing, Names!Parse
  <2>3. Names!RoundTrips
    BY <1>1 DEF Names!RoundTrips, Names!Write, Names!Printed, NamesIInv
  <2> QED BY <2>1, <2>2, <2>3
<1>2. NamesIInv /\ NamesIInv' /\ [Names!Next]_nameVars => [Sound]_nameVars
  BY <1>1
<1> HIDE DEF Sound
<1>3. Names!Spec => [][Sound]_nameVars
  BY <1>2, NamesInvariance, PTL DEF Names!Spec, Names!vars, nameVars
<1> QED BY <1>3 DEF NamesAreSound, Names!NamesAreSound, Names!vars, nameVars, Sound

-----------------------------------------------------------------------------
(***************************************************************************)
(* The scan of a document's services.  What lies behind it is pinned, and  *)
(* what it found are the digests of that.                                  *)
(***************************************************************************)
Accepted(image) == image # Unnamed /\ Scan!Classify(image)

ScanIInv ==
  /\ shape \in Scan!Shape
  /\ services \in Seq(Scan!Reference \cup {Unnamed})
  /\ pc \in {"Read", "Scan", "Done"}
  /\ next \in Nat \ {0}
  /\ pc = "Read" => next = 1 /\ found = {}
  /\ pc = "Scan" => shape = "Services" /\ services # <<>> /\ next <= Len(services) + 1
  /\ \A i \in 1 .. next - 1 : i \in DOMAIN services /\ Accepted(services[i])
  /\ found = {services[i].digest : i \in 1 .. next - 1}
  /\ pc = "Done" =>
       \/ /\ outcome \notin {"Ok", "LicensedDigestAbsent"}
          /\ shape # "Services" \/ services = <<>> \/ \E i \in DOMAIN services : ~Accepted(services[i])
       \/ /\ shape = "Services" /\ services # <<>> /\ next = Len(services) + 1
          /\ outcome = IF licensed \in found THEN "Ok" ELSE "LicensedDigestAbsent"

LEMMA ScanInitIInv == Scan!Init => ScanIInv
<1> SUFFICES ASSUME Scan!Init PROVE ScanIInv
  OBVIOUS
<1> DEFINE S == Scan!Reference \cup {Unnamed}
<1>1. Scan!BoundedSeq(S, MaxServices) \subseteq Seq(S)
  BY ScanAssumption DEF Scan!BoundedSeq, Scan!SeqOf
<1>2. services \in Seq(S)
  <2>1. services \in Scan!BoundedSeq(S, MaxServices) \/ services = <<>>
    BY DEF Scan!Init
  <2> HIDE DEF S
  <2>2. <<>> \in Seq(S)
    OBVIOUS
  <2>3. services \in Scan!BoundedSeq(S, MaxServices) => services \in Seq(S)
    BY <1>1, Zenon
  <2> QED BY <2>1, <2>2, <2>3
<1>3. found = {services[i].digest : i \in 1 .. next - 1} /\ next = 1
  BY DEF Scan!Init
<1> QED BY <1>2, <1>3 DEF Scan!Init, ScanIInv

LEMMA ScanNextIInv == ScanIInv /\ [Scan!Next]_scanVars => ScanIInv'
<1> SUFFICES ASSUME ScanIInv, [Scan!Next]_scanVars PROVE ScanIInv'
  OBVIOUS
<1>1. CASE Scan!ReadDocument
  <2>1. pc = "Read" /\ UNCHANGED <<shape, services, licensed, next, found>>
    BY <1>1 DEF Scan!ReadDocument, Scan!End
  <2>2. \/ pc' = "Scan" /\ shape = "Services" /\ services # <<>>
        \/ /\ pc' = "Done" /\ (shape # "Services" \/ services = <<>>)
           /\ outcome' \notin {"Ok", "LicensedDigestAbsent"}
    BY <1>1 DEF Scan!ReadDocument, Scan!End, Scan!NothingToCheck, Scan!Shape, ScanIInv
  <2> QED BY <2>1, <2>2 DEF ScanIInv, Accepted
<1>2. CASE Scan!ScanService
  <2> DEFINE image == services[next]
  <2>1. /\ pc = "Scan" /\ next \in DOMAIN services /\ next \in Nat \ {0}
        /\ UNCHANGED <<shape, services, licensed>>
    BY <1>2 DEF Scan!ScanService, ScanIInv
  <2>2. CASE Accepted(image)
    <3>1. found' = found \cup {image.digest} /\ next' = next + 1 /\ pc' = "Scan"
      BY <1>2, <2>1, <2>2 DEF Scan!ScanService, Accepted
    <3>2. 1 .. next' - 1 = (1 .. next - 1) \cup {next}
      BY <2>1, <3>1
    <3>3. \A i \in 1 .. next' - 1 : i \in DOMAIN services /\ Accepted(services[i])
      BY <2>1, <2>2, <3>2 DEF ScanIInv
    <3>4. found' = {services[i].digest : i \in 1 .. next' - 1}
      BY <3>1, <3>2 DEF ScanIInv
    <3>5. next' <= Len(services) + 1 /\ next' \in Nat \ {0}
      BY <2>1, <3>1 DEF ScanIInv
    <3> QED BY <2>1, <3>1, <3>3, <3>4, <3>5 DEF ScanIInv, Accepted
  <2>3. CASE ~Accepted(image)
    <3>1. /\ pc' = "Done" /\ UNCHANGED <<next, found>>
          /\ outcome' \notin {"Ok", "LicensedDigestAbsent"}
      BY <1>2, <2>3 DEF Scan!ScanService, Scan!End, Accepted
    <3>2. \E i \in DOMAIN services : ~Accepted(services[i])
      BY <2>1, <2>3
    <3> QED BY <2>1, <3>1, <3>2 DEF ScanIInv, Accepted
  <2> QED BY <2>2, <2>3
<1>3. CASE Scan!CheckLicensed
  <2>1. /\ pc = "Scan" /\ pc' = "Done" /\ UNCHANGED <<shape, services, licensed, next, found>>
        /\ outcome' = IF licensed \in found THEN "Ok" ELSE "LicensedDigestAbsent"
        /\ next > Len(services)
    BY <1>3 DEF Scan!CheckLicensed, Scan!End
  <2>2. next = Len(services) + 1
    BY <2>1 DEF ScanIInv
  <2> QED BY <2>1, <2>2 DEF ScanIInv, Accepted
<1>4. CASE UNCHANGED scanVars
  BY <1>4 DEF scanVars, ScanIInv, Accepted
<1> QED BY <1>1, <1>2, <1>3, <1>4 DEF Scan!Next

LEMMA ScanInvariance == Scan!Spec => []ScanIInv
<1> QED BY ScanInitIInv, ScanNextIInv, PTL DEF Scan!Spec, Scan!vars, scanVars

(***************************************************************************)
(* The scan passes exactly the documents that verify calls the contents of *)
(* the licensed one, wherever what is not pinned stands, and says that the *)
(* licensed image is absent only of a document that is pinned throughout   *)
(* (images.rs 152-200).                                                    *)
(***************************************************************************)
THEOREM ScanAgrees == Scan!Spec => []ScanAgreesWithVerify
<1>1. ScanIInv => ScanAgreesWithVerify
  <2> SUFFICES ASSUME ScanIInv, pc = "Done"
               PROVE  /\ outcome = "Ok" <=> Scan!LicensedDocument([compose |-> Hash, image |-> licensed],
                                                                 Scan!DocumentOf)
                      /\ outcome = "LicensedDigestAbsent" => Scan!Pinned
    BY DEF ScanAgreesWithVerify, Scan!ScanAgreesWithVerify
  <2> DEFINE digests == {image.digest : image \in Scan!ToSet(services) \ {Unnamed}}
  <2>1. Scan!Pinned <=> /\ shape = "Services" /\ services # <<>>
                        /\ \A i \in DOMAIN services : Accepted(services[i])
    BY DEF Scan!Pinned, Accepted, Scan!Classify, Scan!ToSet
  <2>2. Scan!LicensedDocument([compose |-> Hash, image |-> licensed], Scan!DocumentOf)
          <=> Scan!Pinned /\ licensed \in digests
    BY DEF Scan!LicensedDocument, Scan!DocumentOf
  <2>3. CASE /\ outcome \notin {"Ok", "LicensedDigestAbsent"}
             /\ shape # "Services" \/ services = <<>> \/ \E i \in DOMAIN services : ~Accepted(services[i])
    BY <2>1, <2>2, <2>3
  <2>4. CASE /\ shape = "Services" /\ services # <<>> /\ next = Len(services) + 1
             /\ outcome = IF licensed \in found THEN "Ok" ELSE "LicensedDigestAbsent"
    <3>1. 1 .. next - 1 = DOMAIN services
      BY <2>4 DEF ScanIInv
    <3>2. \A i \in DOMAIN services : Accepted(services[i])
      BY <3>1 DEF ScanIInv
    <3>3. found = {services[i].digest : i \in DOMAIN services}
      BY <3>1 DEF ScanIInv
    <3>4. Scan!ToSet(services) \ {Unnamed} = Scan!ToSet(services)
      BY <3>2 DEF Scan!ToSet, Accepted
    <3>5. found = digests
      BY <3>3, <3>4 DEF Scan!ToSet
    <3> QED BY <2>1, <2>2, <2>4, <3>2, <3>5
  <2> QED BY <2>3, <2>4 DEF ScanIInv
<1> QED BY <1>1, ScanInvariance, PTL

-----------------------------------------------------------------------------
(***************************************************************************)
(* Versions of OS images.  A part is a number or does not parse.           *)
(***************************************************************************)
VersionPart == Nat \cup {Release!Unparsed}

ReleaseIInv == prefixed \in BOOLEAN /\ parts \in Seq(VersionPart)

LEMMA MinIs ==
  ASSUME NEW S \in SUBSET Nat, NEW m \in S, \A n \in S : m <= n
  PROVE  Release!Min(S) = m
<1>1. \A x \in S : (\A y \in S : x <= y) => x = m
  OBVIOUS
<1> QED BY <1>1 DEF Release!Min

\* Three parts that parse are read as major, minor and patch (reference.rs 81-91).
LEMMA ReadInOrder ==
  ASSUME NEW name \in Seq(VersionPart), Release!WellFormed(name), NEW named \in BOOLEAN
  PROVE  /\ name[1] \in Nat /\ name[2] \in Nat /\ name[3] \in Nat
         /\ Release!MeetsMinimumVersion(named, name) <=>
              named /\ IF name[1] = 0 /\ name[2] = 5 THEN name[3] >= 6 ELSE name[1] > 0
<1>1. Len(name) = 3 /\ DOMAIN name = {1, 2, 3} /\ \A i \in {1, 2, 3} : name[i] \in Nat
  <2>1. Len(name) = 3 /\ \A i \in DOMAIN name : name[i] # Release!Unparsed
    BY DEF Release!WellFormed
  <2>2. DOMAIN name = 1 .. 3
    BY <2>1
  <2>3. \A i \in 1 .. 3 : name[i] \in VersionPart
    BY <2>2
  <2>4. DOMAIN name = {1, 2, 3}
    BY <2>2
  <2> QED BY <2>1, <2>2, <2>3, <2>4 DEF VersionPart
<1>2. \A i \in {1, 2, 3} : name[i] # Release!Unparsed
  BY <1>1 DEF Release!WellFormed
<1>3. /\ Release!ReadAfter(name, 0) = {1, 2, 3} /\ Release!ReadAfter(name, 1) = {2, 3}
      /\ Release!ReadAfter(name, 2) = {3}
  BY <1>1, <1>2 DEF Release!ReadAfter
<1>4. Release!Min({1, 2, 3}) = 1 /\ Release!Min({2, 3}) = 2 /\ Release!Min({3}) = 3
  BY MinIs
<1>5. Release!PatchMeets(name[3]) <=> name[3] >= 6
  BY DEF Release!PatchMeets, Release!HardenedPatch
<1> QED BY <1>1, <1>3, <1>4, <1>5 DEF Release!MeetsMinimumVersion

LEMMA ReleaseInitIInv == Release!Init => ReleaseIInv
  BY DEF Release!Init, ReleaseIInv, VersionPart

LEMMA ReleaseNextIInv == ReleaseIInv /\ [Release!Next]_releaseVars => ReleaseIInv'
<1> SUFFICES ASSUME ReleaseIInv, [Release!Next]_releaseVars PROVE ReleaseIInv'
  OBVIOUS
<1>0. parts \in Seq(VersionPart) /\ Release!Unparsed \in VersionPart /\ Nat \subseteq VersionPart
  BY DEF ReleaseIInv, VersionPart
<1>1. ASSUME Release!WellFormed(parts)
      PROVE  Len(parts) = 3 /\ parts[1] \in Nat /\ parts[2] \in Nat /\ parts[3] \in Nat
  BY <1>0, <1>1, ReadInOrder DEF Release!WellFormed
<1>2. CASE Release!Patch
  <2>1. parts' = [parts EXCEPT ![3] = parts[3] + 1] /\ prefixed' = prefixed
    BY <1>2 DEF Release!Patch, Release!Release
  <2>2. parts[3] + 1 \in VersionPart
    BY <1>0, <1>1, <1>2 DEF Release!Patch
  <2>3. \A v \in VersionPart : [parts EXCEPT ![3] = v] \in Seq(VersionPart)
    BY <1>0, <1>1, <1>2, ExceptSeq DEF Release!Patch
  <2> QED BY <2>1, <2>2, <2>3 DEF ReleaseIInv
<1>3. CASE Release!Minor
  <2>1. parts' = <<parts[1], parts[2] + 1, 0>> /\ prefixed' = prefixed
    BY <1>3 DEF Release!Minor, Release!Release
  <2>2. parts[1] \in VersionPart /\ parts[2] + 1 \in VersionPart /\ 0 \in VersionPart
    BY <1>0, <1>1, <1>3 DEF Release!Minor
  <2> QED BY <2>1, <2>2 DEF ReleaseIInv
<1>4. CASE Release!Major
  <2>1. parts' = <<parts[1] + 1, 0, 0>> /\ prefixed' = prefixed
    BY <1>4 DEF Release!Major, Release!Release
  <2>2. parts[1] + 1 \in VersionPart /\ 0 \in VersionPart
    BY <1>0, <1>1, <1>4 DEF Release!Major
  <2> QED BY <2>1, <2>2 DEF ReleaseIInv
<1>5. CASE Release!Unusual
  <2>1. ASSUME NEW i \in DOMAIN parts, parts' = [parts EXCEPT ![i] = Release!Unparsed]
        PROVE  parts' \in Seq(VersionPart)
    BY <1>0, <2>1
  <2>2. ASSUME NEW i \in 1 .. Len(parts) + 1, parts' = Release!InsertAt(parts, i, Release!Unparsed)
        PROVE  parts' \in Seq(VersionPart)
    <3>1. /\ SubSeq(parts, 1, i - 1) \in Seq(VersionPart)
          /\ SubSeq(parts, i, Len(parts)) \in Seq(VersionPart)
      BY <1>0
    <3>2. <<Release!Unparsed>> \in Seq(VersionPart)
      BY <1>0
    <3>3. SubSeq(parts, 1, i - 1) \o <<Release!Unparsed>> \in Seq(VersionPart)
      BY <3>1, <3>2, ConcatProperties
    <3>4. SubSeq(parts, 1, i - 1) \o <<Release!Unparsed>> \o SubSeq(parts, i, Len(parts))
            \in Seq(VersionPart)
      BY <3>1, <3>3, ConcatProperties
    <3> QED BY <2>2, <3>4 DEF Release!InsertAt
  <2>3. ASSUME Len(parts) > 1, parts' = Release!Front(parts)
        PROVE  parts' \in Seq(VersionPart)
    BY <1>0, <2>3 DEF Release!Front
  <2> QED BY <1>5, <2>1, <2>2, <2>3 DEF Release!Unusual, Release!Release, ReleaseIInv
<1>6. CASE UNCHANGED releaseVars
  BY <1>6 DEF releaseVars, ReleaseIInv
<1> QED BY <1>2, <1>3, <1>4, <1>5, <1>6 DEF Release!Next

LEMMA ReleaseInvariance == Release!Spec => []ReleaseIInv
<1> QED BY ReleaseInitIInv, ReleaseNextIInv, PTL DEF Release!Spec, Release!vars, releaseVars

(***************************************************************************)
(* Of the images whose names are dstack- and three numbers, whatever those *)
(* are and however many images come in between, none from before the       *)
(* hardening is vouched for, and a patch of one that is, or a new major    *)
(* one, is (reference.rs 76-91).                                           *)
(***************************************************************************)
THEOREM VersionsOrdered == Release!Spec => VersionsAreOrdered
<1> DEFINE Ordered == Release!OldIsNotVouchedFor' /\ (Release!Meets /\ (Release!Patch \/ Release!Major) => Release!Meets')
<1>1. ASSUME ReleaseIInv, ReleaseIInv', Release!Next PROVE Ordered
  <2>0. /\ parts \in Seq(VersionPart) /\ prefixed \in BOOLEAN
        /\ parts' \in Seq(VersionPart) /\ prefixed' \in BOOLEAN
    BY <1>1 DEF ReleaseIInv
  <2>1. Release!OldIsNotVouchedFor'
    <3> SUFFICES ASSUME Release!WellFormed(parts'), Release!BelowMinimum(parts')
                 PROVE  ~Release!MeetsMinimumVersion(prefixed', parts')
      BY DEF Release!OldIsNotVouchedFor, Release!Meets
    <3> QED BY <2>0, ReadInOrder DEF Release!BelowMinimum
  <2>2. ASSUME Release!Patch, Release!Meets PROVE Release!Meets'
    <3>1. parts' = [parts EXCEPT ![3] = parts[3] + 1] /\ prefixed' = prefixed
            /\ Release!WellFormed(parts)
      BY <2>2 DEF Release!Patch, Release!Release
    <3>2. /\ prefixed /\ parts[1] \in Nat /\ parts[2] \in Nat /\ parts[3] \in Nat
          /\ IF parts[1] = 0 /\ parts[2] = 5 THEN parts[3] >= 6 ELSE parts[1] > 0
      BY <2>0, <2>2, <3>1, ReadInOrder DEF Release!Meets
    <3>3. /\ Len(parts) = 3 /\ Len(parts') = 3
          /\ parts'[1] = parts[1] /\ parts'[2] = parts[2] /\ parts'[3] = parts[3] + 1
      BY <2>0, <3>1 DEF Release!WellFormed
    <3>4. Release!WellFormed(parts')
      BY <2>0, <3>2, <3>3 DEF Release!WellFormed, Release!Unparsed
    <3>5. prefixed' /\ IF parts'[1] = 0 /\ parts'[2] = 5 THEN parts'[3] >= 6 ELSE parts'[1] > 0
      BY <3>1, <3>2, <3>3
    <3>6. Release!MeetsMinimumVersion(prefixed', parts')
      BY <2>0, <3>4, <3>5, ReadInOrder
    <3> QED BY <3>6 DEF Release!Meets
  <2>3. ASSUME Release!Major, Release!Meets PROVE Release!Meets'
    <3>1. parts' = <<parts[1] + 1, 0, 0>> /\ prefixed' = prefixed /\ Release!WellFormed(parts)
      BY <2>3 DEF Release!Major, Release!Release
    <3>2. prefixed /\ parts[1] \in Nat
      BY <2>0, <2>3, <3>1, ReadInOrder DEF Release!Meets
    <3>3. Len(parts') = 3 /\ parts'[1] = parts[1] + 1 /\ parts'[2] = 0 /\ parts'[3] = 0
      BY <3>1
    <3>4. Release!WellFormed(parts')
      BY <2>0, <3>2, <3>3 DEF Release!WellFormed, Release!Unparsed
    <3>5. prefixed' /\ IF parts'[1] = 0 /\ parts'[2] = 5 THEN parts'[3] >= 6 ELSE parts'[1] > 0
      BY <3>1, <3>2, <3>3
    <3>6. Release!MeetsMinimumVersion(prefixed', parts')
      BY <2>0, <3>4, <3>5, ReadInOrder
    <3> QED BY <3>6 DEF Release!Meets
  <2> QED BY <2>1, <2>2, <2>3
<1>2. ReleaseIInv /\ ReleaseIInv' /\ [Release!Next]_releaseVars => [Ordered]_releaseVars
  BY <1>1
<1> HIDE DEF Ordered
<1>3. Release!Spec => [][Ordered]_releaseVars
  BY <1>2, ReleaseInvariance, PTL DEF Release!Spec, Release!vars, releaseVars
<1> QED BY <1>3 DEF VersionsAreOrdered, Release!VersionsAreOrdered, Release!vars, releaseVars, Ordered

-----------------------------------------------------------------------------
(***************************************************************************)
(* The parts side by side: a behaviour of the whole is one of each part,   *)
(* so what is proved of a part holds of the whole.                         *)
(***************************************************************************)
THEOREM PartsKeepToThemselves ==
  SurfacesSpec =>
    /\ Spec /\ Runner!Spec /\ Parser!Spec /\ Address!Spec /\ Release!Spec /\ Names!Spec /\ Scan!Spec
<1>1. SurfacesInit =>
        /\ Init /\ Runner!Init /\ Parser!Init /\ Address!Init /\ Release!Init /\ Names!Init
        /\ Scan!Init
  BY DEF SurfacesInit, PartsInit
<1>2. [SurfacesNext]_surfacesVars =>
        /\ [Next]_vars /\ [Runner!Next]_runnerVars /\ [Parser!Next]_parserVars
        /\ [Address!Next]_addressVars /\ [Release!Next]_releaseVars /\ [Names!Next]_nameVars
        /\ [Scan!Next]_scanVars
  <2> SUFFICES ASSUME [SurfacesNext]_surfacesVars
               PROVE  /\ [Next]_vars /\ [Runner!Next]_runnerVars /\ [Parser!Next]_parserVars
                      /\ [Address!Next]_addressVars /\ [Release!Next]_releaseVars
                      /\ [Names!Next]_nameVars /\ [Scan!Next]_scanVars
    OBVIOUS
  <2>1. /\ Rests("Bindings") => UNCHANGED vars
        /\ Rests("Runner") => UNCHANGED runnerVars
        /\ Rests("Parser") => UNCHANGED parserVars
        /\ Rests("Address") => UNCHANGED addressVars
        /\ Rests("Release") => UNCHANGED releaseVars
        /\ Rests("Names") => UNCHANGED nameVars
        /\ Rests("Scan") => UNCHANGED scanVars
    BY DEF Rests
  <2>2. CASE UNCHANGED surfacesVars
    BY <2>2 DEF surfacesVars
  <2>3. CASE SurfacesNext
    <3>1. ASSUME NEW p, Acts(p) PROVE \A q \in Part : q # p => Rests(q)
      BY <3>1 DEF Acts
    <3>2. CASE Acts("Bindings") /\ Next
      BY <2>1, <3>1, <3>2 DEF Part
    <3>3. CASE Acts("Runner") /\ Runner!Next
      BY <2>1, <3>1, <3>3 DEF Part
    <3>4. CASE Acts("Parser") /\ Parser!Next
      BY <2>1, <3>1, <3>4 DEF Part
    <3>5. CASE Acts("Address") /\ Address!Next
      BY <2>1, <3>1, <3>5 DEF Part
    <3>6. CASE Acts("Release") /\ Release!Next
      BY <2>1, <3>1, <3>6 DEF Part
    <3>7. CASE Acts("Names") /\ Names!Next
      BY <2>1, <3>1, <3>7 DEF Part
    <3>8. CASE Acts("Scan") /\ Scan!Next
      BY <2>1, <3>1, <3>8 DEF Part
    <3> QED BY <2>3, <3>2, <3>3, <3>4, <3>5, <3>6, <3>7, <3>8 DEF SurfacesNext
  <2> QED BY <2>2, <2>3
<1> QED BY <1>1, <1>2, PTL
        DEF SurfacesSpec, Spec, Runner!Spec, Parser!Spec, Address!Spec, Release!Spec, Names!Spec,
            Scan!Spec, Runner!vars, runnerVars, Parser!vars, parserVars, Address!vars, addressVars,
            Release!vars, releaseVars, Names!vars, nameVars, Scan!vars, scanVars

(***************************************************************************)
(* Everything the ways in and out promise, of the whole.                   *)
(***************************************************************************)
THEOREM SurfacesKeepTheirWord ==
  SurfacesSpec =>
    /\ [](AgreesWithCore /\ OnlyIntelIsMissing /\ SinglesAgree /\ NothingIsLost)
    /\ [](ExitCodesAreTrue /\ WholeQuotesOnly /\ ScanAgreesWithVerify)
    /\ TwoJudgesNothing /\ AnswerStands /\ OperatorReachesTheApp /\ VersionsAreOrdered /\ NamesAreSound
<1> QED BY PartsKeepToThemselves, SurfacesAgree, IntelIsMissing, SinglesAddUp, NothingLost,
           RunnerExitsTruly, RunnerTwoJudgesNothing, TakesWholeQuotes, ParserAnswerStands,
           OperatorReaches, VersionsOrdered, NamesSound, ScanAgrees, PTL

=============================================================================
