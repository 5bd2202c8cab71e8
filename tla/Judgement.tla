----------------------------- MODULE Judgement -----------------------------
(***************************************************************************)
(* A caller of verify who keeps the evidence and asks again: time passes,  *)
(* newer collateral or a boot reference is obtained, a connection is made. *)
(* Every transcript an embedder can come to hold is the answer to one of   *)
(* these calls.                                                            *)
(***************************************************************************)
EXTENDS Verify, FiniteSets

CONSTANTS
  CallerQuotes, CallerDocuments, CallerCollaterals,  \* the evidence in circulation
  CallerReferences,                                  \* the boot references in circulation
  Licensed                                           \* what was licensed

ASSUME CirculationAssumption ==
  /\ CallerQuotes \subseteq Quote
  /\ CallerDocuments \subseteq Document
  /\ CallerCollaterals \subseteq Collateral
  /\ CallerReferences \subseteq BootReference
  /\ Licensed \in LicensedVersion

VARIABLES
  evidence,  \* the evidence of the last call
  boot,      \* the boot reference of the last call
  answer     \* the transcript it returned

callerVars == <<evidence, boot, answer>>

CallerTypeOK ==
  /\ evidence \in Evidence
  /\ boot \in BootReference \cup {NoReference}
  /\ answer \in Seq(Result)

Ask(e, b) ==
  /\ evidence' = e
  /\ boot' = b
  /\ answer' = VerifyEvidence(Licensed, e, b)

\* now_secs may be 0: a clock before 1970 reads as zero.
CallerInit ==
  /\ evidence \in [quote : CallerQuotes, document : CallerDocuments, collateral : CallerCollaterals,
                   now : {0, 1} \cap Time, peer : {NotConnected}]
  /\ boot = NoReference
  /\ answer = VerifyEvidence(Licensed, evidence, boot)

Wait == evidence.now < MaxTime /\ Ask([evidence EXCEPT !.now = @ + 1], boot)

SupplyReference == boot = NoReference /\ \E b \in CallerReferences : Ask(evidence, b)

FetchCollateral == \E col \in CallerCollaterals : Ask([evidence EXCEPT !.collateral = col], boot)

PresentCertificate ==
  /\ evidence.peer = NotConnected
  /\ \E p \in PeerCertificate \ {NotConnected} : Ask([evidence EXCEPT !.peer = p], boot)

CallerNext == Wait \/ SupplyReference \/ FetchCollateral \/ PresentCertificate

CallerSpec == CallerInit /\ [][CallerNext]_callerVars

-----------------------------------------------------------------------------
(***************************************************************************)
(* A verdict is trustworthy exactly when the facts it is meant to          *)
(* establish hold: no combination of a foreign quote, key, document,       *)
(* platform, stale statement or clock is accepted, and no endpoint of which*)
(* all of them hold is refused (verify, Verdict::is_trustworthy).          *)
(***************************************************************************)
TrustIsEstablished == IsTrustworthy(answer) <=> Established(Licensed, evidence)

(***************************************************************************)
(* A refusal is triaged as an outage only for want of a verifier that can  *)
(* judge MR-CONFIG-ID, and never when anything else that is essential is   *)
(* wrong (Refusal::kind over the transcripts verify really produces).      *)
(***************************************************************************)
OutageOnlyWithoutJudge ==
  (~IsTrustworthy(answer) /\ Kind("NotTrustworthy", answer) = "CouldNotEstablish") =>
    /\ evidence.quote.version = "V2"
    /\ Established(Licensed, [evidence EXCEPT !.quote.version = "V1",
                                              !.quote.config = Licensed.compose])

(***************************************************************************)
(* The TCB statement is on the verdict exactly when the quote's signature  *)
(* was accepted, also for a platform that is refused as out of date, and   *)
(* the TCB check agrees with it (record_attestation).                      *)
(***************************************************************************)
TcbStatementAgrees ==
  /\ AttestedTcb(evidence) # "None" <=> OutcomeOf(answer, "QuoteSignature") = "Passed"
  /\ AttestedTcb(evidence) = "UpToDate" <=> OutcomeOf(answer, "TcbStatus") = "Passed"

(***************************************************************************)
(* The remedy an outcome names works: a boot check that had no reference   *)
(* reaches an answer once one is supplied, and supplying it moves no       *)
(* essential check (Outcome::Indeterminate: "would let this same call      *)
(* conclude").                                                             *)
(***************************************************************************)
RemedyConcludes ==
  [][SupplyReference /\ OutcomeOf(answer, "BootMeasurements") = "ReferenceUnavailable" =>
       /\ OutcomeOf(answer', "BootMeasurements") \in {"Passed", "Failed"}
       /\ \A c \in Essential : OutcomeOf(answer', c) = OutcomeOf(answer, c)]_callerVars
=============================================================================
