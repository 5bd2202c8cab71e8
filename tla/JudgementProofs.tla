-------------------------- MODULE JudgementProofs --------------------------
(***************************************************************************)
(* The properties of Judgement, for all evidence in circulation, all       *)
(* statements of Intel's and every clock.                                  *)
(***************************************************************************)
EXTENDS Judgement, VerifyProofs

(***************************************************************************)
(* The inductive invariant: the transcript at hand is verify's answer to   *)
(* the evidence at hand.                                                   *)
(***************************************************************************)
Asked == answer = VerifyEvidence(Licensed, evidence, boot)

IInv == CallerTypeOK /\ Asked

\* Each call leaves its own answer behind (verify.rs 154).
LEMMA AskKeepsIInv ==
  ASSUME NEW e \in Evidence, NEW ref \in BootReference \cup {NoReference}, Ask(e, ref)
  PROVE  IInv'
  BY TranscriptIsTyped DEF Ask, IInv, CallerTypeOK, Asked

\* The invariant holds at the start.
LEMMA InitIInv == CallerInit => IInv
<1> SUFFICES ASSUME CallerInit PROVE IInv
  OBVIOUS
<1>1. evidence \in Evidence
  BY CirculationAssumption DEF CallerInit, Evidence, PeerCertificate
<1> QED BY <1>1, TranscriptIsTyped DEF CallerInit, IInv, CallerTypeOK, Asked

\* Every step keeps the invariant.
LEMMA NextKeepsIInv == IInv /\ [CallerNext]_callerVars => IInv'
<1> SUFFICES ASSUME IInv, [CallerNext]_callerVars PROVE IInv'
  OBVIOUS
<1>1. evidence \in Evidence /\ boot \in BootReference \cup {NoReference}
  BY DEF IInv, CallerTypeOK
<1>2. CASE Wait
  <2>1. [evidence EXCEPT !.now = @ + 1] \in Evidence
    BY <1>1, <1>2, IntelAssumption DEF Wait, Evidence, Time
  <2> QED BY <1>1, <1>2, <2>1, AskKeepsIInv DEF Wait
<1>3. CASE SupplyReference
  BY <1>1, <1>3, AskKeepsIInv, CirculationAssumption DEF SupplyReference
<1>4. CASE FetchCollateral
  <2>1. \A col \in CallerCollaterals : [evidence EXCEPT !.collateral = col] \in Evidence
    BY <1>1, CirculationAssumption DEF Evidence
  <2> QED BY <1>1, <1>4, <2>1, AskKeepsIInv DEF FetchCollateral
<1>5. CASE PresentCertificate
  <2>1. \A p \in PeerCertificate : [evidence EXCEPT !.peer = p] \in Evidence
    BY <1>1 DEF Evidence
  <2> QED BY <1>1, <1>5, <2>1, AskKeepsIInv DEF PresentCertificate
<1>6. CASE UNCHANGED callerVars
  BY <1>6 DEF callerVars, IInv, CallerTypeOK, Asked
<1> QED BY <1>2, <1>3, <1>4, <1>5, <1>6 DEF CallerNext

\* The invariant holds in every reachable state.
LEMMA Invariance == CallerSpec => []IInv
  BY InitIInv, NextKeepsIInv, PTL DEF CallerSpec

(***************************************************************************)
(* Type correctness.                                                       *)
(***************************************************************************)
THEOREM TypeCorrect == CallerSpec => []CallerTypeOK
<1>1. IInv => CallerTypeOK
  BY DEF IInv
<1> QED BY Invariance, <1>1, PTL

(***************************************************************************)
(* However often verify is asked, and with whatever evidence, it trusts    *)
(* exactly what is established.                                            *)
(***************************************************************************)
THEOREM TrustEstablished == CallerSpec => []TrustIsEstablished
<1>1. IInv => TrustIsEstablished
  BY TrustMeansEstablished DEF IInv, CallerTypeOK, Asked, TrustIsEstablished
<1> QED BY Invariance, <1>1, PTL

(***************************************************************************)
(* The TCB statement is on the verdict exactly when the signature was      *)
(* accepted, and the TCB check agrees with it.                             *)
(***************************************************************************)
THEOREM TcbAgrees == CallerSpec => []TcbStatementAgrees
<1>1. IInv => TcbStatementAgrees
  <2> SUFFICES ASSUME IInv PROVE TcbStatementAgrees
    OBVIOUS
  <2>1. /\ OutcomeOf(answer, "QuoteSignature") = CheckOutcome("QuoteSignature", Licensed, evidence, boot)
        /\ OutcomeOf(answer, "TcbStatus") = CheckOutcome("TcbStatus", Licensed, evidence, boot)
    BY AnswerIsOutcome DEF IInv, CallerTypeOK, Asked, Check, Essential
  <2> QED BY <2>1 DEF TcbStatementAgrees, AttestedTcb, CheckOutcome, Judge, VerifyQuote,
                      IsTcbAcceptable, TcbLevel
<1> QED BY Invariance, <1>1, PTL

(***************************************************************************)
(* A boot reference that is supplied lets the boot check conclude, and     *)
(* moves no essential check.                                               *)
(***************************************************************************)
THEOREM RemedyWorks == CallerSpec => RemedyConcludes
<1>1. IInv /\ IInv' /\ [CallerNext]_callerVars =>
        [SupplyReference /\ OutcomeOf(answer, "BootMeasurements") = "ReferenceUnavailable" =>
           /\ OutcomeOf(answer', "BootMeasurements") \in {"Passed", "Failed"}
           /\ \A c \in Essential : OutcomeOf(answer', c) = OutcomeOf(answer, c)]_callerVars
  <2> SUFFICES ASSUME IInv, IInv', SupplyReference,
                      OutcomeOf(answer, "BootMeasurements") = "ReferenceUnavailable"
               PROVE  /\ OutcomeOf(answer', "BootMeasurements") \in {"Passed", "Failed"}
                      /\ \A c \in Essential : OutcomeOf(answer', c) = OutcomeOf(answer, c)
    OBVIOUS
  <2>1. \A c \in Check : /\ OutcomeOf(answer, c) = CheckOutcome(c, Licensed, evidence, boot)
                        /\ OutcomeOf(answer', c) = CheckOutcome(c, Licensed, evidence', boot')
    BY AnswerIsOutcome DEF IInv, CallerTypeOK, Asked
  <2>2. evidence' = evidence /\ boot' \in CallerReferences
    BY DEF SupplyReference, Ask
  <2>3. \A c \in Essential :
          c \in Check /\ CheckOutcome(c, Licensed, evidence, boot') = CheckOutcome(c, Licensed, evidence, boot)
    BY DEF CheckOutcome, Essential, Check
  <2>4. evidence.quote.parses
    BY <2>1 DEF CheckOutcome, Check
  <2>5. boot' # NoReference
    BY <2>2, CirculationAssumption, ReferenceAssumption
  <2>6. CheckOutcome("BootMeasurements", Licensed, evidence, boot') \in {"Passed", "Failed"}
    BY <2>4, <2>5, JudgeOutcome DEF CheckOutcome, BootOutcome
  <2>7. "BootMeasurements" \in Check
    BY DEF Check
  <2> QED BY <2>1, <2>2, <2>3, <2>6, <2>7
<1> QED BY Invariance, <1>1, PTL DEF CallerSpec, RemedyConcludes

(***************************************************************************)
(* A refusal of verify's is triaged as an outage only for want of a        *)
(* verifier that can judge MR-CONFIG-ID.                                   *)
(***************************************************************************)
THEOREM OutageNeedsJudge == CallerSpec => []OutageOnlyWithoutJudge
<1>1. IInv => OutageOnlyWithoutJudge
  <2> DEFINE Judged == [evidence EXCEPT !.quote.version = "V1", !.quote.config = Licensed.compose]
             Out(c) == CheckOutcome(c, Licensed, evidence, boot)
  <2> SUFFICES ASSUME IInv, ~IsTrustworthy(answer),
                      Kind("NotTrustworthy", answer) = "CouldNotEstablish"
               PROVE  evidence.quote.version = "V2" /\ Established(Licensed, Judged)
    BY DEF OutageOnlyWithoutJudge
  <2>1. evidence \in Evidence /\ \A c \in Essential : OutcomeOf(answer, c) = Out(c)
    BY AnswerIsOutcome DEF IInv, CallerTypeOK, Asked, Check
  <2>2. \A c \in Essential : Out(c) = "Passed" \/ Out(c) \in Unestablished
    BY <2>1 DEF Kind, Outages, Violations, MissingEssentials
  <2>3. \E c \in Essential : Out(c) # "Passed"
    BY <2>1 DEF IsTrustworthy, MissingEssentials
  <2>4. \A c \in Essential \ {"MrConfigId"} : Out(c) \notin Unestablished
    BY JudgeOutcome DEF CheckOutcome, Essential, Unestablished, ChannelBound
  <2>5. Out("MrConfigId") \in Unestablished
    BY <2>2, <2>3, <2>4
  <2>6. evidence.quote.parses /\ evidence.quote.version = "V2"
    <3>1. evidence.quote.version \in {"V1", "V2", "Unknown"}
      BY <2>1 DEF Evidence, Quote
    <3> QED BY <2>5, <3>1 DEF CheckOutcome, CheckMrConfigId, Unestablished
  <2>7. Judged \in Evidence
    <3>1. PICK h \in ComposeHash : Licensed.compose = h
      BY CirculationAssumption DEF LicensedVersion
    <3> QED BY <2>1, <3>1 DEF Evidence, Quote
  <2>8. \A c \in Essential : CheckOutcome(c, Licensed, Judged, boot) = "Passed"
    <3>1. \A c \in Essential \ {"MrConfigId"} : Out(c) = "Passed"
      BY <2>2, <2>4
    <3>2. CheckOutcome("MrConfigId", Licensed, Judged, boot) = "Passed"
      BY <2>1, <2>6 DEF CheckOutcome, CheckMrConfigId, Evidence, Quote
    <3>3. /\ Judged.document = evidence.document /\ Judged.collateral = evidence.collateral
          /\ Judged.now = evidence.now /\ Judged.peer = evidence.peer
          /\ \A f \in {"parses", "genuine", "platform", "svn", "commits"} :
               Judged.quote[f] = evidence.quote[f]
      BY <2>1 DEF Evidence, Quote
    <3>4. VerifyQuote(Judged.quote, Judged.collateral, Judged.now)
            = VerifyQuote(evidence.quote, evidence.collateral, evidence.now)
      BY <3>3 DEF VerifyQuote, QvlVerifies, TcbLevel
    <3>5. ChannelBound(Judged.peer, Judged.quote) = ChannelBound(evidence.peer, evidence.quote)
      BY <3>3 DEF ChannelBound, ChannelBinding
    <3>6. Judged.quote.parses = evidence.quote.parses
      BY <3>3
    <3> HIDE DEF Judged
    <3>7. \A c \in Essential \ {"MrConfigId"} :
            CheckOutcome(c, Licensed, Judged, boot) = Out(c)
      BY <3>3, <3>4, <3>5, <3>6 DEF CheckOutcome, Essential
    <3> QED BY <3>1, <3>2, <3>7
  <2> QED BY <2>6, <2>7, <2>8, EssentialsEstablish
<1> QED BY Invariance, <1>1, PTL
=============================================================================
