---------------------------- MODULE VerifyProofs ----------------------------
(***************************************************************************)
(* What the answers of a verdict mean, for every transcript of any length, *)
(* and what a transcript of verify means, for all evidence, all statements *)
(* of Intel's and every clock.                                             *)
(***************************************************************************)
EXTENDS Verify, WellFoundedInduction, TLAPS

\* A set of positions has a first one.
LEMMA LeastExists ==
  ASSUME NEW S \in SUBSET Nat, S # {}
  PROVE  \E i \in S : \A j \in S : i <= j
<1> DEFINE R == {pair \in Nat \X Nat : pair[1] < pair[2]}
<1>1. R = OpToRel(<, Nat)
  BY DEF OpToRel
<1>2. \A i, j \in Nat : j < i => <<j, i>> \in R
  OBVIOUS
<1> HIDE DEF R
<1>3. PICK i \in S : \A j \in S : <<j, i>> \notin R
  BY NatLessThanWellFounded, WFMin, <1>1
<1>4. ASSUME NEW j \in S PROVE i <= j
  <2>1. ~(j < i)
    BY <1>2, <1>3
  <2> QED BY <2>1
<1> QED BY <1>4

\* The first record is one of the records.
LEMMA LeastIsChosen ==
  ASSUME NEW S \in SUBSET Nat, S # {}
  PROVE  (CHOOSE i \in S : \A j \in S : i <= j) \in S
<1>1. PICK i \in S : \A j \in S : i <= j
  BY LeastExists
<1> QED BY <1>1

(***************************************************************************)
(* A check passed exactly when it was recorded and nothing else was ever   *)
(* recorded for it; otherwise its answer is one that was recorded and is   *)
(* not a pass (Verdict::outcome).                                          *)
(***************************************************************************)
LEMMA RefusalDominates ==
  ASSUME NEW r \in Seq(Result), NEW c, NonPasses(r, c) # {}
  PROVE  \E i \in NonPasses(r, c) : OutcomeOf(r, c) = r[i].outcome
<1>1. NonPasses(r, c) \in SUBSET Nat
  BY DEF NonPasses, RecordsOf
<1>2. (CHOOSE i \in NonPasses(r, c) : \A j \in NonPasses(r, c) : i <= j) \in NonPasses(r, c)
  BY <1>1, LeastIsChosen
<1> QED BY <1>2 DEF OutcomeOf

\* Records that all passed read as a pass (verdict.rs 669).
LEMMA PassWhenAllPassed ==
  ASSUME NEW r \in Seq(Result), NEW c, NonPasses(r, c) = {}, RecordsOf(r, c) # {}
  PROVE  OutcomeOf(r, c) = "Passed"
<1>1. RecordsOf(r, c) \in SUBSET Nat
  BY DEF RecordsOf
<1>2. (CHOOSE i \in RecordsOf(r, c) : \A j \in RecordsOf(r, c) : i <= j) \in RecordsOf(r, c)
  BY <1>1, LeastIsChosen
<1>3. \A i \in RecordsOf(r, c) : r[i].outcome = "Passed"
  BY DEF NonPasses
<1> QED BY <1>2, <1>3 DEF OutcomeOf

\* No record reads as no outcome (verdict.rs 661).
LEMMA NotRunWhenNotRecorded ==
  ASSUME NEW r \in Seq(Result), NEW c, RecordsOf(r, c) = {}
  PROVE  OutcomeOf(r, c) = NotRun
  BY DEF OutcomeOf, NonPasses

\* What is on record is a check and an outcome.
LEMMA RecordedOutcome ==
  ASSUME NEW r \in Seq(Result), NEW i \in DOMAIN r
  PROVE  r[i].outcome \in Outcome /\ r[i].check \in Check
<1>1. r[i] \in Result
  OBVIOUS
<1> QED BY <1>1 DEF Result

\* A check reads as passed exactly when it has records and all of them passed.
LEMMA PassedMeans ==
  ASSUME NEW r \in Seq(Result), NEW c
  PROVE  OutcomeOf(r, c) = "Passed" <=> RecordsOf(r, c) # {} /\ NonPasses(r, c) = {}
<1>1. CASE RecordsOf(r, c) = {}
  BY <1>1, NotRunWhenNotRecorded DEF NotRun
<1>2. CASE NonPasses(r, c) # {}
  BY <1>2, RefusalDominates DEF NonPasses
<1>3. CASE RecordsOf(r, c) # {} /\ NonPasses(r, c) = {}
  BY <1>3, PassWhenAllPassed
<1> QED BY <1>1, <1>2, <1>3

\* A check recorded once reads as it was recorded.
LEMMA SingleRecord ==
  ASSUME NEW r \in Seq(Result), NEW i \in DOMAIN r,
         \A j \in DOMAIN r : r[j].check = r[i].check => j = i
  PROVE  OutcomeOf(r, r[i].check) = r[i].outcome
<1> DEFINE c == r[i].check
<1>1. RecordsOf(r, c) = {i} /\ NonPasses(r, c) \subseteq {i}
  BY DEF RecordsOf, NonPasses
<1>2. CASE NonPasses(r, c) = {}
  BY <1>1, <1>2, PassWhenAllPassed DEF NonPasses
<1>3. CASE NonPasses(r, c) # {}
  BY <1>1, <1>3, RefusalDominates
<1> QED BY <1>2, <1>3

\* Every essential check is on record, and nothing but passes is, for any of them.
Complete(r) == \A c \in Essential : \E i \in DOMAIN r : r[i].check = c

Clean(r) == \A i \in DOMAIN r : r[i].check \in Essential => r[i].outcome = "Passed"

(***************************************************************************)
(* A verdict is trustworthy exactly when all the essential checks were     *)
(* recorded, each with nothing but passes, wherever in the transcript, in  *)
(* whatever order and however often (Verdict::is_trustworthy).             *)
(***************************************************************************)
THEOREM TrustMeansCompleteAndClean ==
  ASSUME NEW r \in Seq(Result)
  PROVE  IsTrustworthy(r) <=> Complete(r) /\ Clean(r)
<1>1. IsTrustworthy(r) <=> \A c \in Essential : RecordsOf(r, c) # {} /\ NonPasses(r, c) = {}
  BY PassedMeans DEF IsTrustworthy, MissingEssentials
<1>2. Complete(r) <=> \A c \in Essential : RecordsOf(r, c) # {}
  BY DEF Complete, RecordsOf
<1>3. Clean(r) <=> \A c \in Essential : NonPasses(r, c) = {}
  BY DEF Clean, NonPasses, RecordsOf
<1> QED BY <1>1, <1>2, <1>3

-----------------------------------------------------------------------------
(***************************************************************************)
(* verify records each check once, so what it recorded is what it answers. *)
(***************************************************************************)
LEMMA JudgeOutcome == ASSUME NEW p PROVE Judge(p) \in {"Passed", "Failed"}
  BY DEF Judge

\* check_mrconfigid never skips (binding.rs 278-314).
LEMMA MrConfigIdOutcome ==
  ASSUME NEW q \in Quote, NEW h
  PROVE  CheckMrConfigId(q, h) \in {"Passed", "Failed", "VerifierCannotJudge"}
<1>1. q.version \in {"V1", "V2", "Unknown"}
  BY DEF Quote
<1> QED BY <1>1 DEF CheckMrConfigId

\* Every check of verify has an outcome (verify.rs 154-287).
LEMMA OutcomesAreOutcomes ==
  ASSUME NEW licensed, NEW e \in Evidence, NEW ref, NEW c \in Check
  PROVE  CheckOutcome(c, licensed, e, ref) \in Outcome
<1>1. e.quote \in Quote
  BY DEF Evidence
<1>2. {"Passed", "Failed", "Skipped", "VerifierCannotJudge", "ReferenceUnavailable"}
        \subseteq Outcome
  BY DEF Outcome, Unestablished
<1>3. BootOutcome(e.quote, ref) \in Outcome /\ ChannelBound(e.peer, e.quote) \in Outcome
  BY <1>2, JudgeOutcome DEF BootOutcome, ChannelBound
<1>4. CheckMrConfigId(e.quote, licensed.compose) \in Outcome
  BY <1>1, <1>2, MrConfigIdOutcome
<1>5. \A p : Judge(p) \in Outcome
  BY <1>2, JudgeOutcome
<1> QED BY <1>2, <1>3, <1>4, <1>5 DEF CheckOutcome, Check, Essential

\* verify answers with a transcript.
LEMMA TranscriptIsTyped ==
  ASSUME NEW licensed, NEW e \in Evidence, NEW ref
  PROVE  VerifyEvidence(licensed, e, ref) \in Seq(Result)
<1>1. \A c \in Check : [check |-> c, outcome |-> CheckOutcome(c, licensed, e, ref)] \in Result
  BY OutcomesAreOutcomes DEF Result
<1> QED BY <1>1 DEF VerifyEvidence, Check, Essential

\* verify records each check once, so the transcript reads as it was recorded.
LEMMA AnswerIsOutcome ==
  ASSUME NEW licensed, NEW e \in Evidence, NEW ref, NEW c \in Check
  PROVE  OutcomeOf(VerifyEvidence(licensed, e, ref), c) = CheckOutcome(c, licensed, e, ref)
<1> DEFINE r == VerifyEvidence(licensed, e, ref)
<1>1. r \in Seq(Result)
  BY TranscriptIsTyped
<1>2. \E i \in DOMAIN r :
        /\ r[i].check = c /\ r[i].outcome = CheckOutcome(c, licensed, e, ref)
        /\ \A j \in DOMAIN r : r[j].check = c => j = i
  BY DEF VerifyEvidence, Check, Essential
<1> HIDE DEF r
<1>3. OutcomeOf(r, c) = CheckOutcome(c, licensed, e, ref)
  BY <1>1, <1>2, SingleRecord
<1> QED BY <1>3 DEF r

-----------------------------------------------------------------------------
(***************************************************************************)
(* Trust means what it is meant to mean: a transcript of verify is         *)
(* trustworthy exactly when every fact it is meant to establish holds.     *)
(***************************************************************************)
LEMMA EssentialsEstablish ==
  ASSUME NEW licensed, NEW e \in Evidence, NEW ref
  PROVE  (\A c \in Essential : CheckOutcome(c, licensed, e, ref) = "Passed")
           <=> Established(licensed, e)
<1> DEFINE P(c) == CheckOutcome(c, licensed, e, ref) = "Passed"
<1>1. P("ComposeHash") /\ P("ImagesPinned") /\ P("LicensedImagePresent")
        <=> LicensedDocument(licensed, e.document)
  BY DEF CheckOutcome, Judge, LicensedDocument
<1>2. P("QuoteSignature") /\ P("TcbStatus")
        <=> e.quote.genuine /\ FreshTcb(e.quote, e.collateral, e.now)
  <2>1. e.now \in Nat /\ e.collateral.issued \in Nat
    BY IntelAssumption DEF Evidence, Collateral, Time
  <2>2. InWindow(e.collateral, e.now)
          <=> e.now \in e.collateral.issued .. e.collateral.issued + Validity
    BY <2>1, IntelAssumption DEF InWindow
  <2> QED BY <2>2 DEF CheckOutcome, Judge, VerifyQuote, QvlVerifies, IsTcbAcceptable, TcbLevel,
                      FreshTcb
<1>3. P("MrConfigId")
        <=> e.quote.parses /\ e.quote.version = "V1" /\ e.quote.config = licensed.compose
  <2>1. e.quote.version \in {"V1", "V2", "Unknown"}
    BY DEF Evidence, Quote
  <2> QED BY <2>1 DEF CheckOutcome, CheckMrConfigId
<1>4. P("ChannelBound") <=> e.quote.parses /\ e.peer \in Key /\ e.quote.commits = e.peer
  <2>1. e.peer \in Key \cup {NotConnected, Unreadable} /\ e.quote.commits \in Key \cup {NoKey}
    BY DEF Evidence, Quote, PeerCertificate
  <2> QED BY <2>1, SpecialsAssumption DEF CheckOutcome, ChannelBound, ChannelBinding, Judge
<1>5. (\A c \in Essential : P(c)) <=> /\ P("ComposeHash") /\ P("ImagesPinned") /\ P("LicensedImagePresent")
                                     /\ P("QuoteSignature") /\ P("TcbStatus")
                                     /\ P("MrConfigId") /\ P("ChannelBound")
  BY DEF Essential
<1> HIDE DEF P
<1>6. (\A c \in Essential : P(c)) <=> Established(licensed, e)
  BY <1>1, <1>2, <1>3, <1>4, <1>5 DEF Established, AttestsKey
<1> QED BY <1>6 DEF P

\* verify is trustworthy exactly of evidence that establishes everything (verify.rs 154-287).
THEOREM TrustMeansEstablished ==
  ASSUME NEW licensed, NEW e \in Evidence, NEW ref
  PROVE  IsTrustworthy(VerifyEvidence(licensed, e, ref)) <=> Established(licensed, e)
<1>1. Essential \subseteq Check
  BY DEF Check
<1>2. IsTrustworthy(VerifyEvidence(licensed, e, ref))
        <=> \A c \in Essential : CheckOutcome(c, licensed, e, ref) = "Passed"
  BY <1>1, AnswerIsOutcome DEF IsTrustworthy, MissingEssentials
<1> QED BY <1>2, EssentialsEstablish
=============================================================================
