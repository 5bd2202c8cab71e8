----------------------- MODULE VerdictRecorderProofs -----------------------
(***************************************************************************)
(* The safety properties of VerdictRecorder, for transcripts of any length *)
(* from any start.                                                         *)
(***************************************************************************)
EXTENDS VerdictRecorder, VerifyProofs

(***************************************************************************)
(* The inductive invariant: a wrapper was trustworthy when it was granted, *)
(* and it holds a transcript of its own, which later records do not touch. *)
(***************************************************************************)
WrappedWasTrustworthy == wrapped # <<>> => IsTrustworthy(wrapped)

IInv == RecorderTypeOK /\ WrappedWasTrustworthy

\* The invariant holds at the start.
LEMMA InitIInv == RecorderInit => IInv
  BY StartAssumption DEF RecorderInit, IInv, RecorderTypeOK, WrappedWasTrustworthy

\* record appends and changes nothing before (verdict.rs 612-617).
LEMMA RecordedTranscript ==
  ASSUME NEW r \in Seq(Result), NEW c \in Check, NEW o \in Outcome
  PROVE  /\ Record(r, c, o) \in Seq(Result)
         /\ \A i \in DOMAIN r : i \in DOMAIN Record(r, c, o) /\ Record(r, c, o)[i] = r[i]
<1>1. [check |-> c, outcome |-> o] \in Result
  BY DEF Result
<1> QED BY <1>1 DEF Record

\* Every step keeps the invariant.
LEMMA NextKeepsIInv == IInv /\ [RecorderNext]_recorderVars => IInv'
<1> SUFFICES ASSUME IInv, [RecorderNext]_recorderVars PROVE IInv'
  OBVIOUS
<1>1. ASSUME NEW c \in Check, NEW o \in Outcome, RecordCheck(c, o) PROVE IInv'
  BY <1>1, RecordedTranscript DEF IInv, RecorderTypeOK, WrappedWasTrustworthy, RecordCheck
<1>2. CASE Wrap
  BY <1>2 DEF IInv, RecorderTypeOK, WrappedWasTrustworthy, Wrap
<1>3. CASE UNCHANGED recorderVars
  BY <1>3 DEF IInv, RecorderTypeOK, WrappedWasTrustworthy, recorderVars
<1> QED BY <1>1, <1>2, <1>3 DEF RecorderNext

\* The invariant holds in every reachable state.
LEMMA Invariance == RecorderSpec => []IInv
  BY InitIInv, NextKeepsIInv, PTL DEF RecorderSpec

(***************************************************************************)
(* Type correctness.                                                       *)
(***************************************************************************)
THEOREM TypeCorrect == RecorderSpec => []RecorderTypeOK
<1>1. IInv => RecorderTypeOK
  BY DEF IInv
<1> QED BY Invariance, <1>1, PTL

(***************************************************************************)
(* A wrapper never vouches for a transcript that shows otherwise.          *)
(***************************************************************************)
THEOREM WrapperHonest == RecorderSpec => []WrapperIsHonest
<1>1. IInv => WrapperIsHonest
  <2> SUFFICES ASSUME IInv, wrapped # <<>> PROVE Complete(wrapped) /\ ~Sunk(wrapped)
                                                   /\ Failures(wrapped) \cap Essential = {}
    BY DEF WrapperIsHonest, Complete
  <2>1. Complete(wrapped) /\ Clean(wrapped)
    BY TrustMeansCompleteAndClean DEF IInv, RecorderTypeOK, WrappedWasTrustworthy
  <2> QED BY <2>1 DEF Clean, Sunk, Failures
<1> QED BY Invariance, <1>1, PTL

(***************************************************************************)
(* Once an essential check has recorded anything but a pass, no later      *)
(* record makes the verdict trustworthy.                                   *)
(***************************************************************************)
LEMMA SunkIsNotTrusted ==
  ASSUME NEW r \in Seq(Result), Sunk(r)
  PROVE  ~IsTrustworthy(r)
  BY TrustMeansCompleteAndClean DEF Sunk, Clean

\* A verdict that an essential record sank stays sunk (verdict.rs 648-656).
THEOREM RefusalPermanent == RecorderSpec => RefusalIsPermanent
<1>1. IInv /\ [RecorderNext]_recorderVars => [Sunk(transcript) => ~IsTrustworthy(transcript')]_recorderVars
  <2> SUFFICES ASSUME IInv, [RecorderNext]_recorderVars, Sunk(transcript) PROVE ~IsTrustworthy(transcript')
    OBVIOUS
  <2>1. ASSUME NEW c \in Check, NEW o \in Outcome, RecordCheck(c, o)
        PROVE  transcript' \in Seq(Result) /\ Sunk(transcript')
    BY <2>1, RecordedTranscript DEF RecordCheck, IInv, RecorderTypeOK, Sunk
  <2>2. ASSUME UNCHANGED transcript PROVE transcript' \in Seq(Result) /\ Sunk(transcript')
    BY <2>2 DEF IInv, RecorderTypeOK
  <2>3. transcript' \in Seq(Result) /\ Sunk(transcript')
    BY <2>1, <2>2 DEF RecorderNext, Wrap, recorderVars, IInv, RecorderTypeOK
  <2> QED BY <2>3, SunkIsNotTrusted
<1> QED BY Invariance, <1>1, PTL DEF RecorderSpec, RefusalIsPermanent

(***************************************************************************)
(* No advice licenses proceeding past an essential check that did not pass,*)
(* although the code weighs checks by a second list of its own.            *)
(***************************************************************************)
LEMMA MissingButRun ==
  ASSUME NEW r \in Seq(Result),
         NEW c \in MissingEssentials(r), OutcomeOf(r, c) # NotRun
  PROVE  /\ c \in Essential
         /\ OutcomeOf(r, c) \in Outcome \ {"Passed"}
<1>1. c \in Essential /\ OutcomeOf(r, c) # "Passed"
  BY DEF MissingEssentials
<1>2. RecordsOf(r, c) # {} /\ NonPasses(r, c) # {}
  BY <1>1, NotRunWhenNotRecorded, PassedMeans
<1>3. PICK i \in NonPasses(r, c) : OutcomeOf(r, c) = r[i].outcome
  BY <1>2, RefusalDominates
<1>4. r[i].outcome \in Outcome
  BY RecordedOutcome DEF NonPasses, RecordsOf
<1> QED BY <1>1, <1>3, <1>4

\* disposition never waves a missing essential check through (verdict.rs 386-400).
THEOREM AdviceHolds == RecorderSpec => []AdviceNeverProceeds
<1>1. IInv => AdviceNeverProceeds
  <2> SUFFICES ASSUME IInv,
                      NEW c \in MissingEssentials(transcript), OutcomeOf(transcript, c) # NotRun
               PROVE  Disposition(c, OutcomeOf(transcript, c)) \notin
                        {"Satisfied", "ProceedNonEssential"}
    BY DEF AdviceNeverProceeds, UnrunEssentials, MissingEssentials
  <2>1. c \in Essential /\ OutcomeOf(transcript, c) \in Outcome \ {"Passed"}
    BY MissingButRun DEF IInv, RecorderTypeOK
  <2>2. Weight(c) = "Essential"
    BY <2>1 DEF Weight, Essential
  <2> HIDE DEF IInv
  <2>3. \A o \in Outcome \ {"Passed"} :
          Disposition(c, o) \in {"Refuse"} \cup {Remedy[u] : u \in Unestablished}
    BY <2>2 DEF Disposition, Outcome, Unestablished
  <2>4. \A u \in Unestablished : Remedy[u] \in {"RetryRetrieval", "UpdateReference", "UpdateVerifier"}
    BY DEF Remedy, Unestablished
  <2> QED BY <2>1, <2>3, <2>4
<1> QED BY Invariance, <1>1, PTL

(***************************************************************************)
(* A refusal triaged as an outage names a remedy for every missing check.  *)
(***************************************************************************)
THEOREM OutageNames == RecorderSpec => []OutageNamesRemedies
<1>1. IInv => OutageNamesRemedies
  <2> SUFFICES ASSUME Kind("NotTrustworthy", transcript) = "CouldNotEstablish",
                      NEW c \in MissingEssentials(transcript)
               PROVE  /\ OutcomeOf(transcript, c) # NotRun
                      /\ Disposition(c, OutcomeOf(transcript, c)) \in
                           {"RetryRetrieval", "UpdateReference", "UpdateVerifier"}
    BY DEF OutageNamesRemedies
  <2>1. OutcomeOf(transcript, c) \in Unestablished
    BY DEF Kind, Outages, Violations
  <2>2. \A u \in Unestablished :
          /\ u # NotRun
          /\ Disposition(c, u) \in {"RetryRetrieval", "UpdateReference", "UpdateVerifier"}
    BY DEF Unestablished, Disposition, Remedy, NotRun
  <2> QED BY <2>1, <2>2
<1> QED BY Invariance, <1>1, PTL
=============================================================================
