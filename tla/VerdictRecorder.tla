-------------------------- MODULE VerdictRecorder --------------------------
(***************************************************************************)
(* A verdict while it is assembled.  Verdict::record is public: verify     *)
(* calls it once per check, the WASM binding calls it across the crate     *)
(* boundary, and any embedder may add to a verdict it was handed.  So any  *)
(* check may be recorded at any moment, any number of times.  Before each  *)
(* record somebody may have asked TrustworthyVerdict::check, and holds the *)
(* wrapper if it was granted.                                              *)
(***************************************************************************)
EXTENDS Verdict

CONSTANTS
  StartingResults,  \* the transcripts assembly may start from
  MaxRecords        \* bound on the length of a transcript

ASSUME StartAssumption == StartingResults \subseteq Seq(Result)
ASSUME BoundAssumption == MaxRecords \in Nat

VARIABLES
  transcript,  \* Verdict.results
  wrapped      \* the transcript of the last TrustworthyVerdict granted, or empty

recorderVars == <<transcript, wrapped>>

RecorderTypeOK ==
  /\ transcript \in Seq(Result)
  /\ wrapped \in Seq(Result)

RecorderInit ==
  /\ transcript \in StartingResults
  /\ wrapped = <<>>

\* Verdict::record
RecordCheck(c, o) ==
  /\ Len(transcript) < MaxRecords
  /\ transcript' = Record(transcript, c, o)
  /\ UNCHANGED wrapped

\* TrustworthyVerdict::check, when it grants the wrapper.  When it refuses it
\* hands the verdict back unchanged, which is no step.
Wrap ==
  /\ IsTrustworthy(transcript)
  /\ wrapped # transcript
  /\ wrapped' = transcript
  /\ UNCHANGED transcript

RecorderNext ==
  \/ \E c \in Check, o \in Outcome : RecordCheck(c, o)
  \/ Wrap

RecorderSpec == RecorderInit /\ [][RecorderNext]_recorderVars

-----------------------------------------------------------------------------
(***************************************************************************)
(* Properties.                                                             *)
(***************************************************************************)

(* Some essential check has an outcome on record that is not a pass.       *)
Sunk(r) == \E i \in DOMAIN r : r[i].check \in Essential /\ r[i].outcome # "Passed"

(***************************************************************************)
(* A refusal is permanent: once an essential check has recorded anything   *)
(* but a pass, no later record makes the verdict trustworthy, whatever the *)
(* order of passes and refusals (the domination rule of Verdict::outcome). *)
(***************************************************************************)
RefusalIsPermanent == [][Sunk(transcript) => ~IsTrustworthy(transcript')]_recorderVars

(***************************************************************************)
(* A wrapper never vouches for a transcript that shows otherwise: all the  *)
(* essential checks ran, and none of them ever recorded a refusal, so      *)
(* trust and Verdict::failures never disagree.                             *)
(***************************************************************************)
WrapperIsHonest ==
  wrapped # <<>> =>
    /\ ~Sunk(wrapped)
    /\ \A c \in Essential : \E i \in DOMAIN wrapped : wrapped[i].check = c
    /\ Failures(wrapped) \cap Essential = {}

(***************************************************************************)
(* No advice licenses proceeding.  For every essential check that was      *)
(* recorded and did not pass, what Verdict::disposition advises is a       *)
(* refusal or a remedy, although it weighs checks by a second list.        *)
(***************************************************************************)
AdviceNeverProceeds ==
  \A c \in MissingEssentials(transcript) \ UnrunEssentials(transcript) :
    Disposition(c, OutcomeOf(transcript, c)) \notin {"Satisfied", "ProceedNonEssential"}

(***************************************************************************)
(* A refusal is triaged as an outage only if each essential check that is  *)
(* missing names a remedy in its disposition (Refusal::kind).              *)
(***************************************************************************)
OutageNamesRemedies ==
  (~IsTrustworthy(transcript) /\ Kind("NotTrustworthy", transcript) = "CouldNotEstablish") =>
    \A c \in MissingEssentials(transcript) :
      /\ OutcomeOf(transcript, c) # NotRun
      /\ Disposition(c, OutcomeOf(transcript, c)) \in
           {"RetryRetrieval", "UpdateReference", "UpdateVerifier"}
=============================================================================
