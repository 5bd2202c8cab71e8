------------------------------ MODULE Verdict ------------------------------
(***************************************************************************)
(* What a verdict is and what it answers (verdict.rs).                     *)
(*                                                                         *)
(* A verdict is the sequence of the checks performed and the outcome of    *)
(* each, in the order they were recorded.  An outcome's explanation is     *)
(* dropped; the cause of an Indeterminate outcome is kept, because the     *)
(* code branches on it, and stands for the outcome itself.                 *)
(***************************************************************************)
EXTENDS Naturals, Sequences

Essential == {"ComposeHash", "ImagesPinned", "LicensedImagePresent",
              "QuoteSignature", "TcbStatus", "MrConfigId", "ChannelBound"}

Check == Essential \cup {"BootMeasurements"}

\* The causes of an Indeterminate outcome, each with a remedy.
Unestablished == {"RetrievalFailed", "ReferenceUnavailable", "VerifierCannotJudge"}

Outcome == {"Passed", "Failed", "Skipped"} \cup Unestablished

\* One entry of a transcript, and a transcript.
Result == [check : Check, outcome : Outcome]

Record(results, c, o) == Append(results, [check |-> c, outcome |-> o])

NotRun == "NotRun"

-----------------------------------------------------------------------------
(***************************************************************************)
(* The answer for one check: its first outcome that is not a pass, and a   *)
(* pass only when no other outcome was recorded for it.                    *)
(***************************************************************************)
RecordsOf(results, c) == {i \in DOMAIN results : results[i].check = c}

NonPasses(results, c) == {i \in RecordsOf(results, c) : results[i].outcome # "Passed"}

\* Mutant: the last record of a check answers for it.
OutcomeOf_LastWins(results, c) ==
  LET records == RecordsOf(results, c)
  IN  IF records = {} THEN NotRun
      ELSE results[CHOOSE i \in records : \A j \in records : j <= i].outcome

OutcomeOf(results, c) ==
  LET dominant == IF NonPasses(results, c) # {} THEN NonPasses(results, c)
                                                ELSE RecordsOf(results, c)
  IN  IF dominant = {} THEN NotRun
      ELSE results[CHOOSE i \in dominant : \A j \in dominant : i <= j].outcome

UnrunEssentials(results) == {c \in Essential : OutcomeOf(results, c) = NotRun}

MissingEssentials(results) == {c \in Essential : OutcomeOf(results, c) # "Passed"}

Failures(results) == {results[i].check : i \in {j \in DOMAIN results : results[j].outcome = "Failed"}}

\* Mutant: a check that never ran is not missed.
IsTrustworthy_NoFailures(results) == Failures(results) = {}

IsTrustworthy(results) == MissingEssentials(results) = {}

-----------------------------------------------------------------------------
(***************************************************************************)
(* What to do about one check.  The code decides a check's weight a second *)
(* time, independently of the list of essential checks, so the model does. *)
(***************************************************************************)
\* Mutant: the second list of essential checks forgets one.
Weight_Forgets(c) ==
  IF c \in {"BootMeasurements", "ChannelBound"} THEN "Advisory" ELSE "Essential"

Weight(c) == IF c = "BootMeasurements" THEN "Advisory" ELSE "Essential"

Remedy == [cause \in Unestablished |->
             CASE cause = "RetrievalFailed"      -> "RetryRetrieval"
               [] cause = "ReferenceUnavailable" -> "UpdateReference"
               [] cause = "VerifierCannotJudge"  -> "UpdateVerifier"]

Disposition(c, o) ==
  CASE o = "Passed"  -> "Satisfied"
    [] o = "Failed"  -> "Refuse"
    [] o = "Skipped" -> IF Weight(c) = "Essential" THEN "Refuse" ELSE "ProceedNonEssential"
    [] o \in Unestablished -> Remedy[o]

-----------------------------------------------------------------------------
(***************************************************************************)
(* Why a connection was refused (connect.rs), and the coarse triage of it. *)
(* A refusal carries the transcript when verification got far enough to    *)
(* record one, and the empty transcript otherwise.                         *)
(***************************************************************************)
Outages == {"NotReached", "CollateralUnavailable"}
Violations == {"HandshakeFailed", "NoPeerCertificate", "NoAttestation",
               "UnreadableAttestation"}
RefusalReason == Outages \cup Violations \cup {"TerminatingEndpoint", "NotTrustworthy"}

RefusalKind == {"GuaranteeViolated", "CouldNotEstablish", "EndpointUnusable"}

\* Mutant: the negative form, under which a check that never ran is an outage.
Kind_Negative(reason, results) ==
  CASE reason = "TerminatingEndpoint" -> "EndpointUnusable"
    [] reason \in Outages             -> "CouldNotEstablish"
    [] reason \in Violations          -> "GuaranteeViolated"
    [] reason = "NotTrustworthy"      ->
         IF \E c \in MissingEssentials(results) : OutcomeOf(results, c) \in {"Failed", "Skipped"}
         THEN "GuaranteeViolated" ELSE "CouldNotEstablish"

Kind(reason, results) ==
  CASE reason = "TerminatingEndpoint" -> "EndpointUnusable"
    [] reason \in Outages             -> "CouldNotEstablish"
    [] reason \in Violations          -> "GuaranteeViolated"
    [] reason = "NotTrustworthy"      ->
         IF /\ UnrunEssentials(results) = {}
            /\ \A c \in MissingEssentials(results) : OutcomeOf(results, c) \in Unestablished
         THEN "CouldNotEstablish"
         ELSE "GuaranteeViolated"
=============================================================================
