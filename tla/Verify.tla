------------------------------- MODULE Verify -------------------------------
(***************************************************************************)
(* Evidence, and the judgement of it: verify.rs over attest.rs, binding.rs *)
(* channel.rs and images.rs.  verify is a pure function of what it is      *)
(* handed; it performs no I/O and reads no clock.                          *)
(*                                                                         *)
(* Cryptography is perfect here.  A document is known by its hash, a       *)
(* certificate by the key it carries, and report_data commits to a key.    *)
(***************************************************************************)
EXTENDS Verdict, Integers

CONSTANTS
  Key,          \* TLS keys; a leaf certificate's SubjectPublicKeyInfo
  ComposeHash,  \* hashes of compose documents
  ImageDigest,  \* digests of images
  Platform,     \* platforms Intel issues collateral for (FMSPC)
  Measured,     \* values of a boot register
  MaxTime,      \* bound on the clock
  MinSvn,       \* MinSvn[t]: the least TCB level Intel's statement issued at t accepts
  Validity,     \* how long a statement of Intel's stays valid
  NoKey,        \* an all-zero report_data: the quote commits to nothing
  NotConnected, \* PeerCertificate::NotConnected
  Unreadable,   \* a leaf certificate, or an attestation in one, that does not parse
  NoReference,  \* no boot reference was supplied
  Absent        \* a register the boot reference does not name

ASSUME SpecialsAssumption ==
  /\ {NoKey, NotConnected, Unreadable} \cap Key = {}
  /\ Absent \notin Measured

ASSUME IntelAssumption ==
  /\ Validity \in Nat
  /\ MaxTime \in Nat
  /\ MinSvn \in [0 .. MaxTime -> Nat]

Time == 0 .. MaxTime

\* A compose document: its hash, whether it parses with every image pinned by
\* digest, and the digests it names.
Document == [hash : ComposeHash, pinned : BOOLEAN, digests : SUBSET ImageDigest]

LicensedVersion == [compose : ComposeHash, image : ImageDigest]

\* The registers a reference may name; RTMR3 varies per boot and is not one.
Register == {"MRTD", "RTMR0", "RTMR1", "RTMR2"}

BootReference == [Register -> Measured \cup {Absent}]

ASSUME ReferenceAssumption == NoReference \notin BootReference

\* Raw quote bytes.  Quote::parse and dcap-qvl read the same bytes with
\* different parsers, so "parses" and "genuine" are independent.
Quote == [parses : BOOLEAN, genuine : BOOLEAN,
          platform : Platform, svn : Nat,
          version : {"V1", "V2", "Unknown"}, config : ComposeHash,
          boot : [Register -> Measured], commits : Key \cup {NoKey}]

\* Intel's signed statement about a platform, by the time it was issued.  The
\* root it is verified against is compiled into dcap-qvl, so there are no others.
Collateral == [platform : Platform, issued : Time]

PeerCertificate == Key \cup {NotConnected, Unreadable}

Evidence == [quote : Quote, document : Document, collateral : Collateral,
             now : Time, peer : PeerCertificate]

-----------------------------------------------------------------------------
(***************************************************************************)
(* attest.rs.  QvlVerifies is dcap_qvl::verify::verify.                    *)
(***************************************************************************)
InWindow(col, now) == col.issued <= now /\ now <= col.issued + Validity

QvlVerifies(q, col, now) ==
  q.genuine /\ col.platform = q.platform /\ InWindow(col, now)

TcbLevel(q, col) == IF q.svn >= MinSvn[col.issued] THEN "UpToDate" ELSE "OutOfDate"

IsTcbAcceptable(status) == status = "UpToDate"

VerifyQuote(q, col, now) ==
  IF ~QvlVerifies(q, col, now)                   THEN "SignatureInvalid"
  ELSE IF ~IsTcbAcceptable(TcbLevel(q, col))     THEN "TcbUnacceptable"
  ELSE "Attested"

(***************************************************************************)
(* binding.rs and channel.rs.                                              *)
(***************************************************************************)
\* Mutants: any configuration will do; an unknown version is not a refusal;
\* a version that cannot be judged passes.
CheckMrConfigId_AnyConfig(q, licensed) ==
  IF q.version = "V2" THEN "VerifierCannotJudge" ELSE "Passed"

CheckMrConfigId_UnknownIsOutage(q, licensed) ==
  IF q.version = "V1" THEN (IF q.config = licensed THEN "Passed" ELSE "Failed")
                      ELSE "VerifierCannotJudge"

CheckMrConfigId_TrustsV2(q, licensed) ==
  IF q.version # "Unknown" /\ q.config = licensed THEN "Passed" ELSE "Failed"

CheckMrConfigId(q, licensed) ==
  CASE q.version = "V1"      -> IF q.config = licensed THEN "Passed" ELSE "Failed"
    [] q.version = "V2"      -> "VerifierCannotJudge"
    [] q.version = "Unknown" -> "Failed"

\* Mutant: the quote commits to some key, whoever holds it.
ChannelBinding_AnyKey(leaf, q) == q.commits # NoKey /\ leaf # Unreadable

ChannelBinding(leaf, q) == q.commits # NoKey /\ leaf # Unreadable /\ leaf = q.commits

-----------------------------------------------------------------------------
(***************************************************************************)
(* verify: one outcome for every check, in the order the code records them.*)
(***************************************************************************)
Judge(passes) == IF passes THEN "Passed" ELSE "Failed"

ChannelBound(peer, q) ==
  IF peer = NotConnected THEN "Skipped" ELSE Judge(ChannelBinding(peer, q))

BootMatches(q, boot) == \A r \in Register : boot[r] \in {Absent, q.boot[r]}

\* Mutant: a reference that names no register is no reference.
BootOutcome_Empty(q, boot) ==
  IF boot = NoReference \/ \A r \in Register : boot[r] = Absent
  THEN "ReferenceUnavailable" ELSE Judge(BootMatches(q, boot))

BootOutcome(q, boot) ==
  IF boot = NoReference THEN "ReferenceUnavailable" ELSE Judge(BootMatches(q, boot))

\* The checks of the document's contents run only on the licensed document.
CheckOutcome(c, licensed, e, boot) ==
  LET licensedDocument == e.document.hash = licensed.compose
      attested == VerifyQuote(e.quote, e.collateral, e.now)
  IN  CASE c = "ComposeHash"  -> Judge(licensedDocument)
        [] c = "ImagesPinned" ->
             IF licensedDocument THEN Judge(e.document.pinned) ELSE "Skipped"
        [] c = "LicensedImagePresent" ->
             IF licensedDocument
             THEN Judge(e.document.pinned /\ licensed.image \in e.document.digests)
             ELSE "Skipped"
        [] c = "QuoteSignature" -> Judge(attested # "SignatureInvalid")
        [] c = "TcbStatus" ->
             IF attested = "SignatureInvalid" THEN "Skipped" ELSE Judge(attested = "Attested")
        [] c = "MrConfigId" ->
             IF e.quote.parses THEN CheckMrConfigId(e.quote, licensed.compose) ELSE "Failed"
        [] c = "BootMeasurements" ->
             IF e.quote.parses THEN BootOutcome(e.quote, boot) ELSE "Skipped"
        [] c = "ChannelBound" ->
             IF e.quote.parses THEN ChannelBound(e.peer, e.quote) ELSE "Failed"

VerifyEvidence(licensed, e, boot) ==
  LET Checked(c) == [check |-> c, outcome |-> CheckOutcome(c, licensed, e, boot)]
  IN  <<Checked("ComposeHash"), Checked("ImagesPinned"), Checked("LicensedImagePresent"),
        Checked("QuoteSignature"), Checked("TcbStatus"), Checked("MrConfigId"),
        Checked("BootMeasurements"), Checked("ChannelBound")>>

\* Mutant: the statement is recorded only of a platform that is accepted.
AttestedTcb_AcceptedOnly(e) ==
  IF VerifyQuote(e.quote, e.collateral, e.now) # "Attested"
  THEN "None" ELSE TcbLevel(e.quote, e.collateral)

\* Verdict::attested_tcb, recorded with the two attestation checks.
AttestedTcb(e) ==
  IF VerifyQuote(e.quote, e.collateral, e.now) = "SignatureInvalid"
  THEN "None" ELSE TcbLevel(e.quote, e.collateral)

-----------------------------------------------------------------------------
(***************************************************************************)
(* What a trustworthy verdict is meant to establish, stated from the facts *)
(* and not from the checks: an unaltered quote by an Intel platform whose  *)
(* TCB a statement of Intel's no older than its validity accepts, measured *)
(* to run the licensed configuration, committing to the peer's own key,    *)
(* with the licensed document itself pinned and naming the licensed image. *)
(***************************************************************************)
LicensedDocument(licensed, d) ==
  d.hash = licensed.compose /\ d.pinned /\ licensed.image \in d.digests

AttestsKey(q, licensed, k) ==
  /\ q.parses /\ q.genuine
  /\ q.version = "V1" /\ q.config = licensed.compose
  /\ k \in Key /\ q.commits = k

FreshTcb(q, col, now) ==
  /\ col.platform = q.platform
  /\ now \in col.issued .. col.issued + Validity
  /\ q.svn >= MinSvn[col.issued]

Established(licensed, e) ==
  /\ LicensedDocument(licensed, e.document)
  /\ AttestsKey(e.quote, licensed, e.peer)
  /\ FreshTcb(e.quote, e.collateral, e.now)
=============================================================================
