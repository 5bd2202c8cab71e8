---------------------------- MODULE AttestRunner ----------------------------
(***************************************************************************)
(* The runner verify-attestation (examples/verify-attestation.rs).         *)
(*                                                                         *)
(* It judges recorded evidence: a quote, a document and perhaps a leaf out *)
(* of files, with collateral it fetches itself.  The PCCS may answer with  *)
(* any statement, fail, or not answer at all: nothing bounds the fetch.    *)
(***************************************************************************)
EXTENDS Verify

CONSTANTS
  Quotes, Documents, References,  \* what readable files may hold
  Image,     \* --image-digest
  \* Values of their own, different from those of Verify and from one another:
  Omitted,   \* an optional argument that was not given
  BadFile,   \* a file that cannot be read or decoded
  BadHash,   \* text that ComposeHash::parse_hex refuses
  None       \* nothing yet

VARIABLES
  given,       \* the command line and the files it names
  clock,       \* the system clock
  stage,       \* where main is
  collateral,  \* what the PCCS answered, None before that
  results,     \* the verdict, empty before there is one
  exit         \* the exit code, None while it runs

vars == <<given, clock, stage, collateral, results, exit>>

EndpointForm == {Omitted, "Unparseable", "Terminating", "Other"}

Given == [attestation : Quotes \cup {BadFile}, compose : Documents \cup {BadFile},
          hash : ComposeHash \cup {BadHash, Omitted}, leaf : Key \cup {Unreadable, BadFile, Omitted},
          endpoint : EndpointForm, osImage : {"Unnamed", "Revoked", "Known", "Unknown"},
          boot : References \cup {BadFile, Omitted}]

PanicExit == 101

Init ==
  /\ given \in Given /\ clock \in Time /\ stage = "Files"
  /\ collateral = None /\ results = <<>> /\ exit = None

-----------------------------------------------------------------------------
Exit(code) == exit' = code /\ stage' = "Exited"

GoOn(s) == stage' = s /\ UNCHANGED exit

\* Mutant: the document's own hash is what it is compared with.
LicensedHash_Document(g) == g.compose.hash

\* licensed_hash: without one supplied, the document's own.
LicensedHash(g) == IF g.hash = Omitted THEN g.compose.hash ELSE g.hash

LeafExit(g) == IF g.leaf = BadFile THEN 2 ELSE None

\* Mutant: an endpoint that does not parse ends the run.
EndpointExit_Fatal(g) == IF g.endpoint = "Unparseable" THEN 2 ELSE None

\* warn_if_tls_terminating: a warning, and nothing else.
EndpointExit(g) == None

FirstOf(codes) ==
  IF \E i \in DOMAIN codes : codes[i] # None
  THEN codes[CHOOSE i \in DOMAIN codes :
               codes[i] # None /\ \A j \in 1 .. i - 1 : codes[j] = None]
  ELSE None

\* Everything main reads before it fetches: the files it expects to be readable, and
\* the arguments it reports.
FilesExit(g) ==
  IF BadFile \in {g.attestation, g.compose} THEN PanicExit
  ELSE FirstOf(<<IF g.hash = BadHash THEN 2 ELSE None, LeafExit(g), EndpointExit(g)>>)

ReadFiles ==
  /\ stage = "Files"
  /\ IF FilesExit(given) = None THEN GoOn("Fetch") ELSE Exit(FilesExit(given))
  /\ UNCHANGED <<given, clock, collateral, results>>

FetchSucceeds ==
  /\ stage = "Fetch"
  /\ \E col \in Collateral : col.issued <= clock /\ collateral' = col
  /\ GoOn("Images")
  /\ UNCHANGED <<given, clock, results>>

FetchFails ==
  /\ stage = "Fetch"
  /\ Exit(2)
  /\ UNCHANGED <<given, clock, collateral, results>>

ReportOsImage(g) == g.osImage # "Revoked"

\* No image of the bundled table is revoked yet; the branch is there for the day one is.
\* report_os_image, then load_boot_reference, which panics on a file it cannot use.
JudgeImages ==
  /\ stage = "Images"
  /\ IF ~ReportOsImage(given)         THEN Exit(1)
     ELSE IF given.boot = BadFile     THEN Exit(PanicExit)
     ELSE GoOn("Verify")
  /\ UNCHANGED <<given, clock, collateral, results>>

\* A leaf that could not be read never gets here.
PresentedBy(g) == IF g.leaf \in {Omitted, BadFile} THEN NotConnected ELSE g.leaf

EvidenceOf(g) == [quote |-> g.attestation, document |-> g.compose, collateral |-> collateral,
                  now |-> clock, peer |-> PresentedBy(g)]

LicensedBy(g) == [compose |-> LicensedHash(g), image |-> Image]

BootOf(g) == IF g.boot = Omitted THEN NoReference ELSE g.boot

VerdictExit(r) == IF IsTrustworthy(r) THEN 0 ELSE 1

VerifyFiles ==
  /\ stage = "Verify"
  /\ results' = VerifyEvidence(LicensedBy(given), EvidenceOf(given), BootOf(given))
  /\ Exit(VerdictExit(results'))
  /\ UNCHANGED <<given, clock, collateral>>

\* The clock is read after the fetch, however long that took.
Tick ==
  /\ stage = "Fetch" /\ clock < MaxTime
  /\ clock' = clock + 1
  /\ UNCHANGED <<given, stage, collateral, results, exit>>

Next == ReadFiles \/ FetchSucceeds \/ FetchFails \/ JudgeImages \/ VerifyFiles \/ Tick

Spec == Init /\ [][Next]_vars

-----------------------------------------------------------------------------
(***************************************************************************)
(* Properties.                                                             *)
(***************************************************************************)

(***************************************************************************)
(* What exit 0 stands for: everything is established about the evidence of *)
(* the files, and with no licence to consult the quote itself still names  *)
(* the document (verify-attestation.rs 15-27, 139-145).                    *)
(***************************************************************************)
AcceptedIsEstablished ==
  exit = 0 =>
    /\ Established(LicensedBy(given), EvidenceOf(given))
    /\ given.attestation.config = given.compose.hash
    /\ given.hash \in {Omitted, given.compose.hash}

(***************************************************************************)
(* Exit 1 is a refusal: an essential check was not passed, or the image is *)
(* revoked.  What is advisory never refuses (verify-attestation.rs 24-27). *)
(***************************************************************************)
OneIsARefusal ==
  exit = 1 => \/ given.osImage = "Revoked"
              \/ results # <<>> /\ MissingEssentials(results) # {}

(***************************************************************************)
(* A leaf that could not be read is never judged as no connection at all,  *)
(* and a revoked image is never verified, whatever the quote says          *)
(* (verify-attestation.rs 113-118, 171-177).                               *)
(***************************************************************************)
NotForJudgement ==
  given.leaf = BadFile \/ given.osImage = "Revoked" => results = <<>> /\ exit # 0

(***************************************************************************)
(* The exit code says of the evidence what the shell contract promises.    *)
(***************************************************************************)
ExitCodesAreTrue == AcceptedIsEstablished /\ OneIsARefusal /\ NotForJudgement

(***************************************************************************)
(* Exit 2 is a run that judged nothing: for want of collateral, or because *)
(* of the hash or the leaf, and never because of the endpoint, which must  *)
(* not turn a refusal into an inconclusive result (verify-attestation.rs   *)
(* 26-27, 359-366).                                                        *)
(***************************************************************************)
TwoJudgesNothing ==
  [][exit' = 2 => /\ results' = <<>>
                  /\ stage = "Fetch" \/ given.hash = BadHash \/ given.leaf = BadFile]_vars
=============================================================================
