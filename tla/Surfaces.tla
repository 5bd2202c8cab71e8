------------------------------ MODULE Surfaces ------------------------------
(***************************************************************************)
(* The ways into and out of the verifier that keep no client: the bindings *)
(* (Bindings), the runner on recorded evidence (AttestRunner), and what    *)
(* reads one input each: the quote parser, the endpoint, the version of an *)
(* OS image, the name of a document, the scan of a document's services.    *)
(*                                                                         *)
(* They share no state, so a behaviour is one of one of them, named by     *)
(* part, and the others rest.                                              *)
(***************************************************************************)
EXTENDS Bindings

(***************************************************************************)
(* The runner reads files of its own.                                      *)
(***************************************************************************)
CONSTANTS RunnerQuotes, RunnerDocuments, RunnerReferences, Omitted, BadFile, BadHash, None

VARIABLES given, clock, stage, collateral, results, exit

Runner == INSTANCE AttestRunner WITH
  Quotes <- RunnerQuotes, Documents <- RunnerDocuments, References <- RunnerReferences

\* None stands where an exit code will.
ASSUME RunnerAssumption ==
  /\ RunnerQuotes \subseteq Quote /\ RunnerDocuments \subseteq Document
  /\ RunnerReferences \subseteq BootReference
  /\ None \notin Nat

(***************************************************************************)
(* The inputs that are read.                                               *)
(***************************************************************************)
CONSTANTS HeaderLen, OffMrtd, MeasurementLen, ReportDataLen, SigLenWidth, SigLens,
          NarrowMax, WideMax, MaxDigits

VARIABLES file, stray, digits

Parser == INSTANCE QuoteParse WITH quote <- file

\* A usize is no wider on wasm32, and holds the length of any slice.
ASSUME ParserAssumption ==
  /\ {HeaderLen, OffMrtd, MeasurementLen, ReportDataLen, SigLenWidth} \subseteq Nat
  /\ SigLens \subseteq Nat
  /\ {NarrowMax, WideMax, MaxDigits} \subseteq Nat
  /\ NarrowMax <= WideMax /\ MaxDigits <= 2 * NarrowMax

CONSTANTS Port, MaxPort, Scheme, AppId, AppPort

VARIABLES scheme, authority

Address == INSTANCE Endpoint

CONSTANTS MaxMajor, MaxMinor, MaxPatch, MaxParts

VARIABLES prefixed, parts

Release == INSTANCE ReferenceData

ASSUME ReleaseAssumption == {MaxMajor, MaxMinor, MaxPatch, MaxParts} \subseteq Nat

VARIABLES text, uri, made

Names == INSTANCE ComposeUris

CONSTANTS MaxServices, Unnamed, Hash

VARIABLES shape, services, licensed, next, found, pc, outcome

Scan == INSTANCE Images

ASSUME ScanAssumption == MaxServices \in Nat

-----------------------------------------------------------------------------
VARIABLE part

runnerVars  == <<given, clock, stage, collateral, results, exit>>
parserVars  == <<file, stray, digits>>
addressVars == <<scheme, authority>>
releaseVars == <<prefixed, parts>>
nameVars    == <<text, uri, made>>
scanVars    == <<shape, services, licensed, next, found, pc, outcome>>

surfacesVars == <<part, vars, runnerVars, parserVars, addressVars, releaseVars, nameVars,
                  scanVars>>

Part == {"Bindings", "Runner", "Parser", "Address", "Release", "Names", "Scan"}

PartsInit ==
  Init /\ Runner!Init /\ Parser!Init /\ Address!Init /\ Release!Init /\ Names!Init /\ Scan!Init

SurfacesInit == part \in Part /\ PartsInit

Rests(p) ==
  CASE p = "Bindings" -> UNCHANGED vars
    [] p = "Runner"   -> UNCHANGED runnerVars
    [] p = "Parser"   -> UNCHANGED parserVars
    [] p = "Address"  -> UNCHANGED addressVars
    [] p = "Release"  -> UNCHANGED releaseVars
    [] p = "Names"    -> UNCHANGED nameVars
    [] p = "Scan"     -> UNCHANGED scanVars

Acts(p) == part = p /\ UNCHANGED part /\ \A q \in Part \ {p} : Rests(q)

SurfacesNext ==
  \/ Acts("Bindings") /\ Next
  \/ Acts("Runner") /\ Runner!Next
  \/ Acts("Parser") /\ Parser!Next
  \/ Acts("Address") /\ Address!Next
  \/ Acts("Release") /\ Release!Next
  \/ Acts("Names") /\ Names!Next
  \/ Acts("Scan") /\ Scan!Next

SurfacesSpec == SurfacesInit /\ [][SurfacesNext]_surfacesVars

-----------------------------------------------------------------------------
(***************************************************************************)
(* The properties of the parts, each stated in its module.                 *)
(***************************************************************************)

\* The exit code of verify-attestation says of the evidence what its contract promises.
ExitCodesAreTrue == Runner!ExitCodesAreTrue

\* Exit 2 of verify-attestation is a run that judged nothing, never for the endpoint.
TwoJudgesNothing == Runner!TwoJudgesNothing

\* Quote::parse_hex takes exactly the texts that spell a whole quote, at either width.
WholeQuotesOnly == Parser!WholeQuotesOnly

\* What Quote::parse says of a file that was cut is that bytes are missing.
AnswerStands == Parser!AnswerStands

\* The advice of a refused endpoint leads to the same app, and naming a port moves the port.
OperatorReachesTheApp == Address!OperatorReachesTheApp

\* Of well-formed names, meets_minimum_version vouches for no old image, and for the
\* updates of the others.
VersionsAreOrdered == Release!VersionsAreOrdered

\* A compose name that is made can be retrieved, and padding and printing keep it.
NamesAreSound == Names!NamesAreSound

\* pinned_images passes exactly what verify calls the contents of the licensed document.
ScanAgreesWithVerify == Scan!ScanAgreesWithVerify
=============================================================================
