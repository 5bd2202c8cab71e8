--------------------------- MODULE ConnectRunner ---------------------------
(***************************************************************************)
(* The runner connect-verified (examples/connect-verified.rs) over the     *)
(* client of VerifiedTransport.                                            *)
(*                                                                         *)
(* It reads what it was given, calls connect_verified once and the get of  *)
(* the client once, one after the other, and reduces what happened to an   *)
(* exit code that shell scripts branch on.  The process Get stands for the *)
(* call of get; nothing is answered after the exit.                        *)
(***************************************************************************)
EXTENDS VerifiedTransport

CONSTANTS Get

\* Rust's own, for a panic in main.
PanicExit == 101

\* A run opens at least one connection; None is no exit code.
ASSUME RunnerAssumption ==
  /\ Thread = {Get} /\ MaxRequests = 1
  /\ MaxConns >= 1
  /\ None \notin {0, 1, 2, PanicExit}

VARIABLES
  given,  \* what the command line and the files named on it hold
  stage,  \* where main is
  exit    \* the exit code, None while it runs

runnerVars == <<given, stage, exit>>
allVars == <<vars, runnerVars>>

\* Whether an argument is usable.  The endpoint here only parses or does not; its
\* form is terminating of VerifiedTransport.  A usable boot reference is Boot.
Given == [required : BOOLEAN, endpoint : BOOLEAN, compose : BOOLEAN, hash : BOOLEAN,
          osImage : {"Unnamed", "Revoked", "Known", "Unknown"},
          boot : BOOLEAN, runtime : BOOLEAN]

RunnerInit == Init /\ given \in Given /\ stage = "SetUp" /\ exit = None

-----------------------------------------------------------------------------
Exit(code) == exit' = code /\ stage' = "Exited" /\ UNCHANGED given

Reach(s) == stage' = s /\ UNCHANGED <<given, exit>>

\* report_os_image: a revoked image aborts; an unknown one is a warning.
ReportOsImage(g) == g.osImage # "Revoked"

\* Mutant: the OS image is looked at only once connected.
SetUpExit_RevocationLater(g) ==
  IF ~g.required THEN PanicExit
  ELSE IF ~(g.endpoint /\ g.compose /\ g.hash /\ g.boot /\ g.runtime) THEN 2 ELSE None

\* main before it connects: None when it goes on.
SetUpExit(g) ==
  IF ~g.required                              THEN PanicExit
  ELSE IF ~(g.endpoint /\ g.compose /\ g.hash) THEN 2
  ELSE IF ~ReportOsImage(g)                   THEN 1
  ELSE IF ~(g.boot /\ g.runtime)              THEN 2
  ELSE None

SetUp ==
  /\ stage = "SetUp"
  /\ IF SetUpExit(given) = None THEN Reach("Connect") ELSE Exit(SetUpExit(given))
  /\ UNCHANGED vars

Connecting ==
  /\ stage = "Connect"
  /\ ConnectVerified \/ Panic(Main)
  /\ UNCHANGED runnerVars

\* Mutant: the exit code follows the triage of the refusal.
ConnectExit_ByKind(a) == IF a.refusal.kind = "CouldNotEstablish" THEN 2 ELSE 1

\* What connect_verified answered: any refusal is a failure.
ConnectExit(a) == 1

Connected ==
  /\ stage = "Connect"
  /\ \/ pc[Main] = "Ready" /\ Reach("Request")
     \/ pc[Main] = "Done" /\ Exit(ConnectExit(answer[Main]))
     \/ pc[Main] = "Panicked" /\ Exit(PanicExit)
  /\ UNCHANGED vars

\* client.get: one request, and ureq's retries of it.
Requesting ==
  /\ stage = "Request"
  /\ \/ pc[Get] = "Idle" /\ BeginRequest(Get)
     \/ Request(Get)
     \/ Panic(Get)
  /\ UNCHANGED runnerVars

\* What report_connected makes of the answer, a refusal of a reconnect included.
GetExit(a) == IF a.status = "Ok" THEN 0 ELSE 2

Requested ==
  /\ stage = "Request"
  /\ \/ pc[Get] = "Done" /\ Exit(GetExit(answer[Get]))
     \/ pc[Get] = "Panicked" /\ Exit(PanicExit)
  /\ UNCHANGED vars

WorldMoves == stage # "Exited" /\ World /\ UNCHANGED runnerVars

RunnerNext == SetUp \/ Connecting \/ Connected \/ Requesting \/ Requested \/ WorldMoves

RunnerSpec == RunnerInit /\ [][RunnerNext]_allVars

(***************************************************************************)
(* main runs; the dial and the handshake have their timeouts, the source of*)
(* collateral the 30 seconds of PhalaPccs, and an operation of the get ends*)
(* as OwnRequest of VerifiedTransport says.                                *)
(***************************************************************************)
OwnSteps ==
  \/ SetUp \/ Connected \/ Requested
  \/ stage = "Connect" /\ OwnConnect /\ UNCHANGED runnerVars
  \/ /\ stage = "Request"
     /\ (pc[Get] = "Idle" /\ BeginRequest(Get)) \/ OwnRequest(Get)
     /\ UNCHANGED runnerVars

FairRunnerSpec == RunnerSpec /\ WF_allVars(OwnSteps)

-----------------------------------------------------------------------------
(***************************************************************************)
(* Properties.                                                             *)
(***************************************************************************)

(***************************************************************************)
(* Exit 0 is the positive the closed loop demonstrates: the licensed       *)
(* configuration was verified, and the body came over a connection to an   *)
(* attested peer whose key the client shows (connect-verified.rs 44,       *)
(* 279-284).                                                               *)
(***************************************************************************)
SuccessIsEarned ==
  exit = 0 =>
    /\ \E c \in Conn : conns[c].carried /\ Genuine(c)
    /\ Genuine(LatestVerification.conn)
    /\ answer[Get].status = "Ok"

(***************************************************************************)
(* A run that refuses has sent nothing: exit 1 never follows a request     *)
(* (connect-verified.rs 45, 308-313).                                      *)
(***************************************************************************)
RefusalSentNothing == exit = 1 => \A c \in Conn : ~conns[c].carried

(***************************************************************************)
(* A revoked OS image is refused before anything is dialled, whatever else *)
(* is wrong with the run and whatever answers (connect-verified.rs 16-22,  *)
(* 144-148).                                                               *)
(***************************************************************************)
RevokedNeverDials ==
  given.osImage = "Revoked" => exit # 0 /\ \A c \in Conn : conns[c].peer = None

(***************************************************************************)
(* What keeps exit 1 and exit 2 apart: a peer that is not the attested one,*)
(* met while connecting and looked at, is a refusal and never a run that   *)
(* could not be performed; and a run that never got to dial is a refusal   *)
(* only for a revoked image or the terminating form (connect-verified.rs   *)
(* 42-48, 120-121).  The converse, that a run that could not be performed  *)
(* never exits 1, is OutageExitsTwo, and does not hold.                    *)
(***************************************************************************)
NoCollateral ==
  /\ pc[Main] = "Done"
  /\ answer[Main].refusal # None /\ answer[Main].refusal.reason = "CollateralUnavailable"

CodesDoNotBlur ==
  exit \in {0, 1, 2} =>
    /\ conns[1].peer # None /\ conns[1].peer \notin TrustedPeers /\ ~NoCollateral => exit = 1
    /\ pc[Main] = "Start" /\ exit = 1 => given.osImage = "Revoked"

(***************************************************************************)
(* What the exit code says of the run: 0 is earned, 1 has sent nothing, a  *)
(* revoked image dials nothing, and a wrong peer that was looked at is a   *)
(* refusal (connect-verified.rs 16-22, 42-48, 144-148, 279-313).           *)
(***************************************************************************)
CodesAreTrue == SuccessIsEarned /\ RefusalSentNothing /\ RevokedNeverDials /\ CodesDoNotBlur

(***************************************************************************)
(* What connect-verified.rs:47-48 says: a run whose collateral could not be*)
(* fetched exits 2, so that no outage reads as a refusal.  Every Err of    *)
(* connect_verified exits 1 (180-194).                                     *)
(***************************************************************************)
OutageExitsTwo == exit # None /\ NoCollateral => exit = 2

(***************************************************************************)
(* The runner ends, whatever the PCCS does and whoever answers, through the*)
(* dial, the retries of its get and a connection dialled again, unless a   *)
(* peer that dribbles holds the get on a connection that it keeps open     *)
(* (connect-verified.rs 95-103, 178-195).                                  *)
(***************************************************************************)
RunnerEnds == <>(exit # None) \/ <>[]Held(Get)
=============================================================================
