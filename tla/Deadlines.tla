----------------------------- MODULE Deadlines -----------------------------
(***************************************************************************)
(* The time a call may take (connect/tls.rs dial, resolve and DeadlineIo,  *)
(* connect/http.rs set_deadline, transmit_output and await_input).         *)
(*                                                                         *)
(* One caller dials, then makes a request on that connection or on one it  *)
(* dials for it.  A peer answers, stays silent, hangs up, answers wrongly, *)
(* or sends bytes that complete nothing, for as long as it likes.  Time    *)
(* passes while the caller waits for a peer; its own steps take none.      *)
(***************************************************************************)
EXTENDS Naturals

CONSTANTS
  ConnectTimeout, HandshakeTimeout, RequestTimeout,  \* ConnectOptions
  Messages,   \* how many messages of the peer complete a handshake, or a response
  MaxLookup,  \* bound on how long the system's resolver takes
  MaxTime     \* bound on the clock

ASSUME TimeoutAssumption ==
  /\ ConnectTimeout \in Nat /\ HandshakeTimeout \in Nat /\ RequestTimeout \in Nat
  /\ Messages \in Nat \ {0}
  /\ MaxLookup \in Nat /\ MaxTime \in Nat

VARIABLES
  now,          \* the monotonic clock
  pc,
  inRequest,    \* the dial is made for a request
  asked,        \* when the dial began, and the resolver was asked for the host
  dialled,      \* when an address was dialled
  handshakeBy,  \* DeadlineIo.deadline, 0 while this dial has none
  begun,        \* when the request began
  requestBy,    \* ureq's global deadline for the request
  timeout,      \* the timeout set on the socket, Never when there is none
  wake,         \* when the wait in progress times out
  heard,        \* when the peer was last heard
  messages,     \* messages of the peer that were completed
  inbox,        \* what the peer sent into a handshake, for the next read of the caller
  behind,       \* and what followed it at once, for the read after that
  wrongAt,      \* when an answer that is no handshake arrived, Never while none did
  outcome

marks == <<asked, dialled, begun>>
socketVars == <<timeout, wake, heard>>
answerVars == <<inbox, behind, wrongAt>>
vars == <<now, pc, inRequest, marks, handshakeBy, requestBy, socketVars, messages, answerVars,
          outcome>>

Never == MaxTime + 1

Waiting == {"Resolving", "Connecting", "HandshakeRead", "RequestRead"}

\* Bytes that complete no message, one that does, a signature by another key or an
\* alert or a protocol violation, and the end of the connection.
Answer == {"Bytes", "Message", "Wrong", "Close"}

TimesOK ==
  /\ now \in 0 .. MaxTime /\ asked \in 0 .. MaxTime /\ dialled \in 0 .. MaxTime
  /\ begun \in 0 .. MaxTime /\ heard \in 0 .. MaxTime
  /\ handshakeBy \in Nat /\ requestBy \in Nat /\ wake \in Nat
  /\ timeout \in Nat \ {0}    \* a socket takes no timeout of zero
  /\ messages \in 0 .. Messages

StepsOK ==
  /\ pc \in Waiting \cup {"Start", "Handshake", "Leaf", "Idle", "Request", "Done"}
  /\ inRequest \in BOOLEAN
  /\ outcome \in {"None", "Ok", "Io", "NotReached", "HandshakeFailed", "NoPeerCertificate"}

AnswersOK ==
  /\ inbox \in Answer \cup {"Nothing"} /\ behind \in Answer \cup {"Nothing"}
  /\ wrongAt \in 0 .. Never

TypeOK == TimesOK /\ StepsOK /\ AnswersOK

Init ==
  /\ now = 0 /\ pc = "Start" /\ inRequest = FALSE
  /\ asked = 0 /\ dialled = 0 /\ handshakeBy = 0 /\ begun = 0 /\ requestBy = 0
  /\ timeout = Never /\ wake = 0 /\ heard = 0
  /\ messages = 0 /\ inbox = "Nothing" /\ behind = "Nothing"
  /\ wrongAt = Never /\ outcome = "None"

-----------------------------------------------------------------------------
Fail(o) ==
  /\ pc' = "Done" /\ outcome' = o
  /\ UNCHANGED <<now, inRequest, marks, handshakeBy, requestBy, socketVars, messages, answerVars>>

Wait(t) == wake' = now + t

(***************************************************************************)
(* dial.  A host TLS cannot name is refused before anything is asked of    *)
(* the network.  The lookup has no timeout; the first address it answers   *)
(* is dialled within connect_timeout, which starts only then.              *)
(***************************************************************************)
BadServerName == pc = "Start" /\ Fail("NotReached")

StartDial ==
  /\ pc = "Start"
  /\ pc' = "Resolving" /\ asked' = now /\ handshakeBy' = 0
  /\ UNCHANGED <<now, inRequest, dialled, begun, requestBy, socketVars, messages, answerVars,
                 outcome>>

Resolves ==
  /\ pc = "Resolving"
  /\ pc' = "Connecting" /\ dialled' = now
  /\ Wait(ConnectTimeout)
  /\ UNCHANGED <<now, inRequest, asked, begun, handshakeBy, requestBy, timeout, heard, messages,
                 answerVars, outcome>>

Unresolved == pc = "Resolving" /\ Fail("NotReached")

\* Refused or unreachable; not answered within connect_timeout.
ConnectFails == pc = "Connecting" /\ Fail("NotReached")

ConnectTimesOut == pc = "Connecting" /\ now = wake /\ Fail("NotReached")

Connects ==
  /\ pc = "Connecting"
  /\ pc' = "Handshake" /\ handshakeBy' = now + HandshakeTimeout /\ messages' = 0
  /\ UNCHANGED <<now, inRequest, marks, requestBy, socketVars, answerVars, outcome>>

\* ClientConnection::new may fail before anything is sent.
NoClientHello == pc = "Connecting" /\ Fail("HandshakeFailed")

(***************************************************************************)
(* The handshake: complete_io and the match on its result.  Every read is  *)
(* given the time that remains; bytes that complete no message bring rustls*)
(* back for another.  What the peer sent stays in the socket until it is   *)
(* read, and what went wrong comes back as an io::Error either way: rustls *)
(* wraps its own error in one.                                             *)
(***************************************************************************)
PeerSends ==
  /\ pc = "HandshakeRead" /\ inbox = "Nothing"
  /\ inbox' \in Answer
  /\ behind' \in IF inbox' = "Bytes" THEN Answer \cup {"Nothing"} ELSE {"Nothing"}
  /\ wrongAt' = IF "Wrong" \in {inbox', behind'} THEN now ELSE wrongAt
  /\ UNCHANGED <<now, pc, inRequest, marks, handshakeBy, requestBy, socketVars, messages, outcome>>

\* Mutant: the handshake's reads are given no timeout.
Remaining_Never == Never

\* Mutant: each read is given the whole budget again.
Remaining_PerRead == HandshakeTimeout

Remaining == handshakeBy - now

\* Mutants: a budget of exactly nothing is handed to the socket; the last of it
\* is not used.
HasBudget_Zero == now <= handshakeBy
HasBudget_Early == now + 1 < handshakeBy

HasBudget == now < handshakeBy

Arm ==
  /\ pc = "Handshake" /\ HasBudget
  /\ pc' = "HandshakeRead"
  /\ timeout' = Remaining /\ Wait(Remaining)
  /\ UNCHANGED <<now, inRequest, marks, handshakeBy, requestBy, heard, messages, answerVars, outcome>>

ReadMore ==
  /\ pc = "HandshakeRead" /\ inbox \in {"Bytes", "Message"}
  /\ inbox' = behind /\ behind' = "Nothing" /\ heard' = now
  /\ messages' = IF inbox = "Message" THEN messages + 1 ELSE messages
  /\ pc' = IF messages' = Messages THEN "Leaf" ELSE "Handshake"
  /\ UNCHANGED <<now, inRequest, marks, handshakeBy, requestBy, timeout, wake, wrongAt, outcome>>

\* Mutants: an error of rustls is not told from one of the socket, either way.
HandshakeError_Flat(inner) == "NotReached"
HandshakeError_Any(inner) == "HandshakeFailed"

\* What an error of complete_io is, by the error inside it.
HandshakeError(inner) == IF inner = "rustls" THEN "HandshakeFailed" ELSE "NotReached"

AnsweredWrongly == pc = "HandshakeRead" /\ inbox = "Wrong" /\ Fail(HandshakeError("rustls"))

HandshakeEnds == pc = "HandshakeRead" /\ inbox = "Close" /\ Fail(HandshakeError("socket"))

\* A read that has something to return does not time out.
HandshakeTimesOut ==
  pc = "HandshakeRead" /\ inbox = "Nothing" /\ now = wake /\ Fail(HandshakeError("socket"))

\* arm fails inside the read.
BudgetSpent == pc = "Handshake" /\ ~HasBudget /\ Fail(HandshakeError("socket"))

\* The leaf is copied out and the handshake's timeouts are cleared.
TakeLeaf ==
  /\ pc = "Leaf"
  /\ pc' = IF inRequest THEN "Request" ELSE "Idle"
  /\ timeout' = Never /\ messages' = 0
  /\ UNCHANGED <<now, inRequest, marks, handshakeBy, requestBy, wake, heard, answerVars, outcome>>

NoLeaf == pc = "Leaf" /\ Fail("NoPeerCertificate")

-----------------------------------------------------------------------------
(***************************************************************************)
(* A request, on the connection at hand or on one dialled for it; what is  *)
(* left of the request's time is not passed to that dial.  ureq computes   *)
(* the time that remains before each operation; the socket keeps it as a   *)
(* timeout of each read and write until the operation is over.             *)
(***************************************************************************)
BeginRequest ==
  /\ pc = "Idle"
  /\ inRequest' = TRUE /\ begun' = now /\ requestBy' = now + RequestTimeout
  /\ heard' = now
  /\ pc' \in {"Request", "Start"}
  /\ UNCHANGED <<now, asked, dialled, handshakeBy, timeout, wake, messages, answerVars, outcome>>

\* Mutant: a deadline is never put on the socket.
SocketTimeout_Cleared(t) == Never

SocketTimeout(t) == t

SetDeadline ==
  /\ pc = "Request" /\ now < requestBy
  /\ pc' = "RequestRead"
  /\ LET t == SocketTimeout(requestBy - now) IN timeout' = t /\ Wait(t)
  /\ heard' = now
  /\ UNCHANGED <<now, inRequest, marks, handshakeBy, requestBy, messages, answerVars, outcome>>

DeadlinePassed == pc = "Request" /\ now >= requestBy /\ Fail("Io")

\* The peer accepts or sends some bytes, and the operation needs more.
Dribble ==
  /\ pc = "RequestRead"
  /\ heard' = now /\ Wait(timeout)
  /\ UNCHANGED <<now, pc, inRequest, marks, handshakeBy, requestBy, timeout, messages, answerVars,
                 outcome>>

OperationCompletes ==
  /\ pc = "RequestRead"
  /\ messages < Messages
  /\ heard' = now /\ messages' = messages + 1 /\ pc' = "Request"
  /\ UNCHANGED <<now, inRequest, marks, handshakeBy, requestBy, timeout, wake, answerVars, outcome>>

ResponseCompletes == pc = "RequestRead" /\ messages = Messages /\ Fail("Ok")

RequestFails == pc = "RequestRead" /\ Fail("Io")

RequestTimesOut == pc = "RequestRead" /\ now = wake /\ Fail("Io")

-----------------------------------------------------------------------------
Tick ==
  /\ pc \in Waiting /\ now < MaxTime
  /\ IF pc = "Resolving" THEN now < asked + MaxLookup ELSE now < wake
  /\ pc = "HandshakeRead" => inbox = "Nothing"
  /\ now' = now + 1
  /\ UNCHANGED <<pc, inRequest, marks, handshakeBy, requestBy, socketVars, messages, answerVars,
                 outcome>>

\* What the world may do, and what the caller does next.
Peer ==
  \/ NoClientHello \/ Connects \/ ConnectFails
  \/ PeerSends
  \/ Dribble \/ OperationCompletes \/ ResponseCompletes \/ RequestFails

Resolver == Resolves \/ Unresolved

Caller ==
  \/ BadServerName \/ StartDial \/ ConnectTimesOut
  \/ Arm \/ BudgetSpent \/ ReadMore \/ AnsweredWrongly \/ HandshakeEnds \/ HandshakeTimesOut
  \/ TakeLeaf \/ NoLeaf \/ SetDeadline \/ DeadlinePassed \/ RequestTimesOut

Next == Peer \/ Resolver \/ Caller \/ BeginRequest \/ Tick

(***************************************************************************)
(* Time goes on, since a peer sends finitely many bytes in an instant, and *)
(* the caller runs.  The system's resolver answers in the end, within      *)
(* limits of its own that the code does not set; nothing obliges a peer to *)
(* answer.                                                                 *)
(***************************************************************************)
Spec == Init /\ [][Next]_vars /\ SF_vars(Tick) /\ WF_vars(Caller) /\ WF_vars(Resolver)

-----------------------------------------------------------------------------
(***************************************************************************)
(* Properties.                                                             *)
(***************************************************************************)
Dialling == pc \in {"Connecting", "Handshake", "HandshakeRead", "Leaf"}

(***************************************************************************)
(* From the address on, a dial is over within its two budgets, also with a *)
(* peer that sends bytes for ever, each within the timeout of its read     *)
(* (tls.rs 100-117).                                                       *)
(***************************************************************************)
DialIsBounded == Dialling => now - dialled <= ConnectTimeout + HandshakeTimeout

(***************************************************************************)
(* And it is over, if the resolver answers: whatever the peer does or does *)
(* not send.                                                               *)
(***************************************************************************)
DialReturns == pc = "Start" ~> pc \in {"Idle", "Request", "RequestRead", "Done"}

(***************************************************************************)
(* What went wrong is told by what the peer sent, though both come back as *)
(* an io::Error of complete_io.  A wrong answer, a relay's among them, that*)
(* arrives while the budget lasts is never reported as an outage, however  *)
(* slowly the bytes before it came and however close the deadline is; and a*)
(* peer that said nothing wrong is never reported as one that did, once    *)
(* there was a handshake (tls.rs 211-217, 243-249).                        *)
(***************************************************************************)
AttackIsNotAnOutage ==
  pc = "Done" /\ wrongAt # Never /\ wrongAt < handshakeBy => outcome = "HandshakeFailed"

OutageIsNotAnAttack == outcome = "HandshakeFailed" => wrongAt # Never \/ handshakeBy = 0

CausesAreTold == AttackIsNotAnOutage /\ OutageIsNotAnAttack

(***************************************************************************)
(* In a request, a peer that stays silent loses within request_timeout of  *)
(* the last byte it accepted or sent.                                      *)
(***************************************************************************)
SilentPeerLoses == pc = "RequestRead" => now - heard <= RequestTimeout

(***************************************************************************)
(* What connect.rs:76 and :216 say: request_timeout is how long a whole    *)
(* request may take.  It is a timeout of each read and write of the socket,*)
(* and a connection dialled for the request has budgets of its own.        *)
(***************************************************************************)
RequestIsBounded ==
  inRequest /\ pc \notin {"Idle", "Done"} => now - begun <= RequestTimeout
=============================================================================
