----------------------- MODULE VerifiedTransportProofs -----------------------
(***************************************************************************)
(* The safety properties of VerifiedTransport, for any number of threads,  *)
(* of peers and of connections, and whatever the peers present.            *)
(***************************************************************************)
EXTENDS VerifiedTransport, VerifyProofs

(***************************************************************************)
(* The inductive invariant, in named parts.                                *)
(***************************************************************************)
Holding == {"Extract", "Collateral", "Verify", "Publish", "HandOver", "Send", "Await"}

\* A call holds a socket exactly between its dial or checkout and its end.
SocketsHeld == \A p \in Proc : pc[p] \in Holding <=> sock[p] # None

\* A socket that is somewhere was opened, to a peer that holds its leaf's key.
InUse(c) == c \in pool \/ c = pending \/ \E p \in Proc : sock[p] = c

SocketsReached ==
  \A c \in Conn :
    /\ conns[c].peer = None => conns[c] = NoConnection /\ ~InUse(c)
    /\ conns[c].peer # None => Facts[conns[c].peer].leaf # None /\ Facts[conns[c].peer].holdsKey

\* connect_verified runs alone: nothing is requested before the client exists.
MainFirst ==
  /\ pc[Main] \notin {"Idle", "Checkout", "Send", "Await"}
  /\ \A t \in Thread : pc[t] \notin {"Start", "Extract", "Collateral", "HandOver", "Ready"}
  /\ pc[Main] # "Ready" => \A t \in Thread : pc[t] = "Idle"

\* The collateral is fetched once, before anything is verified with it.
CollateralFirst ==
  /\ pc[Main] \in {"Start", "Dial", "Extract", "Collateral"} => \A c \in Conn : ~conns[c].verified
  /\ pc[Main] \in {"Verify", "Publish", "HandOver", "Ready"} => collateral \in Collateral

\* What was verified is genuine, and nothing else is used.
VerifiedIsGenuine == \A c \in Conn : conns[c].verified => Genuine(c)

UsedIsVerified ==
  /\ \A c \in Conn : conns[c].carried \/ c \in pool \/ c = pending => conns[c].verified
  /\ \A p \in Proc : pc[p] \in {"Publish", "HandOver", "Send", "Await"} => conns[sock[p]].verified

\* What is kept of a verification is true of a connection that was verified.
Truthful(v) ==
  /\ v \in Verification /\ conns[v.conn].verified
  /\ v.key = Facts[conns[v.conn].peer].leaf
  /\ IsTrustworthy(v.results)

KeptIsTruthful ==
  /\ latest # None => Truthful(latest)
  /\ pc[Main] = "Ready" => Truthful(first)
  /\ \A p \in Proc : pc[p] \in {"Publish", "HandOver"} => Truthful(wip[p])

\* While the first socket waits it is the only one there is, and nobody dials.
FirstWaits ==
  /\ pc[Main] \in {"Start", "Dial"} => \A c \in Conn : conns[c].peer = None
  /\ pc[Main] \in {"Extract", "Collateral", "Verify", "Publish", "HandOver"} =>
       \A c \in Conn : conns[c].peer # None => c = sock[Main]
  /\ pending # None => pc[Main] = "Ready" /\ \A t \in Thread : pc[t] \notin {"Dial"} \cup Holding

Sockets == SocketsHeld /\ SocketsReached /\ MainFirst /\ SocketsHaveOneOwner /\ FirstSocketFirst /\ FirstWaits

Verified == CollateralFirst /\ VerifiedIsGenuine /\ UsedIsVerified /\ KeptIsTruthful

IInv == TypeOK /\ Sockets /\ Verified

-----------------------------------------------------------------------------
(***************************************************************************)
(* How a call may end, and what it leaves on the connections.              *)
(***************************************************************************)
LEMMA RefusedIsTyped ==
  ASSUME NEW reason \in RefusalReason, NEW r
  PROVE  Refused(reason, r) \in Refusal
<1>1. Kind(reason, r) \in RefusalKind
  BY DEF Kind, RefusalKind, RefusalReason, Outages, Violations
<1> QED BY <1>1 DEF Refused, Refusal

\* What a request makes of an error of ureq (http.rs 485-504).
LEMMA FromUreqIsTyped ==
  ASSUME NEW error \in Refusal \cup {None}
  PROVE  FromUreq(error) \in Answer
  BY DEF FromUreq, Answer, Fault

\* A call that returns keeps the types.
LEMMA ReturnIsTyped ==
  ASSUME CallsOK, NEW p \in Proc, NEW a \in Answer, Return(p, a)
  PROVE  /\ pc' \in [Proc -> Steps]
         /\ answer' \in [Proc -> Answer]
         /\ requests' \in [Proc -> 0 .. MaxRequests]
         /\ retries' \in [Proc -> 0 .. MaxRetries]
  BY DEF CallsOK, Return, GoTo, Steps

\* The invariant holds at the start.
LEMMA InitIInv == Init => IInv
<1> SUFFICES ASSUME Init PROVE IInv
  OBVIOUS
<1>1. WorldOK
  BY DEF Init, WorldOK
<1>2. NoConnection \in Connection /\ NoConnection.peer = None /\ ~NoConnection.verified
        /\ ~NoConnection.carried
  BY IntelAssumption DEF NoConnection, Connection, Time
<1>3. SocketsOK
  BY <1>2 DEF Init, SocketsOK
<1>4. VerificationsOK
  BY DEF Init, VerificationsOK
<1>5. CallsOK
  <2>1. NoAnswer \in Answer
    BY DEF NoAnswer, Answer
  <2>2. poisoned \in BOOLEAN
    BY DEF Init
  <2>3. 0 \in 0 .. MaxRequests /\ 0 \in 0 .. MaxRetries
    BY TransportAssumption
  <2>4. pc \in [Proc -> Steps]
    BY DEF Init, Steps
  <2> QED BY <2>1, <2>2, <2>3, <2>4 DEF Init, CallsOK
<1>6. /\ \A p \in Proc : sock[p] = None
      /\ \A c \in Conn : conns[c] = NoConnection
      /\ pc[Main] = "Start" /\ \A t \in Thread : pc[t] = "Idle"
      /\ pool = {} /\ pending = None /\ latest = None
  BY TransportAssumption DEF Init, Proc
<1>7. \A p \in Proc : pc[p] \notin Holding
  BY <1>6 DEF Holding, Proc
<1>8. Sockets
  BY <1>2, <1>6, <1>7, NoneAssumption
  DEF Sockets, SocketsHeld, SocketsReached, MainFirst, SocketsHaveOneOwner, FirstSocketFirst,
      FirstWaits, InUse
<1>9. \A c \in Conn : ~conns[c].verified /\ ~conns[c].carried /\ c # pending
  BY <1>2, <1>6, NoneAssumption
<1>10. CollateralFirst /\ VerifiedIsGenuine
  BY <1>6, <1>9 DEF CollateralFirst, VerifiedIsGenuine
<1>11. UsedIsVerified
  BY <1>6, <1>7, <1>9 DEF UsedIsVerified, Holding
<1>12. KeptIsTruthful
  BY <1>6, <1>7 DEF KeptIsTruthful, Holding
<1> QED BY <1>1, <1>3, <1>4, <1>5, <1>8, <1>10, <1>11, <1>12 DEF IInv, TypeOK, Verified
-----------------------------------------------------------------------------
(***************************************************************************)
(* Steps that open no connection and verify none: connections may close,   *)
(* and verified ones may carry data.                                       *)
(***************************************************************************)
ConnectionsKept ==
  /\ conns' \in [Conn -> Connection]
  /\ \A d \in Conn : /\ conns'[d].peer = conns[d].peer
                     /\ conns'[d].verified = conns[d].verified
                     /\ conns'[d].at = conns[d].at
                     /\ conns'[d].carried => conns[d].carried \/ conns[d].verified
                     /\ conns[d].peer = None => conns'[d] = conns[d]

\* Closing a socket changes nothing else about its connection.
LEMMA CloseKeeps ==
  ASSUME SocketsOK, NEW c \in Conn, conns[c].peer # None, Close(c)
  PROVE  ConnectionsKept
<1>1. conns' \in [Conn -> Connection]
  BY DEF Close, SocketsOK, Connection
<1>2. \A d \in Conn : /\ conns'[d].peer = conns[d].peer
                     /\ conns'[d].verified = conns[d].verified
                     /\ conns'[d].at = conns[d].at
                     /\ conns'[d].carried = conns[d].carried
  BY DEF Close, SocketsOK, Connection
<1>3. \A d \in Conn : conns[d].peer = None => conns'[d] = conns[d]
  BY DEF Close, SocketsOK
<1> QED BY <1>1, <1>2, <1>3 DEF ConnectionsKept

\* Nor does a step that leaves the connections alone.
LEMMA SameKeeps ==
  ASSUME SocketsOK, UNCHANGED conns
  PROVE  ConnectionsKept
  BY DEF ConnectionsKept, SocketsOK

\* Verified connections stay verified and genuine, and what is kept stays true.
VerifiedGrows ==
  /\ collateral' = collateral
  /\ \A d \in Conn : conns[d].verified =>
       conns'[d].verified /\ conns'[d].peer = conns[d].peer /\ conns'[d].at = conns[d].at

\* What was verified genuinely stays so while the collateral is the same.
LEMMA GenuineStays ==
  ASSUME VerifiedGrows, NEW c \in Conn, conns[c].verified, Genuine(c)
  PROVE  Genuine(c)'
  BY DEF VerifiedGrows, Genuine, Attestation

\* A kept verification stays true.
LEMMA TruthStays ==
  ASSUME NEW v, Truthful(v),
         \A d \in Conn : conns[d].verified => conns'[d].verified /\ conns'[d].peer = conns[d].peer
  PROVE  Truthful(v)'
<1>1. v.conn \in Conn
  BY DEF Truthful, Verification
<1> QED BY <1>1 DEF Truthful

(***************************************************************************)
(* A call that ends: its socket is closed, or it has none.                 *)
(***************************************************************************)
LEMMA ReturnKeepsSockets ==
  ASSUME TypeOK, Sockets, NEW p \in Proc, pc[p] \notin {"Idle", "Ready"},
         NEW end \in {"Done", "Panicked"}, pc' = [pc EXCEPT ![p] = end], sock' = [sock EXCEPT ![p] = None],
         ConnectionsKept, UNCHANGED <<pool, pending>>
  PROVE  Sockets'
<1> USE DEF TypeOK
<1>1. /\ pc'[p] = end /\ sock'[p] = None
      /\ \A q \in Proc : q # p => pc'[q] = pc[q] /\ sock'[q] = sock[q]
      /\ None \notin pool
  BY NoneAssumption DEF CallsOK, SocketsOK
<1>2. Main \in Proc /\ Thread \subseteq Proc /\ Main \notin Thread
  BY TransportAssumption DEF Proc
<1>3. SocketsHeld'
  BY <1>1 DEF Sockets, SocketsHeld, Holding
<1>4. SocketsReached'
  BY <1>1, NoneAssumption DEF Sockets, SocketsReached, InUse, ConnectionsKept
<1>5. MainFirst'
  BY <1>1, <1>2 DEF Sockets, MainFirst
<1>6. SocketsHaveOneOwner'
  BY <1>1 DEF Sockets, SocketsHaveOneOwner
<1>7. FirstSocketFirst'
  BY <1>1 DEF Sockets, FirstSocketFirst, ConnectionsKept
<1>8. FirstWaits'
  BY <1>1, <1>2 DEF Sockets, FirstWaits, Holding, ConnectionsKept
<1> QED BY <1>3, <1>4, <1>5, <1>6, <1>7, <1>8 DEF Sockets

\* And what was verified stays as it was.
LEMMA ReturnKeepsVerified ==
  ASSUME TypeOK, Sockets, Verified, NEW p \in Proc,
         NEW end \in {"Done", "Panicked"}, pc' = [pc EXCEPT ![p] = end],
         sock' = [sock EXCEPT ![p] = None],
         latest' = latest \/ (pc[p] = "Publish" /\ latest' = wip[p]),
         ConnectionsKept, UNCHANGED <<pool, pending, collateral, first, wip>>
  PROVE  Verified'
<1> USE DEF TypeOK
<1>1. /\ pc'[p] = end
      /\ \A q \in Proc : q # p => pc'[q] = pc[q] /\ sock'[q] = sock[q]
  BY DEF CallsOK, SocketsOK
<1>2. Main \in Proc
  BY DEF Proc
<1>3. VerifiedGrows
  BY DEF VerifiedGrows, ConnectionsKept
<1>4. CollateralFirst'
  BY <1>1, <1>2 DEF Verified, CollateralFirst, ConnectionsKept
<1>5. VerifiedIsGenuine'
  BY <1>3, GenuineStays DEF Verified, VerifiedIsGenuine, ConnectionsKept
<1>6. UsedIsVerified'
  <2>1. \A q \in Proc : pc'[q] \in {"Publish", "HandOver", "Send", "Await"} =>
          conns'[sock'[q]].verified
    <3> SUFFICES ASSUME NEW q \in Proc, pc'[q] \in {"Publish", "HandOver", "Send", "Await"}
                 PROVE  conns'[sock'[q]].verified
      OBVIOUS
    <3>1. q # p /\ pc[q] \in {"Publish", "HandOver", "Send", "Await"} /\ sock'[q] = sock[q]
      BY <1>1
    <3>2. sock[q] \in Conn /\ conns[sock[q]].verified
      BY <3>1 DEF Sockets, SocketsHeld, SocketsOK, Holding, Verified, UsedIsVerified
    <3> QED BY <3>1, <3>2 DEF ConnectionsKept
  <2> QED BY <2>1 DEF Verified, UsedIsVerified, ConnectionsKept
<1>7. KeptIsTruthful'
  <2>1. \A d \in Conn : conns[d].verified => conns'[d].verified /\ conns'[d].peer = conns[d].peer
    BY DEF ConnectionsKept
  <2>2. latest' # None => Truthful(latest')
    BY DEF Verified, KeptIsTruthful
  <2>3. latest' # None => Truthful(latest)'
    BY <2>1, <2>2 DEF Truthful, Verification
  <2> QED BY <1>1, <1>2, <2>1, <2>3, TruthStays DEF Verified, KeptIsTruthful
<1> QED BY <1>4, <1>5, <1>6, <1>7 DEF Verified


\* A call that returns keeps the invariant.
LEMMA ReturnKeepsIInv ==
  ASSUME IInv, NEW p \in Proc, NEW a \in Answer, pc[p] \notin {"Idle", "Ready"}, Return(p, a),
         ConnectionsKept, UNCHANGED <<worldVars, collateral, clientVars, pool, wip>>
  PROVE  IInv'
<1> USE DEF IInv, TypeOK, worldVars, clientVars
<1>1. pc' = [pc EXCEPT ![p] = "Done"] /\ sock' = [sock EXCEPT ![p] = None]
  BY DEF Return, GoTo
<1>2. Sockets'
  BY <1>1, ReturnKeepsSockets
<1>3. Verified'
  BY <1>1, ReturnKeepsVerified
<1>4. WorldOK'
  BY DEF WorldOK
<1>5. SocketsOK'
  BY <1>1 DEF SocketsOK, ConnectionsKept
<1>6. VerificationsOK'
  BY DEF VerificationsOK
<1>7. CallsOK'
  <2>1. poisoned' \in BOOLEAN
    BY DEF CallsOK
  <2> QED BY <2>1, ReturnIsTyped DEF CallsOK
<1> QED BY <1>2, <1>3, <1>4, <1>5, <1>6, <1>7

(***************************************************************************)
(* The steps that return.                                                  *)
(***************************************************************************)
LEMMA SocketIsReached ==
  ASSUME IInv, NEW p \in Proc, pc[p] \in Holding
  PROVE  sock[p] \in Conn /\ conns[sock[p]].peer # None
<1>1. sock[p] \in Conn
  BY DEF IInv, TypeOK, SocketsOK, Sockets, SocketsHeld
<1> QED BY <1>1 DEF IInv, Sockets, SocketsReached, InUse

\* A refusal is a way to return.
LEMMA RefuseIsReturn ==
  ASSUME NEW p \in Proc, NEW reason \in RefusalReason, NEW r, Refuse(p, reason, r)
  PROVE  \E a \in Answer : Return(p, a)
<1>1. Refused(reason, r) \in Refusal
  BY RefusedIsTyped
<1> QED BY <1>1, FromUreqIsTyped DEF Refuse

\* The two refusals of an extraction (http.rs 161-166).
LEMMA ExtractionRefusalIsTyped ==
  ASSUME NEW c PROVE ExtractionRefusal(c) \in RefusalReason
  BY DEF ExtractionRefusal, RefusalReason, Violations

\* Each step that returns keeps the invariant.
LEMMA ReturnsKeepIInv ==
  ASSUME IInv, NEW p \in Proc,
         \/ RefuseTerminating \/ CollateralFails
         \/ Extract /\ ~Readable(sock[Main])
         \/ DialFails(p) \/ DialWithoutCertificate(p)
         \/ p \in Thread /\ (Fails(p) \/ RespondTooLarge(p))
         \/ p \in Thread /\ Respond(p) /\ pool' = pool
  PROVE  IInv'
<1>1. Main \in Proc
  BY DEF Proc
<1>2. SocketsOK
  BY DEF IInv, TypeOK
<1>3. /\ FromUreq(Fault) \in Answer
      /\ [status |-> "Ok", refusal |-> None] \in Answer
      /\ [status |-> "TooLarge", refusal |-> None] \in Answer
  BY FromUreqIsTyped DEF Fault, Answer
<1>4. CASE RefuseTerminating
  <2>1. PICK a \in Answer : Return(Main, a)
    BY <1>1, <1>4, RefuseIsReturn DEF RefuseTerminating, RefusalReason
  <2> QED BY <1>1, <1>2, <1>4, <2>1, SameKeeps, ReturnKeepsIInv DEF RefuseTerminating
<1>5. CASE CollateralFails
  <2>1. PICK a \in Answer : Return(Main, a)
    BY <1>1, <1>5, RefuseIsReturn DEF CollateralFails, RefusalReason, Outages
  <2>2. ConnectionsKept
    BY <1>1, <1>2, <1>5, SocketIsReached, CloseKeeps DEF CollateralFails, Holding
  <2> QED BY <1>1, <1>5, <2>1, <2>2, ReturnKeepsIInv DEF CollateralFails
<1>6. CASE Extract /\ ~Readable(sock[Main])
  <2>1. PICK a \in Answer : Return(Main, a)
    BY <1>1, <1>6, RefuseIsReturn, ExtractionRefusalIsTyped DEF Extract
  <2>2. ConnectionsKept
    BY <1>1, <1>2, <1>6, SocketIsReached, CloseKeeps DEF Extract, Holding
  <2> QED BY <1>1, <1>6, <2>1, <2>2, ReturnKeepsIInv DEF Extract
<1>7. CASE DialFails(p)
  <2>1. PICK a \in Answer : Return(p, a)
    BY <1>7, RefuseIsReturn DEF DialFails, RefusalReason, Outages, Violations
  <2> QED BY <1>2, <1>7, <2>1, SameKeeps, ReturnKeepsIInv DEF DialFails
<1>8. CASE DialWithoutCertificate(p)
  <2>1. PICK a \in Answer : Return(p, a)
    BY <1>8, RefuseIsReturn DEF DialWithoutCertificate, RefusalReason, Violations
  <2> QED BY <1>2, <1>8, <2>1, SameKeeps, ReturnKeepsIInv DEF DialWithoutCertificate
<1>9. CASE Fails(p)
  <2>1. ConnectionsKept
    BY <1>2, <1>9, SocketIsReached, CloseKeeps DEF Fails, Holding
  <2> QED BY <1>3, <1>9, <2>1, ReturnKeepsIInv DEF Fails
<1>10. CASE RespondTooLarge(p)
  <2>1. ConnectionsKept
    BY <1>2, <1>10, SocketIsReached, CloseKeeps DEF RespondTooLarge, Holding
  <2> QED BY <1>3, <1>10, <2>1, ReturnKeepsIInv DEF RespondTooLarge
<1>11. CASE Respond(p) /\ pool' = pool
  <2>1. ConnectionsKept
    BY <1>2, <1>11, SocketIsReached, CloseKeeps, SameKeeps DEF Respond, Holding
  <2> QED BY <1>3, <1>11, <2>1, ReturnKeepsIInv DEF Respond
<1> QED BY <1>4, <1>5, <1>6, <1>7, <1>8, <1>9, <1>10, <1>11
-----------------------------------------------------------------------------
(***************************************************************************)
(* The one step that verifies a connection.                                *)
(***************************************************************************)
LEMMA CollateralIsThere ==
  ASSUME IInv, NEW p \in Proc, pc[p] \notin {"Idle", "Panicked", "Done"},
         p = Main => pc[p] \in {"Verify", "Publish", "HandOver", "Ready"}
  PROVE  collateral \in Collateral
<1>1. p \in Thread => pc[Main] = "Ready"
  BY DEF IInv, Sockets, MainFirst
<1> QED BY <1>1 DEF Proc, IInv, Verified, CollateralFirst

\* verify_handshook gives verify evidence of the right shape (http.rs 168-181).
LEMMA EvidenceIsEvidence ==
  ASSUME IInv, NEW p \in Proc, pc[p] = "Verify", Readable(sock[p])
  PROVE  EvidenceOf(sock[p]) \in Evidence
<1>1. sock[p] \in Conn /\ conns[sock[p]].peer \in Peer
  <2>1. sock[p] \in Conn /\ conns[sock[p]].peer # None
    BY SocketIsReached DEF Holding
  <2> QED BY <2>1 DEF IInv, TypeOK, SocketsOK, Connection
<1>2. Facts[conns[sock[p]].peer] \in PeerFacts
  BY <1>1, TransportAssumption
<1>3. Facts[conns[sock[p]].peer].leaf \in Key
  BY <1>1, <1>2, TransportAssumption DEF PeerFacts, IInv, Sockets, SocketsReached
<1>4. Attestation(sock[p]) \in Quote
  BY <1>2 DEF Attestation, PeerFacts, Readable
<1>5. collateral \in Collateral
  BY CollateralIsThere
<1>6. Served \in Document /\ now \in Time
  BY TransportAssumption DEF IInv, TypeOK, WorldOK
<1> QED BY <1>3, <1>4, <1>5, <1>6 DEF EvidenceOf, Evidence, PeerCertificate

\* And gets a transcript back.
LEMMA TranscriptOf ==
  ASSUME IInv, NEW p \in Proc, pc[p] = "Verify"
  PROVE  Transcript(sock[p]) \in Seq(Result)
<1>1. CASE Readable(sock[p])
  BY <1>1, EvidenceIsEvidence, TranscriptIsTyped DEF Transcript
<1>2. CASE ~Readable(sock[p])
  BY <1>2 DEF Transcript
<1> QED BY <1>1, <1>2

\* What verify_handshook refuses with (http.rs 154-205).
LEMMA HandshookRefusalIsTyped ==
  ASSUME NEW c, NEW r
  PROVE  HandshookRefusal(c, r) \in Refusal \cup {None}
<1>1. {"NotTrustworthy", "UnreadableAttestation"} \subseteq RefusalReason
  BY DEF RefusalReason, Violations
<1> QED BY <1>1, RefusedIsTyped, ExtractionRefusalIsTyped DEF HandshookRefusal

\* A connection that is not refused belongs to a peer that everything holds of.
LEMMA AcceptedIsGenuine ==
  ASSUME IInv, NEW p \in Proc, pc[p] = "Verify",
         HandshookRefusal(sock[p], Transcript(sock[p])) = None
  PROVE  /\ sock[p] \in Conn
         /\ conns[sock[p]].peer \in TrustedPeers
         /\ FreshTcb(Attestation(sock[p]), collateral, now)
         /\ IsTrustworthy(Transcript(sock[p]))
         /\ Facts[conns[sock[p]].peer].leaf \in Key
<1> DEFINE c == sock[p]
<1>1. c \in Conn /\ conns[c].peer # None
  BY SocketIsReached DEF Holding
<1>2. conns[c].peer \in Peer /\ Facts[conns[c].peer].holdsKey
  BY <1>1 DEF IInv, TypeOK, SocketsOK, Connection, Sockets, SocketsReached
<1>3. /\ \A r : Refused("NotTrustworthy", r) # None
      /\ \A r : Refused(ExtractionRefusal(c), r) # None
  BY RefusedIsTyped, ExtractionRefusalIsTyped, NoneAssumption DEF RefusalReason
<1>4. Readable(c) /\ IsTrustworthy(Transcript(c))
  BY <1>3 DEF HandshookRefusal
<1>5. Established(Licensed, EvidenceOf(c))
  BY <1>4, EvidenceIsEvidence, TrustMeansEstablished DEF Transcript
<1>6. /\ LicensedDocument(Licensed, Served)
      /\ AttestsKey(Attestation(c), Licensed, Facts[conns[c].peer].leaf)
      /\ FreshTcb(Attestation(c), collateral, now)
  BY <1>5 DEF Established, EvidenceOf
<1>7. AttestedPeer(conns[c].peer)
  BY <1>2, <1>4, <1>6 DEF AttestedPeer, Attestation, Readable
<1> QED BY <1>1, <1>2, <1>4, <1>6, <1>7 DEF TrustedPeers, AttestsKey
\* verify_handshook keeps the invariant (http.rs 145-205).
LEMMA VerifyHandshookKeepsIInv ==
  ASSUME IInv, NEW p \in Proc, VerifyHandshook(p)
  PROVE  IInv'
<1> DEFINE c == sock[p]
           transcript == Transcript(c)
           refusal == HandshookRefusal(c, transcript)
<1>1. pc[p] = "Verify" /\ UNCHANGED <<worldVars, collateral, clientVars, pool>>
  BY DEF VerifyHandshook
<1>2. c \in Conn /\ conns[c].peer # None
  BY <1>1, SocketIsReached DEF Holding
<1>3. CASE refusal # None
  <2>1. Return(p, FromUreq(refusal)) /\ Close(c) /\ UNCHANGED wip
    BY <1>3 DEF VerifyHandshook
  <2>2. FromUreq(refusal) \in Answer
    BY HandshookRefusalIsTyped, FromUreqIsTyped
  <2>3. ConnectionsKept
    BY <1>2, <2>1, CloseKeeps DEF IInv, TypeOK
  <2> HIDE DEF refusal, transcript
  <2> QED BY <1>1, <2>1, <2>2, <2>3, ReturnKeepsIInv
<1>4. CASE refusal = None
  <2> DEFINE v == [conn |-> c, key |-> Facts[conns[c].peer].leaf, results |-> transcript]
  <2>1. /\ conns' = [conns EXCEPT ![c].verified = TRUE, ![c].at = now]
        /\ wip' = [wip EXCEPT ![p] = v]
        /\ pc' = [pc EXCEPT ![p] = "Publish"]
        /\ UNCHANGED <<sock, callVars>>
    BY <1>4 DEF VerifyHandshook, GoTo
  <2>2. /\ conns[c].peer \in TrustedPeers /\ FreshTcb(Attestation(c), collateral, now)
        /\ IsTrustworthy(transcript) /\ v.key \in Key
    BY <1>1, <1>4, AcceptedIsGenuine
  <2>3. transcript \in Seq(Result)
    BY <1>1, TranscriptOf
  <2> HIDE DEF refusal, transcript
  <2>4. v \in Verification
    BY <1>2, <2>2, <2>3 DEF Verification
  <2>5. now \in Time
    BY DEF IInv, TypeOK, WorldOK
  <2>6. /\ conns' \in [Conn -> Connection]
        /\ \A d \in Conn : conns'[d].peer = conns[d].peer /\ conns'[d].carried = conns[d].carried
        /\ \A d \in Conn : d # c => conns'[d] = conns[d]
    BY <1>2, <2>1, <2>5 DEF IInv, TypeOK, SocketsOK, Connection
  <2>7. conns'[c].verified /\ conns'[c].at = now
    BY <1>2, <2>1 DEF IInv, TypeOK, SocketsOK, Connection
  <2>8. /\ pc'[p] = "Publish" /\ wip'[p] = v
        /\ \A q \in Proc : q # p => pc'[q] = pc[q] /\ wip'[q] = wip[q]
    BY <2>1 DEF IInv, TypeOK, CallsOK, VerificationsOK
  <2>9. Main \in Proc /\ Thread \subseteq Proc /\ Main \notin Thread
    BY TransportAssumption DEF Proc
  <2>10. TypeOK'
    <3>1. WorldOK'
      BY <1>1 DEF worldVars, IInv, TypeOK, WorldOK
    <3>2. SocketsOK'
      BY <1>1, <2>1, <2>6 DEF clientVars, IInv, TypeOK, SocketsOK
    <3>3. VerificationsOK'
      BY <1>1, <2>1, <2>4 DEF clientVars, IInv, TypeOK, VerificationsOK
    <3>4. poisoned' \in BOOLEAN
      BY <1>1 DEF clientVars, IInv, TypeOK, CallsOK
    <3>5. CallsOK'
      BY <2>1, <3>4 DEF callVars, IInv, TypeOK, CallsOK, Steps
    <3> QED BY <3>1, <3>2, <3>3, <3>5 DEF TypeOK
  <2>11. Sockets'
    <3>1. SocketsHeld'
      BY <1>1, <2>1, <2>8 DEF IInv, Sockets, SocketsHeld, Holding
    <3>2. SocketsReached'
      BY <1>1, <1>2, <2>1, <2>6 DEF clientVars, IInv, Sockets, SocketsReached, InUse
    <3>3. MainFirst'
      BY <1>1, <2>8, <2>9 DEF IInv, Sockets, MainFirst
    <3>4. SocketsHaveOneOwner' /\ FirstSocketFirst'
      BY <1>1, <2>1, <2>6 DEF clientVars, IInv, Sockets, SocketsHaveOneOwner, FirstSocketFirst
    <3>5. FirstWaits'
      BY <1>1, <2>1, <2>6, <2>8, <2>9 DEF clientVars, IInv, Sockets, FirstWaits, Holding
    <3> QED BY <3>1, <3>2, <3>3, <3>4, <3>5 DEF Sockets
  <2>12. VerifiedIsGenuine'
    <3>1. ASSUME NEW d \in Conn, d = c PROVE Genuine(d)'
      BY <3>1, <1>1, <1>2, <2>2, <2>6, <2>7 DEF Genuine, Attestation
    <3>2. ASSUME NEW d \in Conn, d # c, conns'[d].verified PROVE Genuine(d)'
      BY <1>1, <2>6, <3>2 DEF IInv, Verified, VerifiedIsGenuine, Genuine, Attestation
    <3> QED BY <3>1, <3>2 DEF VerifiedIsGenuine
  <2>13. CollateralFirst'
    <3>1. collateral \in Collateral
      BY <1>1, CollateralIsThere
    <3>2. p # Main => pc[Main] = "Ready"
      BY <1>1, <2>9 DEF IInv, Sockets, MainFirst, Proc
    <3> QED BY <1>1, <2>8, <2>9, <3>1, <3>2 DEF CollateralFirst
  <2>14. UsedIsVerified'
    <3>1. \A d \in Conn : conns[d].verified => conns'[d].verified
      BY <2>6, <2>7
    <3>2. ASSUME NEW q \in Proc, pc'[q] \in {"Publish", "HandOver", "Send", "Await"}
          PROVE  conns'[sock[q]].verified
      <4>1. CASE q = p
        BY <2>7, <4>1
      <4>2. CASE q # p
        <5>1. pc[q] \in {"Publish", "HandOver", "Send", "Await"}
          BY <2>8, <3>2, <4>2
        <5>2. sock[q] \in Conn /\ conns[sock[q]].verified
          BY <5>1, SocketIsReached DEF IInv, Verified, UsedIsVerified, Holding
        <5> QED BY <3>1, <5>2
      <4> QED BY <4>1, <4>2
    <3> QED BY <1>1, <2>1, <2>6, <3>1, <3>2 DEF clientVars, IInv, Verified, UsedIsVerified
  <2>15. KeptIsTruthful'
    <3>1. \A d \in Conn : conns[d].verified => conns'[d].verified /\ conns'[d].peer = conns[d].peer
      BY <2>6, <2>7
    <3>2. \A w : Truthful(w) => Truthful(w)'
      BY <3>1, TruthStays
    <3>3. ASSUME NEW w, w = v PROVE Truthful(w)'
      <4>1. w.conn = c /\ w.key = Facts[conns[c].peer].leaf /\ w.results = transcript
        BY <3>3
      <4>2. w \in Verification
        BY <2>4, <3>3
      <4> QED BY <1>2, <2>2, <2>6, <2>7, <4>1, <4>2 DEF Truthful
    <3>4. \A w : w = v => Truthful(w)'
      BY <3>3
    <3> HIDE DEF v
    <3> QED BY <1>1, <2>8, <2>9, <3>2, <3>4 DEF clientVars, IInv, Verified, KeptIsTruthful
  <2> QED BY <2>10, <2>11, <2>12, <2>13, <2>14, <2>15 DEF IInv, Verified
<1> QED BY <1>3, <1>4
-----------------------------------------------------------------------------
(***************************************************************************)
(* The steps of the world, which no call takes part in.                    *)
(***************************************************************************)
LEMMA WorldKeepsIInv ==
  ASSUME IInv, World
  PROVE  IInv'
<1>1. WorldOK' /\ UNCHANGED <<collateral, clientVars, pc, sock, wip, callVars>>
  BY IntelAssumption
  DEF World, OccupantChanges, Tick, PeerCloses, EvictIdle, Close, IInv, TypeOK, WorldOK, worldVars, Time
<1>2. ConnectionsKept /\ pool' \subseteq pool
  <2>1. SocketsOK
    BY DEF IInv, TypeOK
  <2>2. \A c \in Conn : conns[c].open \/ c \in pool => conns[c].peer # None
    BY DEF IInv, Sockets, SocketsReached, InUse, NoConnection
  <2>3. CASE OccupantChanges \/ Tick
    BY <2>1, <2>3, SameKeeps DEF OccupantChanges, Tick
  <2>4. ASSUME NEW c \in Conn, PeerCloses(c) \/ EvictIdle(c)
        PROVE  ConnectionsKept /\ pool' \subseteq pool
    BY <2>1, <2>2, <2>4, CloseKeeps DEF PeerCloses, EvictIdle
  <2> QED BY <2>3, <2>4 DEF World
<1>3. SocketsOK' /\ VerificationsOK'
  BY <1>1, <1>2 DEF clientVars, IInv, TypeOK, SocketsOK, VerificationsOK, ConnectionsKept
<1>4. CallsOK'
  BY <1>1 DEF clientVars, callVars, IInv, TypeOK, CallsOK
<1>5. SocketsHeld' /\ MainFirst'
  BY <1>1 DEF IInv, Sockets, SocketsHeld, MainFirst
<1>6. SocketsReached'
  BY <1>1, <1>2 DEF clientVars, IInv, Sockets, SocketsReached, InUse, ConnectionsKept
<1>7. SocketsHaveOneOwner' /\ FirstSocketFirst' /\ FirstWaits'
  BY <1>1, <1>2
  DEF clientVars, IInv, Sockets, SocketsHaveOneOwner, FirstSocketFirst, FirstWaits, ConnectionsKept
<1>8. CollateralFirst'
  BY <1>1, <1>2 DEF IInv, Verified, CollateralFirst, ConnectionsKept
<1>9. VerifiedGrows
  BY <1>1, <1>2 DEF VerifiedGrows, ConnectionsKept
<1>10. VerifiedIsGenuine'
  BY <1>2, <1>9, GenuineStays DEF IInv, Verified, VerifiedIsGenuine, ConnectionsKept
<1>11. UsedIsVerified'
  <2>1. ASSUME NEW p \in Proc, pc[p] \in {"Publish", "HandOver", "Send", "Await"}
        PROVE  conns'[sock[p]].verified
    BY <1>2, <2>1, SocketIsReached DEF IInv, Verified, UsedIsVerified, ConnectionsKept, Holding
  <2> QED BY <1>1, <1>2, <2>1 DEF clientVars, IInv, Verified, UsedIsVerified, ConnectionsKept
<1>12. KeptIsTruthful'
  BY <1>1, <1>2, TruthStays DEF clientVars, IInv, Verified, KeptIsTruthful, ConnectionsKept
<1> QED BY <1>1, <1>3, <1>4, <1>5, <1>6, <1>7, <1>8, <1>10, <1>11, <1>12
        DEF IInv, TypeOK, Sockets, Verified
-----------------------------------------------------------------------------
(***************************************************************************)
(* The steps of one call that verify nothing and do not return.            *)
(***************************************************************************)
OthersStay(p) == \A q \in Proc : q # p => pc'[q] = pc[q] /\ sock'[q] = sock[q]

\* A step that gives a call no socket but one in use.
LEMMA MoveKeepsSockets ==
  ASSUME IInv, NEW p \in Proc, ConnectionsKept, OthersStay(p),
         pc'[p] \in Holding <=> sock'[p] # None,
         \A c \in Conn : InUse(c)' => InUse(c),
         MainFirst', SocketsHaveOneOwner', FirstSocketFirst', FirstWaits'
  PROVE  Sockets'
<1>1. SocketsHeld'
  BY DEF OthersStay, IInv, Sockets, SocketsHeld
<1>2. SocketsReached'
  <2>1. \A c \in Conn : conns[c].peer = None => ~InUse(c)'
    BY DEF IInv, Sockets, SocketsReached
  <2>2. \A c \in Conn : conns'[c].peer = conns[c].peer /\ (conns[c].peer = None => conns'[c] = conns[c])
    BY DEF ConnectionsKept
  <2> QED BY <2>1, <2>2 DEF IInv, Sockets, SocketsReached
<1> QED BY <1>1, <1>2 DEF Sockets

\* A step that uses and keeps verified connections only.
LEMMA MoveKeepsVerified ==
  ASSUME IInv, NEW p \in Proc, ConnectionsKept, OthersStay(p), UNCHANGED <<collateral, wip>>,
         \A c \in Conn : c \in pool' \/ c = pending' => conns[c].verified,
         pc'[p] \in {"Publish", "HandOver", "Send", "Await"} =>
           sock'[p] \in Conn /\ conns[sock'[p]].verified,
         pc'[p] \in {"Publish", "HandOver"} => Truthful(wip[p]),
         latest' # None => Truthful(latest'),
         pc'[Main] = "Ready" => Truthful(first'),
         CollateralFirst'
  PROVE  Verified'
<1>1. VerifiedGrows
  BY DEF VerifiedGrows, ConnectionsKept
<1>2. VerifiedIsGenuine'
  BY <1>1, GenuineStays DEF IInv, Verified, VerifiedIsGenuine, ConnectionsKept
<1>3. UsedIsVerified'
  <2>1. ASSUME NEW q \in Proc, pc'[q] \in {"Publish", "HandOver", "Send", "Await"}
        PROVE  conns'[sock'[q]].verified
    <3>1. CASE q = p
      BY <2>1, <3>1 DEF ConnectionsKept
    <3>2. CASE q # p
      <4>1. pc[q] \in {"Publish", "HandOver", "Send", "Await"} /\ sock'[q] = sock[q]
        BY <2>1, <3>2 DEF OthersStay
      <4> QED BY <4>1, SocketIsReached DEF IInv, Verified, UsedIsVerified, ConnectionsKept, Holding
    <3> QED BY <3>1, <3>2
  <2> QED BY <2>1 DEF IInv, Verified, UsedIsVerified, ConnectionsKept
<1>4. KeptIsTruthful'
  <2>1. \A d \in Conn : conns[d].verified => conns'[d].verified /\ conns'[d].peer = conns[d].peer
    BY DEF ConnectionsKept
  <2>2. \A v : Truthful(v) => v \in Verification /\ conns'[v.conn].verified
                              /\ v.key = Facts[conns'[v.conn].peer].leaf /\ IsTrustworthy(v.results)
    BY <2>1 DEF Truthful, Verification
  <2>3. latest' # None => Truthful(latest)'
    BY <2>2 DEF Truthful
  <2>4. pc'[Main] = "Ready" => Truthful(first)'
    BY <2>2 DEF Truthful
  <2>5. ASSUME NEW q \in Proc, pc'[q] \in {"Publish", "HandOver"} PROVE Truthful(wip[q])'
    <3>1. Truthful(wip[q])
      BY <2>5 DEF OthersStay, IInv, Verified, KeptIsTruthful
    <3> QED BY <2>2, <3>1 DEF Truthful
  <2> QED BY <2>3, <2>4, <2>5 DEF KeptIsTruthful
<1> QED BY <1>2, <1>3, <1>4 DEF Verified

\* Main is the one process that is no thread.
LEMMA Processes == Main \in Proc /\ Thread \subseteq Proc /\ Main \notin Thread
                     /\ \A p \in Proc : p # Main => p \in Thread
  BY TransportAssumption DEF Proc

\* A thread that is at work has a client.
LEMMA ClientExists ==
  ASSUME IInv, NEW t \in Thread, pc[t] # "Idle"
  PROVE  pc[Main] = "Ready" /\ collateral \in Collateral /\ Truthful(first)
  BY Processes DEF IInv, Sockets, MainFirst, Verified, CollateralFirst, KeptIsTruthful

\* connect_verified on its way to the collateral (connect.rs 317-341).
LEMMA ConnectGoesOn ==
  ASSUME IInv, StartConnect \/ (Extract /\ Readable(sock[Main]))
  PROVE  IInv'
<1>1. /\ \/ pc[Main] = "Start" /\ pc'[Main] = "Dial"
         \/ pc[Main] = "Extract" /\ pc'[Main] = "Collateral"
      /\ OthersStay(Main) /\ pc' \in [Proc -> Steps]
      /\ UNCHANGED <<worldVars, conns, collateral, clientVars, pool, sock, wip, callVars>>
  BY Processes DEF StartConnect, Extract, GoTo, OthersStay, callVars, IInv, TypeOK, CallsOK, Steps
<1>2. ConnectionsKept
  BY <1>1, SameKeeps DEF IInv, TypeOK
<1>3. TypeOK'
  BY <1>1 DEF worldVars, clientVars, callVars, IInv, TypeOK, WorldOK, SocketsOK, VerificationsOK, CallsOK
<1>4. Sockets'
  <2>1. pc'[Main] \in Holding <=> sock'[Main] # None
    BY <1>1, Processes DEF Holding, IInv, Sockets, SocketsHeld
  <2>2. MainFirst'
    BY <1>1, Processes DEF OthersStay, IInv, Sockets, MainFirst
  <2>3. SocketsHaveOneOwner' /\ FirstSocketFirst' /\ \A c \in Conn : InUse(c)' => InUse(c)
    BY <1>1 DEF clientVars, IInv, Sockets, SocketsHaveOneOwner, FirstSocketFirst, InUse
  <2>4. FirstWaits'
    BY <1>1, Processes DEF clientVars, OthersStay, IInv, Sockets, FirstWaits
  <2> QED BY <1>1, <1>2, <2>1, <2>2, <2>3, <2>4, MoveKeepsSockets, Processes
<1>5. Verified'
  <2>1. CollateralFirst'
    BY <1>1 DEF IInv, Verified, CollateralFirst
  <2> QED BY <1>1, <1>2, <2>1, MoveKeepsVerified, Processes
      DEF clientVars, IInv, Verified, UsedIsVerified, KeptIsTruthful
<1> QED BY <1>3, <1>4, <1>5 DEF IInv

\* The collateral arrives before anything was verified (connect.rs 342).
LEMMA CollateralArrivesKeepsIInv ==
  ASSUME IInv, CollateralArrives PROVE IInv'
<1>1. /\ pc[Main] = "Collateral" /\ pc'[Main] = "Verify" /\ OthersStay(Main)
      /\ pc' \in [Proc -> Steps]
      /\ UNCHANGED <<worldVars, conns, clientVars, pool, sock, wip, callVars>>
  BY Processes DEF CollateralArrives, GoTo, OthersStay, IInv, TypeOK, CallsOK, Steps
<1>2. collateral' \in Collateral
  BY IntelAssumption DEF CollateralArrives, Collateral, IInv, TypeOK, WorldOK, Time
<1>3. ConnectionsKept
  BY <1>1, SameKeeps DEF IInv, TypeOK
<1>4. TypeOK'
  BY <1>1, <1>2
  DEF worldVars, clientVars, callVars, IInv, TypeOK, WorldOK, SocketsOK, VerificationsOK, CallsOK
<1>5. Sockets'
  <2>1. pc'[Main] \in Holding <=> sock'[Main] # None
    BY <1>1, Processes DEF Holding, IInv, Sockets, SocketsHeld
  <2>2. MainFirst'
    BY <1>1, Processes DEF OthersStay, IInv, Sockets, MainFirst
  <2>3. SocketsHaveOneOwner' /\ FirstSocketFirst' /\ \A c \in Conn : InUse(c)' => InUse(c)
    BY <1>1 DEF clientVars, IInv, Sockets, SocketsHaveOneOwner, FirstSocketFirst, InUse
  <2>4. FirstWaits'
    BY <1>1, Processes DEF clientVars, OthersStay, IInv, Sockets, FirstWaits
  <2> QED BY <1>1, <1>3, <2>1, <2>2, <2>3, <2>4, MoveKeepsSockets, Processes
<1>6. Verified'
  <2>1. \A c \in Conn : ~conns[c].verified
    BY <1>1 DEF IInv, Verified, CollateralFirst
  <2>2. CollateralFirst'
    BY <1>1, <1>2 DEF CollateralFirst
  <2>3. VerifiedIsGenuine'
    BY <1>1, <2>1 DEF VerifiedIsGenuine
  <2>4. \A t \in Thread : pc'[t] = "Idle"
    BY <1>1, Processes DEF OthersStay, IInv, Sockets, MainFirst
  <2>5. \A p \in Proc : pc'[p] \notin {"Publish", "HandOver", "Send", "Await"}
    BY <1>1, <2>4, Processes
  <2>6. UsedIsVerified'
    BY <1>1, <2>5 DEF clientVars, IInv, Verified, UsedIsVerified
  <2>7. KeptIsTruthful'
    BY <1>1, <2>5 DEF clientVars, IInv, Verified, KeptIsTruthful, Truthful
  <2> QED BY <2>2, <2>3, <2>6, <2>7 DEF Verified
<1> QED BY <1>4, <1>5, <1>6 DEF IInv

\* A new connection is nobody's yet, and was not verified (tls.rs 159-274).
LEMMA HandshakesKeepsIInv ==
  ASSUME IInv, NEW p \in Proc, Handshakes(p)
  PROVE  IInv'
<1>1. PICK c \in Conn :
        /\ conns[c].peer = None
        /\ conns' = [conns EXCEPT ![c] = [NoConnection EXCEPT !.peer = occupant, !.open = TRUE]]
        /\ sock' = [sock EXCEPT ![p] = c]
  BY DEF Handshakes
<1> DEFINE step == IF p = Main THEN "Extract" ELSE "Verify"
           new == [NoConnection EXCEPT !.peer = occupant, !.open = TRUE]
<1>2. /\ pc[p] = "Dial" /\ occupant \in Peer
      /\ Facts[occupant].leaf # None /\ Facts[occupant].holdsKey
      /\ UNCHANGED <<worldVars, collateral, clientVars, pool, wip, callVars>>
      /\ pc' = [pc EXCEPT ![p] = step]
  BY DEF Handshakes, GoTo, IInv, TypeOK, WorldOK
<1>3. /\ pc'[p] = step /\ sock'[p] = c /\ OthersStay(p) /\ pc' \in [Proc -> Steps]
  BY <1>1, <1>2 DEF OthersStay, IInv, TypeOK, CallsOK, SocketsOK, Steps
<1>4. new \in Connection /\ new.peer = occupant /\ ~new.verified /\ ~new.carried
  <2>1. NoConnection \in Connection
    BY IntelAssumption DEF NoConnection, Connection, Time
  <2>2. new \in Connection
    BY <1>2, <2>1 DEF Connection
  <2>3. new.peer = occupant
    BY DEF NoConnection
  <2>4. ~new.verified /\ ~new.carried
    BY DEF NoConnection
  <2> QED BY <2>2, <2>3, <2>4
<1>5. conns'[c] = new /\ conns' \in [Conn -> Connection]
      /\ \A d \in Conn : d # c => conns'[d] = conns[d]
  BY <1>1, <1>4 DEF IInv, TypeOK, SocketsOK
<1> HIDE DEF new
<1>6. /\ ~conns[c].verified /\ ~InUse(c)
  BY <1>1 DEF NoConnection, IInv, Sockets, SocketsReached
<1>7. pending = None
  BY <1>2, Processes DEF IInv, Sockets, FirstWaits
<1>8. TypeOK'
  BY <1>1, <1>2, <1>3, <1>5
  DEF worldVars, clientVars, callVars, IInv, TypeOK, WorldOK, SocketsOK, VerificationsOK, CallsOK
<1>9. Sockets'
  <2>1. SocketsHeld'
    BY <1>3, NoneAssumption DEF OthersStay, IInv, Sockets, SocketsHeld, Holding
  <2>2. SocketsReached'
    <3>1. conns'[c].peer = occupant /\ occupant # None
      BY <1>2, <1>4, <1>5, TransportAssumption
    <3>2. sock[p] = None
      BY <1>2 DEF IInv, Sockets, SocketsHeld, Holding
    <3>3. ASSUME NEW d \in Conn, d # c PROVE InUse(d)' <=> InUse(d)
      <4>1. d # None
        BY NoneAssumption
      <4>2. (\E q \in Proc : sock'[q] = d) <=> (\E q \in Proc : sock[q] = d)
        BY <1>3, <3>2, <3>3, <4>1 DEF OthersStay
      <4> QED BY <1>2, <4>2 DEF clientVars, InUse
    <3> QED BY <1>2, <1>5, <3>1, <3>3 DEF IInv, Sockets, SocketsReached
  <2>3. MainFirst'
    BY <1>2, <1>3, Processes DEF OthersStay, IInv, Sockets, MainFirst
  <2>4. SocketsHaveOneOwner'
    BY <1>2, <1>3, <1>6, <1>7 DEF clientVars, OthersStay, InUse, IInv, Sockets, SocketsHaveOneOwner
  <2>5. FirstSocketFirst'
    BY <1>2, <1>7 DEF clientVars, FirstSocketFirst
  <2>6. FirstWaits'
    BY <1>2, <1>3, <1>5, <1>7, Processes
    DEF clientVars, OthersStay, IInv, Sockets, FirstWaits, MainFirst
  <2> QED BY <2>1, <2>2, <2>3, <2>4, <2>5, <2>6 DEF Sockets
<1>10. Verified'
  <2>1. ~conns'[c].verified /\ ~conns'[c].carried
    BY <1>4, <1>5
  <2>2. VerifiedGrows
    BY <1>2, <1>5, <1>6 DEF VerifiedGrows
  <2>3. \A d \in Conn : conns'[d].verified => d # c /\ conns[d].verified
    BY <1>5, <2>1
  <2>4. VerifiedIsGenuine'
    BY <2>2, <2>3, GenuineStays DEF IInv, Verified, VerifiedIsGenuine
  <2>5. CollateralFirst'
    BY <1>2, <1>3, <2>3, Processes, ClientExists DEF OthersStay, IInv, Verified, CollateralFirst
  <2>6. UsedIsVerified'
    <3>1. ASSUME NEW d \in Conn, conns'[d].carried \/ d \in pool \/ d = pending
          PROVE  conns'[d].verified
      BY <1>5, <1>6, <2>1, <3>1 DEF InUse, IInv, Verified, UsedIsVerified
    <3>2. ASSUME NEW q \in Proc, pc'[q] \in {"Publish", "HandOver", "Send", "Await"}
          PROVE  conns'[sock'[q]].verified
      <4>1. q # p /\ pc[q] = pc'[q] /\ sock'[q] = sock[q]
        BY <1>3, <3>2 DEF OthersStay
      <4>2. sock[q] \in Conn /\ conns[sock[q]].verified
        BY <3>2, <4>1, SocketIsReached DEF IInv, Verified, UsedIsVerified, Holding
      <4> QED BY <2>2, <4>1, <4>2 DEF VerifiedGrows
    <3> QED BY <1>2, <3>1, <3>2 DEF clientVars, UsedIsVerified
  <2>7. KeptIsTruthful'
    BY <1>2, <1>3, <2>2, TruthStays, Processes
    DEF clientVars, OthersStay, VerifiedGrows, IInv, Verified, KeptIsTruthful
  <2> QED BY <2>4, <2>5, <2>6, <2>7 DEF Verified
<1> QED BY <1>8, <1>9, <1>10 DEF IInv

\* Publishing under the lock, or past a poisoned one (http.rs 207-214).
LEMMA PublishKeepsIInv ==
  ASSUME IInv, NEW p \in Proc, Publish(p)
  PROVE  IInv'
<1> DEFINE step == IF p = Main THEN "HandOver" ELSE "Send"
<1>1. /\ pc[p] = "Publish" /\ pc' = [pc EXCEPT ![p] = step]
      /\ latest' \in {latest, wip[p]}
      /\ UNCHANGED <<worldVars, conns, collateral, pending, first, poisoned, pool, sock, wip, callVars>>
  BY DEF Publish, GoTo
<1>2. pc'[p] = step /\ OthersStay(p) /\ pc' \in [Proc -> Steps]
  BY <1>1 DEF OthersStay, IInv, TypeOK, CallsOK, SocketsOK, Steps
<1>3. sock[p] \in Conn /\ sock[p] # None /\ conns[sock[p]].verified /\ Truthful(wip[p])
  BY <1>1, SocketIsReached, NoneAssumption DEF IInv, Verified, UsedIsVerified, KeptIsTruthful, Holding
<1>4. ConnectionsKept
  BY <1>1, SameKeeps DEF IInv, TypeOK
<1>5. TypeOK'
  <2>1. latest' \in Verification \cup {None}
    BY <1>1 DEF IInv, TypeOK, VerificationsOK
  <2> QED BY <1>1, <1>2, <2>1
      DEF worldVars, callVars, IInv, TypeOK, WorldOK, SocketsOK, VerificationsOK, CallsOK
<1>6. Sockets'
  <2>1. pc'[p] \in Holding
    BY <1>2 DEF Holding
  <2>2. MainFirst'
    BY <1>1, <1>2, Processes DEF OthersStay, IInv, Sockets, MainFirst
  <2>3. SocketsHaveOneOwner' /\ FirstSocketFirst' /\ \A c \in Conn : InUse(c)' => InUse(c)
    BY <1>1 DEF IInv, Sockets, SocketsHaveOneOwner, FirstSocketFirst, InUse
  <2>4. FirstWaits'
    BY <1>1, <1>2, Processes DEF OthersStay, Holding, IInv, Sockets, FirstWaits, MainFirst
  <2> QED BY <1>1, <1>2, <1>3, <1>4, <2>1, <2>2, <2>3, <2>4, MoveKeepsSockets
<1>7. Verified'
  <2>1. CollateralFirst'
    BY <1>1, <1>2, Processes DEF OthersStay, IInv, Verified, CollateralFirst
  <2>2. latest' # None => Truthful(latest')
    BY <1>1, <1>3 DEF IInv, Verified, KeptIsTruthful
  <2>3. pc'[Main] = "Ready" => Truthful(first)
    BY <1>2, Processes DEF OthersStay, IInv, Verified, KeptIsTruthful
  <2> QED BY <1>1, <1>2, <1>3, <1>4, <2>1, <2>2, <2>3, MoveKeepsVerified
      DEF IInv, Verified, UsedIsVerified
<1> QED BY <1>5, <1>6, <1>7 DEF IInv

\* The first socket becomes the pending one (connect.rs 355-374).
LEMMA HandOverKeepsIInv ==
  ASSUME IInv, HandOver
  PROVE  IInv'
<1>1. /\ pc[Main] = "HandOver" /\ pc' = [pc EXCEPT ![Main] = "Ready"]
      /\ pending' = sock[Main] /\ first' = wip[Main] /\ sock' = [sock EXCEPT ![Main] = None]
      /\ UNCHANGED <<worldVars, conns, collateral, latest, poisoned, pool, wip, callVars>>
  BY DEF HandOver, GoTo
<1>2. pc'[Main] = "Ready" /\ sock'[Main] = None /\ OthersStay(Main) /\ pc' \in [Proc -> Steps]
  BY <1>1, Processes DEF OthersStay, IInv, TypeOK, CallsOK, SocketsOK, Steps
<1>3. sock[Main] \in Conn /\ sock[Main] # None /\ conns[sock[Main]].verified /\ Truthful(wip[Main])
  BY <1>1, Processes, SocketIsReached, NoneAssumption
  DEF IInv, Verified, UsedIsVerified, KeptIsTruthful, Holding
<1>4. ConnectionsKept
  BY <1>1, SameKeeps DEF IInv, TypeOK
<1>5. \A t \in Thread : pc[t] = "Idle" /\ pc'[t] = "Idle" /\ sock[t] = None /\ sock'[t] = None
  BY <1>1, <1>2, Processes DEF OthersStay, Holding, IInv, Sockets, MainFirst, SocketsHeld
<1>6. TypeOK'
  <2>1. first' \in Verification \cup {None} /\ pending' \in Conn \cup {None}
    BY <1>1, <1>3 DEF Truthful
  <2>2. sock' \in [Proc -> Conn \cup {None}]
    BY <1>1 DEF IInv, TypeOK, SocketsOK
  <2> QED BY <1>1, <1>2, <2>1, <2>2
      DEF worldVars, callVars, IInv, TypeOK, WorldOK, SocketsOK, VerificationsOK, CallsOK
<1>7. Sockets'
  <2>1. pc'[Main] \notin Holding
    BY <1>2 DEF Holding
  <2>2. MainFirst'
    BY <1>2, <1>5 DEF MainFirst
  <2>3. \A p \in Proc : sock'[p] = None
    BY <1>2, <1>5, Processes
  <2>4. sock[Main] \notin pool /\ None \notin pool
    BY Processes, NoneAssumption DEF IInv, TypeOK, SocketsOK, Sockets, SocketsHaveOneOwner
  <2>5. SocketsHaveOneOwner'
    BY <1>1, <1>3, <2>3, <2>4 DEF SocketsHaveOneOwner
  <2>6. \A c \in Conn : InUse(c)' => InUse(c)
    BY <1>1, <2>3, Processes, NoneAssumption DEF InUse
  <2>7. FirstSocketFirst'
    BY <1>1 DEF FirstSocketFirst, IInv, Sockets, FirstWaits
  <2>8. FirstWaits'
    BY <1>2, <1>5 DEF FirstWaits, Holding
  <2> QED BY <1>2, <1>4, <2>1, <2>2, <2>5, <2>6, <2>7, <2>8, MoveKeepsSockets, Processes
<1>8. Verified'
  <2>1. CollateralFirst'
    BY <1>1, <1>2 DEF IInv, Verified, CollateralFirst
  <2> QED BY <1>1, <1>2, <1>3, <1>4, <2>1, MoveKeepsVerified, Processes
      DEF IInv, Verified, UsedIsVerified, KeptIsTruthful
<1> QED BY <1>6, <1>7, <1>8 DEF IInv

(***************************************************************************)
(* The steps of a request that leave the client as it is: what a thread    *)
(* holds afterwards it held before, or it took it from the pool or from    *)
(* the pending slot.                                                       *)
(***************************************************************************)
Moves(t, step, s) ==
  /\ pc' = [pc EXCEPT ![t] = step] /\ sock' = [sock EXCEPT ![t] = s]
  /\ UNCHANGED <<worldVars, collateral, latest, first, poisoned, wip>>

RequestSteps == {"Idle", "Checkout", "Dial", "Send", "Await", "Done"}

Takes(t, s) ==
  \/ s = sock[t]
  \/ sock[t] = None /\ s \in pool \ pool'
  \/ sock[t] = None /\ s = pending /\ pending' = None

HandsOn(t, step, s) ==
  /\ step \in Holding <=> s # None
  /\ s # None => conns[s].verified /\ Takes(t, s)
  /\ step \in {"Dial"} \cup Holding => pending' = None
  /\ pending' \in {pending, None}
  /\ pool' \subseteq pool \/ (s = None /\ sock[t] # None /\ pool' = pool \cup {sock[t]})
  /\ pool' \subseteq Conn /\ \A c \in pool' : conns[c].verified

\* Each such step keeps the invariant.
LEMMA RequestMoves ==
  ASSUME IInv, NEW t \in Thread, pc[t] # "Idle" \/ pc[Main] = "Ready",
         NEW step \in RequestSteps, NEW s \in Conn \cup {None},
         Moves(t, step, s), HandsOn(t, step, s), ConnectionsKept, CallsOK'
  PROVE  IInv'
<1> USE DEF RequestSteps, HandsOn, Takes
<1>1. pc[Main] = "Ready" /\ collateral \in Collateral
  BY ClientExists, Processes DEF IInv, Sockets, MainFirst, Verified, CollateralFirst
<1>2. pc'[t] = step /\ sock'[t] = s /\ OthersStay(t) /\ t \in Proc /\ t # Main /\ pc'[Main] = "Ready"
  BY <1>1, Processes DEF Moves, OthersStay, IInv, TypeOK, CallsOK, SocketsOK
<1>3. TypeOK'
  <2>1. sock' \in [Proc -> Conn \cup {None}] /\ conns' \in [Conn -> Connection]
        /\ pending' \in Conn \cup {None}
    BY DEF Moves, ConnectionsKept, IInv, TypeOK, SocketsOK
  <2> QED BY <2>1 DEF Moves, worldVars, IInv, TypeOK, WorldOK, SocketsOK, VerificationsOK
<1>4. Sockets'
  <2>1. pc'[t] \in Holding <=> sock'[t] # None
    BY <1>2
  <2>2. MainFirst'
    BY <1>1, <1>2, Processes DEF OthersStay, IInv, Sockets, MainFirst
  <2>3. SocketsHaveOneOwner'
    <3>1. pending' # None => pending' \notin pool' /\ \A p \in Proc : sock'[p] # pending'
      BY <1>2, NoneAssumption DEF OthersStay, IInv, TypeOK, SocketsOK, Sockets, SocketsHaveOneOwner
    <3>2. \A p \in Proc : sock'[p] \notin pool'
      BY <1>2, NoneAssumption DEF OthersStay, IInv, TypeOK, SocketsOK, Sockets, SocketsHaveOneOwner
    <3>3. ASSUME NEW p \in Proc, p # t, s # None PROVE sock'[p] # s
      BY <1>2, <3>3 DEF OthersStay, IInv, Sockets, SocketsHaveOneOwner
    <3>4. \A p, q \in Proc : p # q /\ sock'[p] # None => sock'[p] # sock'[q]
      BY <1>2, <3>3 DEF OthersStay, IInv, Sockets, SocketsHaveOneOwner
    <3> QED BY <3>1, <3>2, <3>4 DEF SocketsHaveOneOwner
  <2>4. FirstSocketFirst'
    BY DEF FirstSocketFirst, ConnectionsKept, IInv, Sockets
  <2>5. FirstWaits'
    BY <1>2, Processes DEF OthersStay, IInv, Sockets, FirstWaits, Holding
  <2>6. ASSUME NEW c \in Conn, InUse(c)' PROVE InUse(c)
    <3>1. c # None
      BY NoneAssumption
    <3> QED BY <1>2, <2>6, <3>1 DEF OthersStay, InUse
  <2> QED BY <1>2, <2>1, <2>2, <2>3, <2>4, <2>5, <2>6, MoveKeepsSockets
<1>5. Verified'
  <2>1. CollateralFirst'
    BY <1>1, <1>2 DEF Moves, CollateralFirst
  <2>2. \A c \in Conn : c \in pool' \/ c = pending' => conns[c].verified
    BY NoneAssumption DEF IInv, Verified, UsedIsVerified
  <2>3. pc'[t] \notin {"Publish", "HandOver"}
    BY <1>2
  <2>4. pc'[t] \in {"Send", "Await"} => sock'[t] \in Conn /\ conns[sock'[t]].verified
    BY <1>2 DEF Holding
  <2>5. latest' # None => Truthful(latest')
    BY DEF Moves, IInv, Verified, KeptIsTruthful
  <2>6. pc'[Main] = "Ready" => Truthful(first')
    BY <1>1 DEF Moves, IInv, Verified, KeptIsTruthful
  <2>7. UNCHANGED <<collateral, wip>>
    BY DEF Moves
  <2> QED BY <1>2, <2>1, <2>2, <2>3, <2>4, <2>5, <2>6, <2>7, MoveKeepsVerified
<1> QED BY <1>3, <1>4, <1>5 DEF IInv

\* A call that holds no socket, and the counters when it does not count.
LEMMA HoldsNothing ==
  ASSUME IInv, NEW p \in Proc, pc[p] \notin Holding
  PROVE  sock[p] = None /\ sock = [sock EXCEPT ![p] = None]
  BY DEF IInv, TypeOK, SocketsOK, Sockets, SocketsHeld

\* A step that only moves a call keeps the types.
LEMMA StepIsTyped ==
  ASSUME IInv, NEW p \in Proc, NEW step \in Steps, pc' = [pc EXCEPT ![p] = step],
         UNCHANGED <<poisoned, callVars>>
  PROVE  CallsOK'
  BY DEF callVars, IInv, TypeOK, CallsOK

\* A thread makes a request (http.rs 390-440).
LEMMA BeginRequestKeepsIInv ==
  ASSUME IInv, NEW t \in Thread, BeginRequest(t)
  PROVE  IInv'
<1>1. t \in Proc /\ SocketsOK
  BY Processes DEF IInv, TypeOK
<1>2. pc[Main] = "Ready" /\ pc[t] \notin Holding
  BY DEF BeginRequest, Holding
<1>3. PICK step \in {"Checkout", "Done"} : pc' = [pc EXCEPT ![t] = step]
  BY DEF BeginRequest, GoTo
<1>4. Moves(t, step, None)
  BY <1>1, <1>2, <1>3, HoldsNothing DEF BeginRequest, clientVars, Moves
<1>5. CallsOK'
  <2>1. pc' \in [Proc -> Steps]
    BY <1>3 DEF IInv, TypeOK, CallsOK, Steps
  <2>2. answer' \in [Proc -> Answer]
    <3>1. FromUreq(Fault) \in Answer /\ NoAnswer \in Answer
      BY FromUreqIsTyped DEF Fault, NoAnswer, Answer
    <3> QED BY <3>1 DEF BeginRequest, IInv, TypeOK, CallsOK
  <2>3. requests' \in [Proc -> 0 .. MaxRequests]
    <3>1. requests[t] + 1 \in 0 .. MaxRequests
      BY <1>1, TransportAssumption DEF BeginRequest, IInv, TypeOK, CallsOK
    <3> QED BY <3>1 DEF BeginRequest, IInv, TypeOK, CallsOK
  <2>4. retries' \in [Proc -> 0 .. MaxRetries]
    <3>1. 0 \in 0 .. MaxRetries
      BY TransportAssumption
    <3> QED BY <3>1 DEF BeginRequest, IInv, TypeOK, CallsOK
  <2>5. poisoned' \in BOOLEAN
    BY DEF BeginRequest, clientVars, IInv, TypeOK, CallsOK
  <2> QED BY <2>1, <2>2, <2>3, <2>4, <2>5 DEF CallsOK
<1>6. ConnectionsKept
  BY <1>1, SameKeeps DEF BeginRequest
<1>7. HandsOn(t, step, None)
  <2>1. UNCHANGED <<pool, pending>>
    BY DEF BeginRequest, clientVars
  <2>2. pool \subseteq Conn /\ \A c \in pool : conns[c].verified
    BY DEF IInv, TypeOK, SocketsOK, Verified, UsedIsVerified
  <2>3. step \notin Holding /\ step # "Dial"
    BY DEF Holding
  <2> QED BY <2>1, <2>2, <2>3 DEF HandsOn
<1>8. step \in RequestSteps
  BY DEF RequestSteps
<1> QED BY <1>2, <1>4, <1>5, <1>6, <1>7, <1>8, RequestMoves

\* An idle connection is reused or dropped (http.rs 338-354).
LEMMA ReusePooledKeepsIInv ==
  ASSUME IInv, NEW t \in Thread, ReusePooled(t)
  PROVE  IInv'
<1>1. t \in Proc /\ SocketsOK /\ pc[t] = "Checkout" /\ pc[t] \notin Holding /\ sock[t] = None
  BY Processes, HoldsNothing DEF ReusePooled, Holding, IInv, TypeOK
<1>2. PICK c \in pool :
        /\ pool' = pool \ {c}
        /\ \/ sock' = [sock EXCEPT ![t] = c] /\ pc' = [pc EXCEPT ![t] = "Send"]
           \/ UNCHANGED <<sock, pc>>
  BY DEF ReusePooled, GoTo
<1>3. c \in Conn /\ c # None /\ conns[c].verified /\ pool \subseteq Conn
      /\ \A d \in pool : conns[d].verified
  BY NoneAssumption DEF IInv, TypeOK, SocketsOK, Verified, UsedIsVerified
<1>4. pending = None
  <2>1. conns[c].peer # None
    BY <1>3 DEF IInv, Sockets, SocketsReached, InUse
  <2>2. pending # None => c = pending /\ pending \notin pool
    BY <1>3, <2>1 DEF IInv, Sockets, FirstSocketFirst, SocketsHaveOneOwner
  <2> QED BY <2>2
<1>5. UNCHANGED <<worldVars, conns, collateral, latest, pending, first, poisoned, wip, callVars>>
  BY DEF ReusePooled, clientVars
<1>6. ConnectionsKept
  BY <1>1, <1>5, SameKeeps
<1>7. CASE sock' = [sock EXCEPT ![t] = c] /\ pc' = [pc EXCEPT ![t] = "Send"]
  <2>1. Moves(t, "Send", c)
    BY <1>5, <1>7 DEF Moves
  <2>2. CallsOK'
    BY <1>1, <1>5, <1>7, StepIsTyped DEF Steps
  <2>3. HandsOn(t, "Send", c)
    <3>1. "Send" \in Holding
      BY DEF Holding
    <3> QED BY <1>1, <1>2, <1>3, <1>4, <1>5, <3>1 DEF HandsOn, Takes
  <2> QED BY <1>1, <1>3, <1>6, <2>1, <2>2, <2>3, RequestMoves DEF RequestSteps
<1>8. CASE UNCHANGED <<sock, pc>>
  <2>1. pc' = [pc EXCEPT ![t] = "Checkout"] /\ sock' = [sock EXCEPT ![t] = None]
    BY <1>1, <1>8, HoldsNothing DEF IInv, TypeOK, CallsOK
  <2>2. Moves(t, "Checkout", None)
    BY <1>5, <2>1 DEF Moves
  <2>3. CallsOK'
    BY <1>1, <1>5, <2>1, StepIsTyped DEF Steps
  <2>4. HandsOn(t, "Checkout", None)
    <3>1. "Checkout" \notin Holding
      BY DEF Holding
    <3> QED BY <1>1, <1>2, <1>3, <1>4, <1>5, <3>1 DEF HandsOn
  <2> QED BY <1>1, <1>6, <2>2, <2>3, <2>4, RequestMoves DEF RequestSteps
<1> QED BY <1>2, <1>7, <1>8

\* The connector takes the pending connection or dials (http.rs 232-267).
LEMMA ConnectKeepsIInv ==
  ASSUME IInv, NEW t \in Thread, Connect(t)
  PROVE  IInv'
<1>1. t \in Proc /\ SocketsOK /\ pc[t] = "Checkout" /\ pc[t] \notin Holding /\ sock[t] = None
  BY Processes, HoldsNothing DEF Connect, Holding, IInv, TypeOK
<1>2. /\ pool = {} /\ pool' = {}
      /\ UNCHANGED <<worldVars, conns, collateral, latest, first, poisoned, wip, callVars>>
  BY DEF Connect
<1>3. ConnectionsKept
  BY <1>1, <1>2, SameKeeps
<1>4. CASE pending # None
  <2>1. pc' = [pc EXCEPT ![t] = "Send"] /\ sock' = [sock EXCEPT ![t] = pending] /\ pending' = None
    BY <1>4 DEF Connect, HasPending, TakePending, GoTo
  <2>2. pending \in Conn /\ conns[pending].verified
    BY <1>4 DEF IInv, TypeOK, SocketsOK, Verified, UsedIsVerified
  <2>3. Moves(t, "Send", pending)
    BY <1>2, <2>1 DEF Moves
  <2>4. CallsOK'
    BY <1>1, <1>2, <2>1, StepIsTyped DEF Steps
  <2>5. HandsOn(t, "Send", pending)
    <3>1. "Send" \in Holding
      BY DEF Holding
    <3> QED BY <1>1, <1>2, <1>4, <2>1, <2>2, <3>1 DEF HandsOn, Takes
  <2> QED BY <1>1, <1>3, <2>2, <2>3, <2>4, <2>5, RequestMoves DEF RequestSteps
<1>5. CASE pending = None
  <2>1. pc' = [pc EXCEPT ![t] = "Dial"] /\ UNCHANGED <<sock, pending>>
    BY <1>5 DEF Connect, HasPending, GoTo
  <2>2. sock' = [sock EXCEPT ![t] = None]
    BY <1>1, <2>1, HoldsNothing
  <2>3. Moves(t, "Dial", None)
    BY <1>2, <2>1, <2>2 DEF Moves
  <2>4. CallsOK'
    BY <1>1, <1>2, <2>1, StepIsTyped DEF Steps
  <2>5. HandsOn(t, "Dial", None)
    <3>1. "Dial" \notin Holding
      BY DEF Holding
    <3> QED BY <1>1, <1>2, <1>5, <2>1, <3>1 DEF HandsOn
  <2> QED BY <1>1, <1>3, <2>3, <2>4, <2>5, RequestMoves DEF RequestSteps
<1> QED BY <1>4, <1>5

\* What a thread that awaits or sends holds, and that nothing is pending then.
LEMMA HoldsVerified ==
  ASSUME IInv, NEW t \in Thread, pc[t] \in {"Send", "Await"}
  PROVE  /\ t \in Proc /\ sock[t] \in Conn /\ sock[t] # None
         /\ conns[sock[t]].peer # None /\ conns[sock[t]].verified
         /\ pending = None /\ pool \subseteq Conn /\ \A c \in pool : conns[c].verified
<1>1. t \in Proc
  BY Processes
<1>2. pc[t] \in Holding
  BY DEF Holding
<1>3. sock[t] \in Conn /\ sock[t] # None /\ conns[sock[t]].peer # None
  BY <1>1, <1>2, SocketIsReached, NoneAssumption
<1>4. pending = None
  BY <1>2 DEF IInv, Sockets, FirstWaits
<1> QED BY <1>1, <1>3, <1>4 DEF IInv, TypeOK, SocketsOK, Verified, UsedIsVerified

\* Bytes leave on a verified connection (http.rs 317-328).
LEMMA SendKeepsIInv ==
  ASSUME IInv, NEW t \in Thread, Send(t)
  PROVE  IInv'
<1>1. /\ pc[t] = "Send" /\ pc' = [pc EXCEPT ![t] = "Await"]
      /\ conns' = [conns EXCEPT ![sock[t]].carried = TRUE]
      /\ UNCHANGED <<worldVars, collateral, clientVars, pool, sock, wip, callVars>>
  BY DEF Send, GoTo
<1>2. SocketsOK
  BY DEF IInv, TypeOK
<1>3. t \in Proc /\ sock[t] \in Conn /\ sock[t] # None /\ conns[sock[t]].peer # None
      /\ conns[sock[t]].verified
  BY <1>1, HoldsVerified
<1>4. ConnectionsKept
  <2>1. conns' \in [Conn -> Connection]
    BY <1>1, <1>2 DEF SocketsOK, Connection
  <2>2. \A d \in Conn : /\ conns'[d].peer = conns[d].peer
                        /\ conns'[d].verified = conns[d].verified
                        /\ conns'[d].at = conns[d].at
    BY <1>1, <1>2 DEF SocketsOK, Connection
  <2>3. \A d \in Conn : d # sock[t] => conns'[d] = conns[d]
    BY <1>1, <1>2 DEF SocketsOK
  <2> QED BY <1>3, <2>1, <2>2, <2>3 DEF ConnectionsKept
<1>5. sock' = [sock EXCEPT ![t] = sock[t]]
  BY <1>1, <1>2 DEF SocketsOK
<1>6. Moves(t, "Await", sock[t])
  BY <1>1, <1>5 DEF clientVars, Moves
<1>7. CallsOK'
  BY <1>1, <1>3, StepIsTyped DEF clientVars, Steps
<1>8. HandsOn(t, "Await", sock[t])
  <2>1. "Await" \in Holding
    BY DEF Holding
  <2> QED BY <1>1, <1>3, <2>1, HoldsVerified DEF clientVars, HandsOn, Takes
<1> QED BY <1>1, <1>3, <1>4, <1>6, <1>7, <1>8, RequestMoves DEF RequestSteps

\* ureq comes back for another connection (http.rs 111-113).
LEMMA RetryKeepsIInv ==
  ASSUME IInv, NEW t \in Thread, Retry(t)
  PROVE  IInv'
<1>1. /\ pc[t] \in {"Send", "Await"} /\ pc' = [pc EXCEPT ![t] = "Checkout"]
      /\ sock' = [sock EXCEPT ![t] = None]
      /\ retries[t] < MaxRetries /\ retries' = [retries EXCEPT ![t] = @ + 1]
      /\ UNCHANGED <<worldVars, conns, collateral, clientVars, pool, wip, answer, requests>>
  BY DEF Retry, GoTo, MayRetry
<1>2. ConnectionsKept
  BY <1>1, SameKeeps DEF IInv, TypeOK
<1>3. Moves(t, "Checkout", None)
  BY <1>1 DEF clientVars, Moves
<1>4. CallsOK'
  <2>1. retries[t] + 1 \in 0 .. MaxRetries
    BY <1>1, Processes, TransportAssumption DEF IInv, TypeOK, CallsOK
  <2>2. retries' \in [Proc -> 0 .. MaxRetries]
    BY <1>1, <2>1 DEF IInv, TypeOK, CallsOK
  <2>3. pc' \in [Proc -> Steps] /\ UNCHANGED <<poisoned, answer, requests>>
    BY <1>1 DEF clientVars, IInv, TypeOK, CallsOK, Steps
  <2> QED BY <2>2, <2>3 DEF IInv, TypeOK, CallsOK
<1>5. HandsOn(t, "Checkout", None)
  <2>1. "Checkout" \notin Holding
    BY DEF Holding
  <2>2. UNCHANGED <<pool, pending>>
    BY <1>1 DEF clientVars
  <2> QED BY <1>1, <2>1, <2>2, HoldsVerified DEF HandsOn
<1> QED BY <1>1, <1>2, <1>3, <1>4, <1>5, RequestMoves DEF RequestSteps

\* A connection that was read to its end returns to the pool.
LEMMA RespondKeepsIInv ==
  ASSUME IInv, NEW t \in Thread, Respond(t), pool' = pool \cup {sock[t]}, UNCHANGED conns
  PROVE  IInv'
<1>1. /\ pc[t] = "Await" /\ Return(t, [status |-> "Ok", refusal |-> None])
      /\ UNCHANGED <<worldVars, collateral, clientVars, wip>>
  BY DEF Respond
<1>2. /\ pc' = [pc EXCEPT ![t] = "Done"] /\ sock' = [sock EXCEPT ![t] = None]
  BY <1>1 DEF Return, GoTo
<1>3. ConnectionsKept
  BY SameKeeps DEF IInv, TypeOK
<1>4. Moves(t, "Done", None)
  BY <1>1, <1>2 DEF clientVars, Moves
<1>5. CallsOK'
  <2>1. [status |-> "Ok", refusal |-> None] \in Answer
    BY DEF Answer
  <2>2. CallsOK /\ poisoned' = poisoned /\ t \in Proc
    BY <1>1, Processes DEF clientVars, IInv, TypeOK
  <2>3. poisoned' \in BOOLEAN
    BY <2>2 DEF CallsOK
  <2> QED BY <1>1, <2>1, <2>2, <2>3, ReturnIsTyped DEF CallsOK
<1>6. HandsOn(t, "Done", None)
  <2>1. "Done" \notin Holding
    BY DEF Holding
  <2>2. UNCHANGED pending
    BY <1>1 DEF clientVars
  <2> QED BY <1>1, <2>1, <2>2, HoldsVerified DEF HandsOn
<1> QED BY <1>1, <1>3, <1>4, <1>5, <1>6, RequestMoves DEF RequestSteps

\* A panic under the lock takes the thread and its socket (http.rs 207-214).
LEMMA PanicKeepsIInv ==
  ASSUME IInv, NEW p \in Proc, Panic(p)
  PROVE  IInv'
<1>1. /\ pc[p] = "Publish" /\ pc' = [pc EXCEPT ![p] = "Panicked"]
      /\ sock' = [sock EXCEPT ![p] = None] /\ Close(sock[p])
      /\ latest' = latest \/ latest' = wip[p]
      /\ poisoned' = TRUE
      /\ UNCHANGED <<worldVars, collateral, pending, first, pool, wip, callVars>>
  BY DEF Panic, GoTo
<1>2. SocketsOK /\ TypeOK /\ Sockets /\ Verified
  BY DEF IInv, TypeOK
<1>3. ConnectionsKept
  BY <1>1, <1>2, SocketIsReached, CloseKeeps DEF Holding
<1>4. Sockets'
  BY <1>1, <1>2, <1>3, ReturnKeepsSockets
<1>5. Verified'
  BY <1>1, <1>2, <1>3, ReturnKeepsVerified
<1>6. WorldOK'
  BY <1>1 DEF worldVars, IInv, TypeOK, WorldOK
<1>7. SocketsOK'
  BY <1>1, <1>2, <1>3 DEF SocketsOK, ConnectionsKept
<1>8. VerificationsOK'
  BY <1>1 DEF IInv, TypeOK, VerificationsOK
<1>9. CallsOK'
  <2>1. poisoned' \in BOOLEAN
    BY <1>1
  <2>2. pc' \in [Proc -> Steps] /\ UNCHANGED callVars
    BY <1>1 DEF IInv, TypeOK, CallsOK, Steps
  <2> QED BY <2>1, <2>2 DEF callVars, IInv, TypeOK, CallsOK
<1> QED BY <1>4, <1>5, <1>6, <1>7, <1>8, <1>9 DEF IInv, TypeOK

\* Nothing happens.
LEMMA StutterKeepsIInv ==
  ASSUME IInv, UNCHANGED vars
  PROVE  IInv'
<1>1. /\ UNCHANGED <<terminating, occupant, now, conns, collateral, latest, pending, first, poisoned>>
      /\ UNCHANGED <<pool, pc, sock, wip, answer, requests, retries>>
  BY DEF vars, worldVars, clientVars, callVars
<1>2. TypeOK'
  BY <1>1 DEF IInv, TypeOK, WorldOK, SocketsOK, VerificationsOK, CallsOK
<1>3. Sockets'
  BY <1>1 DEF IInv, Sockets, SocketsHeld, SocketsReached, InUse, MainFirst, SocketsHaveOneOwner,
              FirstSocketFirst, FirstWaits
<1>4. Verified'
  BY <1>1 DEF IInv, Verified, CollateralFirst, VerifiedIsGenuine, Genuine, Attestation,
              UsedIsVerified, KeptIsTruthful, Truthful
<1> QED BY <1>2, <1>3, <1>4 DEF IInv

(***************************************************************************)
(* The invariant, and what follows from it.                                *)
(***************************************************************************)
LEMMA DialsKeepIInv ==
  ASSUME IInv, NEW p \in Proc, Dials(p)
  PROVE  IInv'
  BY ReturnsKeepIInv, HandshakesKeepsIInv, VerifyHandshookKeepsIInv, PublishKeepsIInv DEF Dials

\* Every step of a request keeps the invariant.
LEMMA RequestKeepsIInv ==
  ASSUME IInv, NEW t \in Thread, Request(t)
  PROVE  IInv'
<1>1. t \in Proc
  BY Processes
<1>2. CASE ReusePooled(t) \/ Connect(t) \/ Send(t) \/ Retry(t)
  BY <1>2, ReusePooledKeepsIInv, ConnectKeepsIInv, SendKeepsIInv, RetryKeepsIInv
<1>3. CASE Dials(t)
  BY <1>1, <1>3, DialsKeepIInv
<1>4. CASE Fails(t) \/ RespondTooLarge(t)
  BY <1>1, <1>4, ReturnsKeepIInv
<1>5. CASE Respond(t)
  <2>1. pool' = pool \/ (pool' = pool \cup {sock[t]} /\ UNCHANGED conns)
    BY <1>5 DEF Respond
  <2> QED BY <1>1, <1>5, <2>1, ReturnsKeepIInv, RespondKeepsIInv
<1> QED BY <1>2, <1>3, <1>4, <1>5 DEF Request

\* Every step keeps the invariant.
LEMMA NextKeepsIInv == IInv /\ [Next]_vars => IInv'
<1> SUFFICES ASSUME IInv, [Next]_vars PROVE IInv'
  OBVIOUS
<1>1. Main \in Proc
  BY Processes
<1>2. CASE ConnectVerified
  <2>1. CASE RefuseTerminating \/ CollateralFails
    BY <1>1, <2>1, ReturnsKeepIInv
  <2>2. CASE Extract
    BY <1>1, <2>2, ReturnsKeepIInv, ConnectGoesOn
  <2>3. CASE StartConnect \/ CollateralArrives \/ HandOver
    BY <2>3, ConnectGoesOn, CollateralArrivesKeepsIInv, HandOverKeepsIInv
  <2>4. CASE Dials(Main)
    BY <1>1, <2>4, DialsKeepIInv
  <2> QED BY <1>2, <2>1, <2>2, <2>3, <2>4 DEF ConnectVerified
<1>3. ASSUME NEW t \in Thread, BeginRequest(t) \/ Request(t) PROVE IInv'
  BY <1>3, BeginRequestKeepsIInv, RequestKeepsIInv
<1>4. ASSUME NEW p \in Proc, Panic(p) PROVE IInv'
  BY <1>4, PanicKeepsIInv
<1>5. CASE World
  BY <1>5, WorldKeepsIInv
<1>6. CASE UNCHANGED vars
  BY <1>6, StutterKeepsIInv
<1> QED BY <1>2, <1>3, <1>4, <1>5, <1>6 DEF Next

\* The invariant holds in every reachable state.
LEMMA Invariance == Spec => []IInv
  BY InitIInv, NextKeepsIInv, PTL DEF Spec

\* The variables have their types (connect.rs, connect/http.rs).
THEOREM TypeCorrect == Spec => []TypeOK
<1>1. IInv => TypeOK
  BY DEF IInv
<1> QED BY <1>1, Invariance, PTL

(***************************************************************************)
(* Application data reaches attested peers only, whatever answers at the   *)
(* endpoint between connections (connect.rs 283, 385-390).                 *)
(***************************************************************************)
THEOREM OnlyAttested == Spec => []OnlyAttestedPeersAreSent
<1>1. IInv => OnlyAttestedPeersAreSent
  BY DEF IInv, Verified, UsedIsVerified, VerifiedIsGenuine, OnlyAttestedPeersAreSent
<1> QED BY <1>1, Invariance, PTL

\* A socket belongs to the pending slot, the pool, or one call (http.rs 218-226, 246-266).
THEOREM OneOwner == Spec => []SocketsHaveOneOwner
<1>1. IInv => SocketsHaveOneOwner
  BY DEF IInv, Sockets
<1> QED BY <1>1, Invariance, PTL

\* The socket that was verified waits alone for the first request (http.rs 103-114).
THEOREM VerifiedSocketIsUsed == Spec => []FirstSocketFirst
<1>1. IInv => FirstSocketFirst
  BY DEF IInv, Sockets
<1> QED BY <1>1, Invariance, PTL

(***************************************************************************)
(* The accessors answer, and truly, after reconnects, failed reconnects and*)
(* poisoned locks (connect.rs 399-406, 478-495).                           *)
(***************************************************************************)
THEOREM AccessorsTrue == Spec => []AccessorsAreTrue
<1>1. ASSUME IInv PROVE AccessorsAreTrue
  <2> SUFFICES ASSUME pc[Main] = "Ready"
               PROVE  \E v : v = LatestVerification /\ v # None /\ Truthful(v) /\ Genuine(v.conn)
    BY DEF AccessorsAreTrue, Truthful
  <2>1. Truthful(LatestVerification)
    BY <1>1 DEF LatestVerification, IInv, Verified, KeptIsTruthful
  <2>2. LatestVerification # None
    BY <2>1, NoneAssumption DEF Truthful
  <2>3. Genuine(LatestVerification.conn)
    BY <1>1, <2>1 DEF Truthful, Verification, IInv, Verified, VerifiedIsGenuine
  <2> QED BY <2>1, <2>2, <2>3
<1> QED BY <1>1, Invariance, PTL

-----------------------------------------------------------------------------
(***************************************************************************)
(* The client implements what it promises.  Of a connection AttestedChannel*)
(* sees whom it reached, whether it was verified and whether it carried    *)
(* data; only the dial, the verification and the first write change those. *)
(***************************************************************************)
FactsKept ==
  \A c \in Conn : /\ conns'[c].peer = conns[c].peer
                  /\ conns'[c].verified = conns[c].verified
                  /\ conns'[c].carried = conns[c].carried

ReadyStays == pc[Main] = "Ready" => pc'[Main] = "Ready"

Party == [c \in Conn |-> conns[c].peer]
Attested == {c \in Conn : conns[c].verified}
Carried == {c \in Conn : conns[c].carried}
Shown == IF pc[Main] = "Ready" THEN LatestVerification.conn ELSE None

\* Closing a socket is not seen.
LEMMA CloseKeepsFacts ==
  ASSUME TypeOK, NEW c, Close(c)
  PROVE  FactsKept
  BY DEF TypeOK, SocketsOK, Connection, Close, FactsKept

\* Nor is a step that leaves the connections alone.
LEMMA SameKeepsFacts == UNCHANGED conns => FactsKept
  BY DEF FactsKept

\* A process that is not Ready itself moves, and Main stays where it is.
LEMMA MoveKeepsReady ==
  ASSUME TypeOK, NEW p \in Proc, pc[p] # "Ready", NEW s, pc' = [pc EXCEPT ![p] = s]
  PROVE  ReadyStays
<1>1. Main \in Proc
  BY Processes
<1> QED BY <1>1 DEF TypeOK, CallsOK, ReadyStays

\* The steps of a dial, its verification apart.
LEMMA DialKinds ==
  ASSUME IInv, NEW p \in Proc, Dials(p)
  PROVE  (FactsKept /\ ReadyStays) \/ Handshakes(p) \/ VerifyHandshook(p)
<1> USE DEF IInv
<1>1. CASE DialFails(p) \/ DialWithoutCertificate(p)
  <2>1. UNCHANGED conns /\ pc[p] = "Dial" /\ pc' = [pc EXCEPT ![p] = "Done"]
    BY <1>1 DEF DialFails, DialWithoutCertificate, Refuse, Return, GoTo
  <2> QED BY <2>1, SameKeepsFacts, MoveKeepsReady
<1>2. CASE Publish(p)
  <2>1. UNCHANGED conns /\ pc[p] = "Publish"
        /\ pc' = [pc EXCEPT ![p] = IF p = Main THEN "HandOver" ELSE "Send"]
    BY <1>2 DEF Publish, GoTo
  <2> QED BY <2>1, SameKeepsFacts, MoveKeepsReady
<1> QED BY <1>1, <1>2 DEF Dials

\* The steps of connect_verified.
LEMMA ConnectKinds ==
  ASSUME IInv, ConnectVerified
  PROVE  (FactsKept /\ ReadyStays) \/ Handshakes(Main) \/ VerifyHandshook(Main)
<1> USE DEF IInv
<1>1. Main \in Proc
  BY Processes
<1>2. CASE RefuseTerminating \/ CollateralFails
  <2>1. pc[Main] \in {"Start", "Collateral"} /\ pc' = [pc EXCEPT ![Main] = "Done"]
    BY <1>2 DEF RefuseTerminating, CollateralFails, Refuse, Return, GoTo
  <2>2. FactsKept
    BY <1>2, SameKeepsFacts, CloseKeepsFacts DEF RefuseTerminating, CollateralFails
  <2> QED BY <1>1, <2>1, <2>2, MoveKeepsReady
<1>3. CASE Extract
  <2>1. pc[Main] = "Extract" /\ \E s : pc' = [pc EXCEPT ![Main] = s]
    BY <1>3 DEF Extract, Refuse, Return, GoTo
  <2>2. FactsKept
    BY <1>3, SameKeepsFacts, CloseKeepsFacts DEF Extract
  <2> QED BY <1>1, <2>1, <2>2, MoveKeepsReady
<1>4. CASE StartConnect \/ CollateralArrives \/ HandOver
  <2>1. UNCHANGED conns /\ pc[Main] \in {"Start", "Collateral", "HandOver"}
        /\ \E s : pc' = [pc EXCEPT ![Main] = s]
    BY <1>4 DEF StartConnect, CollateralArrives, HandOver, GoTo
  <2> QED BY <1>1, <2>1, SameKeepsFacts, MoveKeepsReady
<1>5. CASE Dials(Main)
  BY <1>1, <1>5, DialKinds
<1> QED BY <1>2, <1>3, <1>4, <1>5 DEF ConnectVerified

\* The steps of a request.
LEMMA RequestKinds ==
  ASSUME IInv, NEW t \in Thread, BeginRequest(t) \/ Request(t)
  PROVE  (FactsKept /\ ReadyStays) \/ Handshakes(t) \/ VerifyHandshook(t) \/ Send(t)
<1> USE DEF IInv
<1>1. t \in Proc
  BY Processes
<1>2. CASE BeginRequest(t)
  <2>1. UNCHANGED conns /\ pc[t] # "Ready" /\ \E s : pc' = [pc EXCEPT ![t] = s]
    BY <1>2 DEF BeginRequest, GoTo
  <2> QED BY <1>1, <2>1, SameKeepsFacts, MoveKeepsReady
<1>3. CASE ReusePooled(t)
  <2>1. UNCHANGED conns /\ pc[t] = "Checkout"
        /\ (UNCHANGED pc \/ pc' = [pc EXCEPT ![t] = "Send"])
    BY <1>3 DEF ReusePooled, GoTo
  <2>2. CASE UNCHANGED pc
    BY <2>1, <2>2, SameKeepsFacts DEF ReadyStays
  <2>3. CASE pc' = [pc EXCEPT ![t] = "Send"]
    BY <1>1, <2>1, <2>3, SameKeepsFacts, MoveKeepsReady
  <2> QED BY <2>1, <2>2, <2>3
<1>4. CASE Connect(t) \/ Retry(t)
  <2>1. UNCHANGED conns /\ pc[t] \in {"Checkout", "Send", "Await"}
        /\ \E s : pc' = [pc EXCEPT ![t] = s]
    BY <1>4 DEF Connect, Retry, GoTo
  <2> QED BY <1>1, <2>1, SameKeepsFacts, MoveKeepsReady
<1>5. CASE Fails(t) \/ Respond(t) \/ RespondTooLarge(t)
  <2>1. pc[t] \in {"Send", "Await"} /\ pc' = [pc EXCEPT ![t] = "Done"]
    BY <1>5 DEF Fails, Respond, RespondTooLarge, Return, GoTo
  <2>2. FactsKept
    BY <1>5, SameKeepsFacts, CloseKeepsFacts DEF Fails, Respond, RespondTooLarge
  <2> QED BY <1>1, <2>1, <2>2, MoveKeepsReady
<1>6. CASE Dials(t)
  BY <1>1, <1>6, DialKinds
<1> QED BY <1>2, <1>3, <1>4, <1>5, <1>6 DEF Request

\* Every step leaves what is seen of the connections alone, or is one of three.
LEMMA StepKinds ==
  ASSUME IInv, [Next]_vars
  PROVE  \/ FactsKept /\ ReadyStays
         \/ \E p \in Proc : Handshakes(p) \/ VerifyHandshook(p)
         \/ \E t \in Thread : Send(t)
<1>1. CASE ConnectVerified
  BY <1>1, ConnectKinds, Processes
<1>2. CASE \E t \in Thread : BeginRequest(t) \/ Request(t)
  BY <1>2, RequestKinds, Processes
<1>3. ASSUME NEW p \in Proc, Panic(p) PROVE FactsKept /\ ReadyStays
  <2>1. pc[p] = "Publish" /\ pc' = [pc EXCEPT ![p] = "Panicked"] /\ Close(sock[p])
    BY <1>3 DEF Panic, GoTo
  <2> QED BY <2>1, CloseKeepsFacts, MoveKeepsReady DEF IInv
<1>4. CASE World
  <2>1. UNCHANGED pc
    BY <1>4 DEF World, OccupantChanges, Tick, PeerCloses, EvictIdle
  <2>2. FactsKept
    BY <1>4, SameKeepsFacts, CloseKeepsFacts
    DEF World, OccupantChanges, Tick, PeerCloses, EvictIdle, IInv
  <2> QED BY <2>1, <2>2 DEF ReadyStays
<1>5. CASE UNCHANGED vars
  BY <1>5, SameKeepsFacts DEF vars, ReadyStays
<1> QED BY <1>1, <1>2, <1>3, <1>4, <1>5 DEF Next

\* What the accessors describe was verified.
LEMMA ShownIsAttested ==
  ASSUME IInv', pc'[Main] = "Ready"
  PROVE  Shown' \in Attested'
<1>1. Truthful(LatestVerification)'
  BY DEF LatestVerification, IInv, Verified, KeptIsTruthful
<1> QED BY <1>1 DEF Truthful, Verification, Shown, Attested

\* While the slots and Main stay, so does what is shown.
LEMMA ShownStays ==
  ASSUME UNCHANGED clientVars, pc[Main] = "Ready" <=> pc'[Main] = "Ready"
  PROVE  Shown' = Shown
  BY DEF clientVars, Shown, LatestVerification

\* A dial that completes reaches a peer, and nothing else is seen of it.
LEMMA HandshakesReaches ==
  ASSUME IInv, NEW p \in Proc, Handshakes(p)
  PROVE  /\ \E c \in Conn, q \in Peer :
              Party[c] = None /\ Party' = [Party EXCEPT ![c] = q]
         /\ Attested' = Attested /\ Carried' = Carried /\ Shown' = Shown
<1>1. PICK c \in Conn :
        /\ conns[c].peer = None
        /\ conns' = [conns EXCEPT ![c] = [NoConnection EXCEPT !.peer = occupant, !.open = TRUE]]
  BY DEF Handshakes
<1>2. occupant \in Peer
  BY DEF Handshakes, IInv, TypeOK, WorldOK
<1>3. conns \in [Conn -> Connection] /\ conns[c] = NoConnection
  BY <1>1 DEF IInv, TypeOK, SocketsOK, Sockets, SocketsReached
<1>4. /\ conns'[c].peer = occupant /\ conns'[c].verified = conns[c].verified
      /\ conns'[c].carried = conns[c].carried
      /\ \A d \in Conn : d # c => conns'[d] = conns[d]
  BY <1>1, <1>3 DEF NoConnection
<1>5. Party' = [Party EXCEPT ![c] = occupant]
  BY <1>4 DEF Party
<1>6. Attested' = Attested /\ Carried' = Carried
  BY <1>4 DEF Attested, Carried
<1>7. UNCHANGED clientVars /\ (pc[Main] = "Ready" <=> pc'[Main] = "Ready")
  <2>1. UNCHANGED clientVars /\ pc[p] = "Dial"
        /\ pc' = [pc EXCEPT ![p] = IF p = Main THEN "Extract" ELSE "Verify"]
    BY DEF Handshakes, GoTo
  <2> QED BY <2>1, Processes DEF IInv, TypeOK, CallsOK
<1> QED BY <1>1, <1>2, <1>5, <1>6, <1>7, ShownStays DEF Party

\* A verification attests a trusted peer, or refuses and is not seen.
LEMMA VerifyAttests ==
  ASSUME IInv, NEW p \in Proc, VerifyHandshook(p)
  PROVE  /\ Party' = Party /\ Carried' = Carried /\ Shown' = Shown
         /\ \/ Attested' = Attested
            \/ \E c \in Conn : Party[c] \in TrustedPeers /\ Attested' = Attested \cup {c}
<1>1. /\ pc[p] = "Verify" /\ UNCHANGED clientVars
      /\ \E s \in {"Done", "Publish"} : pc' = [pc EXCEPT ![p] = s]
  BY DEF VerifyHandshook, Return, GoTo
<1>2. pc[Main] = "Ready" <=> pc'[Main] = "Ready"
  BY <1>1, Processes DEF IInv, TypeOK, CallsOK
<1>3. CASE HandshookRefusal(sock[p], Transcript(sock[p])) # None
  <2>1. FactsKept
    BY <1>3, CloseKeepsFacts DEF VerifyHandshook, IInv
  <2> QED BY <1>1, <1>2, <2>1, ShownStays DEF FactsKept, Party, Attested, Carried
<1>4. CASE HandshookRefusal(sock[p], Transcript(sock[p])) = None
  <2>1. conns' = [conns EXCEPT ![sock[p]].verified = TRUE, ![sock[p]].at = now]
    BY <1>4 DEF VerifyHandshook
  <2>2. sock[p] \in Conn /\ conns[sock[p]].peer \in TrustedPeers
    BY <1>1, <1>4, AcceptedIsGenuine
  <2>3. conns \in [Conn -> Connection]
    BY DEF IInv, TypeOK, SocketsOK
  <2>4. /\ \A d \in Conn : conns'[d].peer = conns[d].peer /\ conns'[d].carried = conns[d].carried
        /\ \A d \in Conn : d # sock[p] => conns'[d] = conns[d]
        /\ conns'[sock[p]].verified
    BY <2>1, <2>2, <2>3 DEF Connection
  <2>5. Attested' = Attested \cup {sock[p]}
    BY <2>2, <2>4 DEF Attested
  <2> QED BY <1>1, <1>2, <2>2, <2>4, <2>5, ShownStays DEF Party, Carried
<1> QED BY <1>3, <1>4

\* The first bytes leave on an attested connection.
LEMMA SendTalks ==
  ASSUME IInv, NEW t \in Thread, Send(t)
  PROVE  /\ Party' = Party /\ Attested' = Attested /\ Shown' = Shown
         /\ \E c \in Conn : c \in Attested /\ Carried' = Carried \cup {c}
<1>1. /\ pc[t] = "Send" /\ pc' = [pc EXCEPT ![t] = "Await"]
      /\ conns' = [conns EXCEPT ![sock[t]].carried = TRUE] /\ UNCHANGED clientVars
  BY DEF Send, GoTo
<1>2. sock[t] \in Conn /\ conns[sock[t]].verified /\ t \in Proc
  BY <1>1, HoldsVerified
<1>3. conns \in [Conn -> Connection]
  BY DEF IInv, TypeOK, SocketsOK
<1>4. /\ \A d \in Conn : conns'[d].peer = conns[d].peer /\ conns'[d].verified = conns[d].verified
      /\ \A d \in Conn : d # sock[t] => conns'[d] = conns[d]
      /\ conns'[sock[t]].carried
  BY <1>1, <1>2, <1>3 DEF Connection
<1>5. Carried' = Carried \cup {sock[t]}
  BY <1>2, <1>4 DEF Carried
<1>6. pc[Main] = "Ready" <=> pc'[Main] = "Ready"
  BY <1>1, <1>2, Processes DEF IInv, TypeOK, CallsOK
<1>7. Shown' = Shown
  BY <1>1, <1>6, ShownStays
<1> QED BY <1>2, <1>4, <1>5, <1>7 DEF Party, Attested

(***************************************************************************)
(* The client implements AttestedChannel: a connection is attested before  *)
(* anything is sent on it and only when it reached a peer to trust, and    *)
(* what the accessors describe is an attested connection, whatever the     *)
(* threads, the peers and the pool do (connect.rs 283, 385-406).           *)
(***************************************************************************)
THEOREM ImplementsChannel == Spec => ChannelSpec
<1> USE DEF Party, Attested, Carried, Shown
<1>1. Init => Channel!Init
  <2> SUFFICES ASSUME Init PROVE Channel!Init
    OBVIOUS
  <2>1. \A c \in Conn : conns[c].peer = None /\ ~conns[c].verified /\ ~conns[c].carried
    BY DEF Init, NoConnection
  <2>2. pc[Main] = "Start"
    BY Processes DEF Init
  <2> QED BY <2>1, <2>2 DEF Channel!Init
<1>2. IInv /\ IInv' /\ [Next]_vars => [Channel!Next]_(Channel!vars)
  <2> SUFFICES ASSUME IInv, IInv', [Next]_vars PROVE [Channel!Next]_(Channel!vars)
    OBVIOUS
  <2>1. CASE FactsKept /\ ReadyStays
    <3>1. Party' = Party /\ Attested' = Attested /\ Carried' = Carried
      BY <2>1 DEF FactsKept
    <3>2. CASE pc'[Main] = "Ready"
      <4>1. Shown' \in Attested'
        BY <3>2, ShownIsAttested
      <4>2. Shown' \in Conn
        BY <4>1
      <4> QED BY <3>1, <4>1, <4>2 DEF Channel!Next, Channel!Show
    <3>3. CASE pc'[Main] # "Ready"
      BY <2>1, <3>1, <3>3 DEF ReadyStays, Channel!vars
    <3> QED BY <3>2, <3>3
  <2>2. ASSUME NEW p \in Proc, Handshakes(p) PROVE Channel!Next
    BY <2>2, HandshakesReaches DEF Channel!Next, Channel!Reach
  <2>3. ASSUME NEW p \in Proc, VerifyHandshook(p) PROVE [Channel!Next]_(Channel!vars)
    BY <2>3, VerifyAttests DEF Channel!Next, Channel!Attest, Channel!vars
  <2>4. ASSUME NEW t \in Thread, Send(t) PROVE Channel!Next
    BY <2>4, SendTalks DEF Channel!Next, Channel!Talk
  <2> QED BY <2>1, <2>2, <2>3, <2>4, StepKinds
<1> QED BY <1>1, <1>2, Invariance, PTL DEF Spec, ChannelSpec, Channel!Spec

-----------------------------------------------------------------------------
(***************************************************************************)
(* A call leaves its verification only by verify_handshook's own answer.   *)
(***************************************************************************)
Elsewhere(p) == pc[p] = "Verify" => pc'[p] = "Verify" \/ VerifyHandshook(p)

\* A step of a process that is not verifying leaves the others where they are.
LEMMA MoveIsElsewhere ==
  ASSUME TypeOK, NEW p \in Proc, NEW q \in Proc, pc[q] # "Verify",
         NEW s, pc' = [pc EXCEPT ![q] = s]
  PROVE  Elsewhere(p)
  BY DEF TypeOK, CallsOK, Elsewhere

\* The steps of a dial.
LEMMA DialElsewhere ==
  ASSUME IInv, NEW p \in Proc, NEW q \in Proc, Dials(q)
  PROVE  Elsewhere(p)
<1> USE DEF IInv
<1>1. CASE DialFails(q) \/ DialWithoutCertificate(q) \/ Handshakes(q) \/ Publish(q)
  <2>1. pc[q] # "Verify" /\ \E s : pc' = [pc EXCEPT ![q] = s]
    BY <1>1 DEF DialFails, DialWithoutCertificate, Handshakes, Publish, Refuse, Return, GoTo
  <2> QED BY <2>1, MoveIsElsewhere
<1>2. CASE VerifyHandshook(q)
  <2>1. \E s : pc' = [pc EXCEPT ![q] = s]
    BY <1>2 DEF VerifyHandshook, Return, GoTo
  <2>2. CASE q = p
    BY <1>2, <2>2 DEF Elsewhere
  <2>3. CASE q # p
    BY <2>1, <2>3 DEF TypeOK, CallsOK, Elsewhere
  <2> QED BY <2>2, <2>3
<1> QED BY <1>1, <1>2 DEF Dials

\* The steps of connect_verified.
LEMMA ConnectElsewhere ==
  ASSUME IInv, NEW p \in Proc, ConnectVerified
  PROVE  Elsewhere(p)
<1>1. Main \in Proc
  BY Processes
<1>2. CASE RefuseTerminating \/ StartConnect \/ Extract \/ CollateralArrives \/ CollateralFails
             \/ HandOver
  <2>1. pc[Main] # "Verify" /\ \E s : pc' = [pc EXCEPT ![Main] = s]
    BY <1>2 DEF RefuseTerminating, StartConnect, Extract, CollateralArrives, CollateralFails,
                HandOver, Refuse, Return, GoTo
  <2> QED BY <1>1, <2>1, MoveIsElsewhere DEF IInv
<1>3. CASE Dials(Main)
  BY <1>1, <1>3, DialElsewhere
<1> QED BY <1>2, <1>3 DEF ConnectVerified

\* The steps of a request.
LEMMA RequestElsewhere ==
  ASSUME IInv, NEW p \in Proc, NEW t \in Thread, BeginRequest(t) \/ Request(t)
  PROVE  Elsewhere(p)
<1>1. t \in Proc
  BY Processes
<1>2. CASE ReusePooled(t)
  <2>1. UNCHANGED pc \/ (pc[t] # "Verify" /\ \E s : pc' = [pc EXCEPT ![t] = s])
    BY <1>2 DEF ReusePooled, GoTo
  <2> QED BY <1>1, <2>1, MoveIsElsewhere DEF IInv, Elsewhere
<1>3. CASE BeginRequest(t) \/ Connect(t) \/ Send(t) \/ Fails(t) \/ Retry(t) \/ Respond(t)
             \/ RespondTooLarge(t)
  <2>1. pc[t] # "Verify" /\ \E s : pc' = [pc EXCEPT ![t] = s]
    BY <1>3 DEF BeginRequest, Connect, Send, Fails, Retry, Respond, RespondTooLarge, Return, GoTo
  <2> QED BY <1>1, <2>1, MoveIsElsewhere DEF IInv
<1>4. CASE Dials(t)
  BY <1>1, <1>4, DialElsewhere
<1> QED BY <1>2, <1>3, <1>4 DEF Request

\* Every step.
LEMMA LeavesVerify ==
  ASSUME IInv, [Next]_vars, NEW p \in Proc
  PROVE  Elsewhere(p)
<1>1. CASE ConnectVerified
  BY <1>1, ConnectElsewhere
<1>2. CASE \E t \in Thread : BeginRequest(t) \/ Request(t)
  BY <1>2, RequestElsewhere
<1>3. CASE \E q \in Proc : Panic(q)
  <2>1. PICK q \in Proc : pc[q] = "Publish" /\ pc' = [pc EXCEPT ![q] = "Panicked"]
    BY <1>3 DEF Panic, GoTo
  <2> QED BY <2>1, MoveIsElsewhere DEF IInv
<1>4. CASE World \/ UNCHANGED vars
  BY <1>4 DEF World, OccupantChanges, Tick, PeerCloses, EvictIdle, vars, Elsewhere
<1> QED BY <1>1, <1>2, <1>3, <1>4 DEF Next

\* verify leaves one essential check without a judge, and only for a V2 configuration.
LEMMA OnlyV2IsUnestablished ==
  ASSUME NEW licensed, NEW e \in Evidence, NEW ref, NEW c \in Essential,
         CheckOutcome(c, licensed, e, ref) \in Unestablished
  PROVE  e.quote.version = "V2"
<1>1. \A p : Judge(p) \notin Unestablished /\ "Skipped" \notin Unestablished
  BY DEF Judge, Unestablished
<1>2. c = "MrConfigId"
  <2>1. ChannelBound(e.peer, e.quote) \notin Unestablished
    BY <1>1 DEF ChannelBound
  <2>2. "Failed" \notin Unestablished
    BY DEF Unestablished
  <2> QED BY <1>1, <2>1, <2>2 DEF CheckOutcome, Essential
<1>3. e.quote.version \in {"V1", "V2", "Unknown"}
  BY DEF Evidence, Quote
<1> QED BY <1>2, <1>3 DEF CheckOutcome, CheckMrConfigId, Unestablished

\* A transcript that is not trustworthy is a violation, but for that one case.
LEMMA UntrustedIsViolation ==
  ASSUME NEW licensed, NEW e \in Evidence, NEW ref,
         ~IsTrustworthy(VerifyEvidence(licensed, e, ref)), e.quote.version # "V2"
  PROVE  Kind("NotTrustworthy", VerifyEvidence(licensed, e, ref)) = "GuaranteeViolated"
<1> DEFINE r == VerifyEvidence(licensed, e, ref)
<1>1. PICK c \in Essential : c \in MissingEssentials(r)
  BY DEF IsTrustworthy, MissingEssentials
<1>2. OutcomeOf(r, c) = CheckOutcome(c, licensed, e, ref)
  BY AnswerIsOutcome DEF Check
<1>3. OutcomeOf(r, c) \notin Unestablished
  BY <1>2, OnlyV2IsUnestablished
<1> HIDE DEF r
<1>4. Kind("NotTrustworthy", r) = "GuaranteeViolated"
  BY <1>1, <1>3 DEF Kind, Outages, Violations
<1> QED BY <1>4 DEF r

\* A peer that everything holds of is not refused, while the collateral covers its TCB.
LEMMA GenuineIsAccepted ==
  ASSUME IInv, NEW p \in Proc, pc[p] = "Verify",
         conns[sock[p]].peer \in TrustedPeers,
         FreshTcb(Attestation(sock[p]), collateral, now)
  PROVE  HandshookRefusal(sock[p], Transcript(sock[p])) = None
<1> DEFINE c == sock[p]
<1>1. AttestedPeer(conns[c].peer)
  BY DEF TrustedPeers
<1>2. Readable(c) /\ AttestsKey(Attestation(c), Licensed, Facts[conns[c].peer].leaf)
  BY <1>1 DEF AttestedPeer, Readable, Attestation
<1>3. Established(Licensed, EvidenceOf(c))
  BY <1>1, <1>2 DEF AttestedPeer, Established, EvidenceOf
<1>4. IsTrustworthy(Transcript(c))
  BY <1>2, <1>3, EvidenceIsEvidence, TrustMeansEstablished DEF Transcript
<1>5. Rebinds(c)
  BY <1>2, SpecialsAssumption DEF AttestsKey, Rebinds, ChannelBinding
<1> QED BY <1>2, <1>4, <1>5 DEF HandshookRefusal

\* verify_handshook turns away who is not attested, with a refusal that says so.
LEMMA SubstitutionIsRefused ==
  ASSUME IInv, NEW p \in Proc, VerifyHandshook(p)
  PROVE  SwapIsReported(p)
<1> SUFFICES ASSUME conns[sock[p]].peer \notin TrustedPeers
             PROVE  /\ answer'[p].status = "Refused"
                    /\ \/ answer'[p].refusal.kind = "GuaranteeViolated"
                       \/ Attestation(sock[p]).version = "V2"
  BY DEF SwapIsReported
<1> DEFINE c == sock[p]
           refusal == HandshookRefusal(c, Transcript(c))
<1>1. pc[p] = "Verify"
  BY DEF VerifyHandshook
<1>2. refusal # None
  BY <1>1, AcceptedIsGenuine
<1>3. answer' = [answer EXCEPT ![p] = FromUreq(refusal)]
  BY <1>2 DEF VerifyHandshook, Return
<1>4. answer'[p] = [status |-> "Refused", refusal |-> refusal]
  BY <1>2, <1>3 DEF FromUreq, Fault, IInv, TypeOK, CallsOK
<1>5. refusal.kind = "GuaranteeViolated" \/ Attestation(c).version = "V2"
  <2>1. CASE ~Readable(c)
    BY <2>1 DEF HandshookRefusal, ExtractionRefusal, Refused, Kind, Violations, Outages
  <2>2. CASE Readable(c) /\ ~IsTrustworthy(Transcript(c))
    <3>1. refusal.kind = Kind("NotTrustworthy", Transcript(c))
      BY <2>2 DEF HandshookRefusal, Refused
    <3>2. EvidenceOf(c) \in Evidence /\ EvidenceOf(c).quote = Attestation(c)
      BY <1>1, <2>2, EvidenceIsEvidence DEF EvidenceOf
    <3>3. Transcript(c) = VerifyEvidence(Licensed, EvidenceOf(c), Boot)
      BY <2>2 DEF Transcript
    <3> QED BY <2>2, <3>1, <3>2, <3>3, UntrustedIsViolation
  <2>3. CASE Readable(c) /\ IsTrustworthy(Transcript(c))
    <3>1. refusal = Refused("UnreadableAttestation", <<>>)
      BY <1>2, <2>3 DEF HandshookRefusal
    <3> QED BY <3>1 DEF Refused, Kind, Violations, Outages
  <2> QED BY <2>1, <2>2, <2>3
<1> HIDE DEF refusal
<1> QED BY <1>4, <1>5

\* verify_handshook goes on with who is attested.
LEMMA AttestedIsKept ==
  ASSUME IInv, NEW p \in Proc, VerifyHandshook(p)
  PROVE  AttestedGoesOn(p)
<1> SUFFICES ASSUME conns[sock[p]].peer \in TrustedPeers,
                    FreshTcb(Attestation(sock[p]), collateral, now)
             PROVE  conns'[sock[p]].verified /\ pc'[p] = "Publish"
  BY DEF AttestedGoesOn
<1>1. pc[p] = "Verify"
  BY DEF VerifyHandshook
<1>2. HandshookRefusal(sock[p], Transcript(sock[p])) = None
  BY <1>1, GenuineIsAccepted
<1>3. /\ conns' = [conns EXCEPT ![sock[p]].verified = TRUE, ![sock[p]].at = now]
      /\ pc' = [pc EXCEPT ![p] = "Publish"]
  BY <1>2 DEF VerifyHandshook, GoTo
<1>4. sock[p] \in Conn
  BY <1>1, SocketIsReached DEF Holding
<1> QED BY <1>3, <1>4 DEF IInv, TypeOK, SocketsOK, CallsOK, Connection

(***************************************************************************)
(* A peer that is not attested is refused, with the refusal kept as one    *)
(* and triaged as a violation, whichever call meets it and however it is   *)
(* not attested; a peer that is attested, with a TCB that the collateral   *)
(* covers, is never turned away (connect.rs 552-559, http.rs 145-205,      *)
(* 485-504).                                                               *)
(***************************************************************************)
THEOREM VerificationDecidesTruly == Spec => VerificationDecides
<1>1. ASSUME IInv, [Next]_vars, NEW p \in Proc, pc[p] = "Verify", pc'[p] # "Verify"
      PROVE  SwapIsReported(p) /\ AttestedGoesOn(p)
  <2>1. VerifyHandshook(p)
    BY <1>1, LeavesVerify DEF Elsewhere
  <2> QED BY <1>1, <2>1, SubstitutionIsRefused, AttestedIsKept
<1>2. IInv /\ [Next]_vars =>
        [\A p \in Proc :
           pc[p] = "Verify" /\ pc'[p] # "Verify" => SwapIsReported(p) /\ AttestedGoesOn(p)]_vars
  BY <1>1
<1> QED BY <1>2, Invariance, PTL DEF Spec, VerificationDecides
=============================================================================
