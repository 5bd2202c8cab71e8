------------------------- MODULE VerifiedTransport -------------------------
(***************************************************************************)
(* connect_verified and the client it returns (connect.rs, connect/http.rs)*)
(*                                                                         *)
(* Main calls connect_verified once.  Threads then share the client and    *)
(* make requests through it; ureq's pool hands them an idle connection or  *)
(* asks the connector for one, and the connector hands over the connection *)
(* Main verified, once, and dials and verifies every later one.  What      *)
(* answers at the endpoint may change at any moment.                       *)
(*                                                                         *)
(* The dial is one step here, with its outcomes; module Deadlines has its  *)
(* time.  Reading the quote, judging it, and publishing the result under   *)
(* the lock are separate steps, so two reconnects interleave.              *)
(***************************************************************************)
EXTENDS Verify, FiniteSets

CONSTANTS
  Thread,       \* threads that call get and post
  Main,         \* the caller of connect_verified
  Peer,         \* what may answer at the endpoint
  Facts,        \* Facts[p]: what peer p presents, and whether it holds the key
  Dribblers,    \* peers that may keep an operation of a request going for ever
  Missing,      \* a certificate without an attestation extension
  None,         \* nobody, nothing
  Licensed,     \* ConnectRequest.licensed
  Served,       \* ConnectRequest.compose_document
  Boot,         \* ConnectRequest.boot
  MaxConns,     \* bound on the connections ever opened
  MaxRequests,  \* bound on the requests of one thread
  MaxRetries    \* how often ureq retries a request whose connection was closed

Conn == 1 .. MaxConns
Proc == Thread \cup {Main}

PeerFacts == [leaf : Key \cup {None}, holdsKey : BOOLEAN,
              attestation : Quote \cup {Missing, Unreadable}]

ASSUME TransportAssumption ==
  /\ Main \notin Thread
  /\ None \notin Peer /\ None \notin Key
  /\ Facts \in [Peer -> PeerFacts]
  /\ Dribblers \subseteq Peer
  /\ Missing \notin Quote /\ Unreadable \notin Quote
  /\ Licensed \in LicensedVersion
  /\ Served \in Document
  /\ Boot \in BootReference \cup {NoReference}
  /\ MaxConns \in Nat /\ MaxRequests \in Nat /\ MaxRetries \in Nat

VARIABLES
  terminating, \* the endpoint is dStack's TLS-terminating form
  occupant,    \* the peer that answers a dial, None when nobody does
  now,         \* the system clock
  conns,       \* every connection ever opened
  collateral,  \* VerifiedConnector.collateral, None until it is fetched
  latest,      \* VerifiedConnector.latest
  pending,     \* VerifiedConnector.pending
  first,       \* VerifiedClient.first
  poisoned,    \* a thread panicked while it held the lock of latest
  pool,        \* ureq's idle connections
  pc, sock, wip, answer, requests, retries   \* per process

clientVars == <<latest, pending, first, poisoned>>
callVars   == <<answer, requests, retries>>
worldVars  == <<terminating, occupant, now>>
vars == <<worldVars, conns, collateral, clientVars, pool, pc, sock, wip, callVars>>

Connection == [peer : Peer \cup {None}, verified : BOOLEAN, at : Time,
               open : BOOLEAN, carried : BOOLEAN]

\* http::Verification: a trustworthy transcript, and the key it is bound to.
Verification == [conn : Conn, key : Key, results : Seq(Result)]

Refusal == [reason : RefusalReason, kind : RefusalKind]

Answer == [status : {"None", "Ok", "Refused", "Io", "TooLarge"}, refusal : Refusal \cup {None}]

Steps == {"Start", "Dial", "Extract", "Collateral", "Verify", "Publish", "HandOver", "Ready",
          "Idle", "Checkout", "Send", "Await", "Done", "Panicked"}

ASSUME NoneAssumption == None \notin Conn /\ None \notin Verification /\ None \notin Refusal

WorldOK ==
  /\ terminating \in BOOLEAN
  /\ occupant \in Peer \cup {None}
  /\ now \in Time
  /\ collateral \in Collateral \cup {None}

SocketsOK ==
  /\ conns \in [Conn -> Connection]
  /\ pool \subseteq Conn
  /\ pending \in Conn \cup {None}
  /\ sock \in [Proc -> Conn \cup {None}]

VerificationsOK ==
  /\ latest \in Verification \cup {None}
  /\ first \in Verification \cup {None}
  /\ wip \in [Proc -> Verification \cup {None}]

CallsOK ==
  /\ poisoned \in BOOLEAN
  /\ pc \in [Proc -> Steps]
  /\ answer \in [Proc -> Answer]
  /\ requests \in [Proc -> 0 .. MaxRequests]
  /\ retries \in [Proc -> 0 .. MaxRetries]

TypeOK == WorldOK /\ SocketsOK /\ VerificationsOK /\ CallsOK

NoConnection == [peer |-> None, verified |-> FALSE, at |-> 0, open |-> FALSE, carried |-> FALSE]
NoAnswer == [status |-> "None", refusal |-> None]

Init ==
  /\ terminating \in BOOLEAN
  /\ occupant \in Peer \cup {None}
  /\ now \in Time
  /\ conns = [c \in Conn |-> NoConnection]
  /\ collateral = None
  /\ latest = None /\ pending = None /\ first = None
  /\ poisoned = FALSE
  /\ pool = {}
  /\ pc = [p \in Proc |-> IF p = Main THEN "Start" ELSE "Idle"]
  /\ sock = [p \in Proc |-> None]
  /\ wip = [p \in Proc |-> None]
  /\ answer = [p \in Proc |-> NoAnswer]
  /\ requests = [p \in Proc |-> 0]
  /\ retries = [p \in Proc |-> 0]

-----------------------------------------------------------------------------
(***************************************************************************)
(* How a call ends.  A refusal leaves the connector inside ureq's error    *)
(* and from_ureq takes it back out; anything else is an I/O fault.         *)
(***************************************************************************)
Refused(reason, results) == [reason |-> reason, kind |-> Kind(reason, results)]

Fault == None

\* Mutant: the refusal is not taken back out of ureq's error.
FromUreq_Flattened(error) == [status |-> "Io", refusal |-> None]

FromUreq(error) ==
  IF error = Fault THEN [status |-> "Io", refusal |-> None]
                   ELSE [status |-> "Refused", refusal |-> error]

\* The socket is owned by what the call drops on its way out.
Close(c) == conns' = [conns EXCEPT ![c].open = FALSE]

GoTo(p, step) == pc' = [pc EXCEPT ![p] = step]

Return(p, a) ==
  /\ GoTo(p, "Done")
  /\ answer' = [answer EXCEPT ![p] = a]
  /\ sock' = [sock EXCEPT ![p] = None]
  /\ UNCHANGED <<requests, retries>>

Refuse(p, reason, results) == Return(p, FromUreq(Refused(reason, results)))

-----------------------------------------------------------------------------
(***************************************************************************)
(* connect_verified up to the dial: the terminating form is refused before *)
(* a socket is opened.                                                     *)
(***************************************************************************)
RefuseTerminating ==
  /\ pc[Main] = "Start" /\ terminating
  /\ Refuse(Main, "TerminatingEndpoint", <<>>)
  /\ UNCHANGED <<worldVars, conns, collateral, clientVars, pool, wip>>

StartConnect ==
  /\ pc[Main] = "Start" /\ ~terminating
  /\ GoTo(Main, "Dial")
  /\ UNCHANGED <<worldVars, conns, collateral, clientVars, pool, sock, wip, callVars>>

(***************************************************************************)
(* tls::dial.  The network may fail or interfere at any time; the handshake*)
(* completes only with a peer that holds the key of the leaf it presents.  *)
(***************************************************************************)
\* Mutant: neither timeout is set, and a peer may stall for ever.
DialFails_NoTimeout(p) ==
  /\ pc[p] = "Dial" /\ occupant = None
  /\ Refuse(p, "NotReached", <<>>)
  /\ UNCHANGED <<worldVars, conns, collateral, clientVars, pool, wip>>

DialFails(p) ==
  /\ pc[p] = "Dial"
  /\ \/ Refuse(p, "NotReached", <<>>)
     \/ occupant # None /\ Refuse(p, "HandshakeFailed", <<>>)
  /\ UNCHANGED <<worldVars, conns, collateral, clientVars, pool, wip>>

DialWithoutCertificate(p) ==
  /\ pc[p] = "Dial"
  /\ occupant # None /\ Facts[occupant].leaf = None
  /\ Refuse(p, "NoPeerCertificate", <<>>)
  /\ UNCHANGED <<worldVars, conns, collateral, clientVars, pool, wip>>

Handshakes(p) ==
  /\ pc[p] = "Dial"
  /\ occupant # None /\ Facts[occupant].leaf # None /\ Facts[occupant].holdsKey
  /\ \E c \in Conn :
       /\ conns[c].peer = None
       /\ \A d \in Conn : conns[d].peer = None => c <= d
       /\ conns' = [conns EXCEPT ![c] = [NoConnection EXCEPT !.peer = occupant, !.open = TRUE]]
       /\ sock' = [sock EXCEPT ![p] = c]
  /\ GoTo(p, IF p = Main THEN "Extract" ELSE "Verify")
  /\ UNCHANGED <<worldVars, collateral, clientVars, pool, wip, callVars>>

(***************************************************************************)
(* connect_verified between its handshake and its verification: the quote  *)
(* names the platform, and the caller's source answers with a statement of *)
(* Intel's, not always the newest nor for the right platform, or fails.    *)
(***************************************************************************)
Attestation(c) == Facts[conns[c].peer].attestation

Readable(c) == Attestation(c) \notin {Missing, Unreadable}

ExtractionRefusal(c) ==
  IF Attestation(c) = Missing THEN "NoAttestation" ELSE "UnreadableAttestation"

Extract ==
  /\ pc[Main] = "Extract"
  /\ IF ~Readable(sock[Main])
     THEN /\ Refuse(Main, ExtractionRefusal(sock[Main]), <<>>)
          /\ Close(sock[Main])
     ELSE /\ GoTo(Main, "Collateral")
          /\ UNCHANGED <<conns, sock, callVars>>
  /\ UNCHANGED <<worldVars, collateral, clientVars, pool, wip>>

CollateralArrives ==
  /\ pc[Main] = "Collateral"
  /\ \E platform \in Platform, issued \in 0 .. now :
       collateral' = [platform |-> platform, issued |-> issued]
  /\ GoTo(Main, "Verify")
  /\ UNCHANGED <<worldVars, conns, clientVars, pool, sock, wip, callVars>>

CollateralFails ==
  /\ pc[Main] = "Collateral"
  /\ Refuse(Main, "CollateralUnavailable", <<>>)
  /\ Close(sock[Main])
  /\ UNCHANGED <<worldVars, collateral, clientVars, pool, wip>>

-----------------------------------------------------------------------------
(***************************************************************************)
(* verify_handshook: the one path of every connection.  The quote comes out*)
(* of the leaf of this handshake; verify runs with the cached collateral   *)
(* and the time read now; only a trustworthy verdict goes on, and what it  *)
(* established is kept for publication.                                    *)
(***************************************************************************)
EvidenceOf(c) ==
  [quote |-> Attestation(c), document |-> Served, collateral |-> collateral,
   now |-> now, peer |-> Facts[conns[c].peer].leaf]

\* Empty when there was nothing to verify.
Transcript(c) == IF Readable(c) THEN VerifyEvidence(Licensed, EvidenceOf(c), Boot) ELSE <<>>

Rebinds(c) ==
  Attestation(c).parses /\ ChannelBinding(Facts[conns[c].peer].leaf, Attestation(c))

\* Mutant: the post-verify guard is dropped (script/mutate.sh drops it too).
HandshookRefusal_Unguarded(c, transcript) ==
  IF ~Readable(c) THEN Refused(ExtractionRefusal(c), <<>>) ELSE None

\* Mutant: a reconnect pins the key of the first connection.
HandshookRefusal_Pinned(c, transcript) ==
  IF ~Readable(c)                      THEN Refused(ExtractionRefusal(c), <<>>)
  ELSE IF ~IsTrustworthy(transcript)   THEN Refused("NotTrustworthy", transcript)
  ELSE IF ~Rebinds(c)                  THEN Refused("UnreadableAttestation", <<>>)
  ELSE IF first # None /\ first.key # Facts[conns[c].peer].leaf
                                       THEN Refused("NotTrustworthy", transcript)
  ELSE None

HandshookRefusal(c, transcript) ==
  IF ~Readable(c)                      THEN Refused(ExtractionRefusal(c), <<>>)
  ELSE IF ~IsTrustworthy(transcript)   THEN Refused("NotTrustworthy", transcript)
  ELSE IF ~Rebinds(c)                  THEN Refused("UnreadableAttestation", <<>>)
  ELSE None

VerifyHandshook(p) ==
  /\ pc[p] = "Verify"
  /\ \E transcript \in {Transcript(sock[p])} :
     \E refusal \in {HandshookRefusal(sock[p], transcript)} :
       \/ /\ refusal # None
          /\ Return(p, FromUreq(refusal))
          /\ Close(sock[p])
          /\ UNCHANGED wip
       \/ /\ refusal = None
          /\ conns' = [conns EXCEPT ![sock[p]].verified = TRUE, ![sock[p]].at = now]
          /\ wip' = [wip EXCEPT ![p] = [conn |-> sock[p], key |-> Facts[conns[sock[p]].peer].leaf,
                                        results |-> transcript]]
          /\ GoTo(p, "Publish")
          /\ UNCHANGED <<sock, callVars>>
  /\ UNCHANGED <<worldVars, collateral, clientVars, pool>>

\* A poisoned lock is swallowed: the connection is verified all the same.
Publish(p) ==
  /\ pc[p] = "Publish"
  /\ latest' = IF poisoned THEN latest ELSE wip[p]
  /\ GoTo(p, IF p = Main THEN "HandOver" ELSE "Send")
  /\ UNCHANGED <<worldVars, conns, collateral, pending, first, poisoned, pool, sock, wip,
                 callVars>>

\* set_pending, and the client is built.
HandOver ==
  /\ pc[Main] = "HandOver"
  /\ pending' = sock[Main]
  /\ first' = wip[Main]
  /\ sock' = [sock EXCEPT ![Main] = None]
  /\ GoTo(Main, "Ready")
  /\ UNCHANGED <<worldVars, conns, collateral, latest, poisoned, pool, wip, callVars>>

-----------------------------------------------------------------------------
(***************************************************************************)
(* A request: http::request over ureq's Agent::run.                        *)
(***************************************************************************)
BeginRequest(t) ==
  /\ pc[Main] = "Ready" /\ pc[t] \in {"Idle", "Done"}
  /\ requests[t] < MaxRequests
  /\ requests' = [requests EXCEPT ![t] = @ + 1]
  /\ retries' = [retries EXCEPT ![t] = 0]
  /\ \/ GoTo(t, "Checkout") /\ answer' = [answer EXCEPT ![t] = NoAnswer]
     \/ \* a path that cannot form a URI
        GoTo(t, "Done") /\ answer' = [answer EXCEPT ![t] = FromUreq(Fault)]
  /\ UNCHANGED <<worldVars, conns, collateral, clientVars, pool, sock, wip>>

\* ureq asks is_open before it reuses a connection, and drops one that is closed.
ReusePooled(t) ==
  /\ pc[t] = "Checkout"
  /\ \E c \in pool :
       /\ pool' = pool \ {c}
       /\ IF conns[c].open
          THEN sock' = [sock EXCEPT ![t] = c] /\ GoTo(t, "Send")
          ELSE UNCHANGED <<sock, pc>>
  /\ UNCHANGED <<worldVars, conns, collateral, clientVars, wip, callVars>>

\* Mutants: the pending connection is left in place when it is taken; or it is
\* never looked for.
TakePending_Clones == pending' = pending
HasPending_Never == FALSE

TakePending == pending' = None
HasPending == pending # None

\* Connector::connect, when no connection is idle: take_pending, or dial.
Connect(t) ==
  /\ pc[t] = "Checkout" /\ pool = {}
  /\ IF HasPending
     THEN /\ sock' = [sock EXCEPT ![t] = pending]
          /\ TakePending
          /\ GoTo(t, "Send")
     ELSE /\ GoTo(t, "Dial")
          /\ UNCHANGED <<sock, pending>>
  /\ UNCHANGED <<worldVars, conns, collateral, latest, first, poisoned, pool, wip, callVars>>

\* transmit_output: application bytes leave on the connection.
Send(t) ==
  /\ pc[t] = "Send" /\ conns[sock[t]].open
  /\ conns' = [conns EXCEPT ![sock[t]].carried = TRUE]
  /\ GoTo(t, "Await")
  /\ UNCHANGED <<worldVars, collateral, clientVars, pool, sock, wip, callVars>>

\* Mutant: no deadline is set on the socket.
Fails_NoDeadline(t) ==
  /\ pc[t] \in {"Send", "Await"} /\ ~conns[sock[t]].open
  /\ Return(t, FromUreq(Fault))
  /\ UNCHANGED <<worldVars, conns, collateral, clientVars, pool, wip>>

\* A write or a read that fails: a deadline, a reset, a peer that closed.
Fails(t) ==
  /\ pc[t] \in {"Send", "Await"}
  /\ Return(t, FromUreq(Fault))
  /\ Close(sock[t])
  /\ UNCHANGED <<worldVars, collateral, clientVars, pool, wip>>

MayRetry(t) == retries[t] < MaxRetries

\* ureq may come back for another connection when this one was already closed.
Retry(t) ==
  /\ pc[t] \in {"Send", "Await"} /\ ~conns[sock[t]].open
  /\ MayRetry(t)
  /\ retries' = [retries EXCEPT ![t] = @ + 1]
  /\ sock' = [sock EXCEPT ![t] = None]
  /\ GoTo(t, "Checkout")
  /\ UNCHANGED <<worldVars, conns, collateral, clientVars, pool, wip, answer, requests>>

\* The response was read whole; ureq keeps the connection or drops it.
Respond(t) ==
  /\ pc[t] = "Await" /\ conns[sock[t]].open
  /\ Return(t, [status |-> "Ok", refusal |-> None])
  /\ \/ pool' = pool \cup {sock[t]} /\ UNCHANGED conns
     \/ Close(sock[t]) /\ UNCHANGED pool
  /\ UNCHANGED <<worldVars, collateral, clientVars, wip>>

\* One byte past the limit: the rest is not read, so the connection is dropped.
RespondTooLarge(t) ==
  /\ pc[t] = "Await" /\ conns[sock[t]].open
  /\ Return(t, [status |-> "TooLarge", refusal |-> None])
  /\ Close(sock[t])
  /\ UNCHANGED <<worldVars, collateral, clientVars, pool, wip>>

(***************************************************************************)
(* A panic while the lock of latest is held poisons it, before or after the*)
(* slot is written.  The thread is gone, and the socket it owned with it.  *)
(***************************************************************************)
Panic(p) ==
  /\ pc[p] = "Publish" /\ ~poisoned
  /\ poisoned' = TRUE
  /\ latest' \in {latest, wip[p]}
  /\ Close(sock[p])
  /\ sock' = [sock EXCEPT ![p] = None]
  /\ GoTo(p, "Panicked")
  /\ UNCHANGED <<worldVars, collateral, pending, first, pool, wip, callVars>>

-----------------------------------------------------------------------------
(***************************************************************************)
(* The world: what answers at the endpoint changes, peers hang up, ureq    *)
(* forgets idle connections, time passes.                                  *)
(***************************************************************************)
OccupantChanges ==
  /\ \E p \in Peer \cup {None} : p # occupant /\ occupant' = p
  /\ UNCHANGED <<terminating, now, conns, collateral, clientVars, pool, pc, sock, wip, callVars>>

PeerCloses(c) ==
  /\ conns[c].open
  /\ Close(c)
  /\ UNCHANGED <<worldVars, collateral, clientVars, pool, pc, sock, wip, callVars>>

EvictIdle(c) ==
  /\ c \in pool
  /\ pool' = pool \ {c}
  /\ Close(c)
  /\ UNCHANGED <<worldVars, collateral, clientVars, pc, sock, wip, callVars>>

Tick ==
  /\ now < MaxTime
  /\ now' = now + 1
  /\ UNCHANGED <<terminating, occupant, conns, collateral, clientVars, pool, pc, sock, wip, callVars>>

-----------------------------------------------------------------------------
Dials(p) ==
  DialFails(p) \/ DialWithoutCertificate(p) \/ Handshakes(p) \/ VerifyHandshook(p) \/ Publish(p)

ConnectVerified ==
  \/ RefuseTerminating \/ StartConnect
  \/ Extract \/ CollateralArrives \/ CollateralFails
  \/ Dials(Main) \/ HandOver

Request(t) ==
  \/ ReusePooled(t) \/ Connect(t) \/ Dials(t)
  \/ Send(t) \/ Fails(t) \/ Retry(t) \/ Respond(t) \/ RespondTooLarge(t)

World == OccupantChanges \/ Tick \/ \E c \in Conn : PeerCloses(c) \/ EvictIdle(c)

Next ==
  \/ ConnectVerified
  \/ \E t \in Thread : BeginRequest(t) \/ Request(t)
  \/ \E p \in Proc : Panic(p)
  \/ World

Spec == Init /\ [][Next]_vars

(***************************************************************************)
(* What runs keeps running: the dial and the handshake end by their two    *)
(* timeouts, and a CollateralSource owns a timeout (its contract).  An     *)
(* operation of a request ends by the timeout of its socket calls when the *)
(* peer is silent; a peer in Dribblers may accept or send just enough to   *)
(* begin that timeout again, for as long as it keeps the connection open   *)
(* (module Deadlines, RequestIsBounded).  Nothing obliges a peer or a      *)
(* source to answer, and nothing makes a thread ask.                       *)
(***************************************************************************)
OwnDial(p) == DialFails(p) \/ VerifyHandshook(p) \/ Publish(p)

OwnConnect ==
  \/ RefuseTerminating \/ StartConnect \/ Extract \/ CollateralFails
  \/ OwnDial(Main) \/ HandOver

Held(t) ==
  /\ pc[t] \in {"Send", "Await"}
  /\ conns[sock[t]].open /\ conns[sock[t]].peer \in Dribblers

OwnRequest(t) ==
  \/ ReusePooled(t) \/ Connect(t) \/ OwnDial(t)
  \/ ~Held(t) /\ (Send(t) \/ Fails(t) \/ Retry(t))

FairSpec == Spec /\ WF_vars(OwnConnect) /\ \A t \in Thread : WF_vars(OwnRequest(t))

-----------------------------------------------------------------------------
(***************************************************************************)
(* Properties.                                                             *)
(***************************************************************************)

\* VerifiedClient::latest_verification, which every accessor reads.
LatestVerification == IF latest = None \/ poisoned THEN first ELSE latest

\* The peer behind a connection holds a key that the licensed enclave attests.
AttestedPeer(p) ==
  /\ LicensedDocument(Licensed, Served)
  /\ Facts[p].holdsKey
  /\ Facts[p].attestation \notin {Missing, Unreadable}
  /\ AttestsKey(Facts[p].attestation, Licensed, Facts[p].leaf)

TrustedPeers == {p \in Peer : AttestedPeer(p)}

\* And it did when it was verified, by a statement of Intel's valid at that time.
Genuine(c) ==
  /\ conns[c].peer \in TrustedPeers
  /\ FreshTcb(Attestation(c), collateral, conns[c].at)

(***************************************************************************)
(* Application data reaches nobody but an attested peer: whatever answers  *)
(* at the endpoint in between, on the first connection and on every        *)
(* reconnect, pooled, pending or fresh; and the TCB downgrade an old       *)
(* statement of Intel's allows is bounded by its validity (connect.rs      *)
(* 154-165, 283, 385-390).                                                 *)
(***************************************************************************)
OnlyAttestedPeersAreSent == \A c \in Conn : conns[c].carried => Genuine(c)

(***************************************************************************)
(* A socket has one owner: the pending slot, the pool or one call.  Two    *)
(* threads never write to the same connection (take_pending, ureq's pool). *)
(***************************************************************************)
SocketsHaveOneOwner ==
  /\ pending # None => pending \notin pool /\ \A p \in Proc : sock[p] # pending
  /\ \A p \in Proc : sock[p] \notin pool
  /\ \A p, q \in Proc : p # q /\ sock[p] # None => sock[p] # sock[q]

(***************************************************************************)
(* The socket that was verified is the socket the requests travel over: no *)
(* second connection is opened while it waits for one (http.rs 103-114).   *)
(***************************************************************************)
FirstSocketFirst ==
  pending # None => \A c \in Conn : conns[c].peer # None => c = pending

(***************************************************************************)
(* The accessors always have an answer, and it is a true statement about a *)
(* connection this client verified: after reconnects, failed reconnects and*)
(* panics of other threads (connect.rs 399-406, 478-495).                  *)
(***************************************************************************)
AccessorsAreTrue ==
  pc[Main] = "Ready" =>
    LET v == LatestVerification
    IN  /\ v # None
        /\ conns[v.conn].verified /\ Genuine(v.conn)
        /\ v.key = Facts[conns[v.conn].peer].leaf
        /\ IsTrustworthy(v.results)

(***************************************************************************)
(* Verification decides as it should, on the first connection and on every *)
(* reconnect.  A substitution behind the endpoint becomes visible as a     *)
(* refusal: a call that verifies a peer which is not attested ends as      *)
(* Refused, never as an I/O fault, and is triaged as a violation unless    *)
(* the one thing missing is a verifier for the quote's MR-CONFIG-ID        *)
(* (connect.rs 552-559).  An attested peer whose TCB the collateral at     *)
(* hand covers is never turned away: the call goes on with it (http.rs     *)
(* 145-205).                                                               *)
(***************************************************************************)
SwapIsReported(p) ==
  conns[sock[p]].peer \notin TrustedPeers
  => /\ answer'[p].status = "Refused"
     /\ \/ answer'[p].refusal.kind = "GuaranteeViolated"
        \/ Attestation(sock[p]).version = "V2"

AttestedGoesOn(p) ==
  /\ conns[sock[p]].peer \in TrustedPeers
  /\ FreshTcb(Attestation(sock[p]), collateral, now)
  => conns'[sock[p]].verified /\ pc'[p] = "Publish"

VerificationDecides ==
  [][\A p \in Proc :
       pc[p] = "Verify" /\ pc'[p] # "Verify" => SwapIsReported(p) /\ AttestedGoesOn(p)]_vars

(***************************************************************************)
(* connect_verified returns, whatever the peer does or does not answer     *)
(* (connect.rs 175, tls.rs 100-117).                                       *)
(***************************************************************************)
ConnectReturns == <>(pc[Main] \in {"Ready", "Done", "Panicked"})

(***************************************************************************)
(* A request returns, through retries, reconnects, closed connections and a*)
(* poisoned lock, unless from some point on one peer that dribbles holds it*)
(* on a connection that it keeps open: nothing but that keeps a caller for *)
(* ever (http.rs 83-118, 298).                                             *)
(***************************************************************************)
RequestsReturn ==
  \A t \in Thread : pc[t] = "Checkout" ~> (pc[t] \in {"Done", "Panicked"} \/ []Held(t))

(***************************************************************************)
(* The client implements what it promises.                                 *)
(***************************************************************************)
Channel == INSTANCE AttestedChannel WITH
  Trusted  <- TrustedPeers,
  party    <- [c \in Conn |-> conns[c].peer],
  attested <- {c \in Conn : conns[c].verified},
  carried  <- {c \in Conn : conns[c].carried},
  shown    <- IF pc[Main] = "Ready" THEN LatestVerification.conn ELSE None

ChannelSpec == Channel!Spec

(***************************************************************************)
(* What connect.rs:387-390 says: a CVM that restarted with a new key yields*)
(* Refused.  It is accepted when its new certificate carries a quote that  *)
(* commits to the new key: nothing compares it with the first one.         *)
(***************************************************************************)
NewKeyIsRefused ==
  \A c \in Conn : conns[c].carried => Facts[conns[c].peer].leaf = first.key
=============================================================================
