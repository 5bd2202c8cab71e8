------------------------- MODULE ConnectRunnerProofs -------------------------
(***************************************************************************)
(* The runner connect-verified: its exit code is true of the run, whatever *)
(* was given to it, whoever answers, and however many connections ureq     *)
(* opens.  The runner is one behaviour of the client, so everything proved *)
(* of the client holds of it; what is added here is the history of the     *)
(* client that the exit codes speak of, and where main stands at each exit.*)
(***************************************************************************)
EXTENDS ConnectRunner, VerifiedTransportProofs

(***************************************************************************)
(* What a run of the client leaves behind on its connections: nothing is   *)
(* sent before the client exists; a response, or the wait for one, was     *)
(* preceded by a request that left; connections are opened from the first  *)
(* on, and the client exists only once the first one was verified.         *)
(***************************************************************************)
NothingSentBefore == pc[Main] # "Ready" => \A c \in Conn : ~conns[c].carried

AnsweredWasAsked ==
  \A t \in Thread : pc[t] = "Await" \/ answer[t].status = "Ok" => \E c \in Conn : conns[c].carried

FirstIsFirst ==
  /\ \A c \in Conn : conns[c].peer # None => conns[1].peer # None
  /\ pc[Main] = "Ready" => conns[1].verified

History == NothingSentBefore /\ AnsweredWasAsked /\ FirstIsFirst

(***************************************************************************)
(* Where main stands.                                                      *)
(***************************************************************************)
RunnerTypeOK ==
  /\ given \in Given
  /\ stage \in {"SetUp", "Connect", "Request", "Exited"}
  /\ exit \in {None, 0, 1, 2, PanicExit}

\* The stages of main follow the steps of connect_verified.
StagesFollow ==
  /\ exit # None => stage = "Exited"
  /\ stage = "SetUp" => pc[Main] = "Start"
  /\ stage = "Request" => pc[Main] = "Ready"
  /\ given.osImage = "Revoked" => stage \in {"SetUp", "Exited"} /\ pc[Main] = "Start"

\* What each exit code says of the client when main returns it.
ExitsFollow ==
  /\ exit = 0 => pc[Main] = "Ready" /\ answer[Get].status = "Ok"
  /\ exit = 1 => pc[Main] = "Done" \/ (pc[Main] = "Start" /\ given.osImage = "Revoked")
  /\ exit = 2 => pc[Main] \in {"Start", "Ready"}

RunnerIInv == RunnerTypeOK /\ StagesFollow /\ ExitsFollow

-----------------------------------------------------------------------------
(***************************************************************************)
(* The history of the client.  A process comes to wait only by sending, to *)
(* have a response only by having waited, and Main to be ready only by     *)
(* handing the connection over.                                            *)
(***************************************************************************)
Follows(p) ==
  /\ pc'[p] = "Await" => pc[p] = "Await" \/ Send(p)
  /\ pc'[p] = "Ready" => pc[p] = "Ready" \/ HandOver
  /\ answer'[p].status = "Ok" => answer[p].status = "Ok" \/ pc[p] = "Await"

\* A step that leaves q somewhere else, and answers it with a response only when it waited.
Leaves(q) ==
  /\ \E s \in Steps \ {"Await", "Ready"} : pc' = [pc EXCEPT ![q] = s]
  /\ \/ answer' = answer
     \/ \E a : answer' = [answer EXCEPT ![q] = a] /\ (a.status = "Ok" => pc[q] = "Await")

\* No error of ureq is a response.
LEMMA ErrorIsNoResponse ==
  ASSUME NEW error PROVE FromUreq(error).status # "Ok"
  BY DEF FromUreq

\* Such a step is none of the three.
LEMMA LeavesFollow ==
  ASSUME TypeOK, NEW p \in Proc, NEW q \in Proc, Leaves(q)
  PROVE  Follows(p)
  BY DEF TypeOK, CallsOK, Leaves, Follows

\* A step that moves nobody.
LEMMA SameFollow ==
  ASSUME UNCHANGED <<pc, answer>>, NEW p
  PROVE  Follows(p)
  BY DEF Follows

\* The steps of a dial move the one who dials.
LEMMA DialLeaves ==
  ASSUME NEW q \in Proc, Dials(q)
  PROVE  Leaves(q)
<1>1. CASE DialFails(q) \/ DialWithoutCertificate(q)
  BY <1>1, ErrorIsNoResponse
  DEF DialFails, DialWithoutCertificate, Refuse, Return, GoTo, Leaves, Steps
<1>2. CASE Handshakes(q)
  BY <1>2 DEF Handshakes, GoTo, callVars, Leaves, Steps
<1>3. CASE VerifyHandshook(q)
  BY <1>3, ErrorIsNoResponse DEF VerifyHandshook, Return, GoTo, callVars, Leaves, Steps
<1>4. CASE Publish(q)
  BY <1>4 DEF Publish, GoTo, callVars, Leaves, Steps
<1> QED BY <1>1, <1>2, <1>3, <1>4 DEF Dials

\* The steps of connect_verified.
LEMMA ConnectFollows ==
  ASSUME TypeOK, NEW p \in Proc, ConnectVerified
  PROVE  Follows(p)
<1>1. CASE RefuseTerminating \/ StartConnect \/ Extract \/ CollateralArrives \/ CollateralFails
  <2>1. Leaves(Main)
    BY <1>1, ErrorIsNoResponse
    DEF RefuseTerminating, StartConnect, Extract, CollateralArrives, CollateralFails, Refuse,
        Return, GoTo, callVars, Leaves, Steps
  <2> QED BY <2>1, Processes, LeavesFollow
<1>2. CASE HandOver
  BY <1>2 DEF HandOver, GoTo, callVars, Follows, TypeOK, CallsOK
<1>3. CASE Dials(Main)
  BY <1>3, Processes, DialLeaves, LeavesFollow
<1> QED BY <1>1, <1>2, <1>3 DEF ConnectVerified

\* The steps of a request.
LEMMA RequestFollows ==
  ASSUME TypeOK, NEW p \in Proc, NEW t \in Thread, BeginRequest(t) \/ Request(t)
  PROVE  Follows(p)
<1>1. t \in Proc
  BY Processes
<1>2. CASE BeginRequest(t)
  <2>1. NoAnswer.status # "Ok"
    BY DEF NoAnswer
  <2>2. Leaves(t)
    BY <1>2, <2>1, ErrorIsNoResponse DEF BeginRequest, GoTo, Leaves, Steps
  <2> QED BY <1>1, <2>2, LeavesFollow
<1>3. CASE ReusePooled(t)
  <2>1. UNCHANGED <<pc, answer>> \/ Leaves(t)
    BY <1>3 DEF ReusePooled, GoTo, callVars, Leaves, Steps
  <2> QED BY <1>1, <2>1, LeavesFollow, SameFollow
<1>4. CASE Connect(t) \/ Fails(t) \/ Retry(t) \/ Respond(t) \/ RespondTooLarge(t)
  <2>1. Leaves(t)
    BY <1>4, ErrorIsNoResponse
    DEF Connect, Fails, Retry, Respond, RespondTooLarge, Return, GoTo, callVars, Leaves, Steps
  <2> QED BY <1>1, <2>1, LeavesFollow
<1>5. CASE Send(t)
  BY <1>1, <1>5 DEF Send, GoTo, callVars, Follows, TypeOK, CallsOK
<1>6. CASE Dials(t)
  BY <1>1, <1>6, DialLeaves, LeavesFollow
<1> QED BY <1>2, <1>3, <1>4, <1>5, <1>6 DEF Request

\* Every step.
LEMMA StepFollows ==
  ASSUME TypeOK, [Next]_vars, NEW p \in Proc
  PROVE  Follows(p)
<1>1. CASE ConnectVerified
  BY <1>1, ConnectFollows
<1>2. CASE \E t \in Thread : BeginRequest(t) \/ Request(t)
  BY <1>2, RequestFollows
<1>3. CASE \E q \in Proc : Panic(q)
  <2>1. PICK q \in Proc : Leaves(q)
    BY <1>3 DEF Panic, GoTo, callVars, Leaves, Steps
  <2> QED BY <2>1, LeavesFollow
<1>4. CASE World \/ UNCHANGED vars
  <2>1. UNCHANGED <<pc, answer>>
    BY <1>4 DEF World, OccupantChanges, Tick, PeerCloses, EvictIdle, vars, callVars
  <2> QED BY <2>1, SameFollow
<1> QED BY <1>1, <1>2, <1>3, <1>4 DEF Next

\* What is seen of the connections only grows, and the client stays.
Grows ==
  /\ \A c \in Conn : /\ conns[c].peer # None => conns'[c].peer # None
                     /\ conns[c].verified => conns'[c].verified
                     /\ conns[c].carried => conns'[c].carried
  /\ ReadyStays

\* The steps that change it name their process, which is not ready itself.
LEMMA StepGrows ==
  ASSUME IInv, [Next]_vars
  PROVE  Grows
<1> USE DEF Party, Attested, Carried
<1>1. CASE FactsKept /\ ReadyStays
  BY <1>1 DEF FactsKept, Grows
<1>2. ASSUME NEW p \in Proc, Handshakes(p) PROVE Grows
  <2>1. PICK c \in Conn, q \in Peer : Party[c] = None /\ Party' = [Party EXCEPT ![c] = q]
    BY <1>2, HandshakesReaches
  <2>2. \A d \in Conn : conns[d].peer # None => conns'[d].peer = conns[d].peer
    BY <2>1
  <2>3. Attested' = Attested /\ Carried' = Carried
    BY <1>2, HandshakesReaches
  <2>4. pc[p] = "Dial" /\ \E s : pc' = [pc EXCEPT ![p] = s]
    BY <1>2 DEF Handshakes, GoTo
  <2> QED BY <1>2, <2>2, <2>3, <2>4, MoveKeepsReady DEF Grows, IInv
<1>3. ASSUME NEW p \in Proc, VerifyHandshook(p) PROVE Grows
  <2>1. pc[p] = "Verify" /\ \E s : pc' = [pc EXCEPT ![p] = s]
    BY <1>3 DEF VerifyHandshook, Return, GoTo
  <2>2. Party' = Party /\ Carried' = Carried /\ Attested \subseteq Attested'
    BY <1>3, VerifyAttests
  <2> QED BY <1>3, <2>1, <2>2, MoveKeepsReady DEF Grows, IInv
<1>4. ASSUME NEW t \in Thread, Send(t) PROVE Grows
  <2>1. pc[t] = "Send" /\ \E s : pc' = [pc EXCEPT ![t] = s]
    BY <1>4 DEF Send, GoTo
  <2>2. Party' = Party /\ Attested' = Attested /\ Carried \subseteq Carried'
    BY <1>4, SendTalks
  <2> QED BY <1>4, <2>1, <2>2, Processes, MoveKeepsReady DEF Grows, IInv
<1> QED BY <1>1, <1>2, <1>3, <1>4, StepKinds

\* Nothing is sent before the client exists.
LEMMA KeepsNothingSentBefore ==
  ASSUME IInv, NothingSentBefore, [Next]_vars
  PROVE  NothingSentBefore'
<1> SUFFICES ASSUME pc'[Main] # "Ready" PROVE Carried' = {}
  BY DEF NothingSentBefore, Carried
<1>1. pc[Main] # "Ready"
  BY StepGrows DEF Grows, ReadyStays
<1>2. Carried = {}
  BY <1>1 DEF NothingSentBefore, Carried
<1>3. CASE FactsKept
  BY <1>2, <1>3 DEF FactsKept, Carried
<1>4. ASSUME NEW p \in Proc, Handshakes(p) \/ VerifyHandshook(p) PROVE Carried' = {}
  BY <1>2, <1>4, HandshakesReaches, VerifyAttests
<1>5. ASSUME NEW t \in Thread, Send(t) PROVE FALSE
  BY <1>1, <1>5 DEF Send, IInv, Sockets, MainFirst
<1> QED BY <1>3, <1>4, <1>5, StepKinds

\* A response follows a request that left.
LEMMA KeepsAnsweredWasAsked ==
  ASSUME IInv, AnsweredWasAsked, [Next]_vars
  PROVE  AnsweredWasAsked'
<1> SUFFICES ASSUME NEW t \in Thread, pc'[t] = "Await" \/ answer'[t].status = "Ok"
             PROVE  \E c \in Conn : conns'[c].carried
  BY DEF AnsweredWasAsked
<1>1. pc[t] = "Await" \/ answer[t].status = "Ok" \/ Send(t)
  BY Processes, StepFollows DEF Follows, IInv
<1>2. CASE Send(t)
  <2>1. PICK c \in Conn : Carried' = Carried \cup {c}
    BY <1>2, SendTalks DEF Attested
  <2> QED BY <2>1 DEF Carried
<1>3. CASE pc[t] = "Await" \/ answer[t].status = "Ok"
  BY <1>3, StepGrows DEF AnsweredWasAsked, Grows
<1> QED BY <1>1, <1>2, <1>3

\* The first connection is opened first, and verified before the client exists.
LEMMA KeepsFirstIsFirst ==
  ASSUME IInv, FirstIsFirst, 1 \in Conn, [Next]_vars
  PROVE  FirstIsFirst'
<1>1. \A c \in Conn : conns'[c].peer # None => conns'[1].peer # None
  <2>1. CASE FactsKept
    BY <2>1 DEF FactsKept, FirstIsFirst
  <2>2. ASSUME NEW p \in Proc, Handshakes(p)
        PROVE  conns'[1].peer # None
    <3>1. CASE conns[1].peer # None
      BY <3>1, StepGrows DEF Grows
    <3>2. CASE conns[1].peer = None
      <4>1. PICK c \in Conn :
              /\ conns[c].peer = None
              /\ \A d \in Conn : conns[d].peer = None => c <= d
              /\ conns' = [conns EXCEPT ![c] = [NoConnection EXCEPT !.peer = occupant, !.open = TRUE]]
        BY <2>2 DEF Handshakes
      <4>2. c <= 1
        BY <3>2, <4>1
      <4>3. c = 1
        BY <4>2, TransportAssumption DEF Conn
      <4>4. conns'[1].peer = occupant /\ occupant # None
        BY <2>2, <4>1, <4>3 DEF Handshakes, NoConnection, IInv, TypeOK, SocketsOK
      <4> QED BY <4>4
    <3> QED BY <3>1, <3>2
  <2>3. ASSUME Party' = Party
        PROVE  \A c \in Conn : conns'[c].peer = conns[c].peer
    BY <2>3 DEF Party
  <2>4. CASE \E p \in Proc : VerifyHandshook(p)
    BY <2>3, <2>4, VerifyAttests DEF FirstIsFirst
  <2>5. CASE \E t \in Thread : Send(t)
    BY <2>3, <2>5, SendTalks DEF FirstIsFirst
  <2> QED BY <2>1, <2>2, <2>4, <2>5, StepKinds
<1>2. ASSUME pc'[Main] = "Ready" PROVE conns'[1].verified
  <2>1. CASE pc[Main] = "Ready"
    BY <2>1, StepGrows DEF Grows, FirstIsFirst
  <2>2. CASE pc[Main] # "Ready"
    <3>1. HandOver
      BY <1>2, <2>2, Processes, StepFollows DEF Follows, IInv
    <3>2. pc[Main] = "HandOver" /\ conns' = conns
      BY <3>1 DEF HandOver
    <3>3. sock[Main] \in Conn /\ conns[sock[Main]].peer # None /\ conns[sock[Main]].verified
      BY <3>2, Processes, SocketIsReached DEF Holding, IInv, Verified, UsedIsVerified
    <3>4. sock[Main] = 1
      BY <3>2, <3>3 DEF FirstIsFirst, IInv, Sockets, FirstWaits
    <3> QED BY <3>2, <3>3, <3>4
  <2> QED BY <2>1, <2>2
<1> QED BY <1>1, <1>2 DEF FirstIsFirst

\* The history of the client holds in every reachable state.
LEMMA HistoryInvariance == Spec => [](IInv /\ History)
<1>1. 1 \in Conn
  BY RunnerAssumption, TransportAssumption DEF Conn
<1>2. ASSUME Init PROVE IInv /\ History
  <2>1. \A c \in Conn : conns[c].peer = None /\ ~conns[c].carried
    BY <1>2 DEF Init, NoConnection
  <2>2. pc[Main] = "Start" /\ \A t \in Thread : pc[t] = "Idle" /\ answer[t].status = "None"
    BY <1>2, Processes DEF Init, NoAnswer
  <2> QED BY <1>2, <2>1, <2>2, InitIInv
      DEF History, NothingSentBefore, AnsweredWasAsked, FirstIsFirst
<1>3. IInv /\ History /\ [Next]_vars => (IInv /\ History)'
  BY <1>1, NextKeepsIInv, KeepsNothingSentBefore, KeepsAnsweredWasAsked, KeepsFirstIsFirst
  DEF History
<1> QED BY <1>2, <1>3, PTL DEF Spec

-----------------------------------------------------------------------------
(***************************************************************************)
(* The runner is a client with one thread, which makes one request: every  *)
(* step of the runner is a step of the client or leaves the client alone   *)
(* (connect-verified.rs 170-235).                                          *)
(***************************************************************************)
LEMMA RunnerStepIsStep == [RunnerNext]_allVars => [Next]_vars
<1> SUFFICES ASSUME [RunnerNext]_allVars PROVE [Next]_vars
  OBVIOUS
<1>1. Get \in Thread /\ Get \in Proc /\ Main \in Proc
  BY RunnerAssumption, Processes
<1>2. CASE SetUp \/ Connected \/ Requested
  BY <1>2 DEF SetUp, Connected, Requested
<1>3. CASE Connecting
  BY <1>1, <1>3 DEF Connecting, Next
<1>4. CASE Requesting
  BY <1>1, <1>4 DEF Requesting, Next
<1>5. CASE WorldMoves
  BY <1>5 DEF WorldMoves, Next
<1>6. CASE UNCHANGED allVars
  BY <1>6 DEF allVars
<1> QED BY <1>2, <1>3, <1>4, <1>5, <1>6 DEF RunnerNext

THEOREM RunnerIsAClient == RunnerSpec => Spec
<1>1. RunnerInit => Init
  BY DEF RunnerInit
<1> QED BY <1>1, RunnerStepIsStep, PTL DEF RunnerSpec, Spec

(***************************************************************************)
(* So what was proved of every client holds of the one the runner drives:  *)
(* its bytes reach attested peers only, the verification it prints is true,*)
(* a substitute is refused and an attested peer is not, and it implements  *)
(* the attested channel (connect.rs 283, 385-406).                         *)
(***************************************************************************)
THEOREM RunnerKeepsTheClientsWord ==
  RunnerSpec => []OnlyAttestedPeersAreSent /\ []AccessorsAreTrue /\ VerificationDecides /\ ChannelSpec
  BY RunnerIsAClient, OnlyAttested, AccessorsTrue, VerificationDecidesTruly, ImplementsChannel

-----------------------------------------------------------------------------
(***************************************************************************)
(* Where main stands, step by step.                                        *)
(***************************************************************************)
LEMMA RunnerInitIInv == RunnerInit => RunnerIInv
<1> SUFFICES ASSUME RunnerInit PROVE RunnerIInv
  OBVIOUS
<1>1. pc[Main] = "Start"
  BY Processes DEF RunnerInit, Init
<1> QED BY <1>1, RunnerAssumption
    DEF RunnerInit, RunnerIInv, RunnerTypeOK, StagesFollow, ExitsFollow

\* What setting up makes of what was given: only a revoked image is a refusal.
LEMMA SetUpExits ==
  ASSUME NEW g
  PROVE  /\ SetUpExit(g) \in {None, 1, 2, PanicExit}
         /\ SetUpExit(g) = 1 => g.osImage = "Revoked"
         /\ SetUpExit(g) = None => g.osImage # "Revoked"
  BY RunnerAssumption DEF SetUpExit, ReportOsImage, PanicExit

\* The steps before the dial.
LEMMA SetUpKeeps ==
  ASSUME RunnerIInv, SetUp
  PROVE  RunnerIInv'
<1> DEFINE code == SetUpExit(given)
<1>1. /\ code \in {None, 1, 2, PanicExit}
      /\ code = 1 => given.osImage = "Revoked"
      /\ code = None => given.osImage # "Revoked"
  BY SetUpExits
<1>2. /\ stage = "SetUp" /\ given' = given /\ pc' = pc /\ answer' = answer
      /\ \/ code = None /\ stage' = "Connect" /\ exit' = exit
         \/ code # None /\ stage' = "Exited" /\ exit' = code
  BY DEF SetUp, Reach, Exit, vars, callVars
<1> HIDE DEF code
<1>3. pc[Main] = "Start" /\ exit = None
  BY <1>2 DEF RunnerIInv, StagesFollow
<1>4. RunnerTypeOK'
  BY <1>1, <1>2, <1>3 DEF RunnerIInv, RunnerTypeOK
<1>5. StagesFollow'
  BY <1>1, <1>2, <1>3 DEF RunnerIInv, StagesFollow
<1>6. ExitsFollow'
  BY <1>1, <1>2, <1>3, RunnerAssumption DEF ExitsFollow, PanicExit
<1> QED BY <1>4, <1>5, <1>6 DEF RunnerIInv

\* The client moves while main waits for it.
LEMMA ClientKeeps ==
  ASSUME IInv, RunnerIInv, [Next]_vars, stage \in {"Connect", "Request"}, UNCHANGED runnerVars
  PROVE  RunnerIInv'
<1>1. exit = None
  BY DEF RunnerIInv, StagesFollow
<1>2. stage = "Request" => pc'[Main] = "Ready"
  BY StepGrows DEF Grows, ReadyStays, RunnerIInv, StagesFollow
<1> QED BY <1>1, <1>2, RunnerAssumption
    DEF runnerVars, RunnerIInv, RunnerTypeOK, StagesFollow, ExitsFollow

\* What connect_verified answered.
LEMMA ConnectedKeeps ==
  ASSUME RunnerIInv, Connected
  PROVE  RunnerIInv'
<1>1. /\ stage = "Connect" /\ given' = given /\ pc' = pc /\ answer' = answer
      /\ \/ pc[Main] = "Ready" /\ stage' = "Request" /\ exit' = exit
         \/ pc[Main] = "Done" /\ stage' = "Exited" /\ exit' = 1
         \/ stage' = "Exited" /\ exit' = PanicExit
  BY DEF Connected, Reach, Exit, ConnectExit, vars, callVars
<1>2. exit = None /\ given.osImage # "Revoked"
  BY <1>1 DEF RunnerIInv, StagesFollow
<1>3. RunnerTypeOK'
  BY <1>1 DEF RunnerIInv, RunnerTypeOK
<1>4. StagesFollow'
  BY <1>1, <1>2 DEF StagesFollow
<1>5. ExitsFollow'
  BY <1>1, <1>2, RunnerAssumption DEF ExitsFollow, PanicExit
<1> QED BY <1>3, <1>4, <1>5 DEF RunnerIInv

\* What the request answered.
LEMMA RequestedKeeps ==
  ASSUME RunnerIInv, Requested
  PROVE  RunnerIInv'
<1>1. /\ stage = "Request" /\ given' = given /\ pc' = pc /\ answer' = answer
      /\ stage' = "Exited"
      /\ \/ answer[Get].status = "Ok" /\ exit' = 0
         \/ exit' = 2
         \/ exit' = PanicExit
  BY DEF Requested, Exit, GetExit, vars, callVars
<1>2. pc[Main] = "Ready" /\ given.osImage # "Revoked"
  BY <1>1 DEF RunnerIInv, StagesFollow
<1>3. RunnerTypeOK'
  BY <1>1 DEF RunnerIInv, RunnerTypeOK
<1>4. StagesFollow'
  BY <1>1, <1>2 DEF StagesFollow
<1>5. ExitsFollow'
  BY <1>1, <1>2, RunnerAssumption DEF ExitsFollow, PanicExit
<1> QED BY <1>3, <1>4, <1>5 DEF RunnerIInv

\* The world moves while main runs, and moves nobody.
LEMMA WorldKeeps ==
  ASSUME RunnerIInv, WorldMoves \/ UNCHANGED allVars
  PROVE  RunnerIInv'
<1>1. UNCHANGED <<pc, answer, given, stage, exit>>
  BY DEF WorldMoves, World, OccupantChanges, Tick, PeerCloses, EvictIdle, runnerVars, callVars,
         allVars, vars
<1> QED BY <1>1 DEF RunnerIInv, RunnerTypeOK, StagesFollow, ExitsFollow

\* Every step keeps it.
LEMMA RunnerNextKeeps ==
  ASSUME IInv, RunnerIInv, [RunnerNext]_allVars
  PROVE  RunnerIInv'
<1>1. CASE Connecting \/ Requesting
  <2>1. stage \in {"Connect", "Request"} /\ UNCHANGED runnerVars
    BY <1>1 DEF Connecting, Requesting
  <2> QED BY <2>1, RunnerStepIsStep, ClientKeeps
<1>2. CASE SetUp \/ Connected \/ Requested
  BY <1>2, SetUpKeeps, ConnectedKeeps, RequestedKeeps
<1>3. CASE WorldMoves \/ UNCHANGED allVars
  BY <1>3, WorldKeeps
<1> QED BY <1>1, <1>2, <1>3 DEF RunnerNext

\* All of it holds in every reachable state of the runner.
LEMMA RunnerInvariance == RunnerSpec => [](IInv /\ History /\ RunnerIInv)
<1>1. RunnerSpec => [](IInv /\ History)
  BY RunnerIsAClient, HistoryInvariance
<1>2. IInv /\ RunnerIInv /\ [RunnerNext]_allVars => RunnerIInv'
  BY RunnerNextKeeps
<1> QED BY <1>1, <1>2, RunnerInitIInv, PTL DEF RunnerSpec

-----------------------------------------------------------------------------
(***************************************************************************)
(* What follows of the exit codes, one statement at a time.                *)
(***************************************************************************)
LEMMA SuccessEarned ==
  ASSUME IInv, History, RunnerIInv
  PROVE  SuccessIsEarned
<1> SUFFICES ASSUME exit = 0
             PROVE  /\ \E c \in Conn : conns[c].carried /\ Genuine(c)
                    /\ Genuine(LatestVerification.conn)
                    /\ answer[Get].status = "Ok"
  BY DEF SuccessIsEarned
<1>1. pc[Main] = "Ready" /\ answer[Get].status = "Ok"
  BY DEF RunnerIInv, ExitsFollow
<1>2. \E c \in Conn : conns[c].carried
  BY <1>1, RunnerAssumption DEF History, AnsweredWasAsked
<1>3. \A c \in Conn : conns[c].carried => Genuine(c)
  BY DEF IInv, Verified, UsedIsVerified, VerifiedIsGenuine
<1>4. Truthful(LatestVerification)
  BY <1>1 DEF LatestVerification, IInv, Verified, KeptIsTruthful
<1>5. Genuine(LatestVerification.conn)
  BY <1>4 DEF Truthful, Verification, IInv, Verified, VerifiedIsGenuine
<1> QED BY <1>1, <1>2, <1>3, <1>5

\* A refusal has sent nothing.
LEMMA RefusalSends ==
  ASSUME History, RunnerIInv
  PROVE  RefusalSentNothing
  BY DEF History, NothingSentBefore, RunnerIInv, ExitsFollow, RefusalSentNothing

\* A revoked image dials nothing.
LEMMA RevokedDials ==
  ASSUME IInv, RunnerIInv
  PROVE  RevokedNeverDials
<1> SUFFICES ASSUME given.osImage = "Revoked"
             PROVE  exit # 0 /\ \A c \in Conn : conns[c].peer = None
  BY DEF RevokedNeverDials
<1>1. pc[Main] = "Start"
  BY DEF RunnerIInv, StagesFollow
<1> QED BY <1>1 DEF RunnerIInv, ExitsFollow, IInv, Sockets, FirstWaits

\* The first connection was verified, unless connecting ended in a refusal.
LEMMA CodesApart ==
  ASSUME IInv, History, RunnerIInv
  PROVE  CodesDoNotBlur
<1> SUFFICES ASSUME exit \in {0, 1, 2}
             PROVE  /\ conns[1].peer # None /\ conns[1].peer \notin TrustedPeers /\ ~NoCollateral
                       => exit = 1
                    /\ pc[Main] = "Start" /\ exit = 1 => given.osImage = "Revoked"
  BY DEF CodesDoNotBlur
<1>1. 1 \in Conn
  BY RunnerAssumption, TransportAssumption DEF Conn
<1>2. ASSUME conns[1].peer # None, conns[1].peer \notin TrustedPeers
      PROVE  exit = 1
  <2>1. pc[Main] # "Start"
    BY <1>1, <1>2 DEF IInv, Sockets, FirstWaits
  <2>2. ~conns[1].verified
    BY <1>1, <1>2 DEF IInv, Verified, VerifiedIsGenuine, Genuine
  <2>3. pc[Main] # "Ready"
    BY <2>2 DEF History, FirstIsFirst
  <2> QED BY <2>1, <2>3 DEF RunnerIInv, ExitsFollow
<1>3. pc[Main] = "Start" /\ exit = 1 => given.osImage = "Revoked"
  BY DEF RunnerIInv, ExitsFollow
<1> QED BY <1>2, <1>3

(***************************************************************************)
(* The exit code is true of the run: 0 is earned, 1 has sent nothing, a    *)
(* revoked image dials nothing, and a peer that is not the attested one,   *)
(* met while connecting and looked at, is a refusal (connect-verified.rs   *)
(* 16-22, 42-48, 144-148, 279-313).                                        *)
(***************************************************************************)
THEOREM RunnerExitsTrue == RunnerSpec => []CodesAreTrue
<1>1. IInv /\ History /\ RunnerIInv => CodesAreTrue
  BY SuccessEarned, RefusalSends, RevokedDials, CodesApart DEF CodesAreTrue
<1> QED BY <1>1, RunnerInvariance, PTL

=============================================================================
