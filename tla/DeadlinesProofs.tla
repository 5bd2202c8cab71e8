-------------------------- MODULE DeadlinesProofs --------------------------
(***************************************************************************)
(* The safety properties of Deadlines, for every value of the timeouts and *)
(* every length of a handshake and of a response.                          *)
(***************************************************************************)
EXTENDS Deadlines, TLAPS

(***************************************************************************)
(* The inductive invariant: what the clock, the wait in progress and the   *)
(* budgets have to do with each other at each step of a call.              *)
(***************************************************************************)
InConnect == pc = "Connecting" => dialled <= now /\ now <= wake /\ wake = dialled + ConnectTimeout

InHandshake ==
  pc \in {"Handshake", "HandshakeRead", "Leaf"} =>
    /\ dialled <= now /\ now <= handshakeBy
    /\ handshakeBy <= dialled + ConnectTimeout + HandshakeTimeout

InHandshakeRead == pc = "HandshakeRead" => wake = handshakeBy

Incomplete == pc \in {"Handshake", "HandshakeRead"} => messages < Messages

InRequest ==
  /\ pc \in {"Request", "RequestRead"} => inRequest
  /\ inRequest => begun <= now /\ requestBy = begun + RequestTimeout

InRequestRead ==
  pc = "RequestRead" =>
    /\ timeout <= RequestTimeout
    /\ heard <= now /\ now <= wake /\ wake = heard + timeout

\* A wrong answer waits for the next reads, and no time passes until it is read.
Unread ==
  /\ inbox # "Nothing" => pc \in {"Handshake", "HandshakeRead", "Done"}
  /\ behind # "Nothing" => inbox = "Bytes"
  /\ pc # "Done" => wrongAt = IF "Wrong" \in {inbox, behind} THEN now ELSE Never

\* How a dial ended, by what was read.
Told ==
  /\ pc \in {"Resolving", "Connecting"} => handshakeBy = 0
  /\ outcome # "None" => pc = "Done"
  /\ pc = "Done" /\ wrongAt # Never => outcome = "HandshakeFailed" \/ handshakeBy <= wrongAt
  /\ OutageIsNotAnAttack

Budgets == InConnect /\ InHandshake /\ InHandshakeRead /\ Incomplete

IInv == TypeOK /\ Budgets /\ InRequest /\ InRequestRead /\ Unread /\ Told

\* The invariant holds at the start.
LEMMA InitIInv == Init => IInv
<1> SUFFICES ASSUME Init PROVE IInv
  OBVIOUS
<1>1. TimesOK
  BY TimeoutAssumption DEF Init, TimesOK, Never
<1>2. StepsOK /\ AnswersOK
  <2>1. StepsOK
    BY DEF Init, StepsOK, Waiting
  <2>2. Never \in 0 .. Never
    BY TimeoutAssumption DEF Never
  <2>3. AnswersOK
    BY <2>2 DEF Init, AnswersOK
  <2> QED BY <2>1, <2>3
<1>3. Budgets /\ InRequestRead
  BY DEF Init, Budgets, InConnect, InHandshake, InHandshakeRead, Incomplete, InRequestRead
<1>4. InRequest
  BY DEF Init, InRequest
<1>5. Unread /\ Told
  BY DEF Init, Unread, Told, OutageIsNotAnAttack
<1> QED BY <1>1, <1>2, <1>3, <1>4, <1>5 DEF IInv, TypeOK

(***************************************************************************)
(* Every step that ends a call keeps the clock and the marks; what it says *)
(* of the end must fit what arrived.                                       *)
(***************************************************************************)
LEMMA FailKeepsIInv ==
  ASSUME IInv, pc # "Done",
         NEW o \in {"Ok", "Io", "NotReached", "HandshakeFailed", "NoPeerCertificate"}, Fail(o),
         wrongAt # Never => o = "HandshakeFailed" \/ handshakeBy <= wrongAt,
         o = "HandshakeFailed" => wrongAt # Never \/ handshakeBy = 0
  PROVE  IInv'
<1> USE DEF IInv, TypeOK, Fail, socketVars, marks, answerVars
<1>1. TimesOK'
  BY DEF TimesOK
<1>2. StepsOK' /\ AnswersOK'
  BY DEF StepsOK, AnswersOK, Never
<1>3. Budgets' /\ InRequestRead'
  BY DEF Budgets, InConnect, InHandshake, InHandshakeRead, Incomplete, InRequestRead
<1>4. InRequest'
  BY DEF InRequest
<1>5. Unread' /\ Told'
  BY DEF Unread, Told, OutageIsNotAnAttack, Never
<1> QED BY <1>1, <1>2, <1>3, <1>4, <1>5

(***************************************************************************)
(* Every step keeps the invariant.  A dial is given its two budgets one    *)
(* after the other, and no wait outlasts the budget it was armed with, so  *)
(* the clock stops at the end of a budget until the caller has acted.      *)
(***************************************************************************)
LEMMA NextKeepsIInv == IInv /\ [Next]_vars => IInv'
<1> SUFFICES ASSUME IInv, [Next]_vars PROVE IInv'
  OBVIOUS
<1> USE TimeoutAssumption DEF IInv, TypeOK, Wait, marks, socketVars, answerVars
<1>1. CASE StartDial
  <2> USE <1>1 DEF StartDial
  <2>1. TimesOK'
    BY DEF TimesOK, Incomplete, Budgets
  <2>2. StepsOK' /\ AnswersOK'
    BY DEF StepsOK, AnswersOK, Waiting, Never, TimesOK
  <2>3. Budgets'
    BY DEF Budgets, InConnect, InHandshake, InHandshakeRead, Incomplete, TimesOK
  <2>4. InRequest'
    BY DEF InRequest, TimesOK, StepsOK
  <2>5. InRequestRead'
    BY DEF InRequestRead, InRequest, TimesOK
  <2>6. Unread' /\ Told'
    BY DEF Unread, Told, OutageIsNotAnAttack, TimesOK, Never, Budgets, Incomplete
  <2> QED BY <2>1, <2>2, <2>3, <2>4, <2>5, <2>6
<1>14. CASE Resolves
  <2> USE <1>14 DEF Resolves
  <2>1. TimesOK'
    BY DEF TimesOK, Incomplete, Budgets
  <2>2. StepsOK' /\ AnswersOK'
    BY DEF StepsOK, AnswersOK, Waiting, Never, TimesOK
  <2>3. Budgets'
    BY DEF Budgets, InConnect, InHandshake, InHandshakeRead, Incomplete, TimesOK
  <2>4. InRequest'
    BY DEF InRequest, TimesOK, StepsOK
  <2>5. InRequestRead'
    BY DEF InRequestRead, InRequest, TimesOK
  <2>6. Unread' /\ Told'
    BY DEF Unread, Told, OutageIsNotAnAttack, TimesOK, Never, Budgets, Incomplete
  <2> QED BY <2>1, <2>2, <2>3, <2>4, <2>5, <2>6
<1>2. CASE Connects
  <2> USE <1>2 DEF Connects
  <2>1. TimesOK'
    BY DEF TimesOK, Incomplete, Budgets
  <2>2. StepsOK' /\ AnswersOK'
    BY DEF StepsOK, AnswersOK, Waiting, Never, TimesOK
  <2>3. Budgets'
    BY DEF Budgets, InConnect, InHandshake, InHandshakeRead, Incomplete, TimesOK
  <2>4. InRequest'
    BY DEF InRequest, TimesOK, StepsOK
  <2>5. InRequestRead'
    BY DEF InRequestRead, InRequest, TimesOK
  <2>6. Unread' /\ Told'
    BY DEF Unread, Told, OutageIsNotAnAttack, TimesOK, Never, Budgets, Incomplete
  <2> QED BY <2>1, <2>2, <2>3, <2>4, <2>5, <2>6
<1>3. CASE Arm
  <2> USE <1>3 DEF Arm, HasBudget, Remaining
  <2>1. TimesOK'
    BY DEF TimesOK, Incomplete, Budgets
  <2>2. StepsOK' /\ AnswersOK'
    BY DEF StepsOK, AnswersOK, Waiting, Never, TimesOK
  <2>3. Budgets'
    BY DEF Budgets, InConnect, InHandshake, InHandshakeRead, Incomplete, TimesOK
  <2>4. InRequest'
    BY DEF InRequest, TimesOK, StepsOK
  <2>5. InRequestRead'
    BY DEF InRequestRead, InRequest, TimesOK
  <2>6. Unread' /\ Told'
    BY DEF Unread, Told, OutageIsNotAnAttack, TimesOK, Never, Budgets, Incomplete
  <2> QED BY <2>1, <2>2, <2>3, <2>4, <2>5, <2>6
<1>4. CASE ReadMore
  <2> USE <1>4 DEF ReadMore
  <2>1. TimesOK'
    BY DEF TimesOK, Incomplete, Budgets
  <2>2. StepsOK' /\ AnswersOK'
    BY DEF StepsOK, AnswersOK, Waiting, Never, TimesOK
  <2>3. Budgets'
    BY DEF Budgets, InConnect, InHandshake, InHandshakeRead, Incomplete, TimesOK
  <2>4. InRequest'
    BY DEF InRequest, TimesOK, StepsOK
  <2>5. InRequestRead'
    BY DEF InRequestRead, InRequest, TimesOK
  <2>6. Unread' /\ Told'
    BY DEF Unread, Told, OutageIsNotAnAttack, TimesOK, Never, Budgets, Incomplete
  <2> QED BY <2>1, <2>2, <2>3, <2>4, <2>5, <2>6
<1>5. CASE TakeLeaf
  <2> USE <1>5 DEF TakeLeaf, Never
  <2>1. TimesOK'
    BY DEF TimesOK, Incomplete, Budgets
  <2>2. StepsOK' /\ AnswersOK'
    BY DEF StepsOK, AnswersOK, Waiting, Never, TimesOK
  <2>3. Budgets'
    BY DEF Budgets, InConnect, InHandshake, InHandshakeRead, Incomplete, TimesOK
  <2>4. InRequest'
    BY DEF InRequest, TimesOK, StepsOK
  <2>5. InRequestRead'
    BY DEF InRequestRead, InRequest, TimesOK
  <2>6. Unread' /\ Told'
    BY DEF Unread, Told, OutageIsNotAnAttack, TimesOK, Never, Budgets, Incomplete
  <2> QED BY <2>1, <2>2, <2>3, <2>4, <2>5, <2>6
<1>6. CASE BeginRequest
  <2> USE <1>6 DEF BeginRequest
  <2>1. TimesOK'
    BY DEF TimesOK, Incomplete, Budgets
  <2>2. StepsOK' /\ AnswersOK'
    BY DEF StepsOK, AnswersOK, Waiting, Never, TimesOK
  <2>3. Budgets'
    BY DEF Budgets, InConnect, InHandshake, InHandshakeRead, Incomplete, TimesOK
  <2>4. InRequest'
    BY DEF InRequest, TimesOK, StepsOK
  <2>5. InRequestRead'
    BY DEF InRequestRead, InRequest, TimesOK
  <2>6. Unread' /\ Told'
    BY DEF Unread, Told, OutageIsNotAnAttack, TimesOK, Never, Budgets, Incomplete
  <2> QED BY <2>1, <2>2, <2>3, <2>4, <2>5, <2>6
<1>7. CASE SetDeadline
  <2> USE <1>7 DEF SetDeadline, SocketTimeout
  <2>1. TimesOK'
    BY DEF TimesOK, Incomplete, Budgets
  <2>2. StepsOK' /\ AnswersOK'
    BY DEF StepsOK, AnswersOK, Waiting, Never, TimesOK
  <2>3. Budgets'
    BY DEF Budgets, InConnect, InHandshake, InHandshakeRead, Incomplete, TimesOK
  <2>4. InRequest'
    BY DEF InRequest, TimesOK, StepsOK
  <2>5. InRequestRead'
    BY DEF InRequestRead, InRequest, TimesOK
  <2>6. Unread' /\ Told'
    BY DEF Unread, Told, OutageIsNotAnAttack, TimesOK, Never, Budgets, Incomplete
  <2> QED BY <2>1, <2>2, <2>3, <2>4, <2>5, <2>6
<1>8. CASE Dribble
  <2> USE <1>8 DEF Dribble
  <2>1. TimesOK'
    BY DEF TimesOK, Incomplete, Budgets
  <2>2. StepsOK' /\ AnswersOK'
    BY DEF StepsOK, AnswersOK, Waiting, Never, TimesOK
  <2>3. Budgets'
    BY DEF Budgets, InConnect, InHandshake, InHandshakeRead, Incomplete, TimesOK
  <2>4. InRequest'
    BY DEF InRequest, TimesOK, StepsOK
  <2>5. InRequestRead'
    BY DEF InRequestRead, InRequest, TimesOK
  <2>6. Unread' /\ Told'
    BY DEF Unread, Told, OutageIsNotAnAttack, TimesOK, Never, Budgets, Incomplete
  <2> QED BY <2>1, <2>2, <2>3, <2>4, <2>5, <2>6
<1>9. CASE OperationCompletes
  <2> USE <1>9 DEF OperationCompletes
  <2>1. TimesOK'
    BY DEF TimesOK, Incomplete, Budgets
  <2>2. StepsOK' /\ AnswersOK'
    BY DEF StepsOK, AnswersOK, Waiting, Never, TimesOK
  <2>3. Budgets'
    BY DEF Budgets, InConnect, InHandshake, InHandshakeRead, Incomplete, TimesOK
  <2>4. InRequest'
    BY DEF InRequest, TimesOK, StepsOK
  <2>5. InRequestRead'
    BY DEF InRequestRead, InRequest, TimesOK
  <2>6. Unread' /\ Told'
    BY DEF Unread, Told, OutageIsNotAnAttack, TimesOK, Never, Budgets, Incomplete
  <2> QED BY <2>1, <2>2, <2>3, <2>4, <2>5, <2>6
<1>10. CASE Tick
  <2> USE <1>10 DEF Tick, Waiting
  <2>1. TimesOK'
    BY DEF TimesOK, Incomplete, Budgets
  <2>2. StepsOK' /\ AnswersOK'
    BY DEF StepsOK, AnswersOK, Waiting, Never, TimesOK
  <2>3. Budgets'
    BY DEF Budgets, InConnect, InHandshake, InHandshakeRead, Incomplete, TimesOK
  <2>4. InRequest'
    BY DEF InRequest, TimesOK, StepsOK
  <2>5. InRequestRead'
    BY DEF InRequestRead, InRequest, TimesOK
  <2>6. Unread' /\ Told'
    BY DEF Unread, Told, OutageIsNotAnAttack, TimesOK, Never, Budgets, Incomplete
  <2> QED BY <2>1, <2>2, <2>3, <2>4, <2>5, <2>6
<1>15. CASE PeerSends
  <2> USE <1>15 DEF PeerSends, Answer
  <2>1. TimesOK'
    BY DEF TimesOK, Incomplete, Budgets
  <2>2. StepsOK' /\ AnswersOK'
    BY DEF StepsOK, AnswersOK, Waiting, Never, TimesOK
  <2>3. Budgets'
    BY DEF Budgets, InConnect, InHandshake, InHandshakeRead, Incomplete, TimesOK
  <2>4. InRequest'
    BY DEF InRequest, TimesOK, StepsOK
  <2>5. InRequestRead'
    BY DEF InRequestRead, InRequest, TimesOK
  <2>6. Unread' /\ Told'
    BY DEF Unread, Told, OutageIsNotAnAttack, TimesOK, Never, Budgets, Incomplete
  <2> QED BY <2>1, <2>2, <2>3, <2>4, <2>5, <2>6
<1>11. CASE NoClientHello \/ AnsweredWrongly
  <2>1. Fail("HandshakeFailed") /\ pc \in {"Connecting", "HandshakeRead"}
    BY <1>11 DEF NoClientHello, AnsweredWrongly, HandshakeError
  <2>2. wrongAt # Never \/ handshakeBy = 0
    BY <1>11 DEF NoClientHello, AnsweredWrongly, Unread, Told, TimesOK, Never
  <2> QED BY <2>1, <2>2, FailKeepsIInv
<1>12. CASE HandshakeEnds \/ HandshakeTimesOut \/ BudgetSpent
  <2>1. Fail("NotReached") /\ pc \in {"Handshake", "HandshakeRead"}
    BY <1>12 DEF HandshakeEnds, HandshakeTimesOut, BudgetSpent, HandshakeError
  <2>2. wrongAt # Never => handshakeBy <= wrongAt
    BY <1>12 DEF HandshakeEnds, HandshakeTimesOut, BudgetSpent, HasBudget, Unread, TimesOK
  <2> QED BY <2>1, <2>2, FailKeepsIInv
<1>16. CASE \/ ConnectFails \/ RequestFails \/ ResponseCompletes
            \/ BadServerName \/ Unresolved \/ ConnectTimesOut \/ NoLeaf
            \/ DeadlinePassed \/ RequestTimesOut
  <2>1. /\ pc \notin {"Handshake", "HandshakeRead", "Done"}
        /\ \E o \in {"Ok", "Io", "NotReached", "NoPeerCertificate"} : Fail(o)
    BY <1>16 DEF ConnectFails, RequestFails, ResponseCompletes, BadServerName, Unresolved,
                 ConnectTimesOut, NoLeaf, DeadlinePassed, RequestTimesOut
  <2>2. wrongAt = Never
    BY <2>1 DEF Unread
  <2> QED BY <2>1, <2>2, FailKeepsIInv
<1>13. CASE UNCHANGED vars
  BY <1>13 DEF vars, TimesOK, StepsOK, AnswersOK, Budgets, InConnect, InHandshake, InHandshakeRead,
                Incomplete, InRequest, InRequestRead, Unread, Told, OutageIsNotAnAttack
<1> QED
  BY <1>1, <1>2, <1>3, <1>4, <1>5, <1>6, <1>7, <1>8, <1>9, <1>10, <1>11, <1>12, <1>13, <1>14,
     <1>15, <1>16
  DEF Next, Peer, Resolver, Caller

\* The invariant holds in every reachable state.
LEMMA Invariance == Spec => []IInv
  BY InitIInv, NextKeepsIInv, PTL DEF Spec

(***************************************************************************)
(* Type correctness; a socket is never handed a timeout of zero.           *)
(***************************************************************************)
THEOREM TypeCorrect == Spec => []TypeOK
<1>1. IInv => TypeOK
  BY DEF IInv
<1> QED BY Invariance, <1>1, PTL

(***************************************************************************)
(* From the address on, a dial is over within its two budgets, whatever    *)
(* the peer sends.                                                         *)
(***************************************************************************)
THEOREM DialBounded == Spec => []DialIsBounded
<1>1. IInv => DialIsBounded
  BY TimeoutAssumption
  DEF IInv, TypeOK, TimesOK, Budgets, InConnect, InHandshake, DialIsBounded, Dialling
<1> QED BY Invariance, <1>1, PTL

(***************************************************************************)
(* A wrong answer that arrives within the budget is reported as one, and   *)
(* nothing else is, once there was a handshake: for every budget, every    *)
(* length of a handshake and every way the bytes come.                     *)
(***************************************************************************)
THEOREM CausesTold == Spec => []CausesAreTold
<1>1. IInv => CausesAreTold
  BY DEF IInv, TypeOK, TimesOK, AnswersOK, Told, CausesAreTold, AttackIsNotAnOutage, Never
<1> QED BY Invariance, <1>1, PTL

(***************************************************************************)
(* A peer that stays silent in a request loses within its timeout.         *)
(***************************************************************************)
THEOREM SilenceLoses == Spec => []SilentPeerLoses
<1>1. IInv => SilentPeerLoses
  BY TimeoutAssumption DEF IInv, TypeOK, TimesOK, InRequestRead, SilentPeerLoses
<1> QED BY Invariance, <1>1, PTL
=============================================================================
