---------------------- MODULE ComposeRetrievalProofs ----------------------
(***************************************************************************)
(* The safety properties of ComposeRetrieval, for any number of clients,   *)
(* any chain of sources, any set of URIs and every capacity.               *)
(***************************************************************************)
EXTENDS ComposeRetrieval, FiniteSetTheorems, TLAPS

(***************************************************************************)
(* The inductive invariant.  A retrieval in progress has a URI; one that   *)
(* stores has bytes to store; one that asks has been failed by each source *)
(* ahead of the one it asks; the cache is finite and within its limit.     *)
(***************************************************************************)
Busy == {"Lookup", "Ask", "Store", "Check", "Accepted", "Refused"}

HasUri == \A c \in Client : pc[c] \in Busy => uri[c] \in Uri

HasBytes == \A c \in Client : pc[c] = "Store" => answer[c] \in Bytes

FailedSoFar ==
  \A c \in Client :
    /\ pc[c] = "Lookup" => source[c] = 1 /\ failed[c] = {}
    /\ pc[c] = "Ask"    => failed[c] = 1 .. source[c] - 1

Bounded == IsFiniteSet(Held) /\ CapacityHolds

Progress == HasUri /\ HasBytes /\ FailedSoFar

IInv == TypeOK /\ Progress /\ Bounded /\ AcceptedIsLicensed /\ OnlyAllDownFails

\* with_capacity keeps room for one entry, whatever was asked (compose.rs 413).
LEMMA LimitIsPositive == Limit \in Nat \ {0}
  BY ChainAssumption DEF Limit

\* A chain that failed up to a source, and then at it.
LEMMA Intervals ==
  ASSUME NEW n \in Nat \ {0}
  PROVE  (1 .. n - 1) \cup {n} = 1 .. n /\ 1 .. (n + 1) - 1 = 1 .. n
<1>1. \A i \in Nat : i >= 1 /\ i <= n <=> (i >= 1 /\ i <= n - 1) \/ i = n
  OBVIOUS
<1>2. (n + 1) - 1 = n
  OBVIOUS
<1>3. (1 .. n - 1) \cup {n} = 1 .. n
  BY <1>1
<1> QED BY <1>2, <1>3

\* The invariant holds at the start.
LEMMA InitIInv == Init => IInv
<1> SUFFICES ASSUME Init PROVE IInv
  OBVIOUS
<1>1. TypeOK
  <2>1. 1 \in 1 .. Chain /\ 0 \in 0 .. MaxFetches
    BY ChainAssumption
  <2>2. poisoned \in BOOLEAN
    BY DEF Init
  <2> QED BY <2>1, <2>2 DEF Init, TypeOK
<1>2. Held = {}
  BY DEF Init, Held
<1>3. Bounded
  BY <1>2, FS_EmptySet, LimitIsPositive DEF Bounded, CapacityHolds
<1> QED BY <1>1, <1>3 DEF Init, IInv, Progress, HasUri, HasBytes, FailedSoFar, Busy,
                          AcceptedIsLicensed, OnlyAllDownFails

(***************************************************************************)
(* The answer of a source is bytes or an error.                            *)
(***************************************************************************)
LEMMA AnswerIsTyped ==
  ASSUME NEW s, NEW u, NEW a \in Answers(s, u)
  PROVE  a \in Bytes \cup FetchError
<1>1. \A r \in Response : Get(r) \in Bytes \cup FetchError
  BY DEF Response, Get, ReadCapped, FetchError
<1> QED BY <1>1 DEF Answers, FetchError

(***************************************************************************)
(* Storing keeps the cache within its limit: one entry leaves before a new *)
(* one comes into a full cache, whoever filled it in between.              *)
(***************************************************************************)
LEMMA StoreKeepsBounded ==
  ASSUME TypeOK, Progress, Bounded, NEW c \in Client, Store(c)
  PROVE  Bounded'
<1>1. uri[c] \in Uri /\ answer[c] \in Bytes /\ None \notin Bytes
  BY ChainAssumption DEF Progress, HasUri, HasBytes, Busy, Store
<1>2. CASE poisoned
  BY <1>2 DEF Store, Bounded, CapacityHolds, Held
<1>3. CASE ~poisoned
  <2>1. PICK victim \in IF EvictsFor(uri[c]) THEN Held ELSE {uri[c]} :
          entries' = [entries EXCEPT ![victim] = None, ![uri[c]] = answer[c]]
    BY <1>3 DEF Store
  <2>2. Held' = (Held \ {victim}) \cup {uri[c]}
    BY <1>1, <2>1 DEF Held, TypeOK
  <2>3. Cardinality(Held) \in Nat /\ Limit \in Nat
    BY FS_CardinalityType, LimitIsPositive DEF Bounded
  <2>4. IsFiniteSet(Held \ {victim})
        /\ Cardinality(Held \ {victim}) = IF victim \in Held THEN Cardinality(Held) - 1
                                                             ELSE Cardinality(Held)
    BY FS_RemoveElement DEF Bounded
  <2>5. IsFiniteSet(Held')
        /\ Cardinality(Held') = IF uri[c] \in Held \ {victim} THEN Cardinality(Held \ {victim})
                                                              ELSE Cardinality(Held \ {victim}) + 1
    BY <2>2, <2>4, FS_AddElement
  <2>6. CASE EvictsFor(uri[c])
    BY <2>1, <2>3, <2>4, <2>5, <2>6 DEF Bounded, CapacityHolds, Limit
  <2>7. CASE ~EvictsFor(uri[c]) /\ uri[c] \in Held
    BY <2>1, <2>3, <2>4, <2>5, <2>7 DEF Bounded, CapacityHolds, Limit
  <2>8. CASE ~EvictsFor(uri[c]) /\ uri[c] \notin Held
    <3>1. Cardinality(Held) < Limit
      BY <1>1, <2>3, <2>8 DEF EvictsFor, Held
    <3> QED BY <2>1, <2>3, <2>4, <2>5, <2>8, <3>1 DEF Bounded, CapacityHolds, Limit
  <2> QED BY <2>6, <2>7, <2>8
<1> QED BY <1>2, <1>3

(***************************************************************************)
(* Dropping entries keeps it within its limit.                             *)
(***************************************************************************)
LEMMA DroppingKeepsBounded ==
  ASSUME Bounded, Held' \subseteq Held
  PROVE  Bounded'
<1>1. IsFiniteSet(Held') /\ Cardinality(Held') <= Cardinality(Held)
  BY FS_Subset DEF Bounded
<1>2. Cardinality(Held) \in Nat /\ Cardinality(Held') \in Nat /\ Limit \in Nat
  BY <1>1, FS_CardinalityType, LimitIsPositive DEF Bounded
<1> QED BY <1>1, <1>2 DEF Bounded, CapacityHolds, Limit

(***************************************************************************)
(* Every step keeps the invariant.                                         *)
(***************************************************************************)
LEMMA NextKeepsIInv == IInv /\ [Next]_vars => IInv'
<1> SUFFICES ASSUME IInv, [Next]_vars PROVE IInv'
  OBVIOUS
<1> USE DEF IInv, GoTo, Answer
<1>1. ASSUME NEW c \in Client, NEW u \in Uri, Begin(c, u) PROVE IInv'
  <2> USE <1>1 DEF Begin
  <2>1. TypeOK'
    BY ChainAssumption DEF TypeOK
  <2>2. HasUri' /\ HasBytes' /\ AcceptedIsLicensed'
    BY ChainAssumption DEF TypeOK, Progress, HasUri, HasBytes, AcceptedIsLicensed, Busy
  <2>3. FailedSoFar' /\ OnlyAllDownFails'
    BY ChainAssumption DEF TypeOK, Progress, FailedSoFar, OnlyAllDownFails
  <2>4. Bounded'
    BY DEF Bounded, CapacityHolds, Held
  <2> QED BY <2>1, <2>2, <2>3, <2>4 DEF Progress
<1>2. ASSUME NEW c \in Client, Lookup(c) PROVE IInv'
  <2> USE <1>2 DEF Lookup, AfterHit
  <2>1. uri[c] \in Uri
    BY DEF Progress, HasUri, Busy
  <2>2. Bounded'
    BY DEF Bounded, CapacityHolds, Held
  <2>3. CASE ~poisoned /\ entries[uri[c]] # None
    <3>1. entries[uri[c]] \in Bytes
      BY <2>1, <2>3 DEF TypeOK
    <3>2. TypeOK'
      BY <2>3, <3>1 DEF TypeOK
    <3>3. HasUri' /\ HasBytes' /\ AcceptedIsLicensed'
      BY <2>3 DEF TypeOK, Progress, HasUri, HasBytes, Busy, AcceptedIsLicensed
    <3>4. FailedSoFar' /\ OnlyAllDownFails'
      BY <2>3 DEF TypeOK, Progress, FailedSoFar, OnlyAllDownFails
    <3> QED BY <2>2, <3>2, <3>3, <3>4 DEF Progress
  <2>4. CASE ~(~poisoned /\ entries[uri[c]] # None)
    <3>1. TypeOK'
      BY <2>4 DEF TypeOK
    <3>2. failed[c] = 1 .. source[c] - 1
      <4>1. source[c] = 1 /\ failed[c] = {}
        BY DEF Progress, FailedSoFar
      <4>2. 1 .. 1 - 1 = {}
        OBVIOUS
      <4> QED BY <4>1, <4>2
    <3> QED BY <2>2, <2>4, <3>1, <3>2
      DEF TypeOK, Progress, HasUri, HasBytes, FailedSoFar, Busy, AcceptedIsLicensed, OnlyAllDownFails
  <2> QED BY <2>3, <2>4
<1>3. ASSUME NEW c \in Client, Ask(c) PROVE IInv'
  <2>1. PICK a \in Answers(source[c], uri[c]) :
          /\ answer' = [answer EXCEPT ![c] = a]
          /\ IF a \notin FetchError
             THEN GoTo(c, "Store") /\ UNCHANGED <<source, failed>>
             ELSE /\ failed' = [failed EXCEPT ![c] = @ \cup {source[c]}]
                  /\ IF source[c] = Chain
                     THEN GoTo(c, "Failed") /\ UNCHANGED source
                     ELSE source' = [source EXCEPT ![c] = @ + 1] /\ UNCHANGED pc
    BY <1>3 DEF Ask, IsLast, NextSource
  <2>2. a \in Bytes \cup FetchError
    BY AnswerIsTyped
  <2>3. pc[c] = "Ask" /\ UNCHANGED <<entries, poisoned, uri, fetches>>
    BY <1>3 DEF Ask
  <2>4. source[c] \in 1 .. Chain /\ Chain \in Nat
    BY ChainAssumption DEF TypeOK
  <2>5. CASE a \notin FetchError
    BY <2>1, <2>2, <2>3, <2>5
    DEF TypeOK, Progress, HasUri, HasBytes, FailedSoFar, Busy, AcceptedIsLicensed,
        OnlyAllDownFails, Bounded, CapacityHolds, Held
  <2>6. CASE a \in FetchError /\ source[c] = Chain
    <3>1. failed'[c] = 1 .. Chain
      <4>1. failed[c] = 1 .. Chain - 1 /\ failed'[c] = failed[c] \cup {Chain}
        BY <2>1, <2>3, <2>6 DEF TypeOK, Progress, FailedSoFar
      <4> QED BY <4>1, Intervals, ChainAssumption
    <3>2. TypeOK'
      BY <2>1, <2>3, <2>6 DEF TypeOK
    <3> QED BY <2>1, <2>3, <2>6, <3>1, <3>2
      DEF TypeOK, Progress, HasUri, HasBytes, FailedSoFar, Busy, AcceptedIsLicensed,
          OnlyAllDownFails, Bounded, CapacityHolds, Held
  <2>7. CASE a \in FetchError /\ source[c] # Chain
    <3>1. failed'[c] = 1 .. source'[c] - 1
      <4>1. /\ failed[c] = 1 .. source[c] - 1 /\ failed'[c] = failed[c] \cup {source[c]}
            /\ source'[c] = source[c] + 1
        BY <2>1, <2>3, <2>7 DEF TypeOK, Progress, FailedSoFar
      <4>2. source[c] \in Nat \ {0}
        BY <2>4
      <4> QED BY <4>1, <4>2, Intervals
    <3>2. TypeOK'
      BY <2>1, <2>3, <2>4, <2>7 DEF TypeOK
    <3> QED BY <2>1, <2>3, <2>7, <3>1, <3>2
      DEF TypeOK, Progress, HasUri, HasBytes, FailedSoFar, Busy, AcceptedIsLicensed,
          OnlyAllDownFails, Bounded, CapacityHolds, Held
  <2> QED BY <2>5, <2>6, <2>7
<1>4. ASSUME NEW c \in Client, Store(c) PROVE IInv'
  <2> USE <1>4 DEF Store
  <2>0. uri[c] \in Uri /\ answer[c] \in Bytes
    BY DEF Progress, HasUri, HasBytes, Busy
  <2>1. TypeOK'
    BY ChainAssumption, <2>0 DEF TypeOK
  <2>2. HasUri' /\ HasBytes' /\ AcceptedIsLicensed'
    BY ChainAssumption, <2>0 DEF TypeOK, Progress, HasUri, HasBytes, AcceptedIsLicensed, Busy
  <2>3. FailedSoFar' /\ OnlyAllDownFails'
    BY ChainAssumption, <2>0 DEF TypeOK, Progress, FailedSoFar, OnlyAllDownFails
  <2>4. Bounded'
    BY StoreKeepsBounded
  <2> QED BY <2>1, <2>2, <2>3, <2>4 DEF Progress
<1>5. ASSUME NEW c \in Client, Check(c) PROVE IInv'
  <2> USE <1>5 DEF Check
  <2>1. TypeOK'
    BY ChainAssumption DEF TypeOK
  <2>2. HasUri' /\ HasBytes' /\ AcceptedIsLicensed'
    BY ChainAssumption DEF TypeOK, Progress, HasUri, HasBytes, AcceptedIsLicensed, Busy
  <2>3. FailedSoFar' /\ OnlyAllDownFails'
    BY ChainAssumption DEF TypeOK, Progress, FailedSoFar, OnlyAllDownFails
  <2>4. Bounded'
    BY DEF Bounded, CapacityHolds, Held
  <2> QED BY <2>1, <2>2, <2>3, <2>4 DEF Progress
<1>6. CASE Clear
  <2> USE <1>6 DEF Clear
  <2>1. TypeOK'
    BY ChainAssumption DEF TypeOK
  <2>2. HasUri' /\ HasBytes' /\ AcceptedIsLicensed'
    BY ChainAssumption DEF TypeOK, Progress, HasUri, HasBytes, AcceptedIsLicensed, Busy
  <2>3. FailedSoFar' /\ OnlyAllDownFails'
    BY ChainAssumption DEF TypeOK, Progress, FailedSoFar, OnlyAllDownFails
  <2>4. Bounded'
    BY DroppingKeepsBounded DEF Held, TypeOK
  <2> QED BY <2>1, <2>2, <2>3, <2>4 DEF Progress
<1>7. ASSUME NEW c \in Client, Panic(c) PROVE IInv'
  <2> USE <1>7 DEF Panic
  <2>1. TypeOK'
    BY ChainAssumption DEF TypeOK
  <2>2. HasUri' /\ HasBytes' /\ AcceptedIsLicensed'
    BY ChainAssumption DEF TypeOK, Progress, HasUri, HasBytes, AcceptedIsLicensed, Busy
  <2>3. FailedSoFar' /\ OnlyAllDownFails'
    BY ChainAssumption DEF TypeOK, Progress, FailedSoFar, OnlyAllDownFails
  <2>4. Bounded'
    BY DroppingKeepsBounded DEF Held, TypeOK
  <2> QED BY <2>1, <2>2, <2>3, <2>4 DEF Progress
<1>8. CASE UNCHANGED vars
  BY <1>8 DEF vars, TypeOK, Progress, HasUri, HasBytes, FailedSoFar, Bounded, CapacityHolds, Held,
              AcceptedIsLicensed, OnlyAllDownFails
<1> QED
  BY <1>1, <1>2, <1>3, <1>4, <1>5, <1>6, <1>7, <1>8 DEF Next, Fetch

\* The invariant holds in every reachable state.
LEMMA Invariance == Spec => []IInv
  BY InitIInv, NextKeepsIInv, PTL DEF Spec

(***************************************************************************)
(* Type correctness.                                                       *)
(***************************************************************************)
THEOREM TypeCorrect == Spec => []TypeOK
<1>1. IInv => TypeOK
  BY DEF IInv
<1> QED BY Invariance, <1>1, PTL

(***************************************************************************)
(* Only the licensed document is accepted, from a source or from the cache.*)
(***************************************************************************)
THEOREM AcceptsLicensed == Spec => []AcceptedIsLicensed
<1>1. IInv => AcceptedIsLicensed
  BY DEF IInv
<1> QED BY Invariance, <1>1, PTL

(***************************************************************************)
(* The cache stays within its capacity under any number of clients.        *)
(***************************************************************************)
THEOREM WithinCapacity == Spec => []CapacityHolds
<1>1. IInv => CapacityHolds
  BY DEF IInv, Bounded
<1> QED BY Invariance, <1>1, PTL

-----------------------------------------------------------------------------
(***************************************************************************)
(* Where bytes come from.  What the cache holds for a URI, and what a call *)
(* has in hand, is the licensed document unless a source that may mislead  *)
(* takes that URI: nothing is held for another URI than the one it was     *)
(* fetched for, and what an honest source answers is the document whole.   *)
(***************************************************************************)
Traced(u, bytes) == bytes = Licensed[u] \/ MayBeMisled(u)

Provenance ==
  /\ \A u \in Uri : entries[u] # None => Traced(u, entries[u])
  /\ \A c \in Client : pc[c] \in {"Store", "Check"} => Traced(uri[c], answer[c])
  /\ RefusedWasMisled

\* An honest source answers with the licensed document or an error.
LEMMA HonestAnswers ==
  ASSUME NEW s \in Honest, NEW u, NEW a \in Answers(s, u), a \notin FetchError
  PROVE  a = Licensed[u]
<1>1. PICK r \in Response : a = Get(r) /\ (r # None => r.body = Licensed[u])
  BY DEF Answers, FetchError
<1> QED BY <1>1 DEF Get, ReadCapped, FetchError

\* So any source of the chain answers what can be traced.
LEMMA AnswersAreTraced ==
  ASSUME NEW s \in 1 .. Chain, NEW u, NEW a \in Answers(s, u), a \notin FetchError
  PROVE  Traced(u, a)
<1>1. CASE s \in Honest
  BY <1>1, HonestAnswers DEF Traced
<1>2. CASE s \notin Honest
  <2>1. u \in Supports[s]
    BY DEF Answers, FetchError
  <2> QED BY <1>2, <2>1 DEF Traced, MayBeMisled
<1> QED BY <1>1, <1>2

\* Every step keeps track of it.
LEMMA NextKeepsProvenance == IInv /\ Provenance /\ [Next]_vars => Provenance'
<1> SUFFICES ASSUME IInv, Provenance, [Next]_vars PROVE Provenance'
  OBVIOUS
<1> USE DEF IInv, TypeOK, GoTo, Answer
<1>1. ASSUME NEW c \in Client, NEW u \in Uri, Begin(c, u) PROVE Provenance'
  BY <1>1 DEF Begin, Provenance, RefusedWasMisled, Traced, MayBeMisled
<1>2. ASSUME NEW c \in Client, Lookup(c) PROVE Provenance'
  <2>1. pc[c] = "Lookup" /\ uri[c] \in Uri /\ UNCHANGED <<entries, uri>>
    BY <1>2 DEF Lookup, Progress, HasUri, Busy
  <2>2. CASE ~poisoned /\ entries[uri[c]] # None
    BY <1>2, <2>1, <2>2 DEF Lookup, AfterHit, Provenance, RefusedWasMisled, Traced, MayBeMisled
  <2>3. CASE ~(~poisoned /\ entries[uri[c]] # None)
    BY <1>2, <2>1, <2>3 DEF Lookup, Provenance, RefusedWasMisled, Traced, MayBeMisled
  <2> QED BY <2>2, <2>3
<1>3. ASSUME NEW c \in Client, Ask(c) PROVE Provenance'
  <2>1. PICK a \in Answers(source[c], uri[c]) :
          /\ answer' = [answer EXCEPT ![c] = a]
          /\ \/ a \notin FetchError /\ pc' = [pc EXCEPT ![c] = "Store"]
             \/ pc' = [pc EXCEPT ![c] = "Failed"]
             \/ pc' = pc
    BY <1>3 DEF Ask
  <2>2. pc[c] = "Ask" /\ UNCHANGED <<entries, uri>>
    BY <1>3 DEF Ask
  <2>3. a \notin FetchError => Traced(uri[c], a)
    BY AnswersAreTraced
  <2> QED BY <2>1, <2>2, <2>3 DEF Provenance, RefusedWasMisled, Traced, MayBeMisled
<1>4. ASSUME NEW c \in Client, Store(c) PROVE Provenance'
  <2>1. pc[c] = "Store" /\ pc' = [pc EXCEPT ![c] = "Check"] /\ UNCHANGED <<uri, answer>>
    BY <1>4 DEF Store
  <2>2. uri[c] \in Uri /\ Traced(uri[c], answer[c])
    BY <2>1 DEF Progress, HasUri, Busy, Provenance
  <2>3. \A u \in Uri : entries'[u] # None => Traced(u, entries'[u])
    <3>1. \A u \in Uri : entries'[u] \in {entries[u], None} \/ (u = uri[c] /\ entries'[u] = answer[c])
      BY <1>4, <2>2 DEF Store
    <3> QED BY <2>2, <3>1 DEF Provenance
  <2> QED BY <2>1, <2>2, <2>3 DEF Provenance, RefusedWasMisled, Traced, MayBeMisled
<1>5. ASSUME NEW c \in Client, Check(c) PROVE Provenance'
  <2>1. pc[c] = "Check" /\ Traced(uri[c], answer[c]) /\ UNCHANGED <<entries, uri, answer>>
    BY <1>5 DEF Check, Provenance
  <2>2. \/ pc' = [pc EXCEPT ![c] = "Accepted"]
        \/ pc' = [pc EXCEPT ![c] = "Refused"] /\ answer[c] # Licensed[uri[c]]
    BY <1>5 DEF Check
  <2> QED BY <2>1, <2>2 DEF Provenance, RefusedWasMisled, Traced, MayBeMisled
<1>6. CASE Clear
  BY <1>6 DEF Clear, Provenance, RefusedWasMisled, Traced, MayBeMisled
<1>7. ASSUME NEW c \in Client, Panic(c) PROVE Provenance'
  <2>1. /\ pc' = [pc EXCEPT ![c] = "Panicked"] /\ UNCHANGED <<uri, answer>>
        /\ \A u \in Uri : entries'[u] \in {entries[u], None}
    BY <1>7 DEF Panic
  <2> QED BY <2>1 DEF Provenance, RefusedWasMisled, Traced, MayBeMisled
<1>8. CASE UNCHANGED vars
  BY <1>8 DEF vars, Provenance, RefusedWasMisled, Traced, MayBeMisled
<1> QED
  BY <1>1, <1>2, <1>3, <1>4, <1>5, <1>6, <1>7, <1>8 DEF Next, Fetch

LEMMA ProvenanceInvariance == Spec => []Provenance
<1>1. Init => Provenance
  BY DEF Init, Provenance, RefusedWasMisled
<1> QED BY <1>1, Invariance, NextKeepsProvenance, PTL DEF Spec

(***************************************************************************)
(* A retrieval fails only when every source of the chain failed in it, and *)
(* a refusal has a source behind it that may serve other documents: with   *)
(* honest sources alone nothing is ever refused, however clients share the *)
(* cache (compose.rs 378-386, 475-489).                                    *)
(***************************************************************************)
THEOREM BlameIsTheSources == Spec => []SourcesAreToBlame
<1>1. IInv /\ Provenance => SourcesAreToBlame
  BY DEF IInv, Provenance, SourcesAreToBlame
<1> QED BY Invariance, ProvenanceInvariance, <1>1, PTL
=============================================================================
