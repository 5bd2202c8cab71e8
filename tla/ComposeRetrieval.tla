-------------------------- MODULE ComposeRetrieval --------------------------
(***************************************************************************)
(* Retrieval of a compose document (compose.rs, compose/http.rs): a Cached *)
(* over a Fallback chain, shared by several clients, each of which hashes  *)
(* what it was given against the licensed hash (VerifiedCompose::check).   *)
(*                                                                         *)
(* The cache is locked to look up and locked again to store; the source is *)
(* asked in between, with the lock released.  Sources answer as they like. *)
(***************************************************************************)
EXTENDS Naturals, FiniteSets

CONSTANTS
  Client,       \* threads that retrieve through one cache
  Uri,          \* what a manifest may name
  Bytes,        \* documents
  Licensed,     \* Licensed[u]: the document whose hash is licensed for u
  Chain,        \* how many sources the Fallback holds
  Supports,     \* Supports[s]: the kinds of URI source s retrieves
  Honest,       \* sources that serve nothing but the licensed document
  Capacity,     \* the capacity asked of Cached::with_capacity
  MaxFetches,   \* bound on the retrievals of one client
  None

ASSUME ChainAssumption ==
  /\ Chain \in Nat \ {0}
  /\ Supports \in [1 .. Chain -> SUBSET Uri]
  /\ Honest \subseteq 1 .. Chain
  /\ Licensed \in [Uri -> Bytes]
  /\ Capacity \in Nat /\ MaxFetches \in Nat
  /\ None \notin Bytes /\ None \notin Uri

VARIABLES
  entries,   \* Cached.entries: what is held for a URI, None when nothing is
  poisoned,  \* a thread panicked while it held the lock
  pc, uri, source, answer, failed, fetches   \* per client

vars == <<entries, poisoned, pc, uri, source, answer, failed, fetches>>

FetchError == {"Transport", "Status", "TooLarge", "Unsupported"}

TypeOK ==
  /\ entries \in [Uri -> Bytes \cup {None}]
  /\ poisoned \in BOOLEAN
  /\ pc \in [Client -> {"Idle", "Lookup", "Ask", "Store", "Check", "Accepted", "Refused",
                        "Failed", "Panicked"}]
  /\ uri \in [Client -> Uri \cup {None}]
  /\ source \in [Client -> 1 .. Chain]
  /\ answer \in [Client -> Bytes \cup FetchError \cup {None}]
  /\ failed \in [Client -> SUBSET (1 .. Chain)]
  /\ fetches \in [Client -> 0 .. MaxFetches]

Init ==
  /\ entries = [u \in Uri |-> None]
  /\ poisoned = FALSE
  /\ pc = [c \in Client |-> "Idle"]
  /\ uri = [c \in Client |-> None]
  /\ source = [c \in Client |-> 1]
  /\ answer = [c \in Client |-> None]
  /\ failed = [c \in Client |-> {}]
  /\ fetches = [c \in Client |-> 0]

-----------------------------------------------------------------------------
(***************************************************************************)
(* What a source answers.  Gateway, KuboRpc and HttpUrl each take one kind *)
(* of URI.  A redirect is not followed and its body is returned; an error  *)
(* status is an error; a body is read to one byte past the limit.          *)
(***************************************************************************)
Response == [status : {"Success", "Redirect", "Error"}, body : Bytes, over : BOOLEAN]
              \cup {None}

\* Mutant: a body past the limit is cut off where the limit is.
ReadCapped_Truncates(r) == IF r.over THEN "Truncated" ELSE r.body

ReadCapped(r) == IF r.over THEN "TooLarge" ELSE r.body

Get(r) ==
  IF r = None                   THEN "Transport"
  ELSE IF r.status = "Error"    THEN "Status"
  ELSE ReadCapped(r)

Answers(s, u) ==
  IF u \notin Supports[s] THEN {"Unsupported"}
  ELSE {Get(r) : r \in {r \in Response :
          s \in Honest /\ r # None => r.status # "Redirect" /\ r.body = Licensed[u]}}

-----------------------------------------------------------------------------
GoTo(c, step) == pc' = [pc EXCEPT ![c] = step]

Answer(c, a) == answer' = [answer EXCEPT ![c] = a]

Begin(c, u) ==
  /\ pc[c] \in {"Idle", "Accepted", "Refused", "Failed"}
  /\ fetches[c] < MaxFetches
  /\ fetches' = [fetches EXCEPT ![c] = @ + 1]
  /\ uri' = [uri EXCEPT ![c] = u]
  /\ source' = [source EXCEPT ![c] = 1]
  /\ Answer(c, None)
  /\ failed' = [failed EXCEPT ![c] = {}]
  /\ GoTo(c, "Lookup")
  /\ UNCHANGED <<entries, poisoned>>

\* Mutant: a hit was hashed when it was stored, so it is not hashed again.
AfterHit_Trusted == "Accepted"

AfterHit == "Check"

\* Cached::fetch up to the call of the source; a poisoned lock is a miss.
Lookup(c) ==
  /\ pc[c] = "Lookup"
  /\ IF ~poisoned /\ entries[uri[c]] # None
     THEN Answer(c, entries[uri[c]]) /\ GoTo(c, AfterHit)
     ELSE GoTo(c, "Ask") /\ UNCHANGED answer
  /\ UNCHANGED <<entries, poisoned, uri, source, failed, fetches>>

\* Mutants: the chain ends with its first source; it is asked again and again.
IsLast_First(s) == TRUE
NextSource_Same(s) == s

IsLast(s) == s = Chain
NextSource(s) == s + 1

\* Fallback::fetch: the first success wins, any error falls through.
Ask(c) ==
  /\ pc[c] = "Ask"
  /\ \E a \in Answers(source[c], uri[c]) :
       /\ Answer(c, a)
       /\ IF a \notin FetchError
          THEN GoTo(c, "Store") /\ UNCHANGED <<source, failed>>
          ELSE /\ failed' = [failed EXCEPT ![c] = @ \cup {source[c]}]
               /\ IF IsLast(source[c])
                  THEN GoTo(c, "Failed") /\ UNCHANGED source
                  ELSE source' = [source EXCEPT ![c] = NextSource(@)] /\ UNCHANGED pc
  /\ UNCHANGED <<entries, poisoned, uri, fetches>>

\* Mutant: whether there is room was decided before the source was asked.
EvictsFor_Never(u) == FALSE

Held == {u \in Uri : entries[u] # None}

\* with_capacity raises a capacity of 0 to 1.
Limit == IF Capacity = 0 THEN 1 ELSE Capacity

EvictsFor(u) == Cardinality(Held) >= Limit /\ entries[u] = None

\* Cached::fetch from the source's answer on, under the lock; a HashMap has no
\* order, so any entry may be the one dropped.
Store(c) ==
  /\ pc[c] = "Store"
  /\ IF poisoned THEN UNCHANGED entries
     ELSE \E victim \in IF EvictsFor(uri[c]) THEN Held ELSE {uri[c]} :
            entries' = [entries EXCEPT ![victim] = None, ![uri[c]] = answer[c]]
  /\ GoTo(c, "Check")
  /\ UNCHANGED <<poisoned, uri, source, answer, failed, fetches>>

\* VerifiedCompose::check, on every call.
Check(c) ==
  /\ pc[c] = "Check"
  /\ GoTo(c, IF answer[c] = Licensed[uri[c]] THEN "Accepted" ELSE "Refused")
  /\ UNCHANGED <<entries, poisoned, uri, source, answer, failed, fetches>>

\* Cached::clear, by anybody at any time.
Clear ==
  /\ ~poisoned /\ Held # {}
  /\ entries' = [u \in Uri |-> None]
  /\ UNCHANGED <<poisoned, pc, uri, source, answer, failed, fetches>>

\* A thread panics while it holds the lock to store, with or without a victim
\* dropped by then.
Panic(c) ==
  /\ pc[c] = "Store" /\ ~poisoned
  /\ poisoned' = TRUE
  /\ \/ UNCHANGED entries
     \/ /\ EvictsFor(uri[c])
        /\ \E victim \in Held : entries' = [entries EXCEPT ![victim] = None]
  /\ GoTo(c, "Panicked")
  /\ UNCHANGED <<uri, source, answer, failed, fetches>>

Fetch(c) == Lookup(c) \/ Ask(c) \/ Store(c) \/ Check(c)

Next ==
  \/ \E c \in Client : Fetch(c) \/ Panic(c) \/ \E u \in Uri : Begin(c, u)
  \/ Clear

\* Every source has a total timeout, so a retrieval that is running goes on.
Spec == Init /\ [][Next]_vars /\ \A c \in Client : WF_vars(Fetch(c))

-----------------------------------------------------------------------------
(***************************************************************************)
(* Properties.                                                             *)
(***************************************************************************)

(***************************************************************************)
(* A document is accepted only if it is the licensed one for the URI that  *)
(* was asked, whoever served it, and whether it came from a source or from *)
(* an entry another thread stored ("Why caching cannot cause a wrong       *)
(* answer", compose.rs 378-386).                                           *)
(***************************************************************************)
AcceptedIsLicensed ==
  \A c \in Client : pc[c] = "Accepted" => answer[c] = Licensed[uri[c]]

(***************************************************************************)
(* The cache never holds more than its capacity, however many threads were *)
(* asking sources when it filled up (compose.rs 404-416, 456-463).         *)
(***************************************************************************)
CapacityHolds == Cardinality(Held) <= Limit

(***************************************************************************)
(* Who is to blame when there is no document.  A retrieval fails only when *)
(* every source failed in this very call ("Only all-down surfaces as a     *)
(* failure", compose.rs 484-489).  And a refusal, which is the worst that a*)
(* cache can cause (compose.rs 380-384), has a source behind it that takes *)
(* this kind of URI and may serve other documents, in this call or in one  *)
(* before: no honest chain is refused, whatever it was asked at once and   *)
(* whatever was dropped, cleared or left behind by a panic.                *)
(***************************************************************************)
OnlyAllDownFails == \A c \in Client : pc[c] = "Failed" => failed[c] = 1 .. Chain

MayBeMisled(u) == \E s \in (1 .. Chain) \ Honest : u \in Supports[s]

RefusedWasMisled == \A c \in Client : pc[c] = "Refused" => MayBeMisled(uri[c])

SourcesAreToBlame == OnlyAllDownFails /\ RefusedWasMisled

(***************************************************************************)
(* Every retrieval ends, also after another thread panicked with the lock. *)
(***************************************************************************)
FetchReturns ==
  \A c \in Client :
    pc[c] = "Lookup" ~> pc[c] \in {"Accepted", "Refused", "Failed", "Panicked"}

(***************************************************************************)
(* What compose.rs:480-482 says: a hostile or misconfigured entry can only *)
(* make fetch slower, or cause a refusal if every entry is bad.  The first *)
(* success wins whatever its bytes, so one bad entry ahead of an honest one*)
(* causes a refusal: the honest one is never asked.                        *)
(***************************************************************************)
RefusedOnlyIfEveryEntryIsBad ==
  \A c \in Client :
    pc[c] = "Refused" => \A s \in Honest : uri[c] \notin Supports[s]
=============================================================================
