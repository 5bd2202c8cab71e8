------------------------------ MODULE Bindings ------------------------------
(***************************************************************************)
(* The WebAssembly and Node bindings (verity-verifier-wasm/src/lib.rs).    *)
(*                                                                         *)
(* A JavaScript agent holds a document, a quote, the licensed hash as text *)
(* and perhaps the leaf of its own TLS layer.  It asks verifyComposeOnly,  *)
(* and a Rust agent asks verify about the same evidence, with a statement  *)
(* of Intel's, a clock and perhaps a boot reference.  Each may ask at any  *)
(* time, and the JavaScript agent may come back with a leaf, or another.   *)
(***************************************************************************)
EXTENDS Verify

CONSTANTS
  Quotes, Documents, Collaterals, References,  \* what the agents may hold
  Hashes,    \* what may be named as licensed, NotAHash among them
  NotAHash,  \* text that ComposeHash::parse_hex refuses
  Image,     \* the licensed image digest
  NoLeaf     \* leafCertDer is omitted

ASSUME BindingsAssumption ==
  /\ Quotes \subseteq Quote /\ Documents \subseteq Document /\ Collaterals \subseteq Collateral
  /\ References \subseteq BootReference
  /\ Hashes \subseteq ComposeHash \cup {NotAHash} /\ NotAHash \notin ComposeHash
  /\ Image \in ImageDigest
  /\ NoLeaf \notin Key \cup {Unreadable} /\ NotConnected # Unreadable

VARIABLES
  document, quote, hash,  \* the arguments that do not change
  leaf,                   \* leafCertDer
  js,                     \* the verdict of verifyComposeOnly, empty when it was not asked
  rust                    \* the verdict of verify on the same evidence, likewise

vars == <<document, quote, hash, leaf, js, rust>>

Leaf == Key \cup {Unreadable, NoLeaf}

TypeOK ==
  /\ document \in Document /\ quote \in Quote
  /\ hash \in ComposeHash \cup {NotAHash}
  /\ leaf \in Leaf
  /\ js \in Seq(Result) /\ rust \in Seq(Result)

Init ==
  /\ document \in Documents /\ quote \in Quotes /\ hash \in Hashes
  /\ leaf \in Leaf
  /\ js = <<>> /\ rust = <<>>

-----------------------------------------------------------------------------
(***************************************************************************)
(* compose_only_verdict.  Text that is not a hash ends it at once.  What   *)
(* needs collateral is recorded as skipped.                                *)
(***************************************************************************)
ContentOutcome(c, d) ==
  IF c = "ImagesPinned" THEN Judge(d.pinned) ELSE Judge(d.pinned /\ Image \in d.digests)

\* Mutant: the version that cannot be judged is a failure here.
ConfigOutcome_NoSplit(q, licensed) ==
  IF q.parses THEN Judge(CheckMrConfigId(q, licensed) = "Passed") ELSE "Failed"

ConfigOutcome(q, licensed) ==
  IF q.parses THEN CheckMrConfigId(q, licensed) ELSE "Failed"

\* Mutant: the leaf is dropped on its way from JavaScript.
BindingOutcome_LeafDropped(q, l) == IF q.parses THEN "Skipped" ELSE "Failed"

BindingOutcome(q, l) ==
  IF ~q.parses       THEN "Failed"
  ELSE IF l = NoLeaf THEN "Skipped"
  ELSE Judge(ChannelBinding(l, q))

ContentsExamined(d, licensed) == d.hash = licensed

ContentsOf(c, d, licensed) ==
  IF ContentsExamined(d, licensed) THEN ContentOutcome(c, d) ELSE "Skipped"

\* Mutant: the checks that need collateral are left for somebody else.
NeedsCollateral_Assumed == "Passed"

NeedsCollateral == "Skipped"

ComposeOnlyOutcome(c, d, q, licensed, l) ==
  CASE c = "ComposeHash"  -> Judge(d.hash = licensed)
    [] c \in {"ImagesPinned", "LicensedImagePresent"} -> ContentsOf(c, d, licensed)
    [] c = "MrConfigId"   -> ConfigOutcome(q, licensed)
    [] c = "ChannelBound" -> BindingOutcome(q, l)
    [] c \in {"QuoteSignature", "TcbStatus"} -> NeedsCollateral

ComposeOnlyVerdict(d, q, licensed, l) ==
  LET Checked(c) == [check |-> c, outcome |-> ComposeOnlyOutcome(c, d, q, licensed, l)]
  IN  IF licensed = NotAHash
      THEN Record(<<>>, "ComposeHash", "Failed")
      ELSE <<Checked("ComposeHash"), Checked("ImagesPinned"), Checked("LicensedImagePresent"),
             Checked("MrConfigId"), Checked("ChannelBound"),
             Checked("QuoteSignature"), Checked("TcbStatus")>>

(***************************************************************************)
(* The functions that answer one question each: TRUE stands for null.      *)
(***************************************************************************)
CheckImages(d) == d.pinned /\ Image \in d.digests

CheckMrConfigIdText(q, licensed) ==
  licensed # NotAHash /\ q.parses /\ CheckMrConfigId(q, licensed) = "Passed"

CheckChannelBinding(q, l) == q.parses /\ ChannelBinding(l, q)

(***************************************************************************)
(* What crosses the boundary of each entry of a verdict (to_js).           *)
(***************************************************************************)
\* Mutant: anything that is not a pass is a failure.
JsOutcome_TwoWay(o) == IF o = "Passed" THEN "passed" ELSE "failed"

JsOutcome(o) ==
  CASE o = "Passed"  -> "passed"
    [] o = "Failed"  -> "failed"
    [] o = "Skipped" -> "skipped"
    [] o \in Unestablished -> "indeterminate"

ToJs(result) ==
  [check |-> result.check, outcome |-> JsOutcome(result.outcome),
   disposition |-> Disposition(result.check, result.outcome)]

-----------------------------------------------------------------------------
VerifyComposeOnly ==
  /\ js = <<>>
  /\ js' = ComposeOnlyVerdict(document, quote, hash, leaf)
  /\ UNCHANGED <<document, quote, hash, leaf, rust>>

\* The evidence as the Rust API takes it: typed, so there is a hash to name.
PeerOf(l) == IF l = NoLeaf THEN NotConnected ELSE l

VerifyWithCollateral ==
  /\ rust = <<>> /\ hash # NotAHash
  /\ \E col \in Collaterals, now \in Time, ref \in References \cup {NoReference} :
       rust' = VerifyEvidence([compose |-> hash, image |-> Image],
                              [quote |-> quote, document |-> document, collateral |-> col,
                               now |-> now, peer |-> PeerOf(leaf)], ref)
  /\ UNCHANGED <<document, quote, hash, leaf, js>>

\* The agents look at another connection, and ask again.
Reconnect ==
  /\ leaf' \in Leaf \ {leaf}
  /\ js' = <<>> /\ rust' = <<>>
  /\ UNCHANGED <<document, quote, hash>>

Next == VerifyComposeOnly \/ VerifyWithCollateral \/ Reconnect

Spec == Init /\ [][Next]_vars

-----------------------------------------------------------------------------
(***************************************************************************)
(* Properties.                                                             *)
(***************************************************************************)
CheckableHere == Essential \ {"QuoteSignature", "TcbStatus"}

(***************************************************************************)
(* One implementation, three ways to reach it (lib.rs 3-6): on the same    *)
(* evidence the bindings and the core answer alike on every check that the *)
(* bindings can make, whatever statement and clock the core had.           *)
(***************************************************************************)
AgreesWithCore ==
  js # <<>> /\ rust # <<>> =>
    \A c \in CheckableHere : OutcomeOf(js, c) = OutcomeOf(rust, c)

(***************************************************************************)
(* The verdict of the bindings is never trustworthy (lib.rs 391-397).      *)
(***************************************************************************)
NeverTrustworthy == ~IsTrustworthy(js)

(***************************************************************************)
(* What is left to the Rust API is Intel's word and nothing else: only the *)
(* two checks that need it are missing exactly when the document is the    *)
(* licensed one and the quote, were it genuine, would attest its hash and  *)
(* the leaf the agent holds (lib.rs 385-397).                              *)
(***************************************************************************)
OnlyIntelIsMissing ==
  js # <<>> =>
    LET licensed == [compose |-> hash, image |-> Image]
    IN  MissingEssentials(js) = {"QuoteSignature", "TcbStatus"}
          <=> /\ hash # NotAHash
              /\ LicensedDocument(licensed, document)
              /\ AttestsKey([quote EXCEPT !.genuine = TRUE], licensed, leaf)

(***************************************************************************)
(* A null of the functions that answer one question is a pass of the same  *)
(* check of the verdict, and the other way about: an agent that puts the   *)
(* answers together itself reaches the same verdict (lib.rs 136-201).      *)
(***************************************************************************)
SinglesAgree ==
  js # <<>> /\ hash # NotAHash =>
    /\ OutcomeOf(js, "LicensedImagePresent") = "Passed"
         <=> document.hash = hash /\ CheckImages(document)
    /\ OutcomeOf(js, "MrConfigId") = "Passed" <=> CheckMrConfigIdText(quote, hash)
    /\ OutcomeOf(js, "ChannelBound") = "Passed"
         <=> leaf # NoLeaf /\ CheckChannelBinding(quote, leaf)

(***************************************************************************)
(* Nothing a caller branches on is lost on the way to JavaScript: the name *)
(* of the outcome and its disposition give the outcome back, its cause     *)
(* included (lib.rs 64-71).                                                *)
(***************************************************************************)
NothingIsLost ==
  \A i \in DOMAIN rust : \A o \in Outcome :
    ToJs([rust[i] EXCEPT !.outcome = o]) = ToJs(rust[i]) => o = rust[i].outcome
=============================================================================
