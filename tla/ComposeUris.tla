---------------------------- MODULE ComposeUris ----------------------------
(***************************************************************************)
(* ComposeUri, ComposeUrl and Cid (compose.rs): which texts of a manifest  *)
(* name a document this crate would retrieve, and how such a name is       *)
(* printed.  A text is its padding, its scheme and what follows.           *)
(***************************************************************************)
CONSTANT None

Text == [lead : BOOLEAN, trail : BOOLEAN,            \* whitespace around it
         scheme : {"ipfs", "http", "https", "Other", "Missing"},
         rest : {"Empty", "Safe", "Unsafe"}]         \* bytes of [A-Za-z0-9_-], or not

VARIABLES
  text,  \* what the manifest, or whoever else has a name, holds
  uri,   \* the ComposeUri made of it
  made   \* by which constructor

vars == <<text, uri, made>>

Ok(kind, t)  == [kind |-> kind, of |-> t]
Refused(why) == [kind |-> "Refused", of |-> why]

-----------------------------------------------------------------------------
CidParse(t) ==
  CASE t.rest = "Empty"  -> Refused("EmptyCid")
    [] t.rest = "Unsafe" -> Refused("InvalidCid")
    [] t.rest = "Safe"   -> Ok("Ipfs", t)

\* ComposeUrl::parse: the text begins with http:// or https://.
UrlParse(t) ==
  IF t.scheme \in {"http", "https"} /\ ~t.lead THEN Ok("Http", t)
  ELSE IF t.scheme = "Missing" THEN Refused("NoScheme")
  ELSE Refused("UnsupportedScheme")

\* Mutant: only the whitespace before the text is taken off.
Trim_Start(t) == [t EXCEPT !.lead = FALSE]

Trim(t) == [t EXCEPT !.lead = FALSE, !.trail = FALSE]

\* ComposeUri::parse.
Parse(t) == IF t.scheme = "ipfs" THEN CidParse(Trim(t)) ELSE UrlParse(Trim(t))

\* Display: ipfs:// and the CID; a URL as it was given.
Printed(u) == u.of

-----------------------------------------------------------------------------
Init == text \in Text /\ uri = None /\ made = "Nothing"

Make(answer, constructor) ==
  /\ answer.kind # "Refused"
  /\ uri' = answer /\ made' = constructor
  /\ UNCHANGED text

ReadManifest == Make(Parse(text), "ComposeUri")

WrapUrl == Make(UrlParse(text), "ComposeUrl")

Write == uri # None /\ text' = Printed(uri) /\ UNCHANGED <<uri, made>>

\* A manifest may hold the same name with whitespace around it.
Pad ==
  /\ text' \in {[text EXCEPT !.lead = TRUE], [text EXCEPT !.trail = TRUE]}
  /\ UNCHANGED <<uri, made>>

Next == ReadManifest \/ WrapUrl \/ Write \/ Pad

Spec == Init /\ [][Next]_vars

-----------------------------------------------------------------------------
(***************************************************************************)
(* Properties.                                                             *)
(***************************************************************************)

(***************************************************************************)
(* Whichever constructor made it, a name is an http or https URL, or a CID *)
(* that cannot change the URL it is put into (compose.rs 40-55, 111-125).  *)
(***************************************************************************)
OnlyRetrievable ==
  uri # None =>
    \/ uri.kind = "Http" /\ uri.of.scheme \in {"http", "https"} /\ ~uri.of.lead
    \/ uri.kind = "Ipfs" /\ uri.of.scheme = "ipfs" /\ uri.of.rest = "Safe"

(***************************************************************************)
(* Whitespace in a manifest changes neither the name, which is the key of  *)
(* the cache, nor what a refusal says (compose.rs 219-229).                *)
(***************************************************************************)
PaddingIsNothing == Pad => Parse(text') = Parse(text)

(***************************************************************************)
(* The name of a document, printed and put in a manifest again, names the  *)
(* same document: the verdicts and errors that quote it can be followed.   *)
(***************************************************************************)
RoundTrips == Write /\ made = "ComposeUri" => Parse(text') = uri

(***************************************************************************)
(* A name that is made can be retrieved and followed, and stays the key of *)
(* the same document however it is written (compose.rs 40-55, 219-229).    *)
(***************************************************************************)
NamesAreSound == [][OnlyRetrievable' /\ PaddingIsNothing /\ RoundTrips]_vars
=============================================================================
