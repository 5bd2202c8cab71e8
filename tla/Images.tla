------------------------------- MODULE Images -------------------------------
(***************************************************************************)
(* pinned_images and check_references_licensed_digest (images.rs): the scan*)
(* of a compose document's services, one service a step.  Verify knows a   *)
(* document by what this scan finds.                                       *)
(***************************************************************************)
EXTENDS Verify, Sequences, SequencesExt

CONSTANTS
  MaxServices,  \* bound on the services of a document
  Unnamed,      \* a service with no image, one that is built
  Hash          \* the document's hash, which the licence names here

\* What a document is, up to its services.
Shape == {"NotJson", "MissingComposeFile", "NotYaml", "NoServices", "Services"}

\* A reference is repo@algorithm:hex, or has no "@".
Reference == [at : BOOLEAN, sha256 : BOOLEAN, whole : BOOLEAN, digest : ImageDigest]

VARIABLES
  shape, services, licensed,  \* the document, and the licence
  next,                       \* the service the scan has come to
  found,                      \* digests of the images found
  pc,
  outcome

vars == <<shape, services, licensed, next, found, pc, outcome>>

-----------------------------------------------------------------------------
\* classify: the reference is pinned.
Classify(reference) == reference.at /\ reference.sha256 /\ reference.whole

End(o) == pc' = "Done" /\ outcome' = o /\ UNCHANGED <<next, found>>

NothingToCheck == shape = "Services" /\ services = <<>>

ReadDocument ==
  /\ pc = "Read"
  /\ IF shape # "Services" THEN End(shape)
     ELSE IF NothingToCheck THEN End("NoServices")
     ELSE pc' = "Scan" /\ UNCHANGED <<next, found, outcome>>
  /\ UNCHANGED <<shape, services, licensed>>

\* Mutant: a service that is built, and has no image, is passed over.
ScanService_SkipsBuilt ==
  /\ pc = "Scan" /\ next <= Len(services)
  /\ LET image == services[next] IN
       IF image # Unnamed /\ ~Classify(image) THEN End("NotPinned")
       ELSE /\ found' = IF image = Unnamed THEN found ELSE found \cup {image.digest}
            /\ next' = next + 1 /\ UNCHANGED <<pc, outcome>>
  /\ UNCHANGED <<shape, services, licensed>>

\* The scan stops at the first service that is not pinned.
ScanService ==
  /\ pc = "Scan" /\ next <= Len(services)
  /\ LET image == services[next] IN
       IF image = Unnamed THEN End("NoImage")
       ELSE IF ~Classify(image) THEN End("NotPinned")
       ELSE /\ found' = found \cup {image.digest}
            /\ next' = next + 1 /\ UNCHANGED <<pc, outcome>>
  /\ UNCHANGED <<shape, services, licensed>>

CheckLicensed ==
  /\ pc = "Scan" /\ next > Len(services)
  /\ End(IF licensed \in found THEN "Ok" ELSE "LicensedDigestAbsent")
  /\ UNCHANGED <<shape, services, licensed>>

Init ==
  /\ shape \in Shape
  /\ IF shape = "Services" THEN services \in BoundedSeq(Reference \cup {Unnamed}, MaxServices)
     ELSE services = <<>>
  /\ licensed \in ImageDigest
  /\ next = 1 /\ found = {} /\ pc = "Read" /\ outcome = "None"

Next == ReadDocument \/ ScanService \/ CheckLicensed

Spec == Init /\ [][Next]_vars

-----------------------------------------------------------------------------
(***************************************************************************)
(* Properties.                                                             *)
(***************************************************************************)
\* The document as Verify knows it.
Pinned ==
  /\ shape = "Services" /\ services # <<>>
  /\ \A image \in ToSet(services) : image # Unnamed /\ image.at /\ image.sha256 /\ image.whole

DocumentOf ==
  [hash |-> Hash, pinned |-> Pinned,
   digests |-> {image.digest : image \in ToSet(services) \ {Unnamed}}]

(***************************************************************************)
(* The scan, which stops at the first service it cannot accept, passes     *)
(* exactly the documents Verify's judgement calls the licensed one's       *)
(* contents: every service pinned, at least one, and the licensed image    *)
(* among them, wherever the service that is not pinned stands.  Whatever   *)
(* hides what runs is the answer, before what is missing: a document is    *)
(* told that it lacks the licensed image only when every service of it is  *)
(* known (images.rs 152-200).                                              *)
(***************************************************************************)
ScanAgreesWithVerify ==
  pc = "Done" =>
    /\ outcome = "Ok" <=> LicensedDocument([compose |-> Hash, image |-> licensed], DocumentOf)
    /\ outcome = "LicensedDigestAbsent" => Pinned
=============================================================================
