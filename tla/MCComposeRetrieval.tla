------------------------ MODULE MCComposeRetrieval ------------------------
(***************************************************************************)
(* A chain of a gateway that may serve anything and an honest source, which*)
(* retrieves every kind of URI; the gateway does not retrieve the third.   *)
(***************************************************************************)
EXTENDS ComposeRetrieval

CONSTANTS c1, c2, ipfs1, ipfs2, http, doc1, doc2, wrong

MCLicensed == [u \in Uri |-> IF u = ipfs1 THEN doc1 ELSE doc2]

MCSupports == [s \in 1 .. Chain |-> IF s = 1 THEN Uri \ {http} ELSE Uri]
=============================================================================
