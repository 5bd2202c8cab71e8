------------------------ MODULE MCVerifiedTransport ------------------------
(***************************************************************************)
(* What may answer at the endpoint: the licensed enclave, the same enclave *)
(* restarted with a new key, one upgraded to another compose document, one *)
(* on a platform below the TCB level Intel asks for from time 1 on, one    *)
(* whose MR-CONFIG-ID is version 2, a relay that serves a copy of the      *)
(* enclave's certificate without its key, one that serves a recorded quote *)
(* in a certificate of its own, a gateway with an ordinary certificate, one*)
(* with a broken attestation, and one without a certificate.               *)
(***************************************************************************)
EXTENDS VerifiedTransport

CONSTANTS k1, k2, k3, h1, h2, d1, p1, m1, t1, t2, main,
          enclave, restarted, upgraded, outdated, version2, relay, recorded, gateway, broken, bare

MCMinSvn == [t \in 0 .. MaxTime |-> IF t < 1 THEN 1 ELSE 2]

MCQuote(commits) ==
  [parses |-> TRUE, genuine |-> TRUE, platform |-> p1, svn |-> 2, version |-> "V1",
   config |-> h1, boot |-> [r \in Register |-> m1], commits |-> commits]

MCPeer(leaf, attestation) == [leaf |-> leaf, holdsKey |-> TRUE, attestation |-> attestation]

MCFacts ==
  [p \in Peer |->
     CASE p = enclave   -> MCPeer(k1, MCQuote(k1))
       [] p = restarted -> MCPeer(k2, MCQuote(k2))
       [] p = upgraded  -> MCPeer(k1, [MCQuote(k1) EXCEPT !.config = h2])
       [] p = outdated  -> MCPeer(k1, [MCQuote(k1) EXCEPT !.svn = 1])
       [] p = version2  -> MCPeer(k1, [MCQuote(k1) EXCEPT !.version = "V2"])
       [] p = relay     -> [MCPeer(k1, MCQuote(k1)) EXCEPT !.holdsKey = FALSE]
       [] p = recorded  -> MCPeer(k3, MCQuote(k1))
       [] p = gateway   -> MCPeer(k3, Missing)
       [] p = broken    -> MCPeer(k3, Unreadable)
       [] p = bare      -> MCPeer(None, Missing)]

MCLicensed == [compose |-> h1, image |-> d1]

MCServed == [hash |-> h1, pinned |-> TRUE, digests |-> {d1}]
=============================================================================
