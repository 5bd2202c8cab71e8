-------------------------- MODULE MCConnectRunner --------------------------
(***************************************************************************)
(* The runner over the peers of MCVerifiedTransport, for TLC.              *)
(***************************************************************************)
EXTENDS ConnectRunner, MCVerifiedTransport
=============================================================================
