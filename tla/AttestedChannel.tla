-------------------------- MODULE AttestedChannel --------------------------
(***************************************************************************)
(* What a VerifiedClient promises (connect.rs, its module documentation):  *)
(* a connection reaches some peer; it is attested before anything is sent  *)
(* on it, and only when that peer is one to trust; what the client shows   *)
(* its caller is always an attested connection.                            *)
(***************************************************************************)
CONSTANTS
  Conn,     \* connections
  Peer,     \* what may answer
  Trusted,  \* the peers that hold a key the licensed enclave attests
  None

VARIABLES
  party,     \* the peer a connection reached, None when it is not open yet
  attested,  \* the connections that were attested
  carried,   \* the connections application data was sent on
  shown      \* the connection the client describes, None before there is a client

vars == <<party, attested, carried, shown>>

Init ==
  /\ party = [c \in Conn |-> None]
  /\ attested = {} /\ carried = {}
  /\ shown = None

Reach(c) ==
  /\ party[c] = None
  /\ \E p \in Peer : party' = [party EXCEPT ![c] = p]
  /\ UNCHANGED <<attested, carried, shown>>

Attest(c) ==
  /\ party[c] \in Trusted
  /\ attested' = attested \cup {c}
  /\ UNCHANGED <<party, carried, shown>>

Talk(c) ==
  /\ c \in attested
  /\ carried' = carried \cup {c}
  /\ UNCHANGED <<party, attested, shown>>

Show(c) ==
  /\ c \in attested
  /\ shown' = c
  /\ UNCHANGED <<party, attested, carried>>

Next == \E c \in Conn : Reach(c) \/ Attest(c) \/ Talk(c) \/ Show(c)

Spec == Init /\ [][Next]_vars
=============================================================================
