------------------------------ MODULE Endpoint ------------------------------
(***************************************************************************)
(* Endpoint::parse, classify and passthrough_form (endpoint.rs).           *)
(*                                                                         *)
(* An operator has a URL.  They name a port where there was none, and when *)
(* the endpoint is dStack's TLS-terminating form they dial the host that   *)
(* the refusal quotes back.  The authority of a URL is a sequence of       *)
(* pieces, the texts between its colons; of a host name only its first     *)
(* label matters, and of that what stands on each side of its last dash.   *)
(***************************************************************************)
EXTENDS Integers, Sequences, SequencesExt

CONSTANTS
  Port,      \* ports that may be named, 0 among them
  MaxPort,   \* u16::MAX
  Scheme,    \* schemes, as they compare to "https" without case
  AppId,     \* what stands before a label's last dash: "Hex40", or no app-id
  AppPort    \* ports of applications, the digits after that dash

Default == 443
NoDigits == -1

\* Texts between colons: a host name, a number, the first and the last piece of
\* a bracketed IPv6 literal, text that is none of these, and no text at all.
\* A label's port side begins with the port of the application, or has no digits;
\* what follows them is nothing, an "s", two, or other text.
PortLabel == [digits : AppPort \cup {NoDigits}, tail : {"", "s", "ss", "Word"}]
NoPort == [digits |-> NoDigits, tail |-> ""]

Name(app, port, dotted) == [is |-> "Name", app |-> app, port |-> port, dotted |-> dotted, num |-> 0]
Number(n) == [is |-> "Number", app |-> "None", port |-> NoPort, dotted |-> FALSE, num |-> n]
Text(t)   == [is |-> t, app |-> "None", port |-> NoPort, dotted |-> FALSE, num |-> 0]

\* A label without a dash has no side for a port.
Names ==
  {Name(app, port, dotted) : app \in AppId, port \in PortLabel, dotted \in BOOLEAN} \cup
  {Name("None", NoPort, dotted) : dotted \in BOOLEAN}

Literal == <<Text("Open"), Text("Empty"), Text("Close")>>   \* [::1]

VARIABLES
  scheme,
  authority  \* up to the first of "/", "?" and "#"

vars == <<scheme, authority>>

-----------------------------------------------------------------------------
(***************************************************************************)
(* classify.  Splitting on the last dash leaves an "s" with the port.      *)
(***************************************************************************)

Passes(port)     == port.digits # NoDigits /\ port.tail = "s"
Terminates(port) == port.digits # NoDigits /\ port.tail = ""

Classify(host) ==
  LET label == Head(host)
  IN  IF label.is # "Name" \/ ~label.dotted \/ label.app # "Hex40" THEN "Unrecognised"
      ELSE IF Passes(label.port) THEN "DstackPassthrough"
      ELSE IF Terminates(label.port) THEN "DstackTerminating"
      ELSE "Unrecognised"

Refused(why) == [ok |-> FALSE, why |-> why, host |-> <<>>, port |-> Default, form |-> "None"]

Taken(host, port) ==
  IF host = <<Text("Empty")>> THEN Refused("NoHost")
  ELSE [ok |-> TRUE, why |-> "None", host |-> host, port |-> port, form |-> Classify(host)]

Usable(piece) == piece.is = "Number" /\ piece.num \in 1 .. MaxPort

HostOf(a) == Front(a)

\* The port follows the last colon, unless what precedes it ends in a bracket.
NamesPort(a) == Len(a) > 1 /\ a[Len(a) - 1].is # "Close"

Parse(s, a) ==
  IF s # "https" THEN Refused("NotHttps")
  ELSE IF ~NamesPort(a) THEN Taken(a, Default)
  ELSE IF ~Usable(Last(a)) THEN Refused("BadPort")
  ELSE Taken(HostOf(a), Last(a).num)

\* Mutants: the host is quoted back as it was given; or with the port of HTTPS.
AddS_Missing(port) == port
AddS_Default(port) == [digits |-> Default, tail |-> "s"]

AddS(port) == [port EXCEPT !.tail = IF @ = "" THEN "s" ELSE "ss"]

\* The passthrough host a terminating one should have been.
PassthroughForm(host) == <<[Head(host) EXCEPT !.port = AddS(@)]>> \o Tail(host)

endpoint == Parse(scheme, authority)

-----------------------------------------------------------------------------
Init ==
  /\ scheme \in Scheme
  /\ authority \in {<<name>> : name \in Names} \cup {Literal, <<Text("Empty")>>}

\* The operator names a port, or writes something else after a colon.
NamePort ==
  /\ authority = Literal \/ Len(authority) = 1
  /\ \E piece \in {Number(n) : n \in Port} \cup {Text("Word"), Text("Empty")} :
       authority' = Append(authority, piece)
  /\ UNCHANGED scheme

\* connect_verified refuses before it dials, and quotes the host to dial.
TakeAdvice ==
  /\ endpoint.form = "DstackTerminating"
  /\ authority' = PassthroughForm(endpoint.host)
  /\ UNCHANGED scheme

Next == NamePort \/ TakeAdvice

Spec == Init /\ [][Next]_vars

-----------------------------------------------------------------------------
(***************************************************************************)
(* Properties.                                                             *)
(***************************************************************************)
NamedHost == Head(authority).is = "Name"

(***************************************************************************)
(* The host quoted back is the passthrough form of the same application and*)
(* the same port of it, the digits of its label: an operator who dials it  *)
(* is not sent in circles, nor to a host the classifier does not know.  It *)
(* is a host only: the port of the gateway that a URL names after a colon  *)
(* is not quoted with it (endpoint.rs 203-213).                            *)
(***************************************************************************)
AdviceReaches ==
  TakeAdvice =>
    /\ endpoint'.ok
    /\ endpoint'.form = "DstackPassthrough"
    /\ Head(authority').app = Head(authority).app
    /\ Head(authority').port.digits = Head(authority).port.digits

(***************************************************************************)
(* To name a port after a host name moves the port and nothing else: the   *)
(* same host is dialled and sent as SNI, classified as before, on a port   *)
(* something can be connected to (endpoint.rs 147-163).                    *)
(***************************************************************************)
PortIsApart ==
  NamePort /\ NamedHost /\ endpoint.ok /\ endpoint'.ok =>
    /\ endpoint'.host = endpoint.host /\ endpoint'.form = endpoint.form
    /\ endpoint'.port = Last(authority').num /\ endpoint'.port \in 1 .. MaxPort

(***************************************************************************)
(* An operator who dials the host that a refusal quotes reaches the same   *)
(* application, in the form that is verified; and one who names a port of  *)
(* the gateway, before the advice or after it, changes the port alone      *)
(* (endpoint.rs 147-163, 203-213).                                         *)
(***************************************************************************)
OperatorReachesTheApp == [][AdviceReaches /\ PortIsApart]_vars

(***************************************************************************)
(* What endpoint.rs:143-145 says: an IPv6 literal keeps its own colons, and*)
(* an operator who dials one gets Unrecognised.  The guard looks for the   *)
(* bracket before the last colon, where a literal without a port has none. *)
(***************************************************************************)
LiteralsAreUnrecognised ==
  scheme = "https" /\ authority = Literal => endpoint.ok /\ endpoint.form = "Unrecognised"
=============================================================================
