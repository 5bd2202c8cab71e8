# A verification development for verity-verifier

`verity-verifier` (crates/verity-verifier) decides whether a network endpoint is the confidential
VM that a licence names, and then talks to it. It checks a TDX quote against Intel's collateral, a
published compose document against a licensed hash, and the key of the TLS connection against the
quote; `connect_verified` does all of it on a socket of its own and returns a client that does it
again on every reconnect. This directory holds TLA+ models of that code, the TLC runs that check
them on small instances, and TLAPS proofs of their safety properties for every instance.

Paths such as `connect/http.rs` are relative to `crates/verity-verifier/src/`. `PROJECT.json` maps
every definition to its lines, and lists the hazards, runs, mutants, findings and theorems.

## 1. Inventory of the system

| part | state it keeps | operations | talks to |
|---|---|---|---|
| verdict (`verdict.rs`) | the ordered list of records of a `Verdict`; a `TrustworthyVerdict` | `record`, `outcome`, `failures`, `unrun_essentials`, `missing_essentials`, `is_trustworthy`, `weight`, `disposition`, `TrustworthyVerdict::check` | built by verify, read by the client |
| verify (`verify.rs`) | none (pure) | `verify`: all the checks, in one order | attest, binding, channel, images, quote, reference |
| attestation (`attest.rs`) | none | `verify_quote`, the strict TCB rule | dcap-qvl (external) |
| bindings, channel, ratls | none | pure checks and parsers | verify, the client |
| quote (`quote.rs`) | none | `Quote::parse`, `parse_hex` | verify, the runners, the bindings |
| images (`images.rs`) | a scan over the services of a document | `pinned_images`, `check_references_licensed_digest` | verify, the bindings |
| reference (`reference.rs`) | the bundled table | `check_boot_measurements`, `meets_minimum_version` | verify, the runners |
| endpoint (`endpoint.rs`) | none | `Endpoint::parse`, `classify`, `passthrough_form` | the client, the runners |
| client (`connect.rs`, `connect/http.rs`) | cached collateral, `latest` and `pending` behind two mutexes, `first`; ureq's pool; one socket per connection | `connect_verified`, `Connector::connect`, `verify_handshook`, `get`/`post`, the accessors | ureq (pool, retries), the caller's `CollateralSource`, the dial |
| dial and deadlines (`connect/tls.rs`, `connect/http.rs`) | deadlines, socket timeouts | `dial`, `DeadlineIo::arm`, `set_deadline`, `transmit_output`, `await_input` | rustls, the peer |
| retrieval (`compose.rs`, `compose/http.rs`) | `Cached.entries` behind a mutex | `fetch` of a source, of `Fallback` and of `Cached`, `clear`, then `VerifiedCompose::check` | HTTP sources |
| document names (`compose.rs`) | none | `ComposeUri::parse`, `ComposeUrl::parse`, `Cid::parse`, `Display` | manifests, the cache (whose key a name is) |
| bindings (`verity-verifier-wasm/src/lib.rs`) | none | `verifyComposeOnly`, `checkImages`, `checkMrConfigId`, `checkChannelBinding` | JavaScript agents; binding, channel, images, quote |
| runner `connect-verified` (an example) | its arguments, one client | read, `connect_verified`, `get`, exit | the client |
| runner `verify-attestation` (an example) | its files, collateral | read, fetch, judge, exit | verify, the PCCS |

**What is hard in it.** Threads share a client: two reconnects judge their handshakes outside the
lock and publish under it; a panic poisons the lock; two requests race for one pending socket.
What answers at the endpoint may change between any two connections, while the collateral that
judges it is the first one's. ureq retries. Peers stall, dribble, hang up, answer wrongly. The
cache is unlocked while a source is asked. And `verify` is one long function whose every branch
must record the right thing, and whose answer changes as time passes. The same judgement is reached
by a second path from JavaScript, and reduced to exit codes that scripts branch on. And an input that
was cut, padded or half parsed must not be read as another one.

**What makes each part correct.**

- verdict: trust, the wrapper, the advice and the triage agree with what is on record, however it
  came to be there.
- verify: trustworthy exactly when every fact trust is meant to establish holds.
- client: application data reaches attested peers only; a socket has one owner; the verified
  socket is the one used; accessors are true; a substitution is reported as a refusal;
  `connect_verified` returns, and a request does unless a peer that dribbles holds it.
- dial: ends within its two budgets against every peer; an attack is not triaged as an outage, nor an
  outage as an attack.
- retrieval: only the licensed document is accepted; the cache is bounded; only a chain that is
  down altogether fails; retrievals end.
- bindings: on the same evidence they and the core answer alike; what they cannot know is Intel's
  word and nothing else; nothing a caller branches on is lost on the way.
- runners: the exit code is true of the run, and `connect-verified` ends unless its request is held
  like any other. (Not all that is documented of the codes is so: see the findings.)
- what reads an input: a quote is taken whole or not at all, at either width of `usize`; the advice
  leads to the same app, and naming a port changes the port alone; no well-formed name from before the
  minimum version is vouched for; a name of a document survives padding and
  printing; the scan of a document passes what verify means by the licensed contents.

## 2. Modules

| module | models | extends |
|---|---|---|
| `Verdict` | the operators over a list of records, `Refusal::kind` | |
| `VerdictRecorder` | an embedder that records anything in any order and wraps the result | `Verdict` |
| `Verify` | `verify` and the checks it makes, over symbolic evidence | `Verdict` |
| `Judgement` | a caller that asks `verify` again as time passes and evidence is supplied | `Verify` |
| `AttestedChannel` | the abstract promise of a client: reach, attest, talk, show | |
| `VerifiedTransport` | `connect_verified`, the connector, the client, requests over ureq | `Verify`; implements `AttestedChannel` |
| `Deadlines` | the time a dial and a request may take | |
| `ComposeRetrieval` | `Cached` over `Fallback` over sources, shared by clients, and the hash check | |
| `Bindings` | a JavaScript agent and a Rust agent who ask about the same evidence | `Verify` |
| `ConnectRunner` | the runner `connect-verified` around the client | `VerifiedTransport` |
| `AttestRunner` | the runner `verify-attestation` | `Verify` |
| `QuoteParse` | `Quote::parse` and `parse_hex` as the bytes of a file arrive | |
| `Endpoint` | `Endpoint::parse`, its classification, and an operator who follows the advice | |
| `ReferenceData` | `meets_minimum_version` as images are released | |
| `ComposeUris` | the names of documents: parsed, padded, printed | |
| `Images` | the scan of a document, one service a step | `Verify` |
| `Surfaces` | composes `Bindings`, `AttestRunner` and the last five, and names their properties | `Bindings`; instances of the others |
| `MC*` | values for TLC; `MCSurfaces` also runs `VerdictRecorder` and `Judgement` | the module of that name |
| `*Proofs` | the theorems about the module of that name; `VerifyProofs` also those about `Verdict` | that module, and the proofs it rests on |

**Verdict, VerdictRecorder.** A verdict is a sequence of (check, outcome) records and nothing else:
every accessor is an operator on it. `OutcomeOf` is `Verdict::outcome` (the first record that is no
pass, otherwise a pass), `Kind` is `Refusal::kind`. An `Indeterminate` outcome is its cause, since
that decides its disposition. `VerdictRecorder` starts from given transcripts and records freely,
because `Verdict::record` is public.

**Verify, Judgement.** A key, a compose hash, an image digest, a platform and a measurement are
members of small sets. A quote has the fields the checks read: whether it parses, whether the
signature is genuine, its platform and security version, the format and content of MR-CONFIG-ID,
the boot registers, and the key its report data commits to. Intel is external: collateral is a
platform and an issue time, `MinSvn[t]` is the level Intel asks for at time t, and dcap-qvl accepts
a genuine quote under collateral of its platform within its window. `VerifyEvidence` records the
checks in the order of the code. `Judgement` re-asks after `Wait`, `SupplyReference`,
`FetchCollateral` and `PresentCertificate`. `Established` is the reference definition that `verify`
is compared with: it says what trust is meant to mean, without outcomes or records.

**VerifiedTransport.** `Main` runs `connect_verified` (start, dial, extract, collateral, verify,
publish, hand over); threads run `http::request` over ureq's `Agent::run` (checkout, dial, verify,
publish, send, await). `conns` holds every connection ever opened with what the client did on it;
`sock[p]` is the socket a call owns, so ownership, which Rust has in its types, is explicit here and
`SocketsHaveOneOwner` can be asked. Where the code holds a lock or runs between lock and unlock is
where the steps are cut: quote and verdict before the lock (`VerifyHandshook`), the slot under it
(`Publish`), a panic under it (`Panic`). The same `verify_handshook` is used for the first and for
later connections, as in the code. ureq, modelled from how the code relies on it, may reuse or drop
an idle connection, ask the connector for one, and come back for another when one turns out closed.
The world changes the occupant of the endpoint, closes sockets, forgets idle ones, and passes time.

**Deadlines.** The clock is discrete. A dial has `ConnectTimeout` and then one budget for the whole
handshake, of which each read gets what remains (`Remaining`, `Arm`); a request has one deadline,
given to the socket before each operation (`SetDeadline`). A peer may complete messages, send bytes
that complete nothing, answer wrongly, hang up, or say nothing, each at any time. What it sends into a
handshake waits in `inbox`, and what follows bytes that complete nothing in `behind`, until the caller
reads; the caller sees an `io::Error` and looks inside it (`HandshakeError`), so what it reports and what
the peer did (`wrongAt`) are set by different steps, with a read, a new budget and a timeout in between.

The lookup before a dial is a step of the resolver, bounded by `MaxLookup`, which stands for limits of
the system's own: the code sets none, and the first budget begins at the address.

**Bindings.** `verify_compose_only` is a second path through the checks, which records its own
outcomes and its own order; the model follows it branch by branch and puts `VerifyEvidence` next to
it. `Reconnect` gives the agents another leaf and both ask again. `ToJs` is what crosses to
JavaScript.

**ConnectRunner.** `VerifiedTransport` with one thread, `Get`: `SetUp` reduces the arguments to an
exit code or goes on, in the order in which `main` looks at them; `Connecting` and `Requesting` are
the steps of the client; `Connected` and `Requested` reduce its answers. The world moves on meanwhile.

**AttestRunner.** The same for recorded evidence: files, the fetch of collateral, the OS image and the
boot reference, `VerifyEvidence`. `expect` on a file is a panic, with its own exit code. The PCCS
answers with any statement, fails, or does not answer, and the clock is read after it did.

**QuoteParse, Endpoint, ReferenceData, ComposeUris, Images.** Each is a pure function of the code with
a source of inputs that makes its steps: a file arrives digit by digit; an operator names a port or
follows the advice of a refusal; images are released; a manifest is padded, or a name printed and read
again; a document is scanned. `Surfaces` puts them side by side. A quote is its lengths and the fields that decide, with `usize::MAX`
just wide enough for the length field (wasm32) or wider; an authority is the sequence of the texts
between its colons; a text is its padding, its scheme and the kind of what follows.

**ComposeRetrieval.** One lock to look up, one to store, the sources asked in between. A source
answers with any bytes unless it is in `Honest`, or fails in any of the ways of `FetchError`; a body
over the limit is refused, not cut off. `Held` is `Cached::len`.

## 3. Runs

Every property has a mutant in `PROJECT.json`: a plausible bug in one definition under which TLC
finds that property violated on the same configuration. All runs set `CHECK_DEADLOCK FALSE`: every
model comes to rest when its bound on requests, records or time is used up, and the code may rest
(a caller that asks for nothing more).

| run | question | bounds, and why they are enough |
|---|---|---|
| `VerifiedTransport` | whatever takes the endpoint over, who gets data, who is turned away, and what is reported? | ten kinds of peer (listed in `MCVerifiedTransport`), three connections (the first, a swap, a swap back), one thread with two requests, time past the collateral's window |
| `VerifiedTransportShared` | do two threads ever share a socket, and which calls return? | two threads, three connections, retries, panics; two attested peers, one of which may dribble for ever and one not, as identity is the other run's question |
| `ComposeRetrieval` | what is accepted, how much is held, what fails, and does it end? | two clients, three URIs over a cache of one entry (eviction and collision), two sources, the first hostile and unable to serve one kind |
| `Deadlines` | who can hold a dial or a request, for how long? | budgets of 2, 3 and 3 and two messages, so that a message can arrive with the budget unspent, almost spent and spent; a lookup longer than the first budget; 18 ticks are longer than any call |
| `ConnectRunner` | what does the exit code say, and does the runner end? | every combination of usable and unusable arguments; the enclave, the enclave restarted as a peer that dribbles, a peer whose MR-CONFIG-ID cannot be judged, one with the attestation of another, one without any; a retry that meets another peer |
| `Surfaces`, the judgement | do trust, wrapper, advice and triage of a verdict stay consistent with its record (`VerdictRecorder`)? Does `verify` accept exactly what is established, and can its outages and advice be relied on (`Judgement`)? | transcripts of at most 9 records, started at most three short of that: a repeat, a contradiction and a completion fit, in every order; two of every kind of value, every quote with at most two defects (so a defect that hides another shows), statements before and after Intel raises its level, time through and past both validity windows |
| `Surfaces`, the ways in and out | do the bindings, the runner on recorded evidence and the parsers say of their inputs what the judgement rests on? | quotes with at most two defects, every document, hash and leaf; a boot reference that matches, one that differs and an empty one; for the runner, an OS image that is revoked and one that is not, no endpoint, a terminating one and one that does not parse (it treats the others as it treats these), and a clock that starts at 0 and passes a statement's window while it fetches; a quote cut at every digit, with declared lengths up to the first that overflows; ports at both ends of a `u16`; releases around the minimum and names with up to four parts; documents of at most three services, so that a bad one can be first, last and in the middle |

`Surfaces` checks nine modules that share no state in one run: a behaviour belongs to one of them
(`part`), and the others keep a state they could have started in. Seven are composed by the module
`Surfaces`; `MCSurfaces` sets `VerdictRecorder` and `Judgement` beside them. Their properties are stated in their
modules, and some are conjunctions of named parts: `ExitCodesAreTrue` and `CodesAreTrue` of what each
code stands for, `OperatorReachesTheApp` of what the advice and the port may change, `NamesAreSound` of
what is retrievable, padding and printing, `VersionsAreOrdered` of the minimum and its updates.
`CausesAreTold`, of `Deadlines`, is about both directions in which a wrong answer and an outage could be
mistaken for one another. `OperatorReachesTheApp` speaks of the port twice: the digits of the label, which
are the application's port and which the advice keeps, and the port after a colon, which is the gateway's;
the advice quotes a host only, so an operator who had named a gateway port names it again.
`VersionsAreOrdered` is about names of three numbers, as images come and go whose names are not.

Six more runs each check one sentence of the documentation that the code does not keep; see the
findings.

| run | sentence | counterexample |
|---|---|---|
| `NewKey` | a CVM that restarted with a new key yields `Refused` (connect.rs:388) | its new quote commits to its new key and nothing remembers the old one |
| `ComposeBadEntry` | a bad entry causes a refusal only if every entry is bad (compose.rs:479) | the first source answers with other bytes, the second is honest |
| `RequestTimeout` | how long a whole request may take (connect.rs:76) | a peer that dribbles bytes which complete no record |
| `EndpointLiteral` | an IPv6 literal keeps its own colons and gets `Unrecognised` (endpoint.rs:143) | `https://[::1]` is refused as a bad port; the guard looks for the bracket before the last colon, which a literal has only with a port |
| `OutageExit` | exit 2 when collateral could not be fetched, so that no outage reads as a refusal (connect-verified.rs:47) | the source fails, `connect_verified` answers `CollateralUnavailable`, and `main` exits 1 as for every `Err` (line 193) |
| `PreRelease` | an image name that does not parse is not vouched for (reference.rs:81) | a part that does not parse is dropped and the next one read in its place (line 85): `dstack-rc.5.0` is major 5, and the pre-release `dstack-0.5.4-rc.6` is 0.5.6 |

None of them lets data reach a peer that is not attested: the properties that say whom data reaches and
what evidence is accepted hold in all runs. (`meets_minimum_version`, of `PreRelease`, decides a warning
of the runners.)

### Divergences the models show, without a run of their own

These sentences do not hold of the models either. The properties of the runs above are stated so that
they say what does hold.

| sentence | what the code does |
|---|---|
| connect.rs:647, `NotTrustworthy` is `GuaranteeViolated` whenever an essential check reached a refusal | `Verdict::outcome` reports the first record that is no pass: a check recorded `Indeterminate` and then `Failed` is triaged as an outage (connect.rs:689) |
| attest.rs:90, `SignatureInvalid`: not of hardware Intel vouches for, or altered | so is a genuine quote under collateral past its window or of another platform (attest.rs:136) |
| connect.rs:411, the verdict of the most recent verification | two reconnects judge before the lock and publish in either order (connect/http.rs:212) |
| connect.rs:62 and tls.rs:160, `connect_timeout` bounds reaching the host | the lookup comes first and has no timeout (tls.rs:282) |
| verity-verifier-wasm/src/lib.rs:532, skips are recorded and not merely absent | a licensed hash that does not parse ends the verdict after one record, with six essentials absent (lib.rs:303) |
| connect-verified.rs:309, exit 2 of a request is no verification result | a reconnect refused by verification exits 2 as well (line 313) |
| verify-attestation.rs:26, exit 2 when a file could not be read | the attestation, the document and the boot reference are read with `expect`, which exits 101 (lines 89, 97, 401) |
| verify-attestation.rs:72, an absent register is not the same as passing | a reference with none of its keys compares nothing and passes (line 411) |
| reference.rs:76, the minimum is 0.5.6 | no 0.6 is accepted (line 88) |
| compose.rs:150, a padded URL is rejected by `ComposeUrl::parse` | padding at its end is kept in the name (line 162) |

### Fairness

- `VerifiedTransport`: weak fairness of the steps `connect_verified` and each request take by
  themselves, their timeouts among them (`OwnConnect`, `OwnRequest`); an answer of a peer or of the
  collateral source is never one of them. A dial ends by its two timeouts, which bound the whole of it,
  and a `CollateralSource` owns a timeout by its contract (connect.rs:175). An operation of a request has
  a timeout of each read and write only (connect/http.rs:298), which a peer that sends or accepts a byte
  now and then begins again: `RequestTimeout` shows it. So the peers in `Dribblers` may hold a call in
  `Send` or `Await` for as long as they keep the connection open (`Held`), and fairness says nothing of
  the call while they do. `RequestsReturn` is stated accordingly: a request returns, or from some point
  on it is held so. Nothing is assumed of the peers, the world or of threads that have not asked.
- `ComposeRetrieval`: weak fairness of each client, since every source carries a total timeout
  (`compose/http.rs`), and locks are held for no I/O.
- `ConnectRunner`: weak fairness of `main`'s own steps, which are those of `VerifiedTransport` and the
  steps between them; PCCS answers within the 30 seconds of its agent (connect-verified.rs:98). The
  runner ends, or its `get` is held for ever as above (`RunnerEnds`).
- `AttestRunner` has none: nothing bounds its fetch, so that it ends is not claimed.
- `Deadlines`: weak fairness of the resolver (it answers in the end, within limits of its own), weak
  fairness of the caller's own steps, and strong fairness of the clock, which a
  peer could otherwise outrun by sending infinitely many bytes in one instant.

Liveness is checked under these only: `ConnectReturns`, `RequestsReturn`, `FetchReturns`,
`DialReturns` and `RunnerEnds`.

## 4. Proofs

TLAPS proves, for every value of the constants:

| module | results |
|---|---|
| `VerifyProofs` | what `outcome` returns; `TrustMeansCompleteAndClean`; `TrustMeansEstablished`: a transcript of `verify` is trustworthy if and only if the evidence is `Established` |
| `VerdictRecorderProofs` | `RecorderTypeOK`, `WrapperIsHonest`, `RefusalIsPermanent`, `AdviceNeverProceeds`, `OutageNamesRemedies` |
| `JudgementProofs` | `CallerTypeOK`, `TrustIsEstablished`, `OutageOnlyWithoutJudge`, `TcbStatementAgrees`, `RemedyConcludes` |
| `VerifiedTransportProofs` | `TypeOK`, `OnlyAttestedPeersAreSent`, `SocketsHaveOneOwner`, `FirstSocketFirst`, `AccessorsAreTrue`, `VerificationDecides`, and `ChannelSpec`: the client implements `AttestedChannel` |
| `ConnectRunnerProofs` | `RunnerIsAClient`: the runner implements the client, so it keeps everything above; `CodesAreTrue` |
| `ComposeRetrievalProofs` | `TypeOK`, `AcceptedIsLicensed`, `CapacityHolds`, `SourcesAreToBlame` |
| `DeadlinesProofs` | `TypeOK`, `DialIsBounded`, `CausesAreTold`, `SilentPeerLoses` |
| `SurfacesProofs` | the twelve other properties of the run `Surfaces`, `NeverTrustworthy` (the verdict of the bindings is never trustworthy), and that the composition keeps what its parts promise |

Every safety invariant, action property and refinement that a passing run checks is a theorem, for
every value of the constants.

**Assumptions.** The constants have the sets they are said to have; special values (`None`,
`Missing`, `NoReference`, ...) are none of the ordinary ones; Intel's minimum level is a function of
time. Of the code outside this repository the proofs use what the models state as actions or
operators: dcap-qvl accepts only genuine quotes under collateral of their platform in its window, a
TLS handshake completes only with the holder of the leaf's key, ureq never hands one idle connection
to two requests. Thread counts, peers, what each peer presents, connections, retries, cache and
chain sizes and all the timeouts are arbitrary. So are, of what reads an input: the layout of a quote,
the lengths it declares and the two widths of `usize` (of which the narrower is no wider than the
other, and wide enough for the length of the text that was read), ports, versions, and the number of
services of a document. `ConnectRunner` has one thread and one request, as its `main` does, and room
for at least one connection; `None`, which stands where no exit code is yet, is none of the codes.

**The inductive invariants.**

- `VerdictRecorder`: with the types, a wrapped verdict was trustworthy when it was wrapped. The rest
  follows from the lemmas about `outcome`: the first non-pass record decides, so a record appended
  later cannot hide it.
- `Judgement`: the transcript at hand is `verify`'s answer for the evidence at hand (`Asked`).
  Everything else is a fact about one answer, and so about `VerifyEvidence`; since each check is
  recorded once, `OutcomeOf` of the transcript is the outcome `verify` computed.
- `VerifiedTransport`: `IInv`, in two halves. `Sockets` says that a call holds a socket exactly in
  the steps between its dial and its end, that a socket in anyone's hands was opened to a peer that
  holds its leaf's key, that threads start only when there is a client, and that while the first
  socket waits it is the only one and nobody dials: `SocketsHaveOneOwner` alone is not inductive,
  because a new connection is unowned only if nobody could have kept its number. `Verified` says
  that the collateral precedes every verification, that what was verified is genuine by it, that
  only verified connections are pooled, pending, sent on or about to be, and that every verification
  kept anywhere (`latest`, `first`, a call's own) is true of its connection.
  `OnlyAttestedPeersAreSent` needs the last two, and the step that verifies needs
  `TrustMeansEstablished`. Steps are grouped by what they do to connections: those that return, those
  that move a request, those of the world, and the five of `connect_verified`.
- `ComposeRetrieval`: what a client has in hand at each step, that the sources before the one it
  asks have failed, that the cache is finite and within `Limit`, and `Provenance`: what the cache holds
  for a URI, and what a call has in hand, is the licensed document unless a source that may serve other
  documents takes that URI. A `Store` by one client between
  the look-up and the `Store` of another is why the bound must be re-established from the second
  lock alone.
- `Deadlines`: where the clock stands relative to each wait: a wait never wakes past the budget that
  armed it, and the clock does not pass a wake-up without the caller taking it. `CausesAreTold` needs
  two parts more: a wrong answer that was not read yet is in `inbox` or `behind` and time does not pass
  over it (`Unread`), and what was reported so far agrees with what arrived (`Told`). The case with work in it
  is the wrong answer behind bytes that complete nothing: the caller reads those, comes back, and must
  find budget left exactly when the answer came before the deadline.

- The refinement of `AttestedChannel`: `Handshakes` and `VerifyHandshook` map to `Reach` and `Attest`,
  `Send` to `Talk`, the steps that hand over or publish to `Show`, and all others stutter. What
  `IInv` adds is that the peer of a connection that is attested is a trusted one.
- `VerificationDecides`: a call that fails verification holds the refusal that `HandshookRefusal` gave,
  and a peer that is not trusted gets one at every such step, because its evidence is not established.
  The other half, that an attested peer with a covered TCB goes on, uses `TrustMeansEstablished` from
  right to left, and that the guard after `verify` repeats a check that then has passed.
- `Bindings`: each transcript, when there is one, is the answer for the arguments at hand. Both record
  each check once, so the outcome of a check is the operator that computed it, and `AgreesWithCore`
  compares two operators. `OnlyIntelIsMissing` needs that no check but those two is ever skipped
  where everything else is established.

- `ConnectRunner`: two invariants on top of `IInv`. `History` is about any client: nothing is sent
  before the client exists; a call that waits for a response, or has one, was preceded by a request
  that left; connections are opened from the first on, and the client exists only once the first one
  was verified. None of them follows from `IInv`, which says of each connection what is true of it and
  not what came before what. `RunnerIInv` says where `main` stands: each stage and each exit code
  fixes where `connect_verified` ended, and with a revoked image it never began. The four parts of
  `CodesAreTrue` follow from the three together; in particular exit 1 follows `Done` of
  `connect_verified` or a revoked image, never a request. That a step of the runner is a step of the
  client (`RunnerIsAClient`) brings `IInv` and `History` along.
- `AttestRunner`: every stage has passed the checks before it, and a run that has exited either judged
  nothing (and does not exit 0, and exits 1 only for a revoked image), or holds `verify`'s transcript of
  what it read and exits by its trust, which `TrustMeansEstablished` turns into a statement about the
  evidence.
- `NothingIsLost` is a fact about one record: for each check, the name of an outcome and its disposition
  tell it from every other outcome (`OutcomesAreTold`).
- `QuoteParse`: the types of what arrives are enough. The rest is arithmetic about `Parse`: a sum that
  overflows at one width is larger than any text there can be at that width, so refusing it and
  refusing a text that is too short are the same refusal to take it.
- `Endpoint`: an authority reached by the operator's steps is a host name with at most one more piece,
  or the literal or the empty host with at most one. The splitting at the last colon is proved on each
  of these shapes, and the advice on those it is given for.
- `ComposeUris`: what was made was parsed from its own trimmed text, and trimming twice is trimming.
- `Images`: the services before the next one were all accepted, and what the scan found are their
  digests; it is done because of a service it did not accept, or with the last one behind it.
- `ReferenceData`: the parts of a name are a sequence of versions, some unparsed. What is read of it is
  the first three that parse, which `ReadAfter` picks one after the other.
- `Surfaces`: in each step one part acts and the variables of the others stay, so a behaviour of the
  whole is one of each part.

**Model-checked only.** Liveness (`ConnectReturns`, `RequestsReturn`, `FetchReturns`, `DialReturns`,
`RunnerEnds`), because TLAPS as used here does not prove formulas with fairness.

## 5. What is not modelled, and why

- Text below the classes the code branches on: which digits a hash has, the DER of a certificate and
  the JSON of its attestation extension (`ratls.rs`), JSON and YAML of documents, labels, messages and
  transcripts. They keep no state; the models use their results.
- The wording and the serialisation of the bindings (`JsValue`), and the four exported functions that
  only format a value.
- Cryptography: a hash is the thing hashed, a signature is a flag on the quote, a handshake
  completes with the holder of a key.
- Whether a request that ureq repeats was already acted on: ureq decides it, and the model allows
  any retry on a closed connection.
- Headers, redirects and content negotiation of a request; only the size limit of a body matters to
  the properties.
- The port of the gateway in what a refusal tells an operator: only the host that is quoted.
- That the two runners exit alike for one deployment: they look at the OS image before and after the
  fetch of collateral, so with the PCCS down a revoked image exits 1 in one and 2 in the other.
- The scripts around the tests, and the crate root: no state of the verifier.

## 6. Order of work, and what is left

Written in this order, the most important behaviour first: `Verdict` and `VerdictRecorder`,
`Verify` and `Judgement`, `AttestedChannel` and `VerifiedTransport`, `ComposeRetrieval`,
`Deadlines`, and the proofs of each; then `Bindings` with its proofs, the two runners around what was
there, the parsers and the scan, the proofs of the refinement and of `VerificationDecides`, and the proofs
about the runners and about what reads an input. What remains:

1. `RaTls`: the walk of the certificate extension, as far as its errors are told apart.
2. That the runner and the client agree with an abstract run: one that promises only which exit codes
   may follow which events, as `AttestedChannel` does for the client.
