# TNC@FHH in TLA+

Models, model-checking configurations and machine-checked proofs for TNC@FHH,
an implementation of the server side of Trusted Network Connect: a client whose
integrity is measured (by integrity measurement collectors, IMCs) is assessed
by a server (by integrity measurement verifiers, IMVs) before it gets access to
a network. Source paths below are relative to `src/`.

## 1. The system

```
  client          network access           TNC server            IMV libraries
 (supplicant,  <->  NAA: naaeap      <->   libtncs          <->   IMUnit + IMV
  vpnclient)        (FreeRADIUS) or        Coordinator,           (dummy, example,
                    naavpn (IF-T/TLS)      Connection, ...         platid, ...)
                                             |
                                             +-> tncxacml -> policy decision point
```

The network access authority (NAA, "NAL" in the code) calls the server with
`getConnection` and `processTNCCSData`. The server calls the C functions of the
libraries that `tnc_config` lists, and a library may call back before it
returns. Everything happens on the thread of the NAL's call; only `vpnpep` and
`naavpn` have threads of their own.

### Inventory

| component | state | operations | hard behaviour | correct means |
|---|---|---|---|---|
| **libtncs**: `Coordinator`, `Connection`, `TNC1Protocol`, `Policy`, `IMV`, `IMVProperties` (`tncs/src/tncs/iel`) | table of connections; per connection a state, a protocol, an outgoing batch, attributes and one `IMV` object per library with an error flag and a recommendation; per library "fatal error" | `getConnection`, `processTNCCSData`, `setAttribute`; callbacks `SendMessage`, `ProvideRecommendation`; calls of the six IF-IMV functions | callbacks at every point; a library fails for good on behalf of one endpoint while others are in the middle of a handshake; objects outlive the handshake; exceptions across `throw()` lists | the decision is the policy's, over what the IMVs said in *this* handshake; no call into a dead library; every call returns |
| **libtncs**: life cycle (`Coordinator`, `IMVProperties`) | ids of libraries and connections, loaded libraries, user names | `initialize`, `terminate`, fatal errors, `storeUsername` | a second `initialize` meets what the first life left in the libraries, the maps and the counters | what the server calls is loaded and initialized under the id it is called with |
| **libtncs**: `TNCCSBatch`, messages (`iel/tnc1`) | numbers and message lists of two batches | parse, count, serialise | order of checks and updates, documents refused half-way, documents of earlier sessions | the numbers go by turns; a refused batch changes nothing it should not; messages reach those who reported their type |
| **imunit**, IMV side | map of instances per library, round counters | dispatch of the IF-IMV functions, exceptions to result codes, termination | instance and server object live and die apart | flag and instance agree; no verifier goes missing unnoticed |
| **imunit**, IMC side | the same for a client | the IF-IMC functions | driven by a client that is not in the repository | as above |
| **naaeap** | buffer and queue of fragments per connection | `getConnection`, `processEAPTNCData` | vanishing endpoints, interleaved directions, misbehaving peers, exceptions that end the process | batches arrive whole, once, in order |
| **imcv**: dummy, example, platid, attestation, clamav, hostscanner | protocol state of an IMC-IMV pair | `receiveMessage`, `batchEnding`, `solicitRecommendation`, ... | sequences of messages, state kept over handshakes | allow only after the complete exchange of this handshake; a compliant endpoint is allowed |
| **tncxacml** | none | one request to the policy decision point | blocking socket, no timeout | three outcomes: answer, no answer, exception |
| **vpn**: vpnpep | table of endpoints with the time of their last assessment, child processes, the firewall's rules | recommendations from PEP clients, scheduler, scripts | threads on one table without a lock, `wait()` for any child, age of an assessment | an endpoint with an expired or failed assessment is closed, no other is |
| **vpn**: libtncvpn, naavpn, vpnclient | sessions, version negotiation | IF-T/TLS messages | read and write in turn, a handshake that ends early | the outcome of a handshake reaches the responsible vpnpep before the client, and nothing else does; no session blocks the server |
| **tncsim**, **tncutil** | none of interest | simulator loop; text processing | none | section 6 |

`PROJECT.json` lists the components with their status, and under `hazards` the
places where this code can go wrong in ways that a test would hardly reach.

## 2. Modules

| module | models | from |
|---|---|---|
| `IfTnc` | recommendations, connection states, how one becomes the other, what the policy promises | `tncifimv.h`, `TNC1Protocol.cpp` |
| `AccessDecision` | abstract specification: a handshake forgets, verifiers speak, the handshake is decided once, by policy, PDP or refusal | what the access decision promises |
| `Tncs` | the server call by call | `Coordinator`, `Connection`, `TNC1Protocol`, `Policy`, `IMV`, `IMVProperties`, `IFTNCSImpl` |
| `TncsImunit` | `Tncs` composed with libraries built on IMUnit | `imunit/imv`, `AbstractIMUnit` |
| `Coordinator` | the life cycle of the server and its libraries | `Coordinator`, `IMVProperties`, `naaeap.cpp` |
| `TnccsBatch` | the two batches of a connection, and its client | `TNCCSBatch`, messages, `TNC1Protocol` |
| `Conversation` | abstract specification: numbers by turns | what the numbering promises |
| `ImUnit`, `ImcImv` | an IMC and an IMV built on IMUnit, on a client and a server | `imunit/imc`, `imunit/imv`, `imunit/*` |
| `ExamplePair`, `DummyPair`, `PlatidPair`, `AttestationPair`, `ClamavPair`, `HostScannerPair` | the handlers of each pair | `imcv/*` |
| `EapTnc` | EAP-TNC with fragmentation, and the endpoints | `naaeap` |
| `NaaVpn` | naavpn with its clients | `naavpn`, `libtncvpn`, `vpnclient` |
| `PepGate` | abstract specification: what enforcement points know | what the decision point promises |
| `VpnPep` | the policy enforcement point of the VPN scenario | `vpnpep`, its scripts |
| `MC*` | the values of the constants for TLC | |
| `Tncs_proofs`, `TncsImunit_proofs`, `Coordinator_proofs`, `TnccsBatch_proofs`, `EapTnc_proofs`, `NaaVpn_proofs`, `VpnPep_proofs`, `ImcImv_proofs` | theorems about the module of that name | |

### Tncs

`processTNCCSData` is three nested sets of loops over the IMVs of a connection:
deliver each message, tell each IMV that the batch ends, and, if no IMV has
anything to say, ask for recommendations and announce the result. `phase` says
which loop of which NAL call runs, `con` and `cur` where it is, `call` which
library function is executing. One action is one turn of a loop, one call, one
callback or one return; so a callback may happen wherever a library runs, and
libraries may do anything else at any time. What the code keeps in an `IMV`
object is `error`, `provided` and `rec`, indexed by `Pair` (connection and
library); what it keeps in an `IMVProperties` object is `fatal`.

| code | action |
|---|---|
| `Coordinator::getConnection` | `GetConnection`, for a new endpoint then `CreateImv`* `EndCreate`, and always `StartImv`* `EndHandshakeNotification` |
| `TNC1Protocol::processTNCCSData` | `ProcessBatch` or `RejectBatch`; `DeliverMessage`*, `EndMessage`, `EndDelivery`; `EndBatchOfImv`*; `Answer` or the decision |
| the decision | `AskPdp` / `PdpThrows` / `AskPolicy`, `Solicit`*, `EndPolicy`; `AnnounceToImv`*, `EndAnnouncement` |
| `call_TNC_IMV_*` | `CallImv` (`Enter`, `FailAtOnce`, `FailWithDelete`), `LibraryReturn` |
| `IMV::handleOtherError` | the call `"delete"`, then `Fail` |
| `IMVProperties::handleFatalError` | `ReturnFatal` |
| callbacks | `ProvideRecommendation`, `SendMessage`, `SetUsername` |

Three points deserve a reader's attention. `handleOtherError` calls the library
(DELETE) *before* it sets the flags, so a recommendation given during DELETE is
overwritten. The constructor of `Connection` calls the libraries before the
connection is in the coordinator's table, so callbacks about it are refused
(`c \in known`). And `Coordinator::setAttribute` takes a user name only under
imvID 0, which the NAL uses and which is also the id of the first library.

Nothing in the code asks whether an IMV object has an error when its library gives
a recommendation (`Connection::provideRecommendation`, `IMV::setProvideRecommendation`),
and `ProvideRecommendation` does not either: a library that failed for one endpoint
without being shut down may, while it runs for another, still speak for the first.

`said` is a history variable: what each IMV last said in this handshake. No
guard reads it.

### TncsImunit

`LNext` joins each step of `Tncs` with what it does to the libraries: the map of
instances, whether an instance's method is executing, and the instance's round.
The result of a call is no longer arbitrary but follows from the map and from
what the method does (returns, returns an error, throws); callbacks come only
from an executing method. It models libraries that define all functions, as
`TNCFHH_IMVLIBRARY_INITIALIZE` does.

### Coordinator

`Tncs` has one set of loaded libraries and no end; `Coordinator` has the life
around it, with a handshake reduced to its decision.

| code | action |
|---|---|
| `Coordinator::initialize` | `Initialize` picks the contents of `tnc_config`; per line `EntryFails` (the constructor of `IMVProperties` throws) or `EntryLoads`; `Loaded` |
| `getConnection`, `storeUsername` | `GetConnection`, `StoreUsername` |
| `IMVProperties::handleFatalError` | `BecomesFatal`, `ShutDown` |
| the end of `processTNCCSData` | `Decide` |
| `Coordinator::terminate` | `Terminate`, `DeleteProperties`*, `Terminated` |

A library's record says how often it is open, whether it is initialized and
under which id. Two entries of one library share it, so that the second cannot be
initialized; when the first is shut down, the library stays open by the other's
handle. The dynamic linker may keep a closed library mapped or not. `terminate`
clears the maps but keeps `imvIdCounter` and `stringToConId`: in a later life no
library has the id 0, under which user names are stored. With no IMV at all,
`doXACMLEvaluation` reads past the end of a list: `Decide` may crash then.

### TnccsBatch

One connection of one client, over several sessions. `incoming` and `outgoing`
are the two `TNCCSBatch` objects of `TNC1Protocol`; a document is its validity,
number, recipient and messages, and a message its type or the kind of its body.
`Assigned` is what `TNCCSBatch::operator=` makes of the object, in the order of
the code, also when it throws half-way: messages go first, the number advances
before the recipient is looked at, messages before the bad one are kept.

| code | action |
|---|---|
| `TNC1Protocol::updateConnectionState` (HANDSHAKE) | `Handshake` |
| `processTNCCSData` | `Refuse`, `AnswerMessages`, `AnswerRecommendation`, `NoAnswer`; `TooLate` after the handshake |
| `getNewTnccsData` | `NewTnccsData`, `Counted` |
| the client (external) | `ClientSends`, `ClientReceives`, `ClientMisbehaves` |

`wire` is a set: documents of earlier sessions may come in a later one, in any
order. `taken`, `heard`, `said`, `talk` and `disturbed` are history variables.

### ImcImv and the pairs

`ImcImv` is a client library and a server library, each with at most one instance
for the connection, and the batches between them. The handlers of a pair are
operators from the instance's state and the call's arguments to the set of
possible answers (`ImUnit!Answer`: new state, messages, recommendation, result).
`host` is the state of the endpoint the IMC measures, `policy` what the IMV's file
says; which values each pair has is explained at the top of its module.

| code | action |
|---|---|
| `TNC_IMC_Initialize`, CREATE, DELETE, `TNC_IMC_Terminate` | `Initialize`, `Create`, `Leave` |
| HANDSHAKE, `TNC_IMC_BeginHandshake` | `Begin` |
| `TNC_IMC_ReceiveMessage`, `TNC_IMC_BatchEnding` | `ImcGets`, `ImcEnds` |
| the HANDSHAKE notification of the IMV, with what the server does on an error | `Accept`, `NextBatch` |
| `TNC_IMV_ReceiveMessage`, `TNC_IMV_BatchEnding`, `TNC_IMV_SolicitRecommendation` | `ImvGets`, `ImvEnds`, `Solicit` |
| the server's decision | `Decide` |

TNCC is not in the repository and is modelled from what `IMCLibrary` expects of
it. Decisions worth knowing: the repository's IMCs send one message or none at a
time, and the batch of a call carries them. An endpoint need not have these IMCs:
`StrangeBatch` puts a batch of the set `Strange[pair]`, with any number of messages, in the place of
the one under way, and the server hands all of them to the IMV
(`TNC1Protocol.cpp:144-158`); a nonce or digest in it must have been drawn before
(`Sayable`). TNCCS numbers the batches of every
handshake alike, so `LateBatch` puts a batch of an earlier handshake with the same
number in the place of the one under way. Cryptography is ideal: a signature is a
key and what was signed, a nonce is the place where it was made (handshake, batch and
message), and an
uninitialised buffer never happens to equal a fresh nonce. What the TPM,
entropy or OpenSSL may refuse is a `Broken` answer. The attestation IMC signs with the key that
`beginHandshake` loaded (`aik`); the IMV's `mode`, `current` and `digest` are
`quoteType`, `currentEntry` and `quoteDigest`, which nothing initialises or takes
back. `clean` is a history variable: nothing but the
two functions had a part in the handshake.

### EapTnc

Data are sequences of units. `Serve(c)` has one action per path through
`processEAPTNCData`; the server behind it is reduced to its outcomes (a batch, a
decision with or without a last batch, an exception). An endpoint of `Honest`
cuts its batches in any of the `PeerSizes`, with or without the redundant length
flag, acknowledges, collects, and may vanish at any point and start again; any
other endpoint sends any packet of `Junk`. FreeRADIUS and the client are not in
the repository; `PROJECT.json` marks their definitions as external.

### NaaVpn

naavpn serves one connection at a time, in blocking calls without a timeout on
the thread of its `io_service`; further clients wait in `queue`.

| code | action |
|---|---|
| `TNCServer::handleAccept`, `Session` | `Accept`, `AcceptFails` |
| `TNCSession::expectVersionNegotiation` | `ExpectVersion`, `RefuseVersion` |
| the loop of `doOperations`, `MessageHandler` | `IgnoreEnvelope`, `AnswerBatch`, `DecideAccess` then `NotifyPep`, `BreakHandshake`, `FirstIsNoBatch`; `SendReply`, `SendNothing`; `SendLast` |
| an exception of reading or writing | `Broken` |
| `PEPNotifier`, `PEPClient`, `ssl/Client.h` | `NotifyPep` with `Notify`, `SendRecommendation`, `PepForEndpoint`; `CallStalls` |
| `TNCClient`, `LibTNCClient` | `Connect`, `StartVersionNegotiation`, `BeginSession`, `SendBatch`, `PutData`, `EndOfStream`, `Quit`; `HostFails` |
| clients that are not vpnclient (external) | `ForeignSends`, `ForeignReads` |

A client that quits closes its end of the connection, and the server's next read or write
fails (`Broken`). A host that fails does not: `HostFails` leaves the connection in `lost`, and a read
of it (`IFTTLSConn.cpp:168`) may last for ever. So may a call of the notifier that an
enforcement point takes and does not answer (`CallStalls`: the session's phase is then
"stalled"; the connect and the TLS handshake in `ssl/Client.h:67-68` have no timeout).

When there is nothing to send, `env` is deleted without ever having been assigned:
`SendNothing` lets the process die or go on. libtncs is its outcomes; that it ends the
process on a first batch that no protocol supports is `FirstIsNoBatch`. Addresses
are numbers; `Masked` is what the code computes, `ResponsiblePep`, of the
properties, what a network of so many bits means.

### VpnPep

Two threads share the table of endpoints: that of the `io_service`, on which the
sessions with PEP clients run one after the other, and the scheduler. Both change the
firewall by a child process and call `wait()`, which returns at the end of any
child; each may so go on before its own script has ended.

| code | action |
|---|---|
| `PEPSession::handleReadCompleted` | `Recommend`, then `SessionReturns` from `wait()` |
| `AssessmentScheduler::operator()` | `BeginPass` reads the clock; per endpoint `Pass`, or `FindMissing` reads an overdue stamp, `Revoke` starts the script and `Drop` follows `wait()`; `EndPass` |
| `enforceBinaryIso` | `Start`, `ScriptEnds` |
| `allow-client.sh`, `deny-client.sh` | one more or one less in `rules` |
| an exception out of `io_service::run` | `Die` |

An insertion into the `unordered_map` while the scheduler iterates over it is
undefined: `Disturbed` lets the iterator go on anywhere, and `Die` the process end.
No lock is held between the reading of the stamp and the start of the script: a session
may store a new assessment between `FindMissing` and `Revoke`, which revokes it all the same.
`Drop` deletes the endpoint it read before it called `wait()`; a recommendation
that came in between is lost. `age` and `last` are history variables.

### The abstract specifications

The states of `AccessDecision` are what the network sees (`state`), what verifiers said (`voice`)
and whose user name is known (`named`). `Tncs` implements it under
`state <- conState`, except that a decision counts from the moment it is taken
rather than from the end of the announcement loop; `voice <- said`;
`named <- username`. `ImcImv` implements it for
one connection and one verifier.

`Conversation` is a list of numbers that grows by turns and a flag that says whether
the handshake goes on; `TnccsBatch` implements it with `open` as "the process
lives and the connection is in HANDSHAKE". `PepGate` knows sessions only by
their decision; `NaaVpn` implements it with `ResponsiblePep` for each address.

## 3. Model checking

States are those of a complete search.

| run | instance | shows |
|---|---|---|
| `tncs_one` | one endpoint, two libraries, two message types, three kinds of batch; 9,816 states, depth 34 | `TypeOK`, `IInv`, `NoMessageDropped`, `DecisionFollowsVoices`, `CallsReturn` under fairness, `ImplementsAccessDecision` |
| `tncs_two` | two endpoints, two libraries, the second without `ReceiveMessage`; 5,293,890 states | `CallsOnlyLiveImvs`, `AccessNeedsEveryLibrary`: a library that dies for one endpoint is dead for the other, at any point of the other's handshake |
| `imunit_shared` | two endpoints share one IMUnit library, up to two batches in a handshake; 301,211 states | `LInv`, `ErrorsAreMissingInstances`, `RoundsAreBatches`, `EveryVerifierIsPresent` |
| `coordinator` | six libraries (two sound, one missing, incomplete, of another version, without `TNC_IMV_Terminate`), eight files, two endpoints, three lives; 34,121 states | `TypeOK`, `CallsFindTheirLibrary`, `LoadsAgain`, `StoredMeansAsked` |
| `batch` | two IMVs, one with wildcards, two sessions of two turns, five kinds of defect; 53,493 states | `TypeOK`, `Lockstep`, `EachImvHearsItsShare`, `AnswersAreFresh`, `HonestIsNotRefused`, `ImplementsConversation` |
| `imcv_pairs` | each of the six pairs with hosts and policies on both sides of every condition, two handshakes of up to four batches, one batch of other functions; 1,333,279 states, depth 36 | `TypeOK`, `AccessIsEarned`, `CompliantIsAllowed`, `RoundsAgree`, `HandshakeEnds` under fairness, `KeepsThePromise` |
| `eap_two` | an honest and a misbehaving endpoint, payloads of 2 and 3 units, the endpoint's fragments of 1 or 2, the server's of 2, both modes; 2,652,124 states | `TypeOK`, `HandedIsSent`, `GotIsAnswered`, `HonestIsServed`, `Conserved` |
| `naavpn` | a vpnclient and a foreign client, three entries for enforcement points, two connections of the vpnclient and one of the other; 287,384 states, depth 38 | `TypeOK`, `ImplementsGate`, `OnlyHoldersBlock` under fairness |
| `pep_two` | two endpoints, an hour of 5 minutes, limit of 1 minute; 212,408 states, depth 76 | `TypeOK`, `SInv`, `RevokesOnlyStale`, `StaleIsRevoked` under fairness |
| `eap_last`, `pep_denied`, `imcv_version` | | violations, section 4 |

**Why the bounds are enough.** Two libraries are the least number for which
"the IMVs passed so far" and "the IMVs still to come" are both non-empty, which
is where the loops can go wrong; two endpoints are the least for which a library
fails on behalf of somebody else. Handles gives one message a single receiver and another
message two. Nothing counts handshakes in `Tncs`: it has finitely many states without
any bound, so runs of any length, over any number of handshakes, are covered.
`MaxRound` and `MaxBatches` bound the batches of one handshake, as rounds and
histories of data would otherwise grow; two suffice for an interrupted transfer
to meet the next one. `Users = {}` in `tncs_two` leaves out the PDP, which reads no IMV.

The `coordinator` run needs a first life, one that meets what it left, and one that meets what
the second left: `MaxLives` is three. In `batch` the second session is the one that may get
the first's documents, and the second turn the one whose number is not the
first's; two documents may be in transit, a late one and the client's own. In
`imcv_pairs` the second handshake is the one that meets old state, and four
batches are enough, as a client that stops at the bound in the middle of an exchange
would violate `HandshakeEnds`. `MaxStrange` is one batch of other functions, of two messages each,
at any place of either handshake: for attestation a certificate that is on no list with a quote for the digest of
an earlier request, of a single register, or of an uninitialised buffer; for clamav a report split
over two messages. After the last handshake nothing is left to do, which is
why that run does not check for deadlock. In `naavpn` a second
connection of the vpnclient may meet what its first one, or the foreign client's, left; `MaxRounds` is one round before the
decision, and the first entry after the one of no bits is found only if that one is
passed.

In `eap_two`, payloads of 2 and 3 units against fragments of 1 and 2 are data that need
no cut, data that divide evenly and data that leave a remainder. An hour of 5 minutes with a limit
of 1 keeps both regions of the clock: stamps whose age is seen in time, and stamps for
which the hour begins anew first. `MaxRules` bounds the rules and started
scripts of one endpoint; with 1, both threads still have scripts running at once,
for one endpoint or for two.

**Fairness.** `FairSpec` of `Tncs` has weak fairness for `Engine` (the server's
thread, once inside a call of the NAL, goes on) and for `LibraryReturn` (a library
function that was called returns). Neither the NAL nor a callback is ever forced. A
library that answers NOT_INITIALIZED for good would make `call_TNC_IMV_*` recurse for
ever (FIXME in `IMVProperties.cpp`); the model takes the retry as ended.
In `ImcImv` the server works on what it was given and the client answers every batch;
that a handshake begins, a host changes or a late batch comes is never forced.
In `NaaVpn` the server's thread runs (`Progress`), and each vpnclient's process. `Progress` leaves out
what only the other end can end: a read from a host that has failed, an accepted client that
does not begin its TLS handshake, a call that an enforcement point leaves without an answer. That clients
connect, quit or send (foreign ones), that anybody finds out about a failed host, or that
enforcement points come back, is not forced. In `VpnPep`, weak fairness says that time passes, the scheduler's thread runs,
scripts end and a session that waits is woken; strong fairness of `Drop` says that
the kernel does not give every ended child to the other thread's `wait()`. No
recommendation is forced. A pass over the table takes less than a minute (`Tick`
needs `seen`): the scheduler sleeps ten seconds between passes and a script runs
one or two commands.

**Assumption about the NAL.** `getConnection` and `processTNCCSData` carry the
comment "TODO critical area" and take no lock. The modelled callers make one call at a
time; two threads inside libtncs are outside the models.

**Exceptions in the properties.** Each is what the code does; the property says that
nothing else is like that.

- `CompliantIsAllowed`: a platid instance that failed before it sent a nonce refuses every later
  handshake, as `nothingWrong` is reset only where a nonce was sent.
- `AccessNeedsEveryLibrary`: a library that was shut down may have spoken for this endpoint after it had
  failed for it (`SpokenForAfterFailure`), from a function that ran for another endpoint. Libraries
  built on IMUnit speak only for the instance at hand, so `EveryVerifierIsPresent` has no such exception.
- `AccessIsEarned`: an attestation client of which nothing was asked (`Unasked`). One that is on
  no list is refused, but `nothingWrong` stays true (`AttestationIMV.cpp:112`), and a further message of
  its batch is compared with the digest of an earlier request. And numbers of a version that
  differ in their digits are left out (`Below`): `compareVersionStrings` compares them as strings.
  For the operators `<`, `<=` and `!=`, whose results that comparison replaces, it says nothing.
- `OnlyHoldersBlock`: a foreign client that is silent; a host that failed without closing its connection;
  a vpnclient whose library refuses a batch, after which client and server both wait for
  the other's next; an enforcement point that takes the notifier's call and does not answer.
- `RevokesOnlyStale`: an hour that begins during a pass; and an assessment that a session stores after
  the scheduler has read the old stamp and before it starts the script.

## 4. Where documentation and code disagree

| run | the repository says | the code does |
|---|---|---|
| `eap_last` | after a fragment with the flag come more, each on an ACK (`EapTncFragment.h:231`) | of a batch that ends the handshake only the first fragment is sent: the ACK is taken for the last one |
| `pep_denied` | "N: No access will be granted" (`PEPClient.h:48`) | each Y inserts a rule, an N deletes one; after Y, Y, N the endpoint has access |
| `imcv_version` | "If the data received from the clamavimc matches the desired values in the policy, an 'ALLOW' recommendation is provided" (`doc/tncfhh.tex:756`) | versions are compared field by field, each on its own: 1.0.0 does not satisfy `>= 0.95.3` and is isolated |

The models contain further disagreements that no run is spent on: a library without
the optional `TNC_IMV_BatchEnding` (`IMVProperties.cpp:301`) fails at its first batch;
an unsupported protocol, "legitimate for the first message" (`TNC1Protocol.cpp:254`),
ends the process, as `Coordinator::processTNCCSData`'s `throw()` list does not name the
exception; an error that is "permanent for this handshake" (`IMV.cpp:315`) is permanent for
the connection in libraries built on IMUnit, whose instance is gone; and an endpoint
assessed at minute 54 or later and never again is not revoked, as its age is a difference of
minutes of the hour (`AssessmentScheduler.h:95`).

A policy `Version >= 1.10` is satisfied by 1.5, as "5" is not below "10" as a string
(`ClamavIMV.cpp:361`), against the same sentence of `doc/tncfhh.tex:756` as in `imcv_version`. And
a client whose certificate is on no list may be told otherwise by a later message of the same
batch (`Unasked`, above).

Two more came up in the proofs, and shaped the properties of `ImcImv`. The policy's comment says
that "the complete quoteType allows to check if the client system's PCRs match the values
specified in this policy" (`attestationimv.policy:28`). The IMV puts the values into its composite
in the order of the policy's entries (`AttestationIMV.cpp:289`), the TPM in ascending order of
registers: where the two orders differ, an honest endpoint is isolated, and one whose registers
have each other's values is allowed. Of a complete quote with entries in another order
`AccessIsEarned` says no more than that it was made for this handshake's nonce (`QuoteTells`), and
`Compliant` asks for entries in order. Secondly, an IMC of clamav whose `clamconf`
fails goes on with the output of an earlier run (`ClamavIMC.cpp:242`); `Compliant` asks for an endpoint
on which `clamconf` answers.

## 5. Proofs

The theorems hold for any number of endpoints, libraries and message types, any
sets of batches, any `Handles` and `Lacks`. Assumptions are those named in
the modules: there is at least one library (`NumIMVAssumption`), the constants have
their types, and `NoConn` is no endpoint; `TncsImunit` adds that no function is
missing. `VpnPep` has any number of endpoints, and any hour and limit with
`MaxAge + 1 < Hour`.

**`Tncs_proofs`.** `Typing` is `Spec => []TypeOK`. `Invariance` is
`Spec => []IInv`, where the parts of `IInv` need each other:

- `DecisionFollowsVoices` is about `said`, the policy reads `provided` and `rec`
  through accumulators: `VotesCounted` ties the accumulators to the voices of
  the IMVs the loop has passed, and `VoicesKept` ties flags to voices.
- `VoicesKept` cannot hold of an IMV that the clearing loop has not reached: there
  `said` is already empty and the flags are of the last handshake. `NotYetCleared`
  is exactly that region, and the invariant must say that such an IMV has
  not spoken. That is so because libraries speak only for the IMV at hand (same
  library, but another connection) or about known connections
  (`CreatedInSilence`).
- A vote that was counted must not change before the loop ends. The library of a
  counted IMV does not run again, so only `cur` may still speak.
- A failed IMV may speak again from a call for another connection, so errors are not silent
  here. `FatalHasFailed` says what is left: once the loop has passed an IMV whose library is
  shut down, its object has an error. What it says after that counts as `SpokenForAfterFailure`:
  the step where `AccessNeedsEveryLibrary` comes from.

From `IInv` follow `LiveImvs`, `Decision` and `EveryLibrary`; `NothingDropped`
rests on an invariant of its own (a message is accepted only while a function
of `receive` or `ending` runs).

`Implements` is `Spec => ImplementsAccessDecision`. Two
more invariants are needed: batches are processed only while the state is
HANDSHAKE (`InHandshake`), and nobody has spoken about an unknown connection
(`UnknownIsSilent`), which makes the forgetting of a first `getConnection` a
stutter. Turns of loops map to an IMV's withdrawal of its voice or to a stutter
(`TurnMaps`), `EndCreate` and a repeated `GetConnection` to `Begin`, `EndPolicy`
to `DecideByPolicy` by `VotesCounted`, `AskPdp` to `DecideByPdp`, `PdpThrows` and
`RejectBatch` to `Refuse`.

**`TncsImunit_proofs`.** `ServerSpec` is `LSpec => Spec`: each step of the composition
is a step of `Tncs` or leaves its variables alone, so all theorems about `Tncs`
carry over. `VoicesHaveInstances` is `LSpec => []LInv`: with these libraries an IMV object with an
error is silent (`ErrorIsSilent`), as only an instance speaks, and only for its own connection; and a
library that is shut down has no instances left (`ShutMeansEmpty`), also for the connections that
had no part in its failure. `EveryVerifier` combines it with `Decision`: whoever passes
has heard all verifiers, and each that was heard has an instance.

The two sides' bookkeeping agrees by a second invariant, `MInv`. `ErrorsMatch` ties the server's
flag to the library's map, except for the IMV whose library is running: there the
instance goes first and the flag follows when the call returns (`ErrorsMatchInstances`).
`RoundsKept` ties the library's round to the server's batches with two regions
excepted: the instances that the HANDSHAKE loop has not reached (`Behind`), and those that the
loop of `batchEnding` has passed (`Ahead`), which are one batch ahead of the server
(`RoundsCountBatches`).

**`VpnPep_proofs`.** `Invariance` is `Spec => []SInv`. `ScriptsAreAwaited` counts:
scripts running or ended are as many as threads waiting, so neither thread waits for
ever although they take each other's. `OnlyStale` is `Spec => RevokesOnlyStale`: by
`StampsAreAges` a stamp and a small age add up to the present minute, in this hour
or the next, and by `ClockOfPass` the clock a pass has read is at most a minute
behind, so a difference beyond `MaxAge` means age, unless the hour began anew
since the pass read the clock. `FoundIsOverdue` carries that over the window without a lock: the
endpoint is still overdue when the script starts, unless its stamp is another one by then.

**`Coordinator_proofs`.** For any libraries, files, endpoints and number of
lives. `LifeInv` is the inductive invariant. `CallsFindTheirLibrary` needs that a live
entry's library is initialized under its id (`LiveLibrariesBind`) at every point of
loading and terminating, whatever is done to other entries of the same library: it is
bound under one id, so that only one of them lives (`OneLivePerLibrary`). `LoadsAgain` needs the converse: a
library that is initialized, and has a `TNC_IMV_Terminate`, is in use by an entry
(`InitializedIsInUse`). `StoredMeansAsked` needs that a name has a place (`NamesHaveAPlace`):
it is stored only while there is an IMV with the id 0, and a fatal error leaves the entry in the map.

**`TnccsBatch_proofs`.** For any IMVs, documents, clients and bounds. `NumbersCount` says
that in an open handshake the outgoing number is the length of the conversation, the
incoming one less by one, and `isFirst` true exactly before the first. From it follow `Lockstep`
and the refinement (`Implements`): a refused document and an unanswered one break the
conversation, `AnswerMessages` and `AnswerRecommendation` exchange, everything else
stutters. `AssignedShape` and `AnswerShape` say that batches stay records, which the provers need.
`IInv` adds what is needed about the client. By `ByTurns`, in an undisturbed handshake either the
client is about to send, and its number is the one that is due, or its document is on
the wire and has it, or the answer is on its way back; documents of earlier sessions may be
anywhere, but none is of a later one (`WireOK`). `HonestGoesOn` follows: only
another document than its own makes the server refuse. `Heard` gives for each IMV the chain of what it
heard after each document, which is what a fold means without induction (`SharesAreHeard`).
Assumptions: types of messages are pairs, `Documents` are those a client may send, and an IMV may say
nothing.

**`EapTnc_proofs`.** For any payloads, fragment sizes, modes, junk and any endpoints beside the honest
ones. `TypeCorrect` is `Spec => []TypeOK`. The invariant `EInv` says where an honest exchange stands:
`Resting` and `Quiet` (nothing under way to the server, to the endpoint), `Sending(c, q)` (the
buffer holds a prefix of the endpoint's last batch, and the fragments `q` that are
still to come hold the rest), `Hearing(c, q)` the same of the server's. At each of the
places a packet may be (`AtServer`, `AtPeer`) one of few combinations holds. `Carries` says
that fragments carry the rest of a batch by the offsets at which they begin, with the flags
the header must have; `Cut` of the server and of the endpoint give such sequences (for the recursion
over offsets the proof takes the least offset that fails). A step of one endpoint
leaves all of another's alone (`UntouchedKeeps`), but for a crash, which `Kept`
survives. `HandedOverWhole`, `ReceivedWhole`, `RefusedOnlyAtTheEnd` follow from
`EInv`, `NothingIsLost` from the shape of the two sides.

**`NaaVpn_proofs`.** For any clients, any table of networks and any bounds. The invariant is `VInv`.
A connection is served once, and none is newer than its client knows (`Sessions`);
the phase, the reply and the decision of the session belong together (`Turn`); while the notifier is
about to call, or waits, the connection is decided and nobody has been told. `OnTheWay` is
the centre: a recommendation that a client has not read is the decision of its newest session,
as a new connection begins with an empty stream and an overtaken session cannot write.
`VersionFirst` keeps version and batches apart for vpnclients. `GateImplemented` maps
the steps to `PepGate`. That `PepForEndpoint` finds the point that `ResponsiblePep` means is
arithmetic: clearing the low bits of an address gives the one network without low bits that is less than a host's
number away (`Cleared`, `Near`), and the first match of the table is the least index.
The assumption that powers of two are positive is arithmetic that the provers do not know.

**`ImcImv_proofs`.** For each of the six pairs, any endpoints, policies, certificates, registers, versions
and ports, and any number of handshakes. `Invariance` is `Spec => []IInv`, of five parts:

- `HInv`: types, and that an instance is missing exactly when the IMV's flag says so.
- `MInv`: where messages are, and that what was sent has the form its functions give it. Nothing is left
  in a batch when the recommendation is asked for, and no answer is under way before something was heard.
- `RInv`: both libraries count the batches of the handshake from its beginning, at each point of it.
  `RoundsAreOne` follows.
- `EInv`: what the IMV's instance has learnt in this handshake, whatever late batches and other functions brought.
  A platid instance that has sent a nonce holds a certificate and a nonce of this handshake.
  An attestation instance that still trusts its endpoint has asked for the register at
  `current` with a nonce of this handshake, and a quote has told each register before
  (`Asked`, `Told`), so that after the last one all are told; or nothing was asked of the first
  certificate it heard (`AttestationKnows`). `AccessEarned` follows.
- `CInv`: of an undisturbed handshake of a compliant endpoint. Conversations of these pairs have
  one message at a time: either the IMV's inbox has the message that is due (`Due`), or a request that the IMC
  can answer is under way (`Asking`), or the IMV has made up its mind (`Settled`), or the
  server has its verdict. The IMC's instance survives handshakes, which is why `Remembers` says what
  it keeps. `CompliantAllowed` follows. It needs that two sequences of
  the same registers in ascending order are the same: the order of the TPM is unique.

`PromiseKept` maps the steps to `AccessDecision`. Assumptions, at `ImcImvAssumption`: policies have the
types their parsers give them; one that asks for single quotes lists a register
(`AttestationIMV.cpp:132` takes the first of the vector); what is no certificate is on no list of
certificates; batches of other functions are sequences, of well-formed reports for clamav; and
the numbers of versions are those below 100, for which `ClamavPair` knows the order of strings. One step for each action, one lemma for each pair's answer (`ExampleResult`,
`DummyResult`, `PlatidResult`, `AttestationResult`, `ClamavResult`, `HostScannerResult`).

**Induction.** The library's induction theorems take an operator as a parameter and cannot be used;
where a fact needs induction over numbers, the proof takes the least number that fails (`LeastElement`, from
the well-foundedness of `<`).

**Only model-checked:** liveness (`CallsReturn`, `HandshakeEnds`, `OnlyHoldersBlock`,
`StaleIsRevoked`), which is out of the provers' reach. Every invariant and every action
property of a passing run is a theorem. Libraries that lack NotifyConnectionChange or BatchEnding are
covered by the proofs alone, those that lack ReceiveMessage also by `tncs_two`.

## 6. Not modelled

- XML, XACML and MIME text, the lines of `tnc_config` and of the pairs' configuration files:
  their contents are parameters. The PDP's socket exchange beyond its three outcomes.
- `SOH1Protocol`, the handler for Microsoft's SOH, which `Connection`'s constructor
  leaves out of the chain; `requestHandshakeRetry`, which only logs; attributes other than the
  user name.
- tncsim, a loop over client and server that keeps no state; tncutil; `TNCMockClient`, which
  sends fixed bytes.
- Sockets that the host scanner leaves open at closed ports, and the second deletion of a
  certificate that the attestation IMC failed to load.
- A restart of vpnpep over the firewall its predecessor left.
- The TPM, OpenSSL, FreeRADIUS and libtnc are not in the repository; definitions for them are marked
  external and say what the code expects of them.

## 7. Plan

1. `NaaVpn` composed with `VpnPep`, so that what the gate knows becomes rules of the firewall, and a
   theorem that the composition implements the gate.
2. `ImcImv` composed with `TnccsBatch`: the batches of a pair as documents with numbers.
3. `EapTnc` shown to implement an abstract channel for whole batches, from `EInv`.
