# Verification of swu-go

swu-go is a user-space VoWiFi client: it builds an IKEv2/IPsec tunnel from a
device with a SIM to an operator's ePDG and keeps it alive. This directory holds
TLA+ models of its control plane and of the kernel state it manages, TLC runs on
small instances, and TLAPS proofs.
`PROJECT.json` lists every run, the source lines behind every definition, the
hazards and the findings. Paths below are relative to `src/pkg/`.

## The system

| Part | Code | State | Operations |
|---|---|---|---|
| Request window | `swu/window.go` | requests in flight by message ID, queue, deadlines, completion channels | enqueue, answer, retransmit, give up, cancel |
| Encrypted exchange | `swu/session.go` (`sendEncryptedWithRetry`), `swu/msg_handler.go`, `swu/ike_control.go` | `SequenceNumber`, `ikePending` | encrypt, register, wait; dispatch responses; MESSAGE_ID_SYNC |
| Rekey | `swu/state_rekey.go`, `swu/state_rekey_ike.go`, `swu/ike_control.go`, timers in `swu/session.go` | `rekeyMu`, `lastRekeyTime`, child SA pair, IKE keys, failure counts, kernel states | active and passive rekey of both SAs, Delete, expire events |
| DPD | `swu/informational.go` | `lastInboundTime`, probe under way | probe, give up |
| Fragmentation | `swu/fragment.go`, `swu/msg_handler.go` | fragment sets by message ID | cut, add, reassemble |
| Connection | `swu/session.go` (`Connect`, `connectOnce`), `state_init.go`, `cookie.go`, `state_resume.go` | negotiation state, cookie and redirect counters, ticket | IKE_SA_INIT, COOKIE, INVALID_KE_PAYLOAD, REDIRECT, resume, reauthenticate |
| IKE_AUTH / EAP | `swu/state_auth.go`, `swu/challenge_mode.go`, `eap/` | EAP state, keys, assigned addresses | AKA, AKA', fast re-authentication, final AUTH |
| MOBIKE, NAT | `swu/mobike.go`, `swu/session.go` | socket, addresses | update addresses, keepalive |
| Lifecycle | `swu/session.go`, `swu/manager.go`, `swu/ike_control.go` | context, `done`, session map, dispatcher | start, stop, shut down, reauthenticate, clean up |
| UDP socket | `ipsec/socket.go` | ePDG addresses and port, reader, channels of IKE and ESP packets | send, receive, stop |
| Network configuration | `swu/session.go` (`setupXFRMDataPlane`, `applyNetworkConfigOnTUN`, `rekeyXFRMSA`, `cleanupNetworkConfig`), `driver/` | `netUndos`, `xfrmPolicies`, remembered addresses; in the kernel: interface, SAs, policies, rules, routes | configure, replace, move, undo, flush |
| Algorithms of the SAs | `ikev2/proposal_parse.go`, `swu/state_init.go`, `swu/state_auth.go` | the suites in use | offer, accept, offer again at a rekey |
| Traffic selectors | `swu/routes.go`, `swu/selector.go`, `swu/session.go` | — | routes of a selector, match a packet |
| User-space data plane | `ipsec/`, `swu/dataplane_netstack.go` | SA sequence numbers, packet queues | encapsulate, decapsulate, select an SA |
| Codec, crypto, SIM, logging | `ikev2/`, `crypto/`, `sim/`, `logger/` | — | pure functions and device I/O |

A session runs these goroutines: the window's loop; the dispatcher, which hands
responses to the window by message ID and serves the peer's requests itself; the
IKE and child rekey timers; the kernel expire monitor, which starts a goroutine
per event; DPD; NAT keepalive; the data plane. They share the `Session` fields.
Some are protected (`tm.mu`, `rekeyMu`, `ikeMu`, `fb.mu`), most are not.

What is hard here: the message-ID counter shared by all senders; state read before a
request and used after its answer, with the dispatcher running in between; rekeys of
both sides crossing; a lock held across two network exchanges; timers that reset each
other; keys replaced under requests still being retransmitted; fragments out of order;
handshake requests that all carry message ID 0, so that late answers match newer
requests; session fields that survive a redirect or a reauthentication; a dispatcher
goroutine that outlives, or does not outlive, the socket it reads; channels that are
closed by one goroutine while others send or close; kernel state built up call by call,
any of which may be refused, and changed by rekeys and address updates that no lock
separates from the cleanup.

## Modules

| Module | Models | Used by |
|---|---|---|
| `RequestWindow` | what a window promises: submit once, wait in order, fly, be resolved once | `TaskManager` (refinement) |
| `TaskManager` | `window.go`, every method | `MCTaskManager`, `IKERequests`, `TaskManagerProofs` |
| `IKERequests` | `sendEncryptedWithRetry` on top of the window, the dispatcher's response half, the other writers of the counter | `MCIKERequests`, `IKERequestsProofs` |
| `Rekey` | active and passive rekeys, Delete, DPD, failure counting | `MCRekey`, `RekeyProofs` |
| `RekeyTimers` | the two timers against a clock | `MCRekeyTimers`, `RekeyTimersProofs` |
| `Fragmentation` | reassembly of SKF fragments | `MCFragmentation`, `FragmentationProofs` |
| `EAPAuth` | `handleEAP`, the re-authentication context, the AAA server (external) | `Connect` |
| `Connect` | `Connect`, `connectOnce`, `state_init.go`, `cookie.go`, `state_resume.go`, the dispatcher's life, and `EAPAuth` inside IKE_AUTH | `MCConnect`, `ConnectProofs` |
| `DataPlane` | set-up of the XFRM and TUN data planes, `rekeyXFRMSA`, `updateXFRMState`, `cleanupNetworkConfig`, and the driver calls they make; the kernel (external) | `MCDataPlane`, `DataPlaneProofs` |
| `Lifecycle` | `Connect` and its attempts, `SessionManager`, the socket with its reader and channels, the dispatcher, the ESP receiver, `UpdateAddresses` | `MCLifecycle`, `LifecycleProofs` |
| `Proposals` | the algorithms offered, accepted and offered again | `MCConnect`, `ConnectProofs` |
| `UDPSocket` | the addresses and the port of `socket.go` | `MCConnect`, `ConnectProofs` |
| `FragmentCut` | `fragmentMessage`, `buildSKFPacket` | `MCFragmentation`, `FragmentationProofs` |
| `Selectors` | `routes.go`, `selector.go`, the routes of `applyNetworkConfig` | `MCDataPlane`, `DataPlaneProofs` |
| `TaskManagerProofs`, `IKERequestsProofs`, `RekeyProofs`, `RekeyTimersProofs`, `FragmentationProofs`, `ConnectProofs`, `DataPlaneProofs`, `LifecycleProofs` | theorems about the module of that name; `FragmentationProofs` also about `FragmentCut`, `ConnectProofs` also about `EAPAuth`, `UDPSocket` and `Proposals`, `DataPlaneProofs` also about `Selectors` | |

`Proposals`, `UDPSocket`, `FragmentCut` and `Selectors` have no variables. Each states
one formula over all its inputs (`EveryIKESuiteOfferedAgain`, `OneServerInEveryHistory`,
`EveryMessageReassembles`, `EverySelectorRouted`); the MC module of the component it
belongs to states it of that component, so that a run of it checks the formula.

Definitions whose comment starts with "Mutant" are faulty variants of the
definition after them. No specification uses them; each property is shown to
fail when its variant is put in place of the code's behaviour.

**TaskManager.** One action per method, each atomic because the code holds
`tm.mu`. `pending`, `queue`, `retryCount` and `ch` are the Go fields; `due` stands
for "the deadline has passed"; `sends` counts transmissions; `broken` records what
would panic or block in Go. Callers are only asked for a free message ID
(`FreeID`).

**IKERequests** replaces that obligation by the code of the callers: a call takes
its ID while encrypting (`encryptAndWrap`), reads the counter again (`loadMsgID`),
registers (`enqueue`) and waits (`return`). Calls of one goroutine are serial;
`Goroutine` partitions the calls. Any packet that was sent may be answered, again
and again. `switchIKESA` is the end of an IKE rekey of the session: two calls of one
goroutine, the first of them answered, then the counter is 0 again while the window
and the answers under way stay.

**Rekey.** A worker is a timer or the goroutine of an expire event. It waits for
`rekeyMu`, checks, sends, waits, and applies the response; the IKE rekey waits a second
time for its DELETE. The dispatcher's handlers are single actions because they do not
wait, except that a peer's rekey of the IKE SA blocks the dispatcher on a lock it holds:
`Next` has the step up to there, `NextPassiveIKE` also the step that would follow. An
SPI is known by who allocated it. `kernel` is the set of XFRM states; adding one may
fail. An IKE SA is a number. `ikeSA` says whose keys and SPIi the session has, `spir`
whose SPIr: `decryptAndParse` copies the SPIr of any packet before it knows whether the
packet decrypts, so every action that takes one in sets it, and
`handleIncomingInformational` takes in packets of the present IKE SA, of those the peer
still has, and delayed ones of earlier ones. A request is sent with the SPIr of the
moment (`send`, `sendDPD`) and only the IKE SA to which both belong can answer it.
`strayed` is history: a packet of another IKE SA was parsed since the switch. The
TEMPORARY_FAILURE answer changes no state and is the missing disjunct of
`handleIncomingCreateChildSA`. Expire events come from the kernel (external); the
current configuration sets no limits, but the handler is there and is exported to other
callers as `RekeyChildSA`.

**RekeyTimers.** Seconds, from event to event, with jitter from a small set that
has both ends of its range. A timer set to a moment that has passed, as an interval
shorter than its jitter does, fires at once (`due`).

**Fragmentation.** Fragments are identified with the message and the cut they
belong to; every fragment sent may arrive any number of times in any order, or not
at all.

**EAPAuth.** Key material is known by its origin: an MK by method, vector and the order
in which IK and CK were hashed, an MSK by the PRF and the MK it was expanded with. The
server takes in the client's last answer when it sends its next request. `aaa.order` is
the order it hashes IK and CK in, chosen at the start: the client tries both for the MSK
(`tryOrders`), or takes the first if `EAPMACValidation` is off, and then has the wrong
K_aut for a server of the other order. The MK of a pseudonym is always hashed in the
first. The server's key after a fast re-authentication is the one of RFC 4187, with
counter and NONCE_S (`reauthKey`); the client expands the bare MK.

**Connect.** `pc` follows the goroutine in `Connect`: `start` (a new attempt),
`resumeWait`, `resumeAuth`, `initSend`, `initWait`, `auth`, `final`, `up`,
`returned`, or `panicked` for a second `close(s.done)`. `disp` is the dispatcher:
not started, receiving on the channel of one socket, busy with a packet (it looks up
`s.socket` again afterwards), or gone. Datagrams in flight are bags, so a
retransmission may be answered twice and differently; an answer carries the request
it answers. Random values are numbered by `fresh`; a cookie is the nonce it was
computed from; a ticket is a number. Encrypted exchanges are single steps that need
equal keys on both sides and a dispatcher on the socket. `NewKeys` drops the datagrams
still in flight: no request with ID 0 is open from there on, and an answer that
arrives during IKE_AUTH is parked. `repeatedCookie` and `burnt` are history.

**DataPlane.** Every kernel call of the set-up is a step of its own, accepted or
refused; `todo` is what is left of it and `undos` is `s.netUndos`, filled in the
code's order (the rules' undo before the rules, an optional policy only if it was
installed). A cleanup undoes one entry per step, then flushes by address. The rekey
goroutine and the one of an address update work beside it, with the addresses they
read when they began. The kernel is external: it identifies an SA by SPI and
destination, an update of an SA needs it to exist and keeps its addresses, an update
of a policy creates it, and removing an interface removes its addresses and routes.
`XFRMIfID` is taken to be configured. Two sessions share the kernel, their local
address possibly too. `failed`, `late`, `robbed` and `reverted` are history: they name
the circumstances under which the code does not keep its kernel state in order (see
below), which the two properties except.

**Lifecycle.** The concurrency of one session around its exchanges: `pc` is the
goroutine in `Connect`, `reader` the `readLoop` of each socket, `disp` the dispatcher
with the socket whose channel it waits on (`dispSocket`: it looks `s.socket` up once
per packet), `rx` the ESP receiver of the TUN or netstack mode, `mobike` a call of
`UpdateAddresses`. A handshake only has an outcome, a message is a token in the bounded
`IKEChan`. `ikeMu` is held for long only by `UpdateAddresses`, while it stops the old
socket. Go's `select` picks any ready case, so the receiver may take the send on a
closed channel. `panicked` names the close or send that ended the process. The session
whose ID `SessionManager` starts first is modelled in full, later ones only in the
manager's maps; `Stop` cancels after it has given up the lock.

**Proposals.** Transforms of the code's tables by name; a configured proposal is its
cipher, the words between and its group. `Responses` is every choice an ePDG may make
from an offer. `RekeyOffersTheSuite` relates the configuration, that choice, the IKE suite
kept, and the offer of the IKE rekey an hour later. The offer of the child rekey does not
keep to the negotiated suite; `childSuite` and `rekeyChildOffer` serve the theorem that
says when it does.

**UDPSocket.** `SendIKE`, `readLoop` and `SetRemotePort` as functions on a record,
which every history of calls and datagrams up to a bound goes through.

**FragmentCut.** A request (responses are sent whole, `session.go:1990`) is the sequence
1, 2, ..., so that each byte says where it belongs. The slices handed to
`buildSKFPacket` share one backing array, whose spare room is a parameter: that decides
whether Go's `append` overwrites it.

**Selectors.** Addresses of `Width` bits, IPv6 with two more and with the IPv4-mapped
addresses inside, as `net.IP` treats those as IPv4. The reference for the routes is the
match of a packet against the selectors.

## Runs

All bounds are constants of the modules. CHECK_DEADLOCK is off everywhere:
requests are enqueued once, budgets run out, and a cancelled session stops.

| Run | Bounds | Shows |
|---|---|---|
| `window` | 3 requests, 3 IDs, 1 slot, 1 retry | bound, no lost waiter, queue not stranded, channels completed once, retry budget, completion is final, every request resolved although the peer may never answer, refinement of `RequestWindow`. Two requests can queue behind the slot, so their order matters; the proofs cover other sizes |
| `requests_serial` | 1 goroutine, 3 calls, and either a Delete notice, a MESSAGE_ID_SYNC or an IKE rekey | each call gets its own answer while calls alone move the counter, and after a rekey, at worst, a late one of the old IKE SA with the same ID; a call whose counter was moved is delayed, not lost. `ResponseIsMine` speaks of waiting calls: what is put into the channel of a call that a cancellation has ended is not read. Three calls are an IKE rekey with its DELETE and a call after it |
| `rekey` | 2 timers, 1 expire goroutine, 1 child and 1 IKE rekey of either side, Deletes and other requests of the peer at any time, packets of the IKE SA before, 2 failures, DPD | one exchange at a time, none in the cooldown, collisions refused, memory, kernel and peer agree on the SAs, DPD ends no healthy session under the keys in use, a dead peer is noticed. One rekey of each kind reaches every crossing of two; the bounds are small because liveness is checked over them, and the safety properties are proved for all |
| `timers` | 3 jitter values, 1 rejection, 1 passive rekey, AUTH_LIFETIME 20 and 457, about four rekey periods | rekeying goes on within an interval and a cooldown of the last renewal, also with 20 s, where the intervals are shorter than jitter and cooldown, so that timers fire at once and skip; with 457 s, undisturbed, the IKE SA is renewed in time although child rekeys postpone it. 457 s is the shortest lifetime for which this holds with every jitter: below, a late child rekey can postpone the IKE timer beyond the lifetime |
| `fragments` | 1 ID for requests and responses in 2 or 3 pieces, limit of 2, an IKE rekey | a reassembled message is complete and of one cut, no complete set stays behind. Of the requests the session cuts (GCM and CBC with blocks of 4 bytes, MTU 17 to 22, messages of up to 30 bytes in up to 6 pieces, arrays with up to 5 bytes to spare: every residue of block and fragment size) the peer gets every byte back, but for the bytes CBC padding overwrites, and no packet exceeds the MTU |
| `connect` | 2 DH groups, 1 redirect, 1 COOKIE retry, 1 retransmission, 2 demands (COOKIE, INVALID_KE_PAYLOAD, REDIRECT or reauthentication), 1 ticket, 2 challenges, 3 EAP rounds | answers in flight do not mix key material unless a COOKIE repeats; a ticket given up is not presented again; after a challenge that the server accepted the final AUTH has its key, whatever went before and whichever order it hashes in; RAND and RES in `Status` belong together; `Connect` comes up or returns. Two demands suffice for a group change followed by a COOKIE, a duplicated COOKIE or REDIRECT, or a reauthentication with ticket or pseudonym of the attempt before. Besides: for every configuration of `Configs` (none, or one proposal of 4 ciphers, 6 sets of middle words, 4 groups) the IKE suite negotiated is one the IKE rekey offers; with 2 ePDG addresses, over all histories of up to 5 calls and datagrams, the session talks to the first that answers |
| `dataplane` | 2 sessions, 2 local addresses, 1 gateway, 2 SA pairs, 1 address update, 1 refused call | from whatever stage of the set-up, and whatever rekeys and address updates did, a session that is down left nothing in the kernel; policies and SAs of a session that is up belong together. One refusal reaches every partial set-up; two pairs give a rekey, a second session, or a second set-up of the same one. Also passed, but too long for a routine run: three pairs with either the refusal or the address update, and three pairs, one update and two refusals for one session. Besides: for every selector over addresses of 3 bits the routes are networks, hold the range once, and agree with the match of packets |
| `lifecycle` | 3 data plane modes, 2 sockets, 2 sessions of one ID, channels of 1 message | which closes and sends can panic, that dispatcher and receiver attend to the socket of a session that is up, no session is lost between Start and Stop, a cancelled session comes to rest from any step, an address change returns. Two sockets give one redirect, reauthentication or move after the first attempt, and their crossings |

### Where code and comments disagree

Each of these runs checks what a comment, the README or an error path says, and
TLC shows a behaviour of the code that contradicts it (quotations in
`PROJECT.json`):

* `requests_mixup`: two goroutines encrypt, then both read the counter; both
  register under the same ID and one gets the other's answer.
* `rekey_passive_ike`: the dispatcher locks `rekeyMu` twice and stops for ever.
* `connect_dispatch`: the dispatcher is started once per session and ends with the
  first socket, so IKE_SA_INIT to the gateway of a REDIRECT, or after a
  reauthentication, has no receiver unless the old dispatcher happens to be busy at
  that moment.
* `fragments_request`: the payload type is taken from the fragment that arrived
  last.

The models show further behaviour of this kind, which the properties leave room for
(the hazards in `PROJECT.json` say where a property stops because of it).

Requests, rekeys, timers and fragments:

* several requests dropped in one pass release one queued request (`window.go:160`).
* the forward-only adjustment of the counter is a check followed by a store
  (`ike_control.go:187`).
* a late answer of the old IKE SA completes the request of the new one with its ID
  (`state_rekey_ike.go:203`).
* the request whose registration is overwritten waits until the session ends
  (`window.go:128`).
* the passive child rekey swaps the two SPIs (`ike_control.go:433`).
* after a Delete a new child SA is not installed in the kernel
  (`ike_control.go:468`).
* a skipped rekey and a child rekey clear the IKE failure count and cancel its retry
  (`session.go:897`, `state_rekey.go:260`).
* an ESP Delete between request and response of a child rekey is a nil dereference
  (`state_rekey.go:230`, the state `panicked` of `rekey`).
* a probe under keys an IKE rekey retires ends a healthy session
  (`informational.go:96`).
* a packet of another IKE SA, delayed, or sent because the DELETE was lost, sets
  `s.SPIr` before it is verified (`msg_handler.go:17`); the peer then drops what the
  session sends, DPD probes included, and a healthy session is ended although
  `informational.go:98` judges the peer unreachable (`strayed` in `rekey`).
* only the first fragment of a response is delivered (`ike_control.go:52`).
* one buffer serves two ID spaces and survives an IKE rekey (`fragment.go:58`).
* the child timer, due after the IKE timer, falls into its cooldown and skips, so
  that with AUTH_LIFETIME 480 the child SA is not renewed before 775 s
  (`session.go:561`).
* two calls registered under one ID do not break the window, but the first is never
  resolved.

`Connect`:

* a session that comes up again after a reauthentication panics at its end, and one
  that never comes up leaves `WaitDone` blocked (`session.go:611`).
* the COOKIE count of one gateway is still there for the next (`cookie.go:31`).
* a REDIRECT in the response that ends EAP is dropped (`session.go:513`).
* a cancelled resumption discards its ticket (`session.go:366`).
* a reauthentication with a ticket resumes instead of authenticating.
* a fast re-authentication, which the repository's README lists (line 17), ends in a
  refused final AUTH: the client expands the MSK from the bare MK
  (`state_auth.go:818`), and with a server that hashes CK first it has stored another MK
  (`state_auth.go:544`). `FinalKeyAgrees` is therefore about challenges.
* resumption needs `PRFAlg`, which only an earlier attempt of the same process sets
  (`state_resume.go:107`), and its answer reaches the dispatcher only through a
  transport of `TransportFactory`, as `looksLikeIKE` knows no IKE_SESSION_RESUME
  (`../ipsec/socket.go:407`).

`Lifecycle`:

* the dispatcher waits on the closed socket's channel after an address change until
  it has handled one more packet (`ike_control.go:31`); nobody receives ESP on the new
  socket, nobody stops it, and the deferred Stop closes the channels of the old one a
  second time (`mobike.go:67`).
* in the netstack mode a second establishment finds `innerClosed` closed, and a
  receiver with a packet in hand may send on `innerRx` after its close
  (`dataplane_netstack.go:33`).
* an ICMP error on the socket ends its reader for good (`../ipsec/socket.go:189`).
* a session whose handshake fails returns from `Connect` without cancelling its
  context, so that the dispatcher goes on, and stays in the manager's maps until Stop.
* a Shutdown before `Connect` has set `s.cancel` is lost (`session.go:1048`), and
  `SessionManager.Stop` does not wait for the session to end.

Algorithms, sizes, selectors:

* a child rekey always offers AES-CBC-128 with SHA-256 and AES-GCM-128, whatever
  IKE_AUTH negotiated, although the comment there says it is the offer of IKE_AUTH
  (`state_rekey.go:48`).
* `ESPRekeyPFS` is documented to add a group to the child proposals (`config.go:74`)
  and is only logged.
* the first of the default proposals offers group 15, which `NewDiffieHellman` does
  not know; without `AutoPRF` proposals lack a PRF and their choice is refused.
* an unknown word in one configured proposal discards the whole configuration for the
  presets (`state_init.go`); `ecp384`, the example in `config.go:70`, is one.
* with CBC the padding of a fragment overwrites the next chunk in the shared array
  (`fragment.go:229`), so that the message arrives damaged.
* the marker that `SendIKE` puts before packets to port 4500 is not in `ikeOverhead`.
* an IPv4-mapped single address gives a route with a mask that IPv4 does not have;
  IPv6 ranges give no route.
* a late datagram from port 500 moves the remote port back after a NAT was detected.

`DataPlane`:

* a rekey at work during the cleanup adds SAs after the flush (`session.go:664`).
* an address update after a rekey restores the templates of the old pair, as
  `xfrmPolicies` is never refreshed (`mobike.go:234`).
* `FlushByIP` takes the SAs of every session at the local address
  (`session.go:669`).
* a change of the local address fails at the inbound SA, which the kernel knows by
  its destination, with the outbound one already updated and the caller told nothing
  (`mobike.go:227`).
* an optional policy refused at set-up is created by the next rekey without an undo
  (`session.go:1390`).
* a TUN device is closed after set-up errors only, and its reader (`session.go:1823`),
  which waits for neither context nor socket, stays with it.

## Fairness

`TaskManager`: the 500 ms ticker fires, `windowLoop` takes a select case that stays
ready, deadlines pass. `IKERequests` adds that a runnable call runs. `Rekey`: runnable
goroutines run, requests end (the window guarantees that, see `EveryRequestResolved`),
timers and the cooldown expire, and `sync.Mutex` is fair to waiters, which Go's
starvation mode provides (strong fairness of `lock`). `Connect`: the goroutine in
`Connect` goes on while it can, timeouts of the window included, and the window's ticker
retransmits; the property is conditional on finitely many demands of the ePDG, because
neither INVALID_KE_PAYLOAD retries nor EAP rounds are limited. `Lifecycle`: goroutines
that can run do, a read on a closed `Conn` fails, and exchanges end (the window again);
a cancelled `Stop` call finishes. Nothing is assumed of the peer, the network, the
dispatcher, the callers or the kernel.

## Proofs

A run checks an instance; the theorems below hold for every value of the constants
that meets the assumptions of the modules. Every safety property of a passing run is
proved; the end of this section lists what is left to TLC.

Four of these properties are about what a loop of the code computes: the packets of a
history, the proposals of a configuration, the fragments of a message, the routes of a
range. The modules write such a loop as a recursive function on an interval of
numbers, and the proofs about it have the same shape. `LeastElement` (a set of natural
numbers that is not empty has a least one, from the library's `WFMin`) first shows
that the recursion has a solution, and then that an invariant holds of every part of
it: were there a first part without it, the one before would have it, and one turn of
the loop preserves it. The invariant and its one-turn lemma are named below.

`TaskManagerProofs` proves for every set of requests, finite set of IDs, window
size and retry limit what `window` checks on its instance: type correctness and
`WindowBound`, `NoLostWaiter`, `QueueNeverStranded`, `NeverBroken`, `RetryBudget`,
the action property `CompletedIsFinal`, and that every step refines
`RequestWindow`. Assumptions: `WindowSize > 0` (`NewTaskManager` raises it to 1),
`MaxRetries` a natural number, `None` no request, finitely many IDs.

The inductive invariant is in two layers. `Slots` needs no promise of the callers: what
is in `pending` is open and sits under its own ID; what is queued is open, is not in
flight and occurs once; the bound; a non-empty queue has company. With it go `Budget`
(a request in flight was sent `retryCount + 1` times, a queued one never) and
`LoopOrder` (the loop has only exited if the context was cancelled). `Shape` adds what
rests on `FreeID`: open requests have distinct IDs, so no activation overwrites a slot,
the ID of a queued request is free, and no waiter is lost.

`IKERequestsProofs` is about any number of goroutines, calls, IKE rekeys,
retransmissions, answers and any window. What the code does not see to is a condition
on the steps, `Apart`: while a call is between its two reads of the counter nobody else
moves it, and it does not go back under calls that are under way. Without it the run
`requests_mixup` violates `ResponseIsMine`; with it, and with calls of all goroutines
waiting side by side, the property is proved. `RInv` says why: what answers and calls
are of the present IKE SA (`Present`), the ID read again is the one in the packet and
no other call under way has it (`OwnIDs`), no ID is used twice on an IKE SA while calls
alone move the counter (`FreshIDs`), and the window knows a call by that ID only
(`WindowKnows`).

It also composes the two modules. Under `Apart`, `FreeID`, which `TaskManager` only
assumes, is met until the session is cancelled, whatever Delete notices,
MESSAGE_ID_SYNC and rekeys do to the counter, because a call is over only when its
channel is: `CallersKeepToTheWindow`; hence `NoCallIsLost`, and the composed
system implements `RequestWindow` that far (`CallsImplementTheWindow`). After a
cancellation a call returns without waiting, its request may still be in flight, and
the next one may be given its ID. Without `Apart` `FreeID` fails, and answers
and waiters get lost; but `Slots` and `Budget` hold even then (`AnyIDNext`), so that
the window stays bounded, no channel is completed twice and no outcome changes
(`ConcurrentCallsKeepTheWindow`, `ConcurrentCompletionIsFinal`).

`RekeyProofs` proves type correctness and every safety property of the run `rekey`, for
any set of expire goroutines, any failure limit and any number of rekeys, IKE SAs and
Deletes: `TypeOK`, `OneExchangeAtATime`, `NoRekeyWhileCooling`, `IKESAKnownToPeer`,
`KernelHoldsCurrentPair` and the action properties `CollisionRefused` and
`DPDTimeoutMeansDead`. Assumptions: the failure limit is positive, workers, dispatcher
and SPIs are told apart. Its `IInv` adds four facts: the dispatcher holds `rekeyMu`
exactly while it is stuck (`DispatcherLock`), the next IKE SA is agreed before the old
one is deleted and only the IKE timer does so (`NextIKEAgreed`), a timer that still runs
has failures left (`FailuresLeft`, without which the count could leave its range), and
the SPIr of the session, and that in the header of a probe under its keys, is of the IKE
SA of the keys until a packet of another one is parsed (`Headers`). The lemmas
`ReturnsFacts`, `KernelUpdate` and `NewPair` state once what the shared tails of the
handlers do.

`RekeyTimersProofs` proves for every `AUTH_LIFETIME`, any jitter below 30 s and whatever
the bound on time, `RekeysGoOn`: a timer that finds the cooldown running is less than a
cooldown late, however often it fired, and only a renewal starts the cooldown
(`Renewals`). For an `AUTH_LIFETIME` of at least 457 s it proves `IKERenewedInTime`. `TInv`
distinguishes two states of the undisturbed timers: no child rekey since the IKE SA
was negotiated (`Fresh`), or one, from which both timers now run (`Postponed`), so
that the IKE timer comes next. A child timer that skipped was less than a cooldown
late; that bounds how far the two can drift apart (`Drift`). At 456 s TLC finds the
IKE SA older than its lifetime.

`FragmentationProofs` proves `OneCutPerMessage` and `NoCompleteSetStaysBehind` for any
number of messages, cuts and IKE rekeys (`FInv`: a set in the buffer lacks a piece, and
all its pieces are of its ID and total), and of the sending side, for a message of any
length, that the chunks cover it without gap, that no packet exceeds the MTU, and
that what the CBC padding overwrites lies less than a block behind the chunk. `Built`
says what the loop has done after some turns: sent the message up to the cut, and left
the array intact but for the bytes that the padding of earlier fragments hit
(`NextBuilt`). Hence, for every request, `PeerReassembles` (`RequestsReassemble`).
Assumption: the MTU leaves room for a block.

`ConnectProofs` has three invariants that do not depend on each other. `Tickets`: only
the ticket being given up becomes burnt, and it is never the next one; hence
`BurntTicketNotPresented`. `EAPInv`: as the server takes in an answer with its next
request only, the client's keys agree with the server that *will have* taken in the
answer under way (`Taken`); hence `IMSTupleMatches` and `FinalKeyAgrees`, for servers of
either hash order. The latter is about servers that accepted the client on a challenge;
after a fast re-authentication the keys differ. `Material`: whatever datagram or answer
of the present attempt is still under way was sent with the nonce and key the session
holds, unless a COOKIE was repeated; hence `SingleMaterialAgrees`.

Two more parts of `ConnectProofs` are about data. For the socket, any number of
addresses and histories of any length: before the first answer the index of the next
destination tells which addresses the last requests went to, and from the first answer on
one address is left (`TalksToOneServer`, `OneServer`). For the algorithms, any number of
configured proposals with any words, more than TLC's sets hold:
what parsing, the PRF that is added or filtered out, and the presets can put into an
offer is bounded type by type of transform; a choice of the ePDG is one of each type,
so the suite kept is one that the rekey offers again (`IKESuiteOfferedAgain`), and for
the child SA exactly two are (`ChildSuiteOfferedAgain`). The first gives
`RekeyOffersTheSuite`; the second is the limit of the child rekey, which the comment at
`state_rekey.go:48` does not name.

`DataPlaneProofs` proves `NothingLeftBehind` and `TrafficPathIntact` for any number of
sessions, addresses, pairs, address updates and refused calls. `DInv` is an account,
per session, of what it has in the kernel: where the set-up is (`Course`), where its SAs
are (`SAsKnown`), which undo belongs to every other entry (`Registered`), and what
traffic needs (`Path`). The argument that is not bookkeeping concerns
address updates: `FlushByIP` finds SAs by the remembered address, which an update
rewrites; but the kernel keeps the addresses of an SA it updates, and finds it by
them, so that an update can get as far as the policies only if it changed
nothing. Steps of other sessions are handled once (`Elsewhere`).

It also proves `RoutesMatchSelectors` for addresses of any width. The recursion goes from
the end of a range down. `Covering`: the blocks from an address on are aligned, and every
address up to the end is in exactly one. `Counting`: from an address aligned to
2^m there are at most 2 Width - m blocks, and at most m if less than 2^m addresses are left.
That holds because sizes first grow, as an address that is not aligned to twice
its block is followed by one that is (`AlignedNext`), and then shrink with the room;
together they bound the blocks by two for each bit (`RangesAreCovered`). The
arithmetic of powers of two comes from the size of a powerset (`Doubling`).

`LifecycleProofs` proves `NoSessionLost`, `PanicCauses` and `EstablishedIsServed` for any
number of sessions of an ID, attempts, sockets and any capacity of the channels, in
every mode. `LInv`: until `UpdateAddresses` replaces it, the socket of the attempt is the
one in use and nobody has stopped it (`OneOwner`); the channels the clean-up closes
are open during the first session (`ClosedOnce`); dispatcher and receiver keep to
that socket from the handshake on (`Attended`).

Only model-checked:

* all liveness properties (`EveryRequestResolved`, `EveryCallReturns`, `DeadPeerNoticed`,
  `ConnectSettles`, `Quiesces`, `UpdateReturns`): fairness and ENABLED are outside what this prover does.
* the violations.

## Not modelled

* Cryptography, byte formats (`ikev2` encoders and decoders, `looksLikeIKE`), SIM
  devices, logging: pure functions or device I/O without control of their own; see the
  components in `PROJECT.json`. Key derivation appears only as the origin of a key.
* ESP encapsulation in user space: counters of `ipsec/sa.go` and packet queues.
  Decapsulation keeps no replay window, so there is no state to be wrong.
* NAT keepalive, statistics, network events and the error-queue listener of
  `icmp_err.go`: goroutines that end with the context and on which nothing depends.
  The TUN reader (`session.go:1823`), which ends with neither context nor socket but with
  its device, and that is closed after set-up errors only: `Quiesces` does not include it.
* `shouldFragment`, an estimate; `ProposalMatcher`, `NetTxn.Rollback` and the undo list
  of `XFRMManager`, which nothing calls.
* Algorithms, MTU, sysctl and network namespaces of the XFRM driver.
* Unprotected reads of single fields are treated as atomic; the code's data races
  beyond that are not explored.

A type invariant is stated for the modules with proofs, which rest on it; elsewhere
the runs are spent on properties across components.

## Plan

What a next step could add:

1. An abstract specification for `DataPlane`, what was configured is removed at the end
   or was never there, with the account `DInv` as its refinement.
2. Where the excepted behaviours end: how much a refused deletion can spoil in
   `DataPlane`, and under what traffic a session with a strayed SPIr finds back.
3. The sequence numbers of `ipsec/sa.go` and the choice of an SA for a packet.
