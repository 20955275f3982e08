# Frankn: a TLA+ model of its protocols

Frankn lets a phone (the *client*) use a computer (the *host*) and, through the
host, the capabilities of further machines (*nodes*) over WebRTC data channels.
A *signaling server* carries the offers, answers and ICE candidates that set the
links up. This directory holds TLA+ modules that model the parts of the program
whose correctness is a matter of order and timing, the TLC configurations that
check them on small instances, and theorems about them that TLAPS proves for
every instance.

All paths below are relative to the repository.

## The system

| Part | Code | State it keeps | Operations |
|---|---|---|---|
| Host control plane | `frankn-host/src/app/{sessions,runtime}.rs`, `transport/protocol/{mod,node}.rs`, `capabilities/node/registry.rs`, `capabilities/registry.rs`, `transport/webrtc/connection.rs` | `peer_map`, `node_registry`, `capability_inventory`, `capability_sessions`, one task per link | Offer, handshake, teardown, login, register, heartbeat, activate, status, signal relay, deactivate, liveness monitor |
| Signaling server | `frankn-signaling-server/src/{main.rs,utils/mod.rs}` | `peers` (role, key, last sequence, pending clients, access list), presence subscribers | Register with a challenge, Offer/Answer/ICE relay with signature and sequence checks, presence, access-list updates, disconnect |
| Host signaling client | `frankn-host/src/signaling/mod.rs` | outbox lock, outgoing sequence, reconnect loop | send, ping, reconnect |
| Node runtime | `frankn-host/src/app/node_runtime.rs` | `active_sessions`, link to the host, heartbeat task | activate, deactivate, signal, heartbeat, reconnect |
| Camera broadcaster | `frankn-host/src/capabilities/camera/` | sessions per device, capture loops | subscribe, unsubscribe, capture |
| File transfer | `frankn-host/src/capabilities/fs/transfer/` | upload sessions, `.part` files, download tasks | init/resume, chunk, ack, finalize, cancel, cleanup on disconnect |
| Login and tokens | `frankn-host/src/auth/mod.rs`, `frankn-opaque/src/lib.rs` | pending OPAQUE logins, tokens | begin, finish, cancel for a link, verify, revoke |
| Client signaling | `frankn/lib/services/client_rtc/{signaling_outbox,websocket_transport,rtc_signaling}.dart` | outbox queue, inbound and outbound sequences | enqueue, flush, reset, verify |
| Client connection | `.../client_rtc/{rtc_connection,rtc,host_connection_state}.dart` | connection state, attempt generation, timers | connect, reconnect, time out, fail |
| Client capability sessions | `.../client_rtc/{capability_session_manager,node_peer_session}.dart` | sessions by id, a peer connection each | activate, status, signal, deactivate |
| Client transfers and sync | `frankn/lib/services/{transfer_engine,file_transfer_mixin,sync_service}.dart` | transfer queue, offsets | upload, download, resume |

The rest answers requests from the operating system (media, notifications,
processes, network, SSH), wraps an inference engine, reads configuration or draws
screens; it keeps no state that several actors race for. It is listed in
`PROJECT.json` as not modelled.

**How the parts interact.** Signaling hands an Offer to the host, which starts a
task for that link (`handle_new_connection`). Once data channels open, each
message runs a handler (`parse_dc_msg`) that looks the sender's session up in
`peer_map` by peer id. Handlers, link tasks and the liveness monitor share three
mutexes (`peer_map`, `node_registry`, `capability_sessions`) and the inventory. A
client's activation travels client -> host -> node, the node's status back, and
the two then negotiate a connection of their own by signals the host relays.

**What is hard.** Every `.await` is a point where the other tasks run. The three
locks are nested in different orders. Peers reconnect while their old link is
still being torn down, and state is found by peer id, not by link. Links fail in
any phase of the handshake. A node may fall silent. Messages and status reports
are in flight while the side they belong to is cleaned up.

**What makes each part correct.**

* Host control plane: `peer_map` lists live links only; no transport is left open
  that nobody will close; whatever way a link ends, its sessions, registration
  and provider entries end with it, and those of the link that replaced it do
  not; the tasks never wait for each other for ever.
* Signaling server: a message is relayed at most once per sequence number, only
  between peers the access list admits; presence converges to who is connected; a
  reconnected peer is never removed by its old connection.
* Node runtime and camera: a session that was deactivated is not left running; the
  device is released when the last session ends, and not before.
* File transfer: what is renamed into place is what was sent, whatever was
  retried, resumed or cancelled.
* Login: one token per completed login; a login begun on a link ends with it.
* Client: every attempt ends, in an authenticated link or in nothing; nothing of an
  old attempt acts on a new one; what the user ended stays ended.

## Modules

| Module | Models | Kind |
|---|---|---|
| `HostControl`, `MCHostControl` | the host control plane; symmetry of links | component |
| `SignalingServer`, `MCSignalingServer` | the signaling server and what its peers send; who registers where | component |
| `FileTransfer`, `MCFileTransfer` | uploads and downloads of one path; instances | component |
| `FileCopy` | what an upload promises: the file is replaced by one offered version, in one step | abstract specification |
| `NodeRuntime`, `MCNodeRuntime` | a node's control link, sessions and camera; symbols of the instance | component |
| `Login`, `MCLogin` | login and pairing, client and host | component |
| `ClientConnection` | the client's connection to a host | component |
| `CapabilitySession` | a client's capability sessions, from the screen over the host to the node | component, composes the messages of three |
| `HostControlProofs`, `SignalingServerProofs`, `NodeRuntimeProofs`, `FileTransferProofs`, `LoginProofs`, `ClientConnectionProofs`, `CapabilitySessionProofs` | theorems about each component | proofs |
| `QueueLemmas` | queues of messages, seen as the set of what is in them | lemmas |

In every module a step is what the code does between two points where something
else may run: an `.await` that can wait (Rust, tokio), the end of an event handler
or a wait for something real (Dart). Locks that are taken for one look are part of
the step; locks that are held across a wait are states of their own. Names of
variables and constants are the code's where there is one.

*History variables* record what happened and are read by properties only; no
action looks at them. They mark the situations in which the code makes no
promise, and each module's text says which those are.

### HostControl

A *link* is one Offer: the `PeerSession` it creates, its `RTCConn`, and the task
that runs `handle_new_connection` for it. The state is

* `pc`: where the task is. A program counter exists wherever the task may wait:
  for a lock, for the transport (`await`, the 100 ms poll), for the end of the
  link (`up`, `rx.recv()`). `old` is the session it replaces, `owner` its peer.
* `ice`, `wake`: `RTCPeerConnectionState` (new, connected, down; *Disconnected*
  counts as connected, as it may recover) and the one-place channel `rx`.
* `peerMap`, `nodeReg`, `inventory`, `sess`: the shared registries. `nodeReg`
  keeps which link a `NodeInfo.rtc_conn` belongs to; `inventory` which nodes have
  provider entries. `auth` is the role `AuthenticatedClient` of a session.
* `h`: the message each link's handler is working on, with what it captured (the
  session or connection it found, the provider it resolved).
* `asked`: activations that reached the node, so that only those are reported on.
* `mon`: the monitor, with the list it collected.
* `late`: a history variable, the sessions that were created or reported active
  while a side had no link left whose task would still sweep it.

Steps are critical sections. A section that takes one lock and does not wait
inside is one action. Where the code waits for a second lock with the first one
held, the wait is a program counter of its own and `HoldsAt`/`WaitsAt` say what is
held and awaited there; `Free` is the mutex. This gives the module both the
interleavings and the ways tasks block each other. The locks of a `PeerSession`, an
`RTCConn` and the inventory are left out: who holds one of them never waits for
one of the three.

| Code | Actions |
|---|---|
| `handle_new_connection`, sessions.rs:181-222 | `Offer` |
| replacing a session, 224-264 | `Retire`, `RetireSessions`, `CloseOld` |
| handshake, 390-500 | `Answer`, `Hook`, `Poll`, `Connect` |
| exits of a failed or late handshake, 427-443 and 501-516 | `Abort` |
| teardown, 518-617 | `Remove`, `Unregister`, `Broadcast`, `SweepLock`, `Sweep` |
| state callback and 15 s recheck, 449-466 | `Fail`, `Recheck`, `CloseOld`, ... (`Down`) |
| `parse_dc_msg`, mod.rs:33-91, 398-429 | `Parsed`, `Login`, `Recv...` |
| `handle_register`, node.rs:21-94 | `Register`, `Advertise` |
| `handle_activation_status`, node.rs:227-279 | `Report` |
| `handle_activate_capability`, node.rs:283-384 | `Resolve`, `Create` |
| liveness monitor, runtime.rs:103-162 | `MonitorCollect`, `MonitorSessions`, `MonitorRegistry`, `MonitorPeer` |

Left to nondeterminism: time (a silent node is any registered one in `Silent`, so
heartbeats need no action; the handshake deadline may pass at any poll), whether
the handshake's WebRTC calls fail, and what peers send. Left out: the wording and
delivery of replies to clients, the relay of `node_signal` and of deactivations
(they change no state of the host), the cleanup of uploads at the end of the
teardown, OPAQUE, and tokens (a request whose token is refused changes nothing).

Definitions whose comment begins with *Mutant* are slips a later change of the
code could make (a dropped removal, an early return, a guard kept too long). No
action uses them: each is substituted for the definition below it to show that
the property aimed at it would notice. The other modules have them as well.

### SignalingServer

One task per WebSocket connection. `pc` is where the task is between its critical
sections, `entry` and `subs` are the two maps (`peers`, `subscriptions`), `job` what
a handler remembers from one section to the next. `told` is the last presence sent
on a connection about a host. The sending ends are the host's and the client's
outboxes: `sent` counts the messages of a connection, and the next one is drawn
when the server reads it, with the sequence number the outbox gave it (`SeqAt`).

| Code | Actions |
|---|---|
| registration, main.rs:645-832 | `Register`, `Enter`, `Tell` |
| `UpdateHostAcl`, 325-409 | `UpdateAcl`, `SetAcl`, `FanOut`, `Tell` |
| `SubscribeHosts`, 267-297 | `Subscribe` |
| `verify_data_plane_message`, 54-224 | `Verify`, `Authorize` |
| Offer, Answer, IceCandidate, 425-605 | `Pend`, `Relay`, `Expire` |
| the end of a connection, 885-981 | `Leave`, `TimeOut`, `Remove`, `CopySubscribers`, `SendOffline`, `Unsubscribe` |
| a peer whose network vanishes | `GoSilent` |

History: `asked`, `offered`, `lapsed` (subscriptions, delivered Offers, windows that
closed), `refused` (messages taken for replays), and `crossed`, the peers two of
whose operations overlapped: an old task that outlives the registration of its
successor, or a second update in the middle of the first. `PresenceExact` and
`FreshAccepted` except those peers; for them the server sends notices in either
order, and reads and stores the last sequence on whichever entry is there.

### FileTransfer and FileCopy

A file is the sequence of its chunks, an inode is named after the upload that
created it. Each link has a command and a file channel whose handlers (`at`) run
side by side; `up` holds the session objects, `sessions` is `UPLOAD_SESSIONS`.
tokio's `File` is part of the model: a write is handed to the blocking pool
(`busy`), and its failure (`err`) is reported by the *next* write or flush
(`DiskWrite`). Actions follow `handle_transfer_init` (`InitStat`, `Open`, `Hash`,
`Insert`), `handle_transfer_chunk_raw` (`Lookup`, `Final`, `Skip`, `Write`, `Flush`),
`finalize_upload` (`Take`, `Check`, `Clean`, `Rename`), `handle_transfer_cancel`
(`CancelTake`, `CancelUnlink`), `cleanup_client_uploads` (`LinkDown`, `Sweep`) and
`stream_download` (`DownloadInit`, `DownloadHash`, `DownloadRead`, `DownloadSend`,
`DownloadEnd`).

A download opens the path once and reads the file it got twice, for the hash and for the
chunks. A read that fails ends it without a word (download.rs:128, 144). A send that
fails, on a link that went down or on one that is up, leaves the loop just as the end
of the file does (182-185), and `DownloadEnd` announces the hash of the whole file
(190-195): `cut` marks such a download. Seeks on a regular file do not fail here.

`FileCopy` is the promise: the path holds nothing or one version, and changes in one
step to a version that is being uploaded. `CopySpec` is the refinement: `file` is what
the path's inode holds, `offers` the versions of the uploads at work. It is kept
until an upload overlaps another one (`raced`) or a failed write is not reported
(`swallowed`); from then on `free` lets the path hold anything, because it does:

* `raced`: sessions, renames and removals go by path and id, so two uploads of one
  path share the `.part` file. A client that reconnects starts such an overlap when
  its new init arrives before the old link's handlers are done.
* `swallowed`: the flush of the chunk handler drops its result (upload.rs:262). If
  it is the one that reports the last write's failure, the flush of
  `finalize_upload` reports nothing, the hash is that of the bytes received, and a
  file without its last chunk is published and announced complete.

`late` marks sessions registered after the sweep of their link; they stay until the
same id is uploaded again.

### NodeRuntime

`run`, `rtc` and `notice` are the loop of `NodeRuntime::run`, the state of each control
link and the close channel it reads. For each session: `act` is the activation task
between its locks, `entry` the map `active_sessions` (without or with `stop_tx`),
`conn` its own peer connection, `stop` and `waiter` the oneshot channel and the task
that waits for it, `closer` the tasks that close it (a deactivation, the state
callback). `camera` and `stream` are `CameraBroadcaster::sessions` and the capture
loops. Every control message runs in a task of its own, so a deactivation may run
before the activation it follows.

History: `overtaken` (sessions closed before their activation had reported: the host
may be told *active* after *closed*, which `StatusTrue` excepts) and `lost` (sessions
whose capture ended, or whose stream the cleanup of an older loop took out of the
map, camera/runner.rs:82, which `StreamServed` excepts).

### Login

Both ends of a login: `cli` is the client's `AuthAttempt` on a link, `handler` the
message the host handles on it, with the session it found by peer id (`on`); `pend` is
`pending_logins`, `timers` the expiry tasks, `tokens` the credentials, `acl`, `saved`
and `server` the access list in memory, on disk and at the signaling server, `lock`
the mutex of the first. An *exchange* stands for the OPAQUE messages of one try: they
fit each other and no others. `Trouble` bounds what goes wrong: a link fails or is
left, a login takes 30 s, a passcode is wrong, the disk refuses, signaling is lost.

History: `late` (logins begun for a session already torn down; only the expiry task
clears them) and `missed` (clients paired over a signaling connection that had been
replaced: the update goes to the dead connection).

### ClientConnection

The `RtcClient` of the background isolate. `cl` is its own state: `host` the state
machine, `target`, `intentional`, `authFailed`, `first` the flags of the reconnect
logic, `busy` the mark `_isConnectingInternal`, `current` the generation, `attempt` and
`entry` the current attempt and the host manager's fields, `stage`, `retry`, `ping` the
timers, `sweep` the cleanups of the entry that still run, `open` the peer connections
not yet disposed. `call` is where each `connectToHost` waits, `link` how far its peer
connection has come, `sig` the signaling connection, `net` the network handler.

Dart runs one event at a time, so a step is an event handler, or the part of an
`async` function between two waits for a timer, the network or the WebRTC library. A
continuation that waits for nothing real runs as a microtask, before the next
event. One of them is a step: `_clearHostConnections` is called without `await` in
the state machine, and its second half (`Drain`) runs after everything the handler
does. All other actions wait for it (`Event`).

| Code | Actions |
|---|---|
| `connectToHost`, rtc_connection.dart:293-572 | `Connect`, `PassBarrier`, `MissBarrier`, `Created`, `SetUp`, `LibraryFails` |
| `_transitionTo`, `_handleStateEffects`, 101-289 | `Move`, `Effects`, `WaitOrStop` (part of every action that calls them) |
| `_clearHostConnections`, `RtcHost::clearConnections` | `FirstHalf`, `SecondHalf`, `Drain`, `StartSweep`, `SweepChannels`, `SweepConnection` |
| channel and connection callbacks, 443-511; answers and logins | `Answer`, `LinkUp`, `LinkFails`, `ChannelCloses`, `AuthSuccess`, `AuthFailed` |
| timers | `StageTimeout`, `PongLost`, `Age` |
| `disconnectFromHost`, network handler, 29-80 | `Disconnect`, `NetworkChange`, `Switch`, `SwitchReady`, `SwitchFails` |
| signaling connection | `Dial`, `Registered`, `Refused`, `SocketLost`, `SignalingError` |

The callback of the retry timer (234-271) is not an action: the timer is always
cancelled before any event could run it, in every state the specification reaches
(`RetryDisarmed` in ClientConnectionProofs). `BackoffActive` says what is promised of
the timer instead, and is violated. Two callbacks are not actions either. A peer
connection that reports *Connecting* (rtc_connection.dart:487) finds the client in the state
it asks for, since only a remote description starts it and `Answer` has moved there, or in
a later one, where the transition is refused; and
a channel's *Connecting* (450) is where a channel begins, not a change it reports.

History: `mixed` (an attempt began while something of an earlier one was there) and
`unheard` (a disconnect, an error or a network change met a connect at one of its
waits). The properties are stated for behaviours without either, since the code has
no defence there; see *Observations*.

### CapabilitySession

One client, its host and one node, joined by the queues `up`, `down`, `toNode` and
`fromNode`, which keep order. `ctl` is the camera's controller (where `startSession`
waits, the session it shows and the one it stops), `ps` the map of sessions and each
`NodePeerSession` with its queue of signals `q`, the task that processes the first of
them, the cached future and the connections made and not closed (`made`, `open`).
These live in the UI isolate, the `link` in the background isolate: `seen` is what the
UI was told of it. `hostSess` is the host's registry, `node` the node's tasks.

| Code | Actions |
|---|---|
| `CameraCapabilityController`, `requestCapabilitySession`, `closeSession` | `Begin`, `Stopped`, `Rendered`, `Leave` |
| `NodePeerSession` | `TakeSignal`, `PeerConnection`, `HandleOffer`, `HandleCandidate`, `ConnectionFails`, `EndDispose` |
| `RtcThinClient`, `_clearHostConnections` | `Receive`, `DropLink` |
| node.rs, the sweep and the retirement of a node | `FromClient`, `FromNode`, `SweepClient`, `LoseNode` |
| node_runtime.rs | `NodeTake`, `NodeOffer`, `NodeCandidate`, `NodeActive`, `NodeClose` |

The host's handlers and the node's activation are coarser than in `HostControl` and
`NodeRuntime`, which have their insides: here they are what the other two sides see.
History: `silent`, the sessions whose end the code tells nobody (a node retired or given
up by the monitor, an activation that returns).

Taken for granted: `createPeerConnection` returns a connection; the waits inside
`_handleOffer` are one step, so that a session closed between two of them is one closed
before or after; and the port between the isolates keeps order, although `sendIntent` may
first wait for the background service to be started again.

## Runs

| Run | Configuration | Checks |
|---|---|---|
| `host_sessions` | `HostSessions.cfg` | `TypeOK`, `PeerMapLive`, `NoOrphanLink`, `OpenSessionsAreKept`, `OnlyPairsBlock` hold |
| `host_teardown` | `HostTeardown.cfg` | `DeadLinkTornDown`, `StaleRegistrationReaped` hold under fairness |
| `host_link_drop` | `HostLinkDrop.cfg` | `LinkDropPurged` is violated |
| `host_leftover` | `HostLeftover.cfg` | `GonePeerLeavesNothing` is violated |
| `signaling_server` | `SignalingServer.cfg` | `TypeOK`, `NoGhostEntry`, `PresenceExact`, `OfferAnswerable`, `PendingBounded`, `FreshAccepted` hold |
| `signaling_successor` | `SignalingSuccessor.cfg` | `SuccessorSurvives` is violated |
| `file_uploads` | `FileUploads.cfg` | `TypeOK`, `PartialIsHashed`, `NoStrandedSession`, `DownloadConsistent` hold, `CopySpec` is implemented |
| `node_sessions` | `NodeSessions.cfg` | `TypeOK`, `StreamServed`, `StatusTrue`, `CameraReleased`, `LossNoticed` hold |
| `login_pairing` | `LoginPairing.cfg` | `TypeOK`, `RoleIsEarned`, `CredentialsAgree`, `PendingCleared`, `AnswerOwed`, `ListPublished`, `YoungKept` hold |
| `client_connection` | `ClientConnection.cfg` | `TypeOK`, `EscapeTimer`, `NothingLeft`, `DisconnectHolds`, `AuthenticatedIsLive` hold, `AttemptEnds` under fairness |
| `client_backoff` | `ClientBackoff.cfg` | `BackoffActive` is violated |
| `capability_session` | `CapabilitySession.cfg` | `TypeOK`, `ClientIsTold`, `NoCandidateStuck`, `OneShown` hold |

What the properties that hold say:

* `PeerMapLive`, `NoOrphanLink`: however Offers, failed handshakes, teardowns and
  the monitor interleave, `peer_map` lists the peer's own, not yet abandoned link,
  and an open transport is either listed there or about to be closed.
* `OpenSessionsAreKept`: a pending or active session that was not opened in a race
  with a teardown always has, on each side, a link whose task will close it. This
  is why a reconnection cannot leave sessions behind although the replaced link's
  task does its cleanup much later.
* `OnlyPairsBlock`: whoever waits, waits for a task that can go on or is one of two
  that wait for each other. `DeadLinkTornDown` and `StaleRegistrationReaped`
  except just that case.
* `DeadLinkTornDown`: no wake-up is lost, although the state callback is installed
  only after the answer has been sent.

* `NoGhostEntry`, `PresenceExact`: whatever way connections replace each other and
  end, no entry is left that no task will remove, and a client was last told what the
  maps say. `OfferAnswerable`: an Offer that was delivered can be answered, whatever
  the access list does meanwhile, until its window lapses or access is revoked.
  `FreshAccepted`: sequence numbers refuse replays only.
* `CopySpec`, `PartialIsHashed`: what is renamed into place is one whole version,
  because what a session has hashed is what is in its file but for a write that is
  still to report. `NoStrandedSession`: a client without links has no open upload.
  `DownloadConsistent`: what a download sent is part of the file whose hash it ends
  with, and all of it from the offset on unless a send failed, although the hash is
  computed in a pass of its own and the path may be replaced. After a failed send the
  hash is that of more bytes than were sent; the client compares
  (rtc_message_handler.dart:297).
* `CameraReleased`, `StreamServed`: a closed session gives the camera back in
  whichever order activation and deactivation run, and takes it from nobody else.
  `StatusTrue`: at rest the host's last report is true. `LossNoticed`: no end of a
  control link falls between the poll of the handshake and the wait of the loop.
* `RoleIsEarned`, `CredentialsAgree`, `ListPublished`: role, credential and the three
  copies of the list agree through two pairings at once, a write that fails, a
  signaling connection that is replaced. `PendingCleared`, `YoungKept`, `AnswerOwed`:
  no login is left pending, none is taken away early, no client waits in vain.
* `NothingLeft`, `EscapeTimer`, `AttemptEnds`: an attempt that ends leaves neither a
  connection nor a timer nor the mark that would refuse the next one, and no stage
  hangs. `DisconnectHolds`, `AuthenticatedIsLive`: nothing takes the user's
  disconnect back, and *authenticated* means a link that works and is watched.
* `ClientIsTold`: a client that waits has a request, an activation
  or a word under way, and hears of every end the host records, whichever order the
  node's tasks run in, but for the ends nobody tells. `NoCandidateStuck`: a candidate
  that overtakes its Offer is used. `OneShown`: starting, switching and stopping leave no
  open session beside the one the controller holds, and leaving the screen closes that
  one. It does not say that nothing is open after the leave: what a start requests once
  the renderer is ready the controller holds, and nobody closes it (see *Observations*).

What the violations show:

1. `host_link_drop`. A node's teardown keeps the `node_registry` guard while it
   broadcasts the inventory, which waits for `peer_map` (sessions.rs:538-551); every
   teardown then takes `capability_sessions`, `peer_map` and `node_registry`
   (557-559). When a node and another peer drop together the two tasks wait for each
   other for ever, and after them every message and every Offer. (The retirement
   of a reconnecting node, 229-237, meets the same teardown in the same way.)
   `ARCHITECTURE.md` promises that a dropped link is purged immediately.
2. `host_leftover`. `handle_register` writes the registry and the inventory in two
   sections. A teardown between them leaves provider entries of a node that is
   neither linked nor registered; the monitor visits registered nodes only, so
   they stay. The same property is also broken by a session created, or reported
   active, after the sweep of its peer.
3. `signaling_successor`. The task of a closed connection decides under the read lock
   that the entry is its own (main.rs:934-942) and removes it by peer id under a write
   lock taken afterwards (945). A peer that registers in between is removed; the log at
   975 says such an entry is skipped. The peer stays connected, and no message
   reaches it.
4. `client_backoff`. On a failure the client's state machine calls
   `_clearHostConnections` without awaiting it (rtc_connection.dart:218), enters
   `reconnectWaiting` and arms the retry timer (234); the rest of the cleanup runs right
   after and cancels it (620-621). host_connection_state.dart:6 calls this state
   "Backoff timer active", and rtc.dart:14 and rtc_connection.dart:7 promise automatic
   reconnection; the client never retries, and stays there until the user or the network
   acts.

### Observations

Seen while modelling; the modules contain them, no run is kept for them.

* `raced`, `swallowed` (FileTransfer), `overtaken`, `lost` (NodeRuntime), `missed`
  (Login), as described with the modules. About `missed` the log of mod.rs:501 says the
  next registration will publish the list: it already did, without the client.
* A second passcode entered before the first is answered is dropped by the host
  without a word (mod.rs:404). Retries on a link keep the attempt id, so a corrected
  passcode is refused while the pending login of the first is less than 30 s old
  (auth/mod.rs:91).
* The old link's task of a node unregisters *by peer id* (sessions.rs:539-546), without the
  `ptr_eq` check it makes for `peer_map`. A node that is back and registered before that
  loses its registration and its provider entries, and is not told; the node tests
  (tests.rs:355-356) call the new registration authoritative. `Unregister` has it. The same
  slip in the signaling server is what `signaling_successor` shows.
* `NodeSignal` of an authenticated client is refused by its role (mod.rs:411-419). So the
  host drops the answer and the candidates that README.md:316 says it relays, and the
  media connection of a session is never completed (`AllowedOfClient`).
* `dispose` of a session does not wait for its queue of signals and forgets the cached
  future (node_peer_session.dart:298); a candidate still queued makes a second
  connection, which nothing closes. The comment at 103 promises exactly one.
* On a disconnection `_clearHostConnections` closes "all active Node capability WebRTC
  sessions" (rtc_connection.dart:616) of the background isolate, which has none. Those
  of the screens are in the UI isolate, and stay.
* A node's activation that fails after it has inserted its session
  (node_runtime.rs:415, 421, 443) returns with the session inserted and the camera
  running; README.md:322 says the state is cleaned up.
* A screen left while its renderer is made ready does not stop the session that is
  requested afterwards (camera_capability.dart:42).
* A *closed* status takes a session out of the client's map without disposing of it
  (capability_session_manager.dart:98); its connection stays until the library ends it.
* The client never redials a lost signaling socket: nobody listens to the transport's
  states, so the signaling state stays *connected* until the network changes.
  rtc_signaling.dart:91 says it "will reconnect on failures".
* `_isConnectingInternal` is cleared by the cleanup at the start of the very connect it
  marks (rtc_connection.dart:630), so a second connect is not refused; the two share the
  host's fields, and one peer connection is never closed.
* A disconnect that comes while a connect waits for signaling or for the library is
  an ignored transition; the connect goes on and the client is connected after the
  user left. A connect that gives up on signaling ends in `disconnected -> failed`, which
  the state machine refuses, so that the user interface is not told.
* An Answer is taken by whatever attempt is current; a late one spoils the new attempt.
  A signaling error of any kind fails an authenticated link.
* The 30 s window of reconnection starts anew with every connect.

### Bounds

HostControl:

* `Links`: how many Offers are made. Three in `host_sessions`, so that a node's
  third link can replace the second while the first is still being torn down, or
  two of its links can race beside a client's; two elsewhere. `Reconnecting` are the
  peers that make more than one. `Links` is symmetric: a link has no role until an
  Offer takes one. The runs with temporal properties do not use symmetry.
* One node, one client, one session id: the registries are keyed by peer and
  session, and nothing compares different nodes or sessions except the sweeps, which
  `OpenSessionsAreKept` covers from both ends. The theorems have no such bound.
* `Silent`: the nodes the monitor may find silent; empty where the run is about
  the links alone.
* `MaxHandlers`: how many links handle a message at the same time; the code has no
  bound. One suffices for the races between a handler and a teardown or the
  monitor; with two links, two handlers and a silent node the same invariants were
  explored as well (145 000 states) and hold.

The other modules:

* `signaling_server`: a host with two connections, of which the first may close and
  sends two messages, the second only registers, and two clients send one message each, of
  which one falls silent. Two host connections are what replacement needs; two
  clients what the limit of the pairing queue (`MaxPending = 1`) and the order of
  presence notices need. No symmetry, as the clients' connections behave differently.
* `file_uploads`: two versions with two chunks each, so that there is a first and a last
  write; two uploads over two links, one cancel; one write, or one read or send of the
  download on a link that is up, that fails (those on a link that went down are not
  counted); resume at every offset. `FlushAt` is empty: the flush of the last chunk is the one that matters.
  Ids of different sizes differ, as `IdOf` says. Links are symmetric. `CONSTRAINT
  Continued`: states after an overlap of uploads are checked but not continued, as
  nothing is claimed of them.
* `node_sessions`: two sessions on one camera, so that a stream can be shared and
  inherited; one may be deactivated, the other fails; two control links, two capture
  loops, one fault.
* `login_pairing`: one client with two links, the first with two passcodes, a second
  client with one: a replaced session, a retry, and two pairings at once. Two troubles.
* `client_connection`: two calls of `connectToHost` (an attempt and its successor), three
  faults, two changes of network. `CONSTRAINT Quiet`: states after an overlap are checked,
  not continued; a behaviour that violates `AttemptEnds` never leaves `Quiet`, so the
  constraint hides none. With three calls (`MaxFaults = 2`, 1.5 million states) and without
  the constraint (`MaxFaults = 1`, 3 million) the same holds.
* `client_backoff`: one call and one fault are enough for the violation.

* `capability_session`: one session with a candidate, a refusal or a failure of the node,
  and both links going down; and two sessions, for the controller that replaces one by
  the other. `CONSTRAINT Explored`: with two sessions, states after a candidate, a lost
  link, a silent end or the loss of the screen, or with more than two messages in a
  queue, are checked but not continued. Sessions share nothing but the controller and
  the order of the queues. (Each session alone with all of it: 467 000 states; two
  without failures and queues of any length: 643 000.)

Deadlock is not checked (`CHECK_DEADLOCK FALSE`) because the systems may really stop:
peers and users need not say anything more, and the pairs of tasks of
`host_link_drop` stop the host. Blocking is stated by the properties instead.

### Fairness

HostControl's `FairSpec` assumes strong fairness of each link's task, each handler and the
monitor. tokio's mutexes are fair (waiters are served in order), so a task that
waits for a lock which others take and release does get it, although the lock is
not continuously free: weak fairness would be too little, and the code justifies
no less. The transport, the peers and signaling are not fair: they may stop at any
time. Poll needs nothing more, since it either sees a final state or its deadline
passes.

In ClientConnection, `FairSpec` assumes weak fairness of microtasks, of the
continuations of `connectToHost` (a timer ends the wait for signaling, and the library
returns or throws) and of the stage timers. The event loop runs what is due, and each
of these stays due until it runs, so weak fairness is enough. Links, signaling and hosts
are not fair.

## Proofs

The theorems hold for any sets and bounds, from each module's assumption on its
constants alone.

| Theorem | States |
|---|---|
| `HostControlProofs!TypeCorrect` | `Spec => []TypeOK` |
| `PeerMapIsLive` | `Spec => []PeerMapLive` |
| `NoLinkIsOrphaned` | `Spec => []NoOrphanLink` |
| `SessionsAreKept` | `Spec => []OpenSessionsAreKept` |
| `OnlyPairsBlockEver` | `Spec => []OnlyPairsBlock` |
| `ClientsNeverBlockEachOther` | without nodes, `Spec => []~WaitCycle` |
| `SignalingServerProofs!TypeCorrect` | `Spec => []TypeOK` |
| `NoGhostIsLeft` | `Spec => []NoGhostEntry` |
| `PendingIsBounded` | `Spec => []PendingBounded` |
| `OffersAreAnswerable` | `Spec => []OfferAnswerable` |
| `FreshIsAccepted` | `Spec => []FreshAccepted` |
| `PresenceIsExact` | `Spec => []PresenceExact` |
| `NodeRuntimeProofs!TypeCorrect` | `Spec => []TypeOK` |
| `LossIsNoticed` | `Spec => []LossNoticed` |
| `CameraIsReleased` | `Spec => []CameraReleased` |
| `StreamIsServed` | `Spec => []StreamServed` |
| `StatusIsTrue` | `Spec => []StatusTrue` |
| `FileTransferProofs!TypeCorrect` | `Spec => []TypeOK` |
| `SweepClosesSessions` | `Spec => []NoStrandedSession` |
| `HashVouchesForPartial` | `Spec => []PartialIsHashed` |
| `DownloadsAreWhole` | `Spec => []DownloadConsistent` |
| `TransfersCopyFiles` | `Spec => CopySpec`: uploads implement `FileCopy` |
| `LoginProofs!TypeCorrect` | `Spec => []TypeOK` |
| `RolesAreEarned` | `Spec => []RoleIsEarned` |
| `CredentialsMatch` | `Spec => []CredentialsAgree` |
| `PendingIsCleared` | `Spec => []PendingCleared` |
| `AnswersAreOwed` | `Spec => []AnswerOwed` |
| `ListIsPublished` | `Spec => []ListPublished` |
| `YoungLoginsKept` | `Spec => YoungKept`, an action property |
| `ClientConnectionProofs!TypeCorrect` | `Spec => []TypeOK` |
| `StagesTimeOut` | `Spec => []EscapeTimer` |
| `AttemptsAreCleaned` | `Spec => []NothingLeft` |
| `DisconnectIsKept` | `Spec => []DisconnectHolds` |
| `SessionsAreWhole` | `Spec => []AuthenticatedIsLive` |
| `CapabilitySessionProofs!TypeCorrect` | `Spec => []TypeOK` |
| `WaitersAreTold` | `Spec => []ClientIsTold` |
| `CandidatesAreAdded` | `Spec => []NoCandidateStuck` |
| `ScreenHasOne` | `Spec => []OneShown` |

Each invariant below was checked with TLC on the run's instance before it was proved.

**HostControl.** `TypeOK` is not inductive: a handler uses what it captured steps ago. `TypeInv` adds
what holds of a captured message (`HandlerOK`), that a link that is not idle has an
owner and that only a node's link retires a registration or broadcasts
(`LinksOK`), and that the monitor has a node in hand (`MonitorOK`). `TypeInv` was
checked with TLC before it was proved.

`PeerMapLive` and `NoOrphanLink` are inductive relative to `TypeInv`.
`OpenSessionsAreKept` is too, and its proof shows why: every step but `Sweep` keeps
every keeper and opens nothing, `Sweep` closes all sessions of the peer whose
keeper it takes away, and `Create` and `Report` record in `late` what they open
without keepers. `OnlyPairsBlock` follows from `LocksExclude` (a lock has one
holder), which is inductive: the order of the locks then leaves only circles of two.

**SignalingServer.** `TypeInv` adds to the types what a handler remembers when it is at a
place (`JobOK`). `NoGhostEntry` is inductive with it: an entry is made by the task it
names, which leaves the places where it is listed only through `Check`. `PendingBounded`
needs that the queues are finite. `OfferAnswerable` needs what a task that has yet to
relay knows: that its client was admitted or put in the window, under the lock, by the
entry the Offer will go to, or that this was taken back since (`RelayOK`, `OfferedOK`).
`FreshAccepted` needs that the last sequence stored for a peer is below the next one of
its connection unless a task outlived its registration (`SeqInv`, `OutlivedMarked`).

`PresenceExact` speaks of a host at rest; `PresenceInv` says what holds while one of its
operations is between two critical sections, for hosts whose operations did not overlap:
the list of subscribers the task copied is still the host's, and what it is going
to send to each client is that client's presence of now (`Copied`). A client was then
told what is so, or its message is still in the task's list, or the task has yet to copy
one (`Followed`). That the task alone changes what it copied needs that at most
one task of such a host is busy (`OneBusy`), and that the tasks of a host are finitely
many: `Overlap` counts them, and a cardinality says nothing of an infinite set.

**NodeRuntime.** `TypeInv` adds to the types what an activation has done when it is at a
place (`ActOK`); the types' last conjunct, that a stop channel is held exactly by an
armed entry, is part of it. `LossNoticed` is inductive with the fact that links are
used in turn (`LinkInv`). The camera's two properties come from one invariant, as each
needs that a waiting task's subscription is with the loop the map names, or with a loop
that is over (`CameraInv`).

`StatusTrue` speaks of a session at rest; its invariant `TellInv` says who will still
report when it is not (`Pending`). A session that is gone while the host holds it for
active has a callback that has yet to report, or a deactivation that found it and is
about to close its connection, which calls that callback. The report reaches the
host because the callback reports on the link of the activation: a link once up never
comes up again after the host stopped to hear it (`Fading`), so one on which the
activation was heard and which is up now has been heard on since. The deactivation may come
on another link, and its own report may be lost; the proof rests on the
callback alone. One case needs its second half: a connection that was
broken before the deactivation found the session is not closed again, but then the
callback was spawned when it broke (`Known`).

**FileTransfer.** The invariant has two layers. `Typed /\ Placed` holds whatever
happens: an upload is at its init or registered, once, and a session in the registry is
one of its own id. `NoStrandedSession` needs no more, so the sweep closes a client's
uploads even after two of them have overlapped. `Clear` holds until two uploads of the
path overlap or a failed write is swallowed (`~Clouded`, the condition in the properties):
at most one upload is at work (`Solo`, `Alone`); its open file is the partial unless it was
unlinked (`Sound`, `Apart`); and the file has exactly the bytes the hasher has read, or
lacks the last chunk, which is being written or whose failure waits to be
reported (`Synced`). One case is neither: the failure was reported to a chunk that had
been dropped, and then no later chunk fits any more (`Stalled`). With this
`PartialIsHashed` follows, and a download, which opens the path once and reads twice what
it opened, reads one inode that nobody writes (`Read`): both passes see the same chunks.
What it has sent is then a part of what it has hashed, and the rest of it unless a send
failed, whichever reads and sends fail (`DownloadStep`). The proof never uses the lock of an upload: while
uploads do not overlap the file channel, which handles a link's chunks in turn, is enough.

`TransfersCopyFiles` maps a state to the version the path holds and the versions being
uploaded. `Rename` is the one step that maps to `Publish`: the handler's state says that
the hash fitted, and the invariant turns this into the bytes of the file (`Ready`). Inits
and ends of uploads map to `Offer` and `Withdraw`, all else to stutters. Once an
overlap or a swallowed failure has happened `FileCopy` is released too (`Broken`), as the
code promises nothing from there on; `raced` and `swallowed` never become false again.
The assumption `Versions # {}` is the model's: without a version there is nothing to send.

**Login.** The invariant relates what is on its way to what is stored. Every try has a
number; what is in a queue, handled or pending is never newer than the link's last
(`Numbered`). A finish is on its way, being handled or answered, once per try
(`OneFinish`), which is what keeps the credential a client derives from one response from being
replaced by that of another. `Pairing` says what a handler has done at each
place between the lock of the list and the role, `Credited` that a credential at the
client has its entry in the list unless that pairing is still under way. `Owed` holds, for each
state a client waits in, what will answer it. `PendingCleared` and `YoungKept`
need that a pending login's timer is in `timers` until it fires, and that `old`
has only timers that were armed. The attempt to prove `Numbered` found a slip
in the model: when a client left a link, `Open` set the number of that link's tries back to
zero (an `@` that meant the wrong record) with messages of it still on their way. No
property of the run had seen it; `Open` now keeps the number.

**ClientConnection.** The properties speak of undisturbed clients (`Quiet`), and so does
the invariant: `Typed /\ (Quiet => Sound(Drained))`. `Drained` is the client's record after the
second half of a cleanup that is under way: the half that runs in a microtask after the
handler has gone on is what makes the record look wrong in between, and
what has to be shown of each step is that it leaves a record which that half will repair. `Sound`
has one clause per situation: resting, waiting for signaling, making the peer connection, the offer
out. The clause about waiting (`Waiting`) is where the proof was not
obvious: channels of a link that was given up may close while a later call waits at
the barrier, and it is harmless only because that link is not open, or is not the
current one, or the call is no first one.

**CapabilitySession.** `ClientIsTold` is inductive with the facts that nothing about a
session is anywhere before it is requested (`Born`) and that a node that is gone has
nothing under way and no open session (`Lost`): then whoever closes a session has put the
word into the same queue. `OneShown` needs that the controller has no session while it
waits (`Screen`). `EachKnown`, the messages of a sweep in any order of the map,
is defined by bijections, so that what it returns could be reasoned about.

Only model-checked: the liveness properties, as fairness and `ENABLED` are out of the
prover's reach (`DeadLinkTornDown`, `StaleRegistrationReaped`, `AttemptEnds`); and the
four runs in which the code does not do what a document says.

## Plan

1. `HostControl` and its proofs: done.
2. `SignalingServer` and its proofs: done.
3. `FileTransfer` implementing `FileCopy`, and its proofs: done.
4. `NodeRuntime` and its proofs: done.
5. `Login` and its proofs: done.
6. `ClientConnection` and its proofs: done.
7. `CapabilitySession`, client, host and node over channels, and its proofs: done. Left: an
   abstract session (requested, active, ended) it implements.

Runs are kept few: one or two per module that hold, and one for each place where
the code and what its documents say disagree.

## Not modelled

* Cryptography (signatures, OPAQUE): exchanges fit or do not fit.
* SDP, ICE and media themselves, and the candidates a client never sends.
* Tracks, renderers and the data channel of a capability session; the microphone's
  controller, which is the camera's without a renderer.
* The client's outbox queue and the sequence numbers it checks on inbound messages: it
  queues one Offer per attempt.
* Inference: processes and HTTP services it starts and stops; its own state is the
  list of chat sessions, which two concurrent chats may overwrite.
* The operating system behind the host's capabilities, probing devices, configuration
  other than the access list, directory sync, the user interface.

## Running

    tlc -config HostSessions.cfg MCHostControl
    tlc -config ClientConnection.cfg ClientConnection
    tlapm SignalingServerProofs.tla

With two workers: `host_sessions` one minute (975 000 states), `host_teardown` a minute and
a half (57 000 states, most of it liveness), `signaling_server` a minute (220 000),
`node_sessions` 70 s (2 million), `login_pairing` one minute (1.1 million),
`client_connection` 75 s (1 million), `capability_session` one to two minutes (1 million),
`file_uploads` two and a half minutes (1.2 million), the others seconds. The proofs of each
module take between half a minute and several minutes.
