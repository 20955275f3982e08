----------------------------- MODULE HostControl -----------------------------
(***************************************************************************)
(* The control plane of the Frankn host: the links to clients and nodes,   *)
(* the three registries they share (peer map, node registry, capability    *)
(* sessions) and the tokio tasks that read and write them.                 *)
(*                                                                         *)
(* One link task per signaling Offer (handle_new_connection), one message  *)
(* handler at a time per link (parse_dc_msg), and the node liveness        *)
(* monitor.  A step is what a task does between two points where it may    *)
(* wait: a critical section under one lock is one step; where the code     *)
(* waits for a second lock while it holds the first, the wait is a program *)
(* counter of its own, so that every interleaving of the tasks, and every  *)
(* way they can block each other, is a behaviour of this module.           *)
(*                                                                         *)
(* Left out: the locks of one PeerSession and of one RTCConn and the lock  *)
(* of the capability inventory (leaves: whoever holds one waits for none   *)
(* of the three below), the wording of replies, and the frames of the      *)
(* other capabilities.                                                     *)
(***************************************************************************)
EXTENDS Naturals, FiniteSets

CONSTANTS
    Nodes,      \* the ids in config.allowed_nodes
    Clients,    \* every other peer id
    Links,      \* one per Offer: the PeerSession, its RTCConn and its task
    Sids,       \* capability session ids (fresh uuids drawn by the clients)
    NoLink, NoPeer, NoSid,
    \* Bounds of the instances that are checked:
    Reconnecting,   \* the peers that send more than one Offer
    Silent,         \* the nodes that may fall silent for 60 s
    MaxHandlers     \* how many links handle a message at the same time

Peers == Nodes \cup Clients

ASSUME HostControlAssumption ==
    /\ Nodes \cap Clients = {}
    /\ NoLink \notin Links
    /\ NoPeer \notin Peers
    /\ NoSid \notin Sids
    /\ Reconnecting \subseteq Peers
    /\ Silent \subseteq Nodes
    /\ MaxHandlers \in Nat

VARIABLES
    owner,      \* link -> the peer whose Offer created it
    pc,         \* link -> where its task is
    old,        \* link -> the link it found in peer_map and replaces
    ice,        \* link -> RTCPeerConnectionState
    wake,       \* link -> a message waits in the channel rx
    auth,       \* the links whose role is AuthenticatedClient
    peerMap,    \* peer_map
    nodeReg,    \* node_registry: node -> the rtc_conn of its NodeInfo
    inventory,  \* the nodes with entries in capability_inventory
    sess,       \* capability_sessions
    h,          \* link -> the message its handler is working on
    asked,      \* <<node, sid>>: NodeActivateCapability was delivered
    mon,        \* the liveness monitor
    late        \* history: sessions (re)opened while a side had no keeper

vars == <<owner, pc, old, ice, wake, auth, peerMap, nodeReg, inventory,
          sess, h, asked, mon, late>>

linkVars     == <<owner, pc, old, ice, wake, auth, peerMap>>
registryVars == <<nodeReg, inventory>>
sessionVars  == <<sess, asked, late>>

-----------------------------------------------------------------------------
(* Types and locks *)

PcStates == {"idle", "retire", "retireSessions", "closeOld", "answer", "hook",
             "await", "up", "unregister", "broadcast", "sweep",
             "sweepPm", "sweepNr", "abort", "done"}

Statuses == {"none", "pending", "active", "closed"}
Reports  == {"active", "closed"}

Session   == [client : Clients \cup {NoPeer}, node : Nodes \cup {NoPeer},
              status : Statuses]
NoSession == [client |-> NoPeer, node |-> NoPeer, status |-> "none"]

Ops     == {"idle", "register", "advertise", "report", "resolve", "create"}
Handler == [op : Ops, via : Links \cup {NoLink}, sid : Sids \cup {NoSid},
            node : Nodes \cup {NoPeer}, st : Statuses]
Idle    == [op |-> "idle", via |-> NoLink, sid |-> NoSid, node |-> NoPeer,
            st |-> "none"]

Monitor == [pc : {"sleep", "sessions", "registry", "peer"},
            todo : SUBSET Nodes, cur : Nodes \cup {NoPeer}]
Asleep  == [pc |-> "sleep", todo |-> {}, cur |-> NoPeer]

\* Mutant: the broadcast is made from inside the peer_map section before it.
HoldsAtInPeerMap(at) ==
    CASE at = "broadcast" -> {"node_registry", "peer_map"}
      [] at = "retireSessions" -> {"node_registry"}
      [] at = "sweepPm" -> {"capability_sessions"}
      [] at = "sweepNr" -> {"capability_sessions", "peer_map"}
      [] OTHER -> {}

\* The locks a link task holds while it waits, and the one it waits for.
HoldsAt(at) ==
    CASE at \in {"retireSessions", "broadcast"} -> {"node_registry"}
      [] at = "sweepPm" -> {"capability_sessions"}
      [] at = "sweepNr" -> {"capability_sessions", "peer_map"}
      [] OTHER -> {}
WaitsAt(at) ==
    CASE at \in {"abort", "broadcast", "sweepPm"} -> {"peer_map"}
      [] at \in {"retire", "unregister", "sweepNr"} -> {"node_registry"}
      [] at \in {"retireSessions", "sweep"} -> {"capability_sessions"}
      [] OTHER -> {}

\* tokio's Mutex is not reentrant: a task that holds a lock waits for it too.
Free(lock) == \A l \in Links : lock \notin HoldsAt(pc[l])

-----------------------------------------------------------------------------
(* Helpers *)

Goto(l, at) == pc' = [pc EXCEPT ![l] = at]

\* The callback of on_peer_connection_state_change is installed.
Hooked(l) == pc[l] \notin {"idle", "retire", "retireSessions", "closeOld",
                           "answer", "hook"}

\* RTCConn::close, or the remote end going away: the state callback fires.
Down(ls) ==
    /\ ice'  = [l \in Links |-> IF l \in ls THEN "down" ELSE ice[l]]
    /\ wake' = [l \in Links |-> wake[l] \/ (l \in ls /\ Hooked(l))]

\* A PeerSession that peer_map no longer lists is closed; its role goes with it.
Drop(ls) == Down(ls) /\ auth' = auth \ ls

\* Every session of the peer, as a provider or as a consumer.
ClosedFor(p) ==
    [s \in Sids |-> IF p \in {sess[s].client, sess[s].node}
                    THEN [sess[s] EXCEPT !.status = "closed"] ELSE sess[s]]
\* Mutant: the provider's sessions get a status nothing else expects.
ClosedForNodeFailed(n) ==
    [s \in Sids |-> IF sess[s].node = n
                    THEN [sess[s] EXCEPT !.status = "failed"] ELSE sess[s]]
ClosedForNode(n) ==
    [s \in Sids |-> IF sess[s].node = n
                    THEN [sess[s] EXCEPT !.status = "closed"] ELSE sess[s]]

\* The link whose task will still run the whole cleanup of its peer.
WillSweep(l) == pc[l] \in {"up", "unregister", "broadcast", "sweep",
                           "sweepPm", "sweepNr"}
Kept(p) == \E l \in Links : owner[l] = p /\ WillSweep(l)

Init ==
    /\ owner = [l \in Links |-> NoPeer]
    /\ pc = [l \in Links |-> "idle"]
    /\ old = [l \in Links |-> NoLink]
    /\ ice = [l \in Links |-> "new"]
    /\ wake = [l \in Links |-> FALSE]
    /\ auth = {}
    /\ peerMap = [p \in Peers |-> NoLink]
    /\ nodeReg = [n \in Nodes |-> NoLink]
    /\ inventory = {}
    /\ sess = [s \in Sids |-> NoSession]
    /\ h = [l \in Links |-> Idle]
    /\ asked = {}
    /\ mon = Asleep
    /\ late = {}

-----------------------------------------------------------------------------
(* The link task: handle_new_connection *)

\* The Offer is taken from signaling and its session swapped into peer_map.
Offer(l, p) ==
    /\ pc[l] = "idle"
    /\ p \in Reconnecting \/ \A k \in Links : owner[k] # p
    /\ Free("peer_map")
    /\ owner' = [owner EXCEPT ![l] = p]
    /\ old' = [old EXCEPT ![l] = peerMap[p]]
    /\ peerMap' = [peerMap EXCEPT ![p] = l]
    /\ Goto(l, IF peerMap[p] = NoLink THEN "answer" ELSE "retire")
    /\ UNCHANGED <<ice, wake, auth, registryVars, sessionVars, h, mon>>

\* "If the reconnecting peer is a known Node, clean up its old state":
\* node_registry is locked first and kept while capability_sessions is awaited.
Retire(l) ==
    /\ pc[l] = "retire"
    /\ Free("node_registry")
    /\ Goto(l, IF owner[l] \in Nodes /\ nodeReg[owner[l]] # NoLink
               THEN "retireSessions" ELSE "closeOld")
    /\ UNCHANGED <<owner, old, ice, wake, auth, peerMap, registryVars,
                   sessionVars, h, mon>>

RetireSessions(l) ==
    /\ pc[l] = "retireSessions"
    /\ Free("capability_sessions")
    /\ sess' = ClosedForNode(owner[l])
    /\ inventory' = inventory \ {owner[l]}
    /\ nodeReg' = [nodeReg EXCEPT ![owner[l]] = NoLink]
    /\ Goto(l, "closeOld")
    /\ UNCHANGED <<owner, old, ice, wake, auth, peerMap, asked, late, h,
                   mon>>

\* Mutant: the session that was replaced is dropped without close().
CloseOldUnclosed(l) ==
    /\ pc[l] = "closeOld"
    /\ old' = [old EXCEPT ![l] = NoLink]
    /\ Goto(l, "answer")
    /\ UNCHANGED <<owner, ice, wake, auth, peerMap, registryVars, sessionVars,
                   h, mon>>

\* The session that was replaced is closed.
CloseOld(l) ==
    /\ pc[l] = "closeOld"
    /\ Drop({old[l]})
    /\ old' = [old EXCEPT ![l] = NoLink]
    /\ Goto(l, "answer")
    /\ UNCHANGED <<owner, peerMap, registryVars, sessionVars, h, mon>>

\* Set the remote description, create the answer, send it: any of them may fail.
Answer(l) ==
    /\ pc[l] = "answer"
    /\ \/ /\ ice[l] # "down"
          /\ Goto(l, "hook")
       \/ Goto(l, "abort")
    /\ UNCHANGED <<owner, old, ice, wake, auth, peerMap, registryVars,
                   sessionVars, h, mon>>

\* The state callback is installed; what happened before it is never replayed.
Hook(l) ==
    /\ pc[l] = "hook"
    /\ Goto(l, "await")
    /\ UNCHANGED <<owner, old, ice, wake, auth, peerMap, registryVars,
                   sessionVars, h, mon>>

\* Mutant: Closed and Failed end the poll like Connected, and are not told apart.
PollAnyFinal(l) ==
    /\ pc[l] = "await"
    /\ \/ ice[l] # "new" /\ Goto(l, "up")
       \/ ice[l] = "new" /\ Goto(l, "abort")
    /\ UNCHANGED <<owner, old, ice, wake, auth, peerMap, registryVars,
                   sessionVars, h, mon>>

\* The 100 ms poll, its 30 s deadline, and the check of the state after it, which
\* may read Disconnected on a transport that was Connected a moment before.
Poll(l) ==
    /\ pc[l] = "await"
    /\ \/ ice[l] = "connected" /\ Goto(l, "up")
       \/ Goto(l, "abort")
    /\ UNCHANGED <<owner, old, ice, wake, auth, peerMap, registryVars,
                   sessionVars, h, mon>>

\* Mutant: a handshake that times out leaves its session in peer_map.
AbortListed(l) ==
    /\ pc[l] = "abort"
    /\ Drop({l})
    /\ Goto(l, "done")
    /\ UNCHANGED <<owner, old, peerMap, registryVars, sessionVars, h, mon>>

\* The exit of a handshake that failed or never connected: the session leaves
\* peer_map if it is still the current one, and the RTCConn is closed.
Abort(l) ==
    /\ pc[l] = "abort"
    /\ Free("peer_map")
    /\ peerMap' = [p \in Peers |-> IF peerMap[p] = l THEN NoLink ELSE peerMap[p]]
    /\ Drop({l})
    /\ Goto(l, "done")
    /\ UNCHANGED <<owner, old, registryVars, sessionVars, h, mon>>

\* rx.recv() returns: the session leaves peer_map if it is still the current
\* one, and its RTCConn is closed.
Remove(l) ==
    /\ pc[l] = "up"
    /\ wake[l]
    /\ Free("peer_map")
    /\ peerMap' = [p \in Peers |-> IF peerMap[p] = l THEN NoLink ELSE peerMap[p]]
    /\ Drop({l})
    /\ Goto(l, "unregister")
    /\ UNCHANGED <<owner, old, registryVars, sessionVars, h, mon>>

\* Mutant: a peer that is not registered has nothing to clean up.
UnregisterOrReturn(l) ==
    /\ pc[l] = "unregister"
    /\ Free("node_registry")
    /\ IF owner[l] \in Nodes /\ nodeReg[owner[l]] # NoLink
       THEN /\ nodeReg' = [nodeReg EXCEPT ![owner[l]] = NoLink]
            /\ inventory' = inventory \ {owner[l]}
            /\ Goto(l, "broadcast")
       ELSE Goto(l, "done") /\ UNCHANGED <<nodeReg, inventory>>
    /\ UNCHANGED <<owner, old, ice, wake, auth, peerMap, sessionVars, h,
                   mon>>

\* By peer id: whichever link the registration came from.
Unregister(l) ==
    /\ pc[l] = "unregister"
    /\ Free("node_registry")
    /\ IF owner[l] \in Nodes /\ nodeReg[owner[l]] # NoLink
       THEN /\ nodeReg' = [nodeReg EXCEPT ![owner[l]] = NoLink]
            /\ inventory' = inventory \ {owner[l]}
            /\ Goto(l, "broadcast")
       ELSE Goto(l, "sweep") /\ UNCHANGED <<nodeReg, inventory>>
    /\ UNCHANGED <<owner, old, ice, wake, auth, peerMap, sessionVars, h,
                   mon>>

\* broadcast_capability_inventory, with node_registry still locked.
Broadcast(l) ==
    /\ pc[l] = "broadcast"
    /\ Free("peer_map")
    /\ Goto(l, "sweep")
    /\ UNCHANGED <<owner, old, ice, wake, auth, peerMap, registryVars,
                   sessionVars, h, mon>>

\* capability_sessions, then peer_map, then node_registry, each kept.
SweepLock(l) ==
    /\ \/ pc[l] = "sweep" /\ Free("capability_sessions") /\ Goto(l, "sweepPm")
       \/ pc[l] = "sweepPm" /\ Free("peer_map") /\ Goto(l, "sweepNr")
    /\ UNCHANGED <<owner, old, ice, wake, auth, peerMap, registryVars,
                   sessionVars, h, mon>>

Sweep(l) ==
    /\ pc[l] = "sweepNr"
    /\ Free("node_registry")
    /\ sess' = ClosedFor(owner[l])
    /\ Goto(l, "done")
    /\ UNCHANGED <<owner, old, ice, wake, auth, peerMap, registryVars, asked,
                   late, h, mon>>

LinkTask(l) ==
    \/ Retire(l) \/ RetireSessions(l) \/ CloseOld(l)
    \/ Answer(l) \/ Hook(l) \/ Poll(l) \/ Abort(l)
    \/ Remove(l) \/ Unregister(l) \/ Broadcast(l)
    \/ SweepLock(l) \/ Sweep(l)

-----------------------------------------------------------------------------
(* The transport of a link, and the 15 s recheck of a disconnection *)

Connect(l) ==
    /\ ice[l] = "new"
    /\ pc[l] \in {"hook", "await"}
    /\ ice' = [ice EXCEPT ![l] = "connected"]
    /\ UNCHANGED <<owner, pc, old, wake, auth, peerMap, registryVars,
                   sessionVars, h, mon>>

\* Disconnected, and still so when it is read again 15 s later: the task is woken
\* although the transport may yet recover and carry messages until it is closed.
Recheck(l) ==
    /\ ice[l] = "connected"
    /\ Hooked(l)
    /\ ~wake[l]
    /\ wake' = [wake EXCEPT ![l] = TRUE]
    /\ UNCHANGED <<owner, pc, old, ice, auth, peerMap, registryVars,
                   sessionVars, h, mon>>

\* The remote end closes, or ICE fails.
Fail(l) ==
    /\ ice[l] = "connected"
    /\ Down({l})
    /\ UNCHANGED <<owner, pc, old, auth, peerMap, registryVars, sessionVars, h,
                   mon>>

Transport(l) ==
    Connect(l) \/ Recheck(l) \/ Fail(l)

-----------------------------------------------------------------------------
(* Messages: parse_dc_msg and the node handlers.  A channel's messages are  *)
(* handled one at a time; the session is looked up by peer id, so that a    *)
(* message of a replaced link is handled on the session that replaced it.   *)

Current(l) == peerMap[owner[l]]

\* A message is read off link l and the session of its peer is looked up; without
\* one the message is dropped.
Parsed(l) ==
    /\ h[l].op = "idle"
    /\ Cardinality({k \in Links : h[k].op # "idle"}) < MaxHandlers
    /\ ice[l] = "connected"
    /\ Free("peer_map")
    /\ Current(l) # NoLink

Handling(l, task) == h' = [h EXCEPT ![l] = task]
Finish(l)         == Handling(l, Idle)

\* AuthOpaqueFinish: the role of the session found is upgraded.  One step: a role
\* set on a session that has left peer_map meanwhile is never read again.
Login(l) ==
    /\ owner[l] \in Clients
    /\ Parsed(l)
    /\ Current(l) \notin auth
    /\ auth' = auth \cup {Current(l)}
    /\ UNCHANGED <<owner, pc, old, ice, wake, peerMap, registryVars,
                   sessionVars, h, mon>>

\* handle_register: node_registry, then the inventory, then the broadcast.
RecvRegister(l) ==
    /\ owner[l] \in Nodes
    /\ Parsed(l)
    /\ Handling(l, [Idle EXCEPT !.op = "register", !.via = Current(l)])
    /\ UNCHANGED <<linkVars, registryVars, sessionVars, mon>>

Register(l) ==
    /\ h[l].op = "register"
    /\ Free("node_registry")
    /\ nodeReg' = [nodeReg EXCEPT ![owner[l]] = h[l].via]
    /\ Handling(l, [h[l] EXCEPT !.op = "advertise"])
    /\ UNCHANGED <<linkVars, inventory, sessionVars, mon>>

\* The broadcast that follows waits for peer_map and changes none of this state;
\* the next message of the link waits for peer_map itself.
Advertise(l) ==
    /\ h[l].op = "advertise"
    /\ inventory' = inventory \cup {owner[l]}
    /\ Finish(l)
    /\ UNCHANGED <<linkVars, nodeReg, sessionVars, mon>>

\* handle_activation_status: a node reports on a session it was asked for.
RecvStatus(l, s, st) ==
    /\ Parsed(l)
    /\ <<owner[l], s>> \in asked
    /\ Handling(l, [Idle EXCEPT !.op = "report", !.sid = s, !.st = st])
    /\ UNCHANGED <<linkVars, registryVars, sessionVars, mon>>

\* The status is stored whatever it was; only the session's provider may.
Report(l) ==
    LET s == h[l].sid IN
    /\ h[l].op = "report"
    /\ Free("capability_sessions")
    /\ IF sess[s].node = owner[l]
       THEN /\ sess' = [sess EXCEPT ![s].status = h[l].st]
            /\ late' = IF Kept(sess[s].client) /\ Kept(sess[s].node)
                       THEN late ELSE late \cup {s}
       ELSE UNCHANGED <<sess, late>>
    /\ Finish(l)
    /\ UNCHANGED <<linkVars, registryVars, asked, mon>>

\* handle_activate_capability: the provider is looked up under node_registry and
\* the session stored under capability_sessions, with nothing held in between.  A
\* request without a provider is one with any provider: the node it finds first is
\* looked up again.  One whose token is unknown or expired changes nothing.
RecvActivate(l, s, n) ==
    /\ owner[l] \in Clients
    /\ Parsed(l)
    /\ Current(l) \in auth
    /\ sess[s] = NoSession /\ \A k \in Links : h[k].sid # s
    /\ Handling(l, [Idle EXCEPT !.op = "resolve", !.sid = s, !.node = n])
    /\ UNCHANGED <<linkVars, registryVars, sessionVars, mon>>

\* Provider offline: the client is told "failed" and nothing is stored.
Resolve(l) ==
    /\ h[l].op = "resolve"
    /\ Free("node_registry")
    /\ IF nodeReg[h[l].node] = NoLink
       THEN Finish(l)
       ELSE Handling(l, [h[l] EXCEPT !.op = "create", !.via = nodeReg[h[l].node]])
    /\ UNCHANGED <<linkVars, registryVars, sessionVars, mon>>

\* The request goes to the link captured by Resolve, a failed send is ignored.
Create(l) ==
    LET s == h[l].sid IN
    /\ h[l].op = "create"
    /\ Free("capability_sessions")
    /\ sess' = [sess EXCEPT ![s] = [client |-> owner[l], node |-> h[l].node,
                                    status |-> "pending"]]
    /\ late' = IF Kept(owner[l]) /\ Kept(h[l].node) THEN late ELSE late \cup {s}
    /\ asked' = IF ice[h[l].via] = "connected"
                THEN asked \cup {<<h[l].node, s>>} ELSE asked
    /\ Finish(l)
    /\ UNCHANGED <<linkVars, registryVars, mon>>

Receive(l) ==
    \/ Login(l) \/ RecvRegister(l)
    \/ \E s \in Sids, st \in Reports : RecvStatus(l, s, st)
    \/ \E s \in Sids, n \in Nodes : RecvActivate(l, s, n)

HandlerTask(l) ==
    \/ Register(l) \/ Advertise(l) \/ Report(l) \/ Resolve(l) \/ Create(l)

-----------------------------------------------------------------------------
(* The liveness monitor: every 15 s, the nodes silent for 60 s *)

\* Time is not modelled: between any two steps a registered node may have been
\* silent for 60 s, whatever heartbeats refreshed last_seen before.  The lock is
\* released and what was collected is never looked at again.
MonitorCollect(timedOut) ==
    /\ mon.pc = "sleep"
    /\ Free("node_registry")
    /\ timedOut # {}
    /\ \A n \in timedOut : nodeReg[n] # NoLink
    /\ mon' = [Asleep EXCEPT !.pc = "sessions", !.todo = timedOut]
    /\ UNCHANGED <<linkVars, registryVars, sessionVars, h>>

MonitorSessions(n) ==
    /\ mon.pc = "sessions"
    /\ n \in mon.todo
    /\ Free("capability_sessions")
    /\ sess' = ClosedForNode(n)
    /\ mon' = [mon EXCEPT !.pc = "registry", !.todo = @ \ {n}, !.cur = n]
    /\ UNCHANGED <<linkVars, registryVars, asked, late, h>>

\* Mutant: the provider entries go and the registration stays.
MonitorRegistryKept ==
    /\ mon.pc = "registry"
    /\ Free("node_registry")
    /\ inventory' = inventory \ {mon.cur}
    /\ mon' = [mon EXCEPT !.pc = "peer"]
    /\ UNCHANGED <<linkVars, nodeReg, sessionVars, h>>

\* The provider leaves the inventory and then the node leaves the registry.  One
\* step: nothing reads the inventory, and every interleaving of a registration's
\* two sections with these two ends as one does with the two taken together.
MonitorRegistry ==
    /\ mon.pc = "registry"
    /\ Free("node_registry")
    /\ inventory' = inventory \ {mon.cur}
    /\ nodeReg' = [nodeReg EXCEPT ![mon.cur] = NoLink]
    /\ mon' = [mon EXCEPT !.pc = "peer"]
    /\ UNCHANGED <<linkVars, sessionVars, h>>

\* Whatever session the node has by now is removed and closed.
MonitorPeer ==
    /\ mon.pc = "peer"
    /\ Free("peer_map")
    /\ Drop({peerMap[mon.cur]})
    /\ peerMap' = [peerMap EXCEPT ![mon.cur] = NoLink]
    /\ mon' = IF mon.todo = {} THEN Asleep
              ELSE [mon EXCEPT !.pc = "sessions", !.cur = NoPeer]
    /\ UNCHANGED <<owner, pc, old, registryVars, sessionVars, h>>

MonitorTask ==
    \/ \E timedOut \in SUBSET Silent : MonitorCollect(timedOut)
    \/ \E n \in Nodes : MonitorSessions(n)
    \/ MonitorRegistry \/ MonitorPeer

Next ==
    \/ \E l \in Links, p \in Peers : Offer(l, p)
    \/ \E l \in Links :
          LinkTask(l) \/ Transport(l) \/ Receive(l) \/ HandlerTask(l)
    \/ MonitorTask

Spec == Init /\ [][Next]_vars

\* tokio's Mutex hands itself over in FIFO order, so that a task that waits for
\* a lock others keep taking gets it: strong fairness of each task's steps.
\* Nothing makes peers connect, speak or leave; a link that is down stays so.
Fairness ==
    /\ \A l \in Links : SF_vars(LinkTask(l)) /\ SF_vars(HandlerTask(l))
    /\ SF_vars(MonitorTask)

FairSpec == Spec /\ Fairness

-----------------------------------------------------------------------------
(* Properties *)

\* Every variable stays within its type, through every handler and teardown.
TypeOK ==
    /\ owner \in [Links -> Peers \cup {NoPeer}]
    /\ pc \in [Links -> PcStates]
    /\ old \in [Links -> Links \cup {NoLink}]
    /\ ice \in [Links -> {"new", "connected", "down"}]
    /\ wake \in [Links -> BOOLEAN]
    /\ auth \subseteq Links
    /\ peerMap \in [Peers -> Links \cup {NoLink}]
    /\ nodeReg \in [Nodes -> Links \cup {NoLink}]
    /\ inventory \subseteq Nodes
    /\ sess \in [Sids -> Session]
    /\ h \in [Links -> Handler]
    /\ asked \subseteq Nodes \X Sids
    /\ mon \in Monitor
    /\ late \subseteq Sids

Started(l) == pc[l] # "idle"

\* peer_map never lists a link whose task has left it, whichever of three Offers,
\* teardowns and the monitor touch it last: a message, a broadcast or a candidate
\* that finds a session finds one whose task will still take it out.
PeerMapLive ==
    \A p \in Peers : peerMap[p] # NoLink =>
        /\ owner[peerMap[p]] = p
        /\ pc[peerMap[p]] \in {"retire", "retireSessions", "closeOld", "answer",
                               "hook", "await", "abort", "up"}

\* No open transport is ever lost: a link that is not down is the one peer_map
\* lists for its peer, or a newer link's task is on its way to closing it.
NoOrphanLink ==
    \A l \in Links : Started(l) /\ ice[l] # "down" =>
        \/ peerMap[owner[l]] = l
        \/ \E k \in Links : /\ old[k] = l
                            /\ pc[k] \in {"retire", "retireSessions", "closeOld"}

\* A session that is pending or active, and was not (re)opened in a race with a
\* teardown, has on each side a link whose task will still close it: no way a
\* link ends (replaced, silent, failed, timed out) leaves a session behind.
OpenSessionsAreKept ==
    \A s \in Sids \ late : sess[s].status \in {"pending", "active"} =>
        Kept(sess[s].client) /\ Kept(sess[s].node)

\* Two tasks each wait for a lock the other holds.
WaitCycle ==
    \E k, l \in Links : /\ k # l
                        /\ WaitsAt(pc[k]) \cap HoldsAt(pc[l]) # {}
                        /\ WaitsAt(pc[l]) \cap HoldsAt(pc[k]) # {}

Blocked(l) == \E lock \in WaitsAt(pc[l]) : ~Free(lock)

\* Whenever a task waits for a lock that is taken, some lock is held by a task that
\* can go on, or two tasks wait for each other: the order in which teardowns and
\* retirements nest the three locks admits no self-deadlock and no longer circle.
OnlyPairsBlock ==
    (\E l \in Links : Blocked(l)) =>
        WaitCycle \/ \E k \in Links : HoldsAt(pc[k]) # {} /\ ~Blocked(k)

\* Unless two tasks wait for each other, the task of a link that went down runs to
\* its end: no wake-up is lost, at whatever point of the handshake it went down.
DeadLinkTornDown ==
    \A l \in Links :
        (Started(l) /\ ice[l] = "down") ~> (pc[l] = "done" \/ WaitCycle)

\* Unless two tasks wait for each other, node_registry does not name a link that
\* is down for ever, whichever handler or task put it there last.
StaleRegistrationReaped ==
    \A n \in Nodes, l \in Links :
        (nodeReg[n] = l /\ ice[l] = "down") ~> (nodeReg[n] # l \/ WaitCycle)

\* "Link drops immediately purge socket descriptors, background threads, and
\* memory-held signaling bindings" (docs/ARCHITECTURE.md): the task of a link that
\* went down always runs to its end.  It does not: a teardown that broadcasts with
\* node_registry locked and one that takes peer_map and then node_registry wait
\* for each other for ever, and the host with them.
LinkDropPurged ==
    \A l \in Links : (Started(l) /\ ice[l] = "down") ~> pc[l] = "done"

\* No task has a step to take before a peer or the clock does something.
AtRest ==
    /\ \A l \in Links : /\ pc[l] \in {"idle", "up", "done"}
                        /\ pc[l] = "up" => ~wake[l]
                        /\ h[l].op = "idle"
    /\ mon = Asleep

\* "Full cleanup after a node disconnects - sessions, inventory, and registry
\* entries for that node are all removed" (the node tests; README.md says the same
\* of sessions): at rest, a peer that has no link has no open session and, unless
\* the monitor will still reap it, no provider entry.  It has: what a handler in
\* flight stores after the cleanup stays.
GonePeerLeavesNothing ==
    AtRest => \A p \in Peers : peerMap[p] = NoLink =>
        /\ p \in inventory => nodeReg[p] # NoLink
        /\ \A s \in Sids : sess[s].status \in {"pending", "active"} =>
               p \notin {sess[s].client, sess[s].node}
=============================================================================
