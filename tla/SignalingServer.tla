--------------------------- MODULE SignalingServer ---------------------------
(***************************************************************************)
(* The Frankn signaling server: one task per WebSocket connection, the map *)
(* of registered peers, the presence subscriptions, and the relay of       *)
(* offers, answers and ICE candidates; with the sending end of a peer (the *)
(* host's SignalingClient) as the source of what a connection carries: a   *)
(* message is drawn when the task reads it, in the order it was queued.    *)
(*                                                                         *)
(* A connection's task handles one message at a time.  The two maps are    *)
(* behind read-write locks that a handler takes and gives back several     *)
(* times for one message, so a handler is as many steps as it has critical *)
(* sections; sends to unbounded channels made under a lock are part of the *)
(* step, those made after it are steps of their own.  What was last sent   *)
(* to a connection is what its peer will last read: channels keep order.   *)
(*                                                                         *)
(* Left out: keys and signatures (every message is signed by its sender),  *)
(* the 60 s clock window, Ping, Pong, ListHosts, CheckHostsStatus and error *)
(* replies, which change no state.                                         *)
(***************************************************************************)
EXTENDS Naturals, FiniteSets

CONSTANTS
    Hosts, Clients,
    Conns,          \* WebSocket connections
    OwnerOf,        \* connection -> the peer that registers on it
    Public,         \* the hosts that register with is_public
    MaxPending,     \* clients that may wait for a private host (128)
    NoConn, NoMsg,
    \* Bounds of the instances that are checked:
    MaxSent,        \* connection -> messages the server reads on it
    Kinds,          \* the kinds of messages peers send
    Acls,           \* the lists a host publishes
    MayLeave,       \* connections that may be closed
    MayVanish       \* connections whose peer may go away without closing

Peers == Hosts \cup Clients

ASSUME SignalingAssumption ==
    /\ Hosts \cap Clients = {}
    /\ OwnerOf \in [Conns -> Peers]
    /\ Public \subseteq Hosts
    /\ MaxPending \in Nat
    /\ NoConn \notin Conns
    /\ MaxSent \in [Conns -> Nat]
    /\ Kinds \subseteq {"offer", "answer", "ice", "subscribe", "acl"}
    /\ Acls \subseteq SUBSET Clients
    /\ MayLeave \subseteq Conns /\ MayVanish \subseteq Conns

VARIABLES
    pc,         \* connection -> where its task is
    entry,      \* peers: peer id -> PeerConnection
    subs,       \* subscriptions: host -> clients
    sent,       \* connection -> how many messages of its peer were read
    silent,     \* connections whose peer went away without closing
    job,        \* connection -> what its handler remembers between steps
    told,       \* connection -> host -> the presence last sent on it
    asked,      \* history: connection -> hosts it subscribed to
    offered,    \* history: host connection -> clients whose Offer it got
    lapsed,     \* history: host connection -> windows closed, access revoked
    refused,    \* history: connections with a message refused as a replay
    crossed     \* history: peers two of whose operations overlapped

vars == <<pc, entry, subs, sent, silent, job, told, asked, offered,
          lapsed, refused, crossed>>

peerVars    == <<sent, silent>>
historyVars == <<asked, offered, lapsed, refused>>

-----------------------------------------------------------------------------
(* Types *)

PcStates == {"new", "registering", "announce", "up", "verify", "pend",
             "relay", "acl", "fan", "remove", "offline",
             "sendOffline", "unsubscribe", "closed"}

PeerEntry == [conn : Conns \cup {NoConn},    \* sender
              acl : SUBSET Clients,          \* allowed_peers
              pending : SUBSET Clients,      \* pending_peers < 120 s
              expired : SUBSET Clients,      \* pending_peers >= 120 s
              last : Nat]                    \* last_sequence
NoEntry   == [conn |-> NoConn, acl |-> {}, pending |-> {}, expired |-> {},
              last |-> 0]

\* Messages a peer sends.  Only the data plane carries a sequence number.
Data    == [kind : {"offer", "answer", "ice"}, to : Peers, seq : Nat]
Control == [kind : {"subscribe"}, to : Hosts]
           \cup [kind : {"acl"}, acl : SUBSET Clients]
Message == Data \cup Control

\* What a handler keeps: the message, a copied subscriber list, the channels
\* it is going to send a presence to, and the entry it checked an Offer with.
Job == [msg : Message \cup {NoMsg}, list : SUBSET Clients,
        todo : SUBSET (Conns \X BOOLEAN), target : Conns \cup {NoConn}]
NoJob == [msg |-> NoMsg, list |-> {}, todo |-> {}, target |-> NoConn]

TypeOK ==
    /\ pc \in [Conns -> PcStates]
    /\ entry \in [Peers -> PeerEntry]
    /\ subs \in [Hosts -> SUBSET Clients]
    /\ sent \in [Conns -> Nat]
    /\ silent \subseteq Conns
    /\ job \in [Conns -> Job]
    /\ told \in [Conns -> [Hosts -> {"unknown", "online", "offline"}]]
    /\ asked \in [Conns -> SUBSET Hosts]
    /\ offered \in [Conns -> SUBSET Clients]
    /\ lapsed \in [Conns -> SUBSET Clients]
    /\ refused \subseteq Conns
    /\ crossed \subseteq Peers

-----------------------------------------------------------------------------
(* Helpers *)

Listed(p) == entry[p].conn # NoConn
Goto(c, at) == pc' = [pc EXCEPT ![c] = at]
\* The task returns: its channel and what was recorded of it are gone.
Closed(c, sends) ==
    /\ Goto(c, "closed")
    /\ job' = [job EXCEPT ![c] = NoJob]
    /\ told' = [sends EXCEPT ![c] = [h \in Hosts |-> "unknown"]]
    /\ asked' = [asked EXCEPT ![c] = {}]
    /\ offered' = [offered EXCEPT ![c] = {}]
    /\ lapsed' = [lapsed EXCEPT ![c] = {}]
\* The receiving half of the connection's channel is still there.
Alive(c)   == pc[c] # "closed"

\* host_presence_for_client over a map of peers.
PresenceIn(map, h, x) ==
    map[h].conn # NoConn /\ (h \in Public \/ x \in map[h].acl)
\* Mutant: a host that is not available is reported with a third word.
WordPending(online) == IF online THEN "online" ELSE "pending"
Word(online) == IF online THEN "online" ELSE "offline"

\* The channels and presences of the listed clients in a copied list.
Updates(map, h, list) ==
    {<<map[x].conn, PresenceIn(map, h, x)>> :
        x \in {y \in list : map[y].conn # NoConn}}

\* The ACL rule at the end of verify_data_plane_message.
Admitted(from, m) ==
    IF m.to \in Hosts
    THEN \/ m.to \in Public
         \/ from \in entry[m.to].acl
         \/ m.kind = "offer" /\ from \in Clients /\ Listed(from)
         \/ m.kind = "ice" /\ from \in entry[m.to].pending
    ELSE /\ from \in Hosts /\ Listed(from)
         /\ \/ from \in Public
            \/ m.to \in entry[from].acl
            \/ m.kind \in {"answer", "ice"} /\ m.to \in entry[from].pending

Init ==
    /\ pc = [c \in Conns |-> "new"]
    /\ entry = [p \in Peers |-> NoEntry]
    /\ subs = [h \in Hosts |-> {}]
    /\ sent = [c \in Conns |-> 0]
    /\ silent = {}
    /\ job = [c \in Conns |-> NoJob]
    /\ told = [c \in Conns |-> [h \in Hosts |-> "unknown"]]
    /\ asked = [c \in Conns |-> {}]
    /\ offered = [c \in Conns |-> {}]
    /\ lapsed = [c \in Conns |-> {}]
    /\ refused = {}
    /\ crossed = {}

-----------------------------------------------------------------------------
(* The peer's end of a connection *)

\* Mutant: without the lock two senders may queue in the other order.
SeqAtUnlocked(n) == IF n = 1 THEN 2 ELSE IF n = 2 THEN 1 ELSE n
\* The n-th message read carries the n-th number: the outbox lock covers taking
\* the number and queueing the message, and a WebSocket keeps order.  Messages
\* of other kinds, and signals that go to a node, only leave gaps.
SeqAt(n) == n

\* What the peer of a connection may have sent next.
Sent(c) ==
    LET p == OwnerOf[c]
        data == [kind : IF p \in Hosts THEN {"answer", "ice"} ELSE {"offer", "ice"},
                 to : IF p \in Hosts THEN Clients ELSE Hosts,
                 seq : {SeqAt(sent[c] + 1)}]
        control == IF p \in Hosts THEN [kind : {"acl"}, acl : Acls]
                   ELSE [kind : {"subscribe"}, to : Hosts]
    IN  {m \in data \cup control : m.kind \in Kinds}

\* The network is gone: nothing arrives any more, and no close does.
GoSilent(c) ==
    /\ c \in MayVanish /\ pc[c] \notin {"new", "registering", "announce", "closed"}
    /\ silent' = silent \cup {c}
    /\ UNCHANGED <<pc, entry, subs, sent, job, told, historyVars>>

-----------------------------------------------------------------------------
(* handle_peer_connection: handshake and end.  A handshake that gives up (30 s, *)
(* three bad attempts, another version) is a connection that stays "new".     *)

\* The sends a task still has to make; without any it takes the next message.
FanOut(c, at, todo) ==
    /\ job' = [job EXCEPT ![c] = [NoJob EXCEPT !.todo = todo]]
    /\ Goto(c, IF todo = {} THEN "up" ELSE at)

\* existing_subscribers is copied before the peer map is locked.
Register(c) ==
    /\ pc[c] = "new" /\ OwnerOf[c] \in Hosts
    /\ job' = [job EXCEPT ![c].list = subs[OwnerOf[c]]]
    /\ Goto(c, "registering")
    /\ UNCHANGED <<entry, subs, peerVars, told, historyVars>>

\* Mutant: a host that comes back is not announced to its subscribers.
EnterQuietly(c) ==
    /\ pc[c] = IF OwnerOf[c] \in Hosts THEN "registering" ELSE "new"
    /\ entry' = [entry EXCEPT ![OwnerOf[c]] = [NoEntry EXCEPT !.conn = c]]
    /\ FanOut(c, "announce", {})
    /\ UNCHANGED <<subs, peerVars, told, historyVars>>
\* The entry of an older connection is replaced under the write lock.  A
\* client's registration is announced to nobody.
Enter(c) ==
    /\ pc[c] = IF OwnerOf[c] \in Hosts THEN "registering" ELSE "new"
    /\ entry' = [entry EXCEPT ![OwnerOf[c]] = [NoEntry EXCEPT !.conn = c]]
    /\ FanOut(c, "announce", Updates(entry', OwnerOf[c], job[c].list))
    /\ UNCHANGED <<subs, peerVars, told, historyVars>>

\* One send of a fan-out; a dead channel ends an ACL fan-out ("?") and is
\* ignored in a registration's ("let _").
Tell(c, k, online) ==
    /\ pc[c] \in {"announce", "fan"}
    /\ <<k, online>> \in job[c].todo
    /\ told' = IF Alive(k) THEN [told EXCEPT ![k][OwnerOf[c]] = Word(online)]
                           ELSE told
    /\ FanOut(c, pc[c], IF Alive(k) \/ pc[c] = "announce"
                        THEN job[c].todo \ {<<k, online>>} ELSE {})
    /\ UNCHANGED <<entry, subs, peerVars, historyVars>>

\* Mutant: only a host's entry is worth removing.
CheckHostsOnly(c) ==
    /\ pc[c] = "up"
    /\ IF entry[OwnerOf[c]].conn = c /\ OwnerOf[c] \in Hosts
       THEN Goto(c, "remove") /\ UNCHANGED <<job, told, asked, offered, lapsed>>
       ELSE Closed(c, told)
    /\ UNCHANGED <<entry, subs, peerVars, refused>>
\* The main loop ends; should_remove (same_channel) is decided under the read
\* lock...
Check(c) ==
    /\ pc[c] = "up"
    /\ IF entry[OwnerOf[c]].conn = c
       THEN Goto(c, "remove") /\ UNCHANGED <<job, told, asked, offered, lapsed>>
       ELSE Closed(c, told)
    /\ UNCHANGED <<entry, subs, peerVars, refused>>

\* ... at a close or an error, or after 15 s without a message ...
Leave(c) == c \in MayLeave \ silent /\ Check(c)
TimeOut(c) == c \in silent /\ Check(c)

\* ... and carried out, by peer id, under the write lock taken after it.
Remove(c) ==
    /\ pc[c] = "remove"
    /\ entry' = [entry EXCEPT ![OwnerOf[c]] = NoEntry]
    /\ Goto(c, IF OwnerOf[c] \in Hosts THEN "offline" ELSE "unsubscribe")
    /\ UNCHANGED <<subs, peerVars, job, told, historyVars>>

\* A host's subscribers are copied, then told under the read lock of peers.
CopySubscribers(c) ==
    /\ pc[c] = "offline"
    /\ job' = [job EXCEPT ![c].list = subs[OwnerOf[c]]]
    /\ Goto(c, "sendOffline")
    /\ UNCHANGED <<entry, subs, peerVars, told, historyVars>>
SendOffline(c) ==
    /\ pc[c] = "sendOffline"
    /\ LET reached == {entry[x].conn : x \in job[c].list}
       IN  Closed(c, [k \in Conns |-> IF k \in reached
                       THEN [told[k] EXCEPT ![OwnerOf[c]] = "offline"]
                       ELSE told[k]])
    /\ UNCHANGED <<entry, subs, peerVars, refused>>

\* A client's subscriptions go, by client id.
Unsubscribe(c) ==
    /\ pc[c] = "unsubscribe"
    /\ subs' = [h \in Hosts |-> subs[h] \ {OwnerOf[c]}]
    /\ Closed(c, told)
    /\ UNCHANGED <<entry, peerVars, refused>>

-----------------------------------------------------------------------------
(* handle_signaling_message *)

\* The task reads m, the next message of its peer.
Read(c, m) ==
    /\ pc[c] = "up" /\ c \notin silent
    /\ sent[c] < MaxSent[c]
    /\ sent' = [sent EXCEPT ![c] = @ + 1]
    /\ m \in Sent(c)

\* SubscribeHosts: both locks are held together, and over the reply.
Subscribe(c, m) ==
    /\ Read(c, m) /\ m.kind = "subscribe"
    /\ LET h == m.to  x == OwnerOf[c] IN
         /\ subs' = [subs EXCEPT ![h] = @ \cup {x}]
         /\ told' = [told EXCEPT ![c][h] = Word(PresenceIn(entry, h, x))]
         /\ asked' = [asked EXCEPT ![c] = @ \cup {h}]
    /\ UNCHANGED <<pc, entry, silent, job, offered, lapsed, refused>>

\* UpdateHostAcl: refused if the host is not in the map; otherwise its
\* subscribers are copied, and the list is changed in a later section.
UpdateAcl(c, m) ==
    /\ Read(c, m) /\ m.kind = "acl"
    /\ IF Listed(OwnerOf[c])
       THEN /\ job' = [job EXCEPT ![c].msg = m,
                                  ![c].list = subs[OwnerOf[c]]]
            /\ Goto(c, "acl")
       ELSE UNCHANGED <<pc, job>>
    /\ UNCHANGED <<entry, subs, silent, told, historyVars>>

\* Mutant: the update closes every window.
KeptPendingNone(old, acl) == {}
\* What an ACL update leaves of the pairing windows.
KeptPending(old, acl) == old \ acl

SetAcl(c) ==
    /\ pc[c] = "acl"
    /\ LET h == OwnerOf[c]  acl == job[c].msg.acl  e == entry[h] IN
         /\ entry' = IF ~Listed(h) THEN entry ELSE
                [entry EXCEPT ![h].acl = acl,
                              ![h].pending = KeptPending(@, acl),
                              ![h].expired = KeptPending(@, acl)]
         /\ FanOut(c, "fan", Updates(entry', h, job[c].list))
         /\ lapsed' = IF ~Listed(h) THEN lapsed
                      ELSE [lapsed EXCEPT ![e.conn] = @ \cup (e.acl \ acl)]
    /\ UNCHANGED <<subs, peerVars, told, asked, offered, refused>>

\* Offer, Answer, IceCandidate: the sender must be listed with this session.
Verify(c, m) ==
    /\ Read(c, m) /\ m.kind \in {"offer", "answer", "ice"}
    /\ IF entry[OwnerOf[c]].conn = c
       THEN /\ job' = [job EXCEPT ![c].msg = m]
            /\ Goto(c, "verify")
       ELSE UNCHANGED <<pc, job>>
    /\ UNCHANGED <<entry, subs, silent, told, historyVars>>

Ready(c) == Goto(c, "up") /\ job' = [job EXCEPT ![c] = NoJob]

\* After the signature: the sequence is compared with, and stored on, the entry
\* the sender has now; then the target and the access list are checked.  The
\* relay of an answer or a candidate changes nothing that is modelled.
Authorize(c) ==
    /\ pc[c] = "verify"
    /\ LET from == OwnerOf[c]  m == job[c].msg  e == entry[from] IN
         IF Listed(from) /\ m.seq <= e.last
         THEN /\ refused' = refused \cup {c}
              /\ Ready(c)
              /\ UNCHANGED entry
         ELSE /\ entry' = IF Listed(from)
                          THEN [entry EXCEPT ![from].last = m.seq] ELSE entry
              /\ IF Listed(m.to) /\ Admitted(from, m)
                 THEN IF m.kind = "offer" THEN Goto(c, "pend") /\ UNCHANGED job
                                          ELSE Ready(c)
                 ELSE Ready(c)
              /\ UNCHANGED refused
    /\ UNCHANGED <<subs, peerVars, told, asked, offered, lapsed>>

\* Mutant: the limit is compared before the expired windows are dropped.
PendUnbounded(c) ==
    /\ pc[c] = "pend"
    /\ LET x == OwnerOf[c]  h == job[c].msg.to  e == entry[h]
           needed == h \in Hosts \ Public /\ x \notin e.acl
       IN  IF ~Listed(h) \/ (needed /\ Cardinality(e.pending) > MaxPending)
           THEN Ready(c) /\ UNCHANGED entry
           ELSE /\ entry' = IF needed
                            THEN [entry EXCEPT ![h].expired = {},
                                               ![h].pending = @ \cup {x}]
                            ELSE entry
                /\ job' = [job EXCEPT ![c].target = e.conn]
                /\ Goto(c, "relay")
    /\ UNCHANGED <<subs, peerVars, told, historyVars>>
\* The first signed offer opens a pairing window of the private host.
Pend(c) ==
    /\ pc[c] = "pend"
    /\ LET x == OwnerOf[c]  h == job[c].msg.to  e == entry[h]
           needed == h \in Hosts \ Public /\ x \notin e.acl
           full == x \notin e.pending /\ Cardinality(e.pending) >= MaxPending
       IN  IF ~Listed(h) \/ (needed /\ full)
           THEN /\ Ready(c)
                /\ entry' = IF Listed(h)
                            THEN [entry EXCEPT ![h].expired = {}] ELSE entry
           ELSE /\ entry' = IF needed
                            THEN [entry EXCEPT ![h].expired = {},
                                               ![h].pending = @ \cup {x}]
                            ELSE entry
                /\ job' = [job EXCEPT ![c].target = e.conn]
                /\ Goto(c, "relay")
    /\ UNCHANGED <<subs, peerVars, told, historyVars>>

\* The message goes to whatever connection the target has now.
Relay(c) ==
    /\ pc[c] = "relay"
    /\ LET m == job[c].msg  k == entry[m.to].conn IN
         offered' = IF m.kind = "offer" /\ k # NoConn /\ k = job[c].target
                    THEN [offered EXCEPT ![k] = @ \cup {OwnerOf[c]}]
                    ELSE offered
    /\ Ready(c)
    /\ UNCHANGED <<entry, subs, peerVars, told, asked, lapsed, refused>>

\* 120 s after its first offer a window is over.
Expire(h, x) ==
    /\ x \in entry[h].pending
    /\ entry' = [entry EXCEPT ![h].pending = @ \ {x},
                              ![h].expired = @ \cup {x}]
    /\ lapsed' = [lapsed EXCEPT ![entry[h].conn] = @ \cup {x}]
    /\ UNCHANGED <<pc, subs, peerVars, job, told, asked, offered, refused>>

-----------------------------------------------------------------------------
(* History: whose operations overlapped *)

\* The tasks of a peer that are between two critical sections.
Busy(p) == {c \in Conns : OwnerOf[c] = p /\
              pc[c] \in {"registering", "announce", "verify", "acl", "fan",
                         "remove", "offline", "sendOffline", "unsubscribe"}}
\* A task of the peer works for an entry that is no longer the peer's.
Outlived(p) == \E c \in Busy(p) : /\ pc[c] # "registering"
                                  /\ entry[p].conn \notin {c, NoConn}

Overlap ==
    crossed' = crossed
        \cup {p \in Peers : Cardinality(Busy(p)') > 1 \/ Outlived(p)'}
        \cup {h \in Hosts : Busy(h) # {} /\
                 (subs' # subs \/ \E x \in Clients : entry'[x].conn # entry[x].conn)}

ConnTask(c) ==
    \/ Register(c) \/ Enter(c)
    \/ \E k \in Conns, online \in BOOLEAN : Tell(c, k, online)
    \/ TimeOut(c) \/ Remove(c)
    \/ CopySubscribers(c) \/ SendOffline(c) \/ Unsubscribe(c)
    \/ SetAcl(c) \/ Authorize(c) \/ Pend(c) \/ Relay(c)

Receive(c) == \E m \in Sent(c) :
    Subscribe(c, m) \/ UpdateAcl(c, m) \/ Verify(c, m)

Step ==
    \/ \E c \in Conns : ConnTask(c) \/ Receive(c)
    \/ \E c \in Conns : Leave(c) \/ GoSilent(c)
    \/ \E h \in Hosts, x \in Clients : Expire(h, x)

Next == Step /\ Overlap

Spec == Init /\ [][Next]_vars

-----------------------------------------------------------------------------
(* Properties *)

\* The map lists a peer's own connection, whose task has not yet passed the
\* point where it takes the entry out: whatever way connections replace each
\* other and end, no entry is left that nobody will remove.
NoGhostEntry ==
    \A p \in Peers : Listed(p) =>
        LET c == entry[p].conn IN
        /\ OwnerOf[c] = p
        /\ pc[c] \notin {"new", "registering", "offline", "sendOffline",
                         "unsubscribe", "closed"}

\* What a client was last told of a host it subscribed to is what the host's
\* entry and access list say, as soon as the host's tasks are at rest, unless
\* two operations of the host or of the client overlapped.
Settled(p) == p \notin crossed /\ Busy(p) = {}
PresenceExact ==
    \A x \in Clients, h \in Hosts :
        (Settled(x) /\ Settled(h) /\ Listed(x) /\ h \in asked[entry[x].conn])
            => told[entry[x].conn][h] = Word(PresenceIn(entry, h, x))

\* A host can answer an Offer it was given: the client is in its access list
\* or its pairing window, and both may send candidates, until the window is
\* over, the access is revoked or the host registers again.
OfferAnswerable ==
    \A h \in Hosts \ Public : Listed(h) =>
        LET k == entry[h].conn IN
        \A x \in offered[k] \ lapsed[k] :
            /\ Admitted(h, [kind |-> "answer", to |-> x])
            /\ Admitted(h, [kind |-> "ice", to |-> x])
            /\ Admitted(x, [kind |-> "ice", to |-> h])

\* At most MaxPending clients wait for a host, expired windows included in
\* the map or not, with any number of offers handled at once.
PendingBounded ==
    \A h \in Hosts : Cardinality(entry[h].pending) <= MaxPending

\* Sequence numbers refuse replays only: the messages of a connection, queued
\* under the outbox lock, are never taken for one, unless a task of the peer's
\* previous connection outlived the registration.
FreshAccepted == \A c \in refused : OwnerOf[c] \in crossed

\* The log of main.rs:974: a connection that ends removes its own entry only.
SuccessorSurvives ==
    [][\A p \in Peers, c \in Conns :
          (entry[p].conn = c /\ entry'[p].conn = NoConn) => pc'[c] # pc[c]]_vars

=============================================================================
